----------------------------- MODULE RewardLimiter -----------------------------
(***************************************************************************)
(* RateLimitedRewardManager.run_single in the event loops of the reward    *)
(* loop workers: decode in the loop's executor, pass the token buckets,    *)
(* take a permit of the semaphore, compute the score within a timeout,     *)
(* release.  A reward function that is not a coroutine runs in the same    *)
(* executor, and a thread once started cannot be cancelled.  The buckets   *)
(* let every request through in the end (TokenBucket).  Limiters are class *)
(* attributes, so each worker, an actor with a process of its own, has its *)
(* own.                                                                    *)
(***************************************************************************)
EXTENDS Integers, Sequences, FiniteSets, SequencesExt

CONSTANTS Requests,       \* calls of run_single: the items of a batch, by index
          NumWorkers,     \* reward.num_workers
          Home,           \* the worker each is sent to
          MaxConcurrent,  \* max_concurrent: permits of the semaphore
          Threads,        \* threads of a loop's default executor
          MaxHangs        \* bound on reward functions that never return

ASSUME LimiterAssumption ==
    /\ Requests \subseteq Nat \ {0} /\ IsFiniteSet(Requests)
    /\ NumWorkers \in Nat \ {0} /\ Home \in [Requests -> 1..NumWorkers]
    /\ MaxConcurrent \in Nat \ {0} /\ Threads \in Nat \ {0} /\ MaxHangs \in Nat

VARIABLES isAsync,   \* is_async_reward_score: the function is a coroutine
          req,       \* per request: where run_single is
          outcome,   \* what it will return
          permits,   \* per worker: the semaphore's value
          sleepers,  \* ... and the requests waiting for a permit, in order
          jobs,      \* ... and the executor's queue
          busy,      \* the jobs the threads run
          hung       \* those of them that never end

limiterVars == <<isAsync, req, outcome, permits, sleepers, jobs, busy, hung>>

Decode(r) == [kind |-> "decode", of |-> r]
Score(r) == [kind |-> "score", of |-> r]

Workers == 1..NumWorkers

LimiterInit ==
    /\ isAsync \in BOOLEAN
    /\ req = [r \in Requests |-> "none"]
    /\ outcome = [r \in Requests |-> "none"]
    /\ permits = [w \in Workers |-> MaxConcurrent]
    /\ sleepers = [w \in Workers |-> <<>>]
    /\ jobs = [w \in Workers |-> <<>>]
    /\ busy = {}
    /\ hung = {}

Arrive(r) ==
    /\ req[r] = "none"
    /\ req' = [req EXCEPT ![r] = "decoding"]
    /\ jobs' = [jobs EXCEPT ![Home[r]] = Append(@, Decode(r))]
    /\ UNCHANGED <<isAsync, outcome, permits, sleepers, busy, hung>>

BusyAt(w) == {j \in busy : Home[j.of] = w}

(* A free thread takes the next job; a reward function may hang.           *)
StartJob(w) ==
    /\ jobs[w] # <<>>
    /\ Cardinality(BusyAt(w)) < Threads
    /\ busy' = busy \cup {Head(jobs[w])}
    /\ jobs' = [jobs EXCEPT ![w] = Tail(@)]
    /\ \/ UNCHANGED hung
       \/ /\ Head(jobs[w]).kind = "score"
          /\ Cardinality(hung) < MaxHangs
          /\ hung' = hung \cup {Head(jobs[w])}
    /\ UNCHANGED <<isAsync, req, outcome, permits, sleepers>>

Decoded(r) ==
    /\ Decode(r) \in busy
    /\ busy' = busy \ {Decode(r)}
    /\ req' = [req EXCEPT ![r] = "limited"]
    /\ UNCHANGED <<isAsync, outcome, permits, sleepers, jobs, hung>>

(* An exception of the decoding is caught nowhere in run_single.           *)
DecodeRaises(r) ==
    /\ Decode(r) \in busy
    /\ busy' = busy \ {Decode(r)}
    /\ req' = [req EXCEPT ![r] = "done"]
    /\ outcome' = [outcome EXCEPT ![r] = "raised"]
    /\ UNCHANGED <<isAsync, permits, sleepers, jobs, hung>>

(* Mutant of Admits: the comparison is off by one.                          *)
AdmitsOneMore(w) == permits[w] >= 0 /\ sleepers[w] = <<>>

Admits(w) == permits[w] > 0 /\ sleepers[w] = <<>>

(* Both buckets have let r through: a permit, or a place in the queue.     *)
EnterSemaphore(r) ==
    /\ req[r] = "limited"
    /\ IF Admits(Home[r])
         THEN /\ permits' = [permits EXCEPT ![Home[r]] = @ - 1]
              /\ req' = [req EXCEPT ![r] = "admitted"]
              /\ UNCHANGED sleepers
         ELSE /\ sleepers' = [sleepers EXCEPT ![Home[r]] = Append(@, r)]
              /\ req' = [req EXCEPT ![r] = "waiting"]
              /\ UNCHANGED permits
    /\ UNCHANGED <<isAsync, outcome, jobs, busy, hung>>

(* _compute_reward under wait_for.                                         *)
Compute(r) ==
    /\ req[r] = "admitted"
    /\ req' = [req EXCEPT ![r] = "computing"]
    /\ jobs' = IF isAsync THEN jobs ELSE [jobs EXCEPT ![Home[r]] = Append(@, Score(r))]
    /\ UNCHANGED <<isAsync, outcome, permits, sleepers, busy, hung>>

(* Mutant of Leave: the permit is not given back.                           *)
LeaveKeepingPermit(r, result) ==
    /\ outcome' = [outcome EXCEPT ![r] = result]
    /\ req' = [req EXCEPT ![r] = "done"]
    /\ UNCHANGED <<permits, sleepers>>

(* Leaving the semaphore hands the permit to whoever has waited longest.   *)
Leave(r, result) ==
    /\ outcome' = [outcome EXCEPT ![r] = result]
    /\ IF sleepers[Home[r]] = <<>>
         THEN /\ permits' = [permits EXCEPT ![Home[r]] = @ + 1]
              /\ req' = [req EXCEPT ![r] = "done"]
              /\ UNCHANGED sleepers
         ELSE /\ req' = [req EXCEPT ![r] = "done", ![Head(sleepers[Home[r]])] = "admitted"]
              /\ sleepers' = [sleepers EXCEPT ![Home[r]] = Tail(@)]
              /\ UNCHANGED permits

Results == {"score", "error"}

(* A coroutine returns or raises.                                          *)
CoroutineEnds(r) ==
    /\ isAsync /\ req[r] = "computing"
    /\ \E result \in Results : Leave(r, result)
    /\ UNCHANGED <<isAsync, jobs, busy, hung>>

(* Mutant of Awaited: the result of a thread is taken whenever it comes.    *)
AwaitedAlways(r) == TRUE

Awaited(r) == req[r] = "computing"

(* A thread does; nobody is told if the request has timed out.             *)
ThreadEnds(r) ==
    /\ Score(r) \in busy \ hung
    /\ busy' = busy \ {Score(r)}
    /\ IF Awaited(r)
         THEN \E result \in Results : Leave(r, result)
         ELSE UNCHANGED <<req, outcome, permits, sleepers>>
    /\ UNCHANGED <<isAsync, jobs, hung>>

(* wait_for cancels a coroutine, and a job no thread has taken yet.        *)
TimesOut(r) ==
    /\ req[r] = "computing"
    /\ Leave(r, "timeout")
    /\ LET queued == {i \in DOMAIN jobs[Home[r]] : jobs[Home[r]][i] = Score(r)}
       IN \/ queued = {} /\ UNCHANGED jobs
          \/ \E i \in queued : jobs' = [jobs EXCEPT ![Home[r]] = RemoveAt(@, i)]
    /\ UNCHANGED <<isAsync, busy, hung>>

(* Every thread runs a reward function that never returns, and the request *)
(* has not been decoded.                                                   *)
Stuck(r) ==
    /\ req[r] = "decoding"
    /\ Cardinality({j \in hung : Home[j.of] = Home[r]}) >= Threads

Run(r) ==
    \/ Decoded(r) \/ DecodeRaises(r) \/ EnterSemaphore(r) \/ Compute(r)
    \/ CoroutineEnds(r) \/ ThreadEnds(r) \/ TimesOut(r)

LimiterNext ==
    \/ \E r \in Requests : Arrive(r) \/ Run(r)
    \/ \E w \in Workers : StartJob(w)

(* The loops run their tasks and timers; threads take jobs and end them    *)
(* unless they hang.                                                       *)
LimiterFairness ==
    /\ \A w \in Workers : WF_limiterVars(StartJob(w))
    /\ \A r \in Requests : WF_limiterVars(Arrive(r)) /\ WF_limiterVars(Run(r))
===============================================================================
