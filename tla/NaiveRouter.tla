------------------------------ MODULE NaiveRouter ------------------------------
(***************************************************************************)
(* The router in front of the reward model servers: a request is given the *)
(* worker with the lowest count and stays with it through every attempt.   *)
(* An attempt needs a connection of the session, of which there are finitely*)
(* many, and nothing ends one that the worker never answers.               *)
(***************************************************************************)
EXTENDS Integers, FiniteSets

CONSTANTS Requests,          \* requests to the router
          NumWorkers,        \* len(worker_urls)
          MaxAttempts,       \* max_attempts
          ConnectionLimits   \* values of max_connections

ASSUME RouterAssumption ==
    /\ IsFiniteSet(Requests)
    /\ NumWorkers \in Nat \ {0}
    /\ MaxAttempts \in Nat \ {0}
    /\ ConnectionLimits \subseteq Nat \ {0}

VARIABLES maxConnections,  \* max_connections, which never changes
          counts,          \* request_counts
          state,           \* per request: where its handler is
          worker,          \* worker_url
          attempt          \* the attempts begun

routerVars == <<maxConnections, counts, state, worker, attempt>>

Workers == 1..NumWorkers

NoWorker == 0

RouterInit ==
    /\ maxConnections \in ConnectionLimits
    /\ counts = [w \in Workers |-> 0]
    /\ state = [r \in Requests |-> "none"]
    /\ worker = [r \in Requests |-> NoWorker]
    /\ attempt = [r \in Requests |-> 0]

(* min() over the dictionary: the first of the lowest counts.              *)
Chosen ==
    CHOOSE w \in Workers :
        \A v \in Workers : counts[w] < counts[v] \/ (counts[w] = counts[v] /\ w <= v)

(* The worker is selected before the request's body is read.               *)
Select(r) ==
    /\ state[r] = "none"
    /\ worker' = [worker EXCEPT ![r] = Chosen]
    /\ counts' = [counts EXCEPT ![Chosen] = @ + 1]
    /\ state' = [state EXCEPT ![r] = "reading"]
    /\ UNCHANGED <<maxConnections, attempt>>

BodyRead(r) ==
    /\ state[r] = "reading"
    /\ state' = [state EXCEPT ![r] = "connecting"]
    /\ attempt' = [attempt EXCEPT ![r] = 1]
    /\ UNCHANGED <<maxConnections, counts, worker>>

(* The client is gone: reading the body raises.                            *)
BodyLost(r) ==
    /\ state[r] = "reading"
    /\ state' = [state EXCEPT ![r] = "failed"]
    /\ UNCHANGED <<maxConnections, counts, worker, attempt>>

(* The session's connector: so many connections, a quarter of them to one  *)
(* worker; a limit per host of 0 is none.                                  *)
LimitPerHost == maxConnections \div 4

LeavesConnection(holders, w) ==
    /\ Cardinality(holders) < maxConnections
    /\ LimitPerHost > 0 => Cardinality({r \in holders : worker[r] = w}) < LimitPerHost

Hanging == {r \in Requests : state[r] = "hanging"}

Connected == {r \in Requests : state[r] = "sent"} \cup Hanging

(* An attempt waits for a connection, without a limit of time.             *)
Connect(r) ==
    /\ state[r] = "connecting"
    /\ LeavesConnection(Connected, worker[r])
    /\ state' = [state EXCEPT ![r] = "sent"]
    /\ UNCHANGED <<maxConnections, counts, worker, attempt>>

(* Mutant of ReleaseWorker: a worker is not told apart from the next one.   *)
ReleaseFirst(w) == [counts EXCEPT ![1] = IF @ > 0 THEN @ - 1 ELSE 0]

ReleaseWorker(w) == [counts EXCEPT ![w] = IF @ > 0 THEN @ - 1 ELSE 0]

Answered(r) ==
    /\ state[r] = "sent"
    /\ state' = [state EXCEPT ![r] = "answered"]
    /\ counts' = ReleaseWorker(worker[r])
    /\ UNCHANGED <<maxConnections, worker, attempt>>

(* An HTTP error status is raised at once.                                 *)
HttpError(r) ==
    /\ state[r] = "sent"
    /\ state' = [state EXCEPT ![r] = "failed"]
    /\ UNCHANGED <<maxConnections, counts, worker, attempt>>

(* The session has no timeout (total=None): an attempt the worker never     *)
(* answers is never given up, and keeps its connection.                    *)
Hang(r) ==
    /\ state[r] = "sent"
    /\ state' = [state EXCEPT ![r] = "hanging"]
    /\ UNCHANGED <<maxConnections, counts, worker, attempt>>

LastAttempt(r) == attempt[r] = MaxAttempts

(* A refused or a broken connection, or any other error, is followed by a  *)
(* delay and another attempt, or by an error after the last one.           *)
OtherError(r) ==
    /\ state[r] = "sent"
    /\ state' = [state EXCEPT ![r] = IF LastAttempt(r) THEN "failed" ELSE "delayed"]
    /\ UNCHANGED <<maxConnections, counts, worker, attempt>>

(* Mutant of Retry: the attempt is not counted.                             *)
RetryUncounted(r) ==
    /\ state[r] = "delayed"
    /\ state' = [state EXCEPT ![r] = "connecting"]
    /\ UNCHANGED <<maxConnections, counts, worker, attempt>>

Retry(r) ==
    /\ state[r] = "delayed"
    /\ state' = [state EXCEPT ![r] = "connecting"]
    /\ attempt' = [attempt EXCEPT ![r] = @ + 1]
    /\ UNCHANGED <<maxConnections, counts, worker>>

Handle(r) ==
    \/ BodyRead(r) \/ BodyLost(r)
    \/ Connect(r)
    \/ Answered(r) \/ HttpError(r) \/ OtherError(r) \/ Hang(r)
    \/ Retry(r)

Ended(r) == state[r] \in {"answered", "failed"}

(* The attempt hangs, or hanging attempts hold the connections it needs.   *)
Stuck(r) ==
    \/ state[r] = "hanging"
    \/ state[r] = "connecting" /\ ~LeavesConnection(Hanging, worker[r])

AllServed ==
    /\ \A r \in Requests : Ended(r) \/ Stuck(r)
    /\ UNCHANGED routerVars

RouterNext == (\E r \in Requests : Select(r) \/ Handle(r)) \/ AllServed

(* A connection that is free is given to an attempt that waits for one, a  *)
(* worker answers, fails or hangs for ever, and the event loop goes on.    *)
RouterSpec == RouterInit /\ [][RouterNext]_routerVars /\ \A r \in Requests : WF_routerVars(Handle(r))
-------------------------------------------------------------------------------
UnderWay == {"reading", "connecting", "sent", "hanging", "delayed"}

Active(w) == {r \in Requests : worker[r] = w /\ state[r] \in UnderWay}

Failed(w) == {r \in Requests : worker[r] = w /\ state[r] = "failed"}

(* Every variable stays in its type, attempts within max_attempts.         *)
RouterTypeOK ==
    /\ maxConnections \in ConnectionLimits
    /\ counts \in [Workers -> Nat]
    /\ state \in [Requests -> UnderWay \cup {"none", "answered", "failed"}]
    /\ worker \in [Requests -> Workers \cup {NoWorker}]
    /\ attempt \in [Requests -> 0..MaxAttempts]

(* _select_worker and _release_worker: the clamp at zero hides nothing: a  *)
(* count is the requests its worker has and all those that ever failed.    *)
CountsRequestsAndFailures ==
    \A w \in Workers : counts[w] = Cardinality(Active(w)) + Cardinality(Failed(w))

(* "Select the least-loaded worker": of the requests under way none of the  *)
(* other workers has fewer than the one that is chosen.                    *)
SelectsLeastLoaded ==
    [][\A r \in Requests :
          worker'[r] # worker[r] =>
              \A v \in Workers : Cardinality(Active(worker'[r])) <= Cardinality(Active(v))]_routerVars

(* A request that has been given a worker is answered or failed, after any *)
(* number of errors, unless an attempt of it hangs, or hanging attempts of *)
(* other requests hold all the connections that it could be given.         *)
EveryRequestEnds ==
    \A r \in Requests : state[r] # "none" ~> Ended(r) \/ Stuck(r)

(* The same without exception: "timeout" would give up an attempt after a  *)
(* minute, but it is used nowhere.                                         *)
NoRequestHangs ==
    \A r \in Requests : state[r] # "none" ~> Ended(r)
===============================================================================
