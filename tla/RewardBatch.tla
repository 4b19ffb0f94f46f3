------------------------------ MODULE RewardBatch ------------------------------
(***************************************************************************)
(* RewardLoopManager.compute_rm_score: the items of a batch are scored by  *)
(* the workers, each one's within its limiter, and the results are put     *)
(* together once all have answered.                                        *)
(***************************************************************************)
EXTENDS RewardLimiter

CONSTANT ScoreKeys  \* the keys of reward_extra_info when the function returns

VARIABLE batch      \* "running", "scored", or "raised" for an exception

vars == <<limiterVars, batch>>

Init == LimiterInit /\ batch = "running"

(* What reward_extra_info holds, by outcome.                               *)
ExtraKeys(result) ==
    CASE result = "score"   -> ScoreKeys
      [] result = "timeout" -> {"timeout", "acc"}
      [] result = "error"   -> {"error", "acc"}

First == CHOOSE r \in Requests : \A s \in Requests : r <= s

(* The keys of the first item are looked up in all items.                  *)
Assemble ==
    /\ batch = "running"
    /\ \A r \in Requests : req[r] = "done" /\ outcome[r] # "raised"
    /\ batch' = IF \A r \in Requests : ExtraKeys(outcome[First]) \subseteq ExtraKeys(outcome[r])
                  THEN "scored" ELSE "raised"
    /\ UNCHANGED limiterVars

(* gather and ray.get pass on the first exception, whatever still runs.    *)
PassOnException ==
    /\ batch = "running"
    /\ \E r \in Requests : outcome[r] = "raised"
    /\ batch' = "raised"
    /\ UNCHANGED limiterVars

StuckInDecoding == \E r \in Requests : Stuck(r)

Finished == (batch # "running" \/ StuckInDecoding) /\ busy \subseteq hung /\ UNCHANGED vars

Next ==
    \/ LimiterNext /\ UNCHANGED batch
    \/ Assemble \/ PassOnException
    \/ Finished

Spec == Init /\ [][Next]_vars

FairSpec == Spec /\ LimiterFairness /\ WF_vars(Assemble \/ PassOnException)
-------------------------------------------------------------------------------
HoldersAt(w) == {r \in Requests : Home[r] = w /\ req[r] \in {"admitted", "computing"}}

(* A permit is free or held by one request; none is free while a request   *)
(* waits, whatever mix of results, errors and timeouts gave them back.     *)
PermitsAccounted ==
    /\ \A w \in Workers :
          /\ permits[w] + Cardinality(HoldersAt(w)) = MaxConcurrent
          /\ sleepers[w] # <<>> => permits[w] = 0
    /\ \A r \in Requests :
          req[r] = "waiting" <=> \E i \in 1..Len(sleepers[Home[r]]) : sleepers[Home[r]][i] = r

(* A late result does not replace the timeout that was reported.           *)
AnsweredOnce ==
    [][\A r \in Requests : outcome[r] # "none" => outcome'[r] = outcome[r]]_vars

(* Timeouts, errors and reward functions that never return hold no batch   *)
(* up, unless such functions have taken every thread that could decode,    *)
(* which nothing times.                                                    *)
EveryBatchEnds == <>(batch # "running" \/ StuckInDecoding)

(* The same without exception.                                             *)
NoBatchHangs == <>(batch # "running")
===============================================================================
