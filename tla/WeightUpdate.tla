------------------------------ MODULE WeightUpdate ------------------------------
(***************************************************************************)
(* CheckpointEngineManager.update_weights and the rollout servers: abort   *)
(* what every server generates, load the weights everywhere, let every     *)
(* server go on.  Each phase is gathered: it ends when all servers are     *)
(* through, in any order.  Stand-alone servers neither sleep nor wake up.  *)
(***************************************************************************)
EXTENDS Integers

CONSTANTS Replicas,     \* the rollout servers
          MaxUpdates,   \* bound on the updates in a behaviour
          EnginePauses  \* vLLM >= 0.12: aborting also holds back new requests

ASSUME WeightUpdateAssumption ==
    /\ Replicas # {}
    /\ MaxUpdates \in Nat
    /\ EnginePauses \in BOOLEAN

VARIABLES weights,      \* per server: the version loaded, Mixed while loading
          globalSteps,  \* per server: global_steps, the version it says it has
          held,         \* the servers whose engine is paused
          phase,        \* where update_weights is
          left,         \* the servers that have yet to finish the phase
          target        \* the version given to the latest update

updateVars == <<weights, globalSteps, held, phase, left, target>>

Mixed == -1

WUInit ==
    /\ weights = [s \in Replicas |-> 0]
    /\ globalSteps = [s \in Replicas |-> 0]
    /\ held = {}
    /\ phase = "idle"
    /\ left = {}
    /\ target = 0

BeginUpdate ==
    /\ phase = "idle"
    /\ target < MaxUpdates
    /\ target' = target + 1
    /\ phase' = "aborting"
    /\ left' = Replicas
    /\ UNCHANGED <<weights, globalSteps, held>>

(* Mutant of GatheredAll: the first answer ends the phase.                  *)
GatheredOne(s) == TRUE

GatheredAll(s) == left = {s}

(* Server s is through with its part of the phase.                         *)
Through(s, next) ==
    /\ phase' = IF GatheredAll(s) THEN next ELSE phase
    /\ left' = IF ~GatheredAll(s) THEN left \ {s} ELSE IF next = "idle" THEN {} ELSE Replicas

(* Mutant of HeldBy: the engine only aborts what it has.                    *)
HeldByNothing(s) == held

HeldBy(s) == IF EnginePauses THEN held \cup {s} ELSE held

AbortAll(s) ==
    /\ phase = "aborting" /\ s \in left
    /\ held' = HeldBy(s)
    /\ Through(s, "loading")
    /\ UNCHANGED <<weights, globalSteps, target>>

(* The weights come in buckets ...                                         *)
LoadBegins(s) ==
    /\ phase = "loading" /\ s \in left
    /\ weights[s] # Mixed /\ weights[s] # target
    /\ weights' = [weights EXCEPT ![s] = Mixed]
    /\ UNCHANGED <<globalSteps, held, phase, left, target>>

LoadEnds(s) ==
    /\ weights[s] = Mixed
    /\ weights' = [weights EXCEPT ![s] = target]
    /\ UNCHANGED <<globalSteps, held, phase, left, target>>

(* ... and the server is then told their version.                          *)
SetGlobalSteps(s) ==
    /\ phase = "loading" /\ s \in left
    /\ weights[s] = target
    /\ globalSteps' = [globalSteps EXCEPT ![s] = target]
    /\ Through(s, "resuming")
    /\ UNCHANGED <<weights, held, target>>

ResumeGeneration(s) ==
    /\ phase = "resuming" /\ s \in left
    /\ held' = held \ {s}
    /\ Through(s, "idle")
    /\ UNCHANGED <<weights, globalSteps, target>>
===============================================================================
