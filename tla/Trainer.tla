-------------------------------- MODULE Trainer --------------------------------
(***************************************************************************)
(* FullyAsyncTrainer: it collects a batch from the message queue, trains on*)
(* it, and after every TriggerSync batches gives the rollout servers the   *)
(* new weights and calls the rollouter's reset_staleness.  It is the       *)
(* queue's only consumer.  The computations of a step (rewards, log-probs, *)
(* advantages, updates) change no state kept here.                         *)
(***************************************************************************)
EXTENDS AsyncChannels

CONSTANTS TheTrainer,    \* the consumer
          MaxStaleness,  \* max_policy_version_staleness; negative: no limit
          TestFreq       \* trainer.test_freq

ASSUME TrainerAssumption ==
    /\ Consumers = {TheTrainer}
    /\ MaxStaleness \in Int
    /\ TestFreq \in Nat \ {0}

VARIABLES trainer,         \* where fit is
          batch,           \* the chunks collected for the next step
          collectedPoints, \* and their train points
          localStep,       \* local_trigger_step
          version,         \* current_param_version
          lastSync,        \* the sync under way is the one after the last step
          fate             \* auxiliary: what became of every chunk got from the queue

trainerVars == <<trainer, batch, collectedPoints, localStep, version, lastSync, fate>>

NoFate == [trained |-> {}, stale |-> {}, overflow |-> {}, partial |-> {}]

TrainerInit ==
    /\ trainer = "collect"
    /\ batch = {}
    /\ collectedPoints = 0
    /\ localStep = 1
    /\ version = 0
    /\ lastSync = FALSE
    /\ fate = NoFate

(* Mutant of TooStale: a limit of 0 is taken for no limit.                  *)
StaleOnlyIfPositive(chunk) == MaxStaleness > 0 /\ version - chunk.version > MaxStaleness

TooStale(chunk) == MaxStaleness >= 0 /\ version - chunk.version > MaxStaleness

Overflows(chunk) ==
    collectedPoints > 0 /\ collectedPoints + chunk.points > RequiredSamples
-------------------------------------------------------------------------------
(* _get_samples_from_queue: what is done with one value get_sample returned*)

(* Mutant of EmptiesBatch: the samples collected are not discarded.         *)
ResetsPointsOnly == collectedPoints' = 0 /\ UNCHANGED batch

EmptiesBatch == collectedPoints' = 0 /\ batch' = {}

StopsCollecting(item) ==
    /\ item = NoItem
    /\ trainer' = "stopping"
    /\ fate' = [fate EXCEPT !.partial = @ \cup batch]
    /\ EmptiesBatch

DropsStale(item) ==
    /\ item # NoItem
    /\ TooStale(item)
    /\ fate' = [fate EXCEPT !.stale = @ \cup {item}]
    /\ UNCHANGED <<trainer, batch, collectedPoints>>

DropsOverflow(item) ==
    /\ item # NoItem
    /\ ~TooStale(item)
    /\ Overflows(item)
    /\ fate' = [fate EXCEPT !.overflow = @ \cup {item}]
    /\ UNCHANGED <<trainer, batch, collectedPoints>>

Keeps(item) ==
    /\ item # NoItem
    /\ ~TooStale(item)
    /\ ~Overflows(item)
    /\ batch' = batch \cup {item}
    /\ collectedPoints' = collectedPoints + item.points
    /\ trainer' = IF collectedPoints' >= RequiredSamples THEN "train" ELSE "collect"
    /\ UNCHANGED fate

(* get_sample_sync either blocks the trainer or gives it a value.          *)
Collect ==
    /\ trainer = "collect"
    /\ GetSample(TheTrainer)
    /\ IF consumer'[TheTrainer] = "waiting"
         THEN UNCHANGED <<trainer, batch, collectedPoints, fate>>
         ELSE LET item == received'[TheTrainer]
              IN StopsCollecting(item) \/ DropsStale(item) \/ DropsOverflow(item) \/ Keeps(item)
    /\ UNCHANGED <<localStep, version, lastSync>>

LastLocalStep == localStep >= TriggerSync

NextVersion == IF LastLocalStep THEN version + 1 ELSE version

(* The updates of fit_step, then _fit_update_local_step.                   *)
Train ==
    /\ trainer = "train"
    /\ fate' = [fate EXCEPT !.trained = @ \cup batch]
    /\ EmptiesBatch
    /\ localStep' = IF LastLocalStep THEN 1 ELSE localStep + 1
    /\ version' = NextVersion
    /\ trainer' = IF LastLocalStep THEN "sync" ELSE "collect"
    /\ UNCHANGED lastSync

(* _fit_update_weights: stop the servers, load the weights, resume them ...*)
SyncBegins ==
    /\ trainer = "sync"
    /\ syncing' = TRUE
    /\ trainer' = "syncing"
    /\ UNCHANGED <<batch, collectedPoints, localStep, version, lastSync, fate>>
    /\ UNCHANGED <<serverVersion, resetCall>>

(* ... then call reset_staleness ...                                       *)
SyncEnds ==
    /\ trainer = "syncing"
    /\ serverVersion' = version
    /\ syncing' = FALSE
    /\ resetCall' = "called"
    /\ trainer' = "reset"
    /\ UNCHANGED <<batch, collectedPoints, localStep, version, lastSync, fate>>

(* Mutant of AfterReset: "while" instead of "if" around the weight update.  *)
SyncsAgain == IF lastSync THEN "stopped" ELSE "sync"

AfterReset == IF lastSync THEN "stopped" ELSE "collect"

(* ... and wait for its return.                                            *)
ResetAnswered ==
    /\ trainer = "reset"
    /\ resetCall = "returned"
    /\ resetCall' = "none"
    /\ trainer' = AfterReset
    /\ UNCHANGED <<batch, collectedPoints, localStep, version, lastSync, fate>>
    /\ UNCHANGED <<serverVersion, syncing>>

(* After the termination signal: _fit_update_weights is called again if    *)
(* there is something to validate, but does nothing in mid-version.        *)
Stop ==
    /\ trainer = "stopping"
    /\ IF (version % TestFreq # 0 \/ localStep > 1) /\ localStep = 1
         THEN trainer' = "sync" /\ lastSync' = TRUE
         ELSE trainer' = "stopped" /\ UNCHANGED lastSync
    /\ UNCHANGED <<batch, collectedPoints, localStep, version, fate>>

(* A computation of a step, or a weight update under way, raises.          *)
TrainerRaises ==
    /\ trainer \in {"train", "syncing"}
    /\ trainer' = "failed"
    /\ UNCHANGED <<batch, collectedPoints, localStep, version, lastSync, fate>>
===============================================================================
