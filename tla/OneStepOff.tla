------------------------------- MODULE OneStepOff -------------------------------
(***************************************************************************)
(* OneStepOffRayTrainer.fit beside RayPPOTrainer.fit: replicas on devices  *)
(* of their own generate the next batch while the trainer trains on the    *)
(* last one. Loading, validating and saving are RayPPOTrainer's.           *)
(***************************************************************************)
EXTENDS SyncTrainer, FiniteSets

VARIABLES oneStepOff,  \* this is OneStepOffRayTrainer
          ahead,       \* batch_data_future: the generation in flight
          batch        \* what is trained on

pipeline == <<ahead, batch>>
trainerVars == <<vars, oneStepOff, pipeline>>

(* number: which of the loader's batches, 0 if it had none left; weights:  *)
(* the training steps behind the oldest weights it was generated with;     *)
(* state: of its generation; cut: a weight update aborted its requests.    *)
Nothing == [number |-> 0, weights |-> 0, state |-> "none", cut |-> FALSE]

(* Replicas with devices of their own; no backbone and no REMAX.           *)
Separate ==
    ~config.freeCache /\ ~config.twoStage /\ ~config.remax /\ ~config.rewardModel

TrainersInit ==
    /\ Init
    /\ oneStepOff \in BOOLEAN
    /\ oneStepOff => Separate
    /\ ahead = Nothing /\ batch = Nothing

(* Mutant of UpdateDue: update_weights returns a coroutine nobody awaits.  *)
NeverAwaited == FALSE

(* During the critic's warm-up the replicas keep the weights they have.    *)
UpdateDue == config.criticWarmup <= step

SendWeights ==
    IF UpdateDue THEN UpdateWeights(actor) ELSE UNCHANGED replicas

(* _async_gen_next_batch takes a batch from the iterator and generates it. *)
Launch ==
    IF data < Batches
      THEN /\ data' = data + 1
           /\ ahead' = [number |-> data', weights |-> Len(loaded'),
                        state |-> "generating", cut |-> FALSE]
      ELSE ahead' = Nothing /\ UNCHANGED data

-----------------------------------------------------------------------------
(* fit, up to its first generation.                                        *)
LoadCheckpoint ==
    /\ phase = "loading"
    /\ step' = tracker
    /\ actor' = IF tracker = 0 THEN <<>> ELSE saved[tracker].actor
    /\ data' = IF tracker = 0 THEN 0 ELSE saved[tracker].data
    /\ IF config.criticWarmup <= step' THEN UpdateWeights(actor') ELSE UNCHANGED replicas
    /\ phase' = IF config.valBefore THEN "validating" ELSE "first"
    /\ UNCHANGED <<config, rounds, valBatch, stepped, disk, restarts, pipeline>>

(* The validation before the first step, or that of a step.                *)
Validated ==
    /\ phase = "validating" /\ valBatch = ValBatches
    /\ phase' = IF stepped THEN "validated" ELSE "first"
    /\ UNCHANGED <<config, step, data, actor, rounds, valBatch, stepped, replicas, disk,
                   restarts, pipeline>>

FirstGeneration ==
    /\ phase = "first"
    /\ step' = step + 1
    /\ stepped' = TRUE
    /\ UNCHANGED replicas
    /\ Launch
    /\ phase' = "awaiting"
    /\ UNCHANGED <<config, actor, rounds, valBatch, disk, restarts, batch>>

GenerationEnds ==
    /\ ahead.state = "generating"
    /\ ahead' = [ahead EXCEPT !.state = "done"]
    /\ UNCHANGED <<vars, batch>>

(* _fit_generate: await the batch, send the weights, launch the next one.  *)
TakeBatch ==
    /\ phase = "awaiting" /\ ahead.state = "done"
    /\ batch' = ahead
    /\ SendWeights
    /\ IF IsLastStep THEN ahead' = Nothing /\ UNCHANGED data ELSE Launch
    /\ phase' = "training"
    /\ UNCHANGED <<config, step, actor, rounds, valBatch, stepped, disk, restarts>>

(* The loader had no batch: None cannot be unpacked.                       *)
NoBatch ==
    /\ phase = "awaiting" /\ ahead = Nothing
    /\ phase' = "raised"
    /\ UNCHANGED <<config, step, data, actor, rounds, valBatch, stepped, replicas, disk,
                   restarts, pipeline>>

UpdateActor ==
    /\ phase = "training"
    /\ actor' = IF config.criticWarmup <= step THEN Append(actor, batch.number) ELSE actor
    /\ phase' = "updating"
    /\ UNCHANGED <<config, step, data, rounds, valBatch, stepped, replicas, disk, restarts,
                   pipeline>>

(* The update aborts the requests of the generation that is in flight.     *)
UpdateReplicas ==
    /\ phase = "updating"
    /\ SendWeights
    /\ ahead' = [ahead EXCEPT !.cut = @ \/ (UpdateDue /\ ahead.state = "generating")]
    /\ phase' = IF ShouldValidate THEN "validating" ELSE "validated"
    /\ valBatch' = 0
    /\ UNCHANGED <<config, step, data, actor, rounds, stepped, disk, restarts, batch>>

DecideToSave ==
    /\ phase = "validated"
    /\ \E expiring \in BOOLEAN :
          phase' = IF SaveDue(expiring) THEN "savingActor" ELSE "over"
    /\ UNCHANGED <<config, step, data, actor, rounds, valBatch, stepped, replicas, disk,
                   restarts, pipeline>>

NameStep ==
    /\ phase = "savingTracker"
    /\ tracker' = step
    /\ phase' = "over"
    /\ UNCHANGED <<config, step, data, actor, rounds, valBatch, stepped, replicas, saved,
                   restarts, pipeline>>

(* _fit_postprocess_step counts the step, and fit returns after the last.  *)
CountStep ==
    /\ phase = "over"
    /\ step' = step + 1
    /\ phase' = IF IsLastStep THEN "returned" ELSE "awaiting"
    /\ UNCHANGED <<config, data, actor, rounds, valBatch, stepped, replicas, disk, restarts,
                   pipeline>>

Restarts == Crash /\ ahead' = Nothing /\ batch' = Nothing

OneStepOffNext ==
    \/ LoadCheckpoint \/ (ValidateBatch /\ UNCHANGED pipeline) \/ Validated
    \/ FirstGeneration \/ GenerationEnds \/ TakeBatch \/ NoBatch
    \/ UpdateActor \/ UpdateReplicas
    \/ DecideToSave \/ ((SaveActor \/ SaveData) /\ UNCHANGED pipeline) \/ NameStep
    \/ CountStep \/ Restarts

TrainersNext ==
    /\ \/ ~oneStepOff /\ Next /\ UNCHANGED pipeline
       \/ oneStepOff /\ OneStepOffNext
    /\ UNCHANGED oneStepOff

TrainersSpec == TrainersInit /\ [][TrainersNext]_trainerVars

-----------------------------------------------------------------------------
(* What has been handed out and is neither trained on nor on its way to it. *)
Untrained == {n \in 1..data : \A i \in DOMAIN actor : actor[i] # n}

Skipped ==
    Untrained \ ({ahead.number} \cup (IF phase = "training" THEN {batch.number} ELSE {}))

(* "Generation and training parameters maintain a one-step off policy":    *)
(* what is trained on comes from weights at most one training step old, a  *)
(* resume costs at most the one batch that was in flight when the loader   *)
(* was saved, and a loader is exhausted early only for that reason.        *)
OneStepAhead ==
    oneStepOff =>
      /\ phase = "training" => Len(actor) - batch.weights <= 1
      /\ config.criticWarmup <= 1 => Cardinality(Skipped) <= restarts
      /\ phase = "raised" => Batches - restarts < TotalSteps

(* No weight update cuts the generation in flight short.                   *)
GenerationWhole == oneStepOff => ~batch.cut

=============================================================================
