------------------------------- MODULE SyncTrainer -------------------------------
(***************************************************************************)
(* RayPPOTrainer.fit: generate, reward, train, save, update the weights of *)
(* the rollout replicas, validate. Replicas and trainer share the devices: *)
(* replicas sleep while the models are trained and only a weight update    *)
(* wakes them. A run may crash at any point and resume.                    *)
(***************************************************************************)
EXTENDS Integers, Sequences

CONSTANTS Configurations, \* how a run is configured, see below
          TotalSteps,     \* total_training_steps
          Batches,        \* batches the data loader hands out in all its epochs
          ValBatches,     \* batches of the validation's data loader
          MaxRounds,      \* max_orchestrator_rounds
          MaxRestarts     \* bound: crashes

(* freeCache: free_cache_engine; twoStage: a backbone orchestrates; emit:  *)
(* then the policy's rounds are the train points                           *)
(* (tool_reward_as_grpo_point); remax: the REMAX baseline; rewardModel: one *)
(* that shares the devices; valBefore: val_before_train; the others by the *)
(* trainer's names.                                                        *)
ASSUME SyncTrainerAssumption ==
    /\ Configurations \subseteq
         [freeCache : BOOLEAN, twoStage : BOOLEAN, emit : BOOLEAN, remax : BOOLEAN,
          rewardModel : BOOLEAN, valBefore : BOOLEAN, criticWarmup : Nat, saveFreq : Nat,
          testFreq : Nat]
    /\ {TotalSteps, Batches, MaxRounds} \subseteq Nat \ {0}
    /\ {ValBatches, MaxRestarts} \subseteq Nat

VARIABLES config,
          phase,     \* where fit is
          step,      \* global_steps
          data,      \* batches the data loader has handed out
          actor,     \* the batches the actor was trained on, in order
          rounds,    \* calls of the policy in this step
          valBatch,  \* batches of this validation that are done
          stepped,   \* a step was begun since the process started
          awake,     \* the replicas are awake
          loaded,    \* the actor whose weights they were given last
          saved,     \* per step: what its folder holds
          tracker,   \* the step latest_checkpointed_iteration.txt names, 0 for none
          restarts

replicas == <<awake, loaded>>
disk == <<saved, tracker>>
vars == <<config, phase, step, data, actor, rounds, valBatch, stepped, replicas, disk, restarts>>

NoFolder == [actor |-> <<>>, data |-> 0]

(* init_workers has put the replicas to sleep; without free_cache_engine a *)
(* replica does not.                                                       *)
Init ==
    /\ config \in Configurations
    /\ phase = "loading"
    /\ step = 0 /\ data = 0 /\ actor = <<>>
    /\ rounds = 0 /\ valBatch = 0 /\ stepped = FALSE
    /\ awake = ~config.freeCache
    /\ loaded = <<>>
    /\ saved = [s \in 1..Batches |-> NoFolder]
    /\ tracker = 0
    /\ restarts = 0

Sleep == awake' = (awake /\ ~config.freeCache) /\ UNCHANGED loaded

UpdateWeights(weights) == awake' = TRUE /\ loaded' = weights

IsLastStep == step >= TotalSteps

ShouldValidate ==
    /\ config.testFreq > 0
    /\ IsLastStep \/ step % config.testFreq = 0

(* The phase after a step, or after the validation before the first.       *)
AfterStep == IF stepped /\ IsLastStep THEN "finished" ELSE "nextStep"

-----------------------------------------------------------------------------
(* _load_checkpoint, and a weight update before anything else.             *)
Load ==
    /\ phase = "loading"
    /\ step' = tracker
    /\ actor' = IF tracker = 0 THEN <<>> ELSE saved[tracker].actor
    /\ data' = IF tracker = 0 THEN 0 ELSE saved[tracker].data
    /\ UpdateWeights(actor')
    /\ phase' = IF config.valBefore THEN "validating" ELSE AfterStep
    /\ UNCHANGED <<config, rounds, valBatch, stepped, disk, restarts>>

(* Mutant of SleepForReward: the replicas stay awake.                      *)
StaysAwake == UNCHANGED replicas

(* A reward model that shares the devices needs the replicas asleep.       *)
SleepForReward == Sleep

(* _validate generates a batch. With a backbone the policy may have been   *)
(* called, and been put to sleep after each call.                          *)
ValidateBatch ==
    /\ phase = "validating" /\ valBatch < ValBatches
    /\ IF config.rewardModel
       THEN SleepForReward /\ phase' = "validationReward" /\ UNCHANGED valBatch
       ELSE /\ UNCHANGED replicas \/ (config.twoStage /\ Sleep)
            /\ valBatch' = valBatch + 1
            /\ UNCHANGED phase
    /\ UNCHANGED <<config, step, data, actor, rounds, stepped, disk, restarts>>

(* The reward model is done: a weight update wakes the replicas.           *)
RewardValidation ==
    /\ phase = "validationReward"
    /\ UpdateWeights(actor)
    /\ valBatch' = valBatch + 1
    /\ phase' = "validating"
    /\ UNCHANGED <<config, step, data, actor, rounds, stepped, disk, restarts>>

ValidationEnds ==
    /\ phase = "validating" /\ valBatch = ValBatches
    /\ phase' = AfterStep
    /\ UNCHANGED <<config, step, data, actor, rounds, valBatch, stepped, replicas, disk, restarts>>

-----------------------------------------------------------------------------
NextStep ==
    /\ phase = "nextStep"
    /\ IF data >= Batches
       THEN phase' = "finished" /\ UNCHANGED <<step, data, rounds, stepped>>
       ELSE /\ step' = step + 1
            /\ data' = data + 1
            /\ rounds' = 0
            /\ stepped' = TRUE
            /\ phase' = "generating"
    /\ UNCHANGED <<config, actor, valBatch, replicas, disk, restarts>>

(* A two-stage rollout that emits the policy's rounds has nothing to train *)
(* on if the policy was never called.                                      *)
AfterRollout(calls) == IF calls > 0 \/ ~config.emit THEN "training" ELSE "stepEnd"

RolloutDone(calls) == phase' = IF config.remax THEN "baseline" ELSE AfterRollout(calls)

(* One call of generate_sequences without a backbone.                      *)
Generate ==
    /\ phase = "generating" /\ ~config.twoStage
    /\ Sleep
    /\ rounds' = 1
    /\ RolloutDone(1)
    /\ UNCHANGED <<config, step, data, actor, valBatch, stepped, disk, restarts>>

(* A policy round of the two-stage rollout, and its end.                   *)
PolicyRound ==
    /\ phase = "generating" /\ config.twoStage
    /\ rounds < MaxRounds
    /\ Sleep
    /\ rounds' = rounds + 1
    /\ UNCHANGED <<config, phase, step, data, actor, valBatch, stepped, disk, restarts>>

BackboneEnds ==
    /\ phase = "generating" /\ config.twoStage
    /\ RolloutDone(rounds)
    /\ UNCHANGED <<config, step, data, actor, rounds, valBatch, stepped, replicas, disk, restarts>>

(* REMAX generates a second time.                                          *)
Baseline ==
    /\ phase = "baseline"
    /\ Sleep
    /\ phase' = AfterRollout(rounds)
    /\ UNCHANGED <<config, step, data, actor, rounds, valBatch, stepped, disk, restarts>>

(* Mutant of SaveDue: the last step is not saved on its own account.       *)
SaveDueByFrequency(expiring) ==
    config.saveFreq > 0 /\ (step % config.saveFreq = 0 \/ expiring)

(* The server may be close to its expiration at any step.                  *)
SaveDue(expiring) ==
    config.saveFreq > 0 /\ (IsLastStep \/ step % config.saveFreq = 0 \/ expiring)

(* Rewards, log probabilities, advantages, the critic's update and, after  *)
(* its warm-up, the actor's. During it nothing is saved or sent.           *)
Train ==
    /\ phase = "training"
    /\ IF config.criticWarmup <= step
       THEN /\ actor' = Append(actor, data)
            /\ \E expiring \in BOOLEAN :
                 phase' = IF SaveDue(expiring) THEN "savingActor" ELSE "updating"
       ELSE phase' = "stepEnd" /\ UNCHANGED actor
    /\ UNCHANGED <<config, step, data, rounds, valBatch, stepped, replicas, disk, restarts>>

(* _save_checkpoint: the actor, the data loader's position, the tracker.   *)
SaveActor ==
    /\ phase = "savingActor"
    /\ saved' = [saved EXCEPT ![step].actor = actor]
    /\ phase' = "savingData"
    /\ UNCHANGED <<config, step, data, actor, rounds, valBatch, stepped, replicas, tracker, restarts>>

(* Mutant of Position: the state is taken before the batch.                *)
PositionBefore == data - 1

(* The data loader's state says how many batches it has handed out.        *)
Position == data

SaveData ==
    /\ phase = "savingData"
    /\ saved' = [saved EXCEPT ![step].data = Position]
    /\ phase' = "savingTracker"
    /\ UNCHANGED <<config, step, data, actor, rounds, valBatch, stepped, replicas, tracker, restarts>>

(* Mutant of AfterSaving: a save is thought to end the step.               *)
EndsStep == "stepEnd"

AfterSaving == "updating"

SaveTracker ==
    /\ phase = "savingTracker"
    /\ tracker' = step
    /\ phase' = AfterSaving
    /\ UNCHANGED <<config, step, data, actor, rounds, valBatch, stepped, replicas, saved, restarts>>

Update ==
    /\ phase = "updating"
    /\ UpdateWeights(actor)
    /\ phase' = "stepEnd"
    /\ UNCHANGED <<config, step, data, actor, rounds, valBatch, stepped, disk, restarts>>

StepEnds ==
    /\ phase = "stepEnd"
    /\ phase' = IF ShouldValidate THEN "validating" ELSE AfterStep
    /\ valBatch' = 0
    /\ UNCHANGED <<config, step, data, actor, rounds, stepped, replicas, disk, restarts>>

-----------------------------------------------------------------------------
(* The process and its replicas are gone; the disk is not.                 *)
Crash ==
    /\ restarts < MaxRestarts
    /\ restarts' = restarts + 1
    /\ phase' = "loading"
    /\ step' = 0 /\ data' = 0 /\ actor' = <<>>
    /\ rounds' = 0 /\ valBatch' = 0 /\ stepped' = FALSE
    /\ awake' = ~config.freeCache
    /\ loaded' = <<>>
    /\ UNCHANGED <<config, disk>>

Next ==
    \/ Load \/ ValidateBatch \/ RewardValidation \/ ValidationEnds
    \/ NextStep \/ Generate \/ PolicyRound \/ BackboneEnds \/ Baseline \/ Train
    \/ SaveActor \/ SaveData \/ SaveTracker \/ Update \/ StepEnds
    \/ Crash

Spec == Init /\ [][Next]_vars

-----------------------------------------------------------------------------
Phases == {"loading", "validating", "validationReward", "nextStep", "generating", "baseline",
           "training", "savingActor", "savingData", "savingTracker", "updating", "stepEnd",
           "finished"}

(* Every variable has its type (RayPPOTrainer).                           *)
TypeOK ==
    /\ config \in Configurations
    /\ phase \in Phases
    /\ step \in 0..Batches /\ data \in 0..Batches
    /\ actor \in Seq(1..Batches) /\ loaded \in Seq(1..Batches)
    /\ rounds \in 0..MaxRounds /\ valBatch \in 0..ValBatches
    /\ stepped \in BOOLEAN /\ awake \in BOOLEAN
    /\ saved \in [1..Batches -> [actor : Seq(1..Batches), data : 0..Batches]]
    /\ tracker \in 0..Batches
    /\ restarts \in 0..MaxRestarts

(* Only a weight update wakes a replica, so this holds of the configurations *)
(* in which every generation follows one.                                  *)
GeneratesAwake ==
    ~config.freeCache \/ (~config.twoStage /\ ~config.remax /\ config.criticWarmup <= 1)

(* Whatever is generated, for training or validation, comes from the actor *)
(* as it was trained last, also right after a resume, a validation with a  *)
(* reward model or a save (fit, _validate); and from replicas that are     *)
(* awake, wherever an update precedes every generation.                    *)
OnPolicy ==
    phase \in {"generating", "baseline", "validating"} =>
        loaded = actor /\ (GeneratesAwake => awake)

(* Replicas that free their memory hold none while the models are trained  *)
(* or saved, while a reward model judges, or when new weights come         *)
(* (ActorRolloutRefWorker.update_weights expects them asleep), unless only *)
(* the backbone's own answers are trained on.                              *)
DeviceFree ==
    /\ config.freeCache /\ (config.twoStage => config.emit)
    /\ phase \in {"loading", "validationReward", "training", "savingActor", "savingData",
                  "savingTracker", "updating"}
    => ~awake

(* Over all crashes and resumes, the actor is trained on each batch once   *)
(* and in the loader's order, and skips none but in the critic's warm-up   *)
(* and the steps of a two-stage rollout without policy calls.              *)
EachBatchOnce ==
    /\ \A i, j \in DOMAIN actor : i < j => actor[i] < actor[j]
    /\ phase \in {"nextStep", "finished"} /\ ~config.twoStage =>
         \A b \in 1..data : b >= config.criticWarmup => \E i \in DOMAIN actor : actor[i] = b

(* A resume costs fewer steps than the save frequency, and nothing of a run *)
(* that has ended: the checkpoint the tracker names is the last one due.   *)
SavedInTime ==
    phase \in {"nextStep", "finished"} /\ ~config.twoStage /\ config.saveFreq > 0
        /\ config.criticWarmup <= 1 /\ stepped =>
      /\ step - tracker < config.saveFreq
      /\ IsLastStep => tracker = step /\ saved[tracker].actor = actor

=============================================================================
