------------------------------- MODULE FullyAsync -------------------------------
(***************************************************************************)
(* The fully asynchronous trainer: the rollouter and the trainer run side  *)
(* by side as two Ray actors, coupled by the message queue, the weight     *)
(* update and reset_staleness, under the main process that waits for both  *)
(* (FullyAsyncTaskRunner._run_training_loop).                              *)
(***************************************************************************)
EXTENDS Rollouter, Trainer, SequencesExt

VARIABLE main  \* "running", "done" or "failed"

vars == <<mqVars, channelVars, rolloutVars, trainerVars, main>>

Init ==
    /\ ChannelsInit
    /\ RollouterInit
    /\ TrainerInit
    /\ main = "running"

(* Both fits returned.  The queue is cleared on every way out.             *)
MainDone ==
    /\ main = "running"
    /\ rollout = "finished" /\ trainer = "stopped"
    /\ main' = "done"
    /\ ClearQueue
    /\ UNCHANGED <<channelVars, rolloutVars, trainerVars>>

(* One of the fits raised: the other is cancelled and main raises.         *)
MainFails ==
    /\ main = "running"
    /\ rollout = "failed" \/ trainer = "failed"
    /\ main' = "failed"
    /\ ClearQueue
    /\ UNCHANGED <<channelVars, rolloutVars, trainerVars>>

(* A coroutine of the rollouter that uses nothing but the rollouter.       *)
Alone(action) == action /\ UNCHANGED <<mqVars, channelVars, trainerVars, main>>

(* ... that puts into the queue, and that answers the trainer.             *)
Putting(action) == action /\ UNCHANGED <<channelVars, trainerVars, main>>

Answering(action) ==
    action /\ UNCHANGED <<mqVars, serverVersion, syncing, trainerVars, main>>

(* The trainer's counterparts.                                             *)
Getting(action) == action /\ UNCHANGED <<channelVars, rolloutVars, main>>

Computing(action) == action /\ UNCHANGED <<mqVars, channelVars, rolloutVars, main>>

Syncing(action) == action /\ UNCHANGED <<mqVars, rolloutVars, main>>

FeederStep == Alone(Feed) \/ Alone(FeedEnd)

ProcessorStep == Alone(Processor)

TaskStep(s) ==
    \/ Alone(Generate(s))
    \/ \E chunks \in Outcomes : Alone(Split(s, chunks))
    \/ Putting(PutChunk(s))

TaskFails(s) == Alone(Fail(s))

MonitorStep == Alone(MonitorDecides) \/ Alone(MonitorResumes)

ResetStep == Answering(ResetBegins) \/ Answering(ResetReturns)

RolloutEnds == Putting(RolloutFinishes) \/ Putting(RolloutFails)

TrainerStep ==
    \/ Getting(Collect)
    \/ Computing(Train)
    \/ Syncing(SyncBegins) \/ Syncing(SyncEnds) \/ Syncing(ResetAnswered)
    \/ Computing(Stop)

TrainerFails == MayCrash /\ Computing(TrainerRaises)

(* Main's exit ends the actors, and the model with them.                   *)
Exited == main # "running" /\ UNCHANGED vars

Next ==
    \/ /\ main = "running"
       /\ \/ FeederStep
          \/ ProcessorStep
          \/ \E s \in RolloutSamples : TaskStep(s) \/ TaskFails(s)
          \/ MonitorStep
          \/ ResetStep
          \/ RolloutEnds
          \/ TrainerStep \/ TrainerFails
    \/ MainDone
    \/ MainFails
    \/ Exited

Spec == Init /\ [][Next]_vars

(***************************************************************************)
(* The event loop runs every coroutine that can go on, a rollout that was  *)
(* submitted ends (its server answers, or a time-out fails it), the trainer*)
(* and main never stop half-way.  asyncio.Lock is first come, first served,*)
(* so a coroutine waiting for it gets it although others keep using it.    *)
(***************************************************************************)
Running(step) == main = "running" /\ step

Fairness ==
    /\ WF_vars(Running(FeederStep))
    /\ WF_vars(Running(ProcessorStep))
    /\ \A s \in RolloutSamples : WF_vars(Running(TaskStep(s)))
    /\ WF_vars(Running(MonitorStep))
    /\ SF_vars(Running(ResetStep))
    /\ WF_vars(Running(RolloutEnds))
    /\ WF_vars(Running(TrainerStep))
    /\ WF_vars(MainDone \/ MainFails)

FairSpec == Spec /\ Fairness
-------------------------------------------------------------------------------
Chunks == [sample : RolloutSamples, part : Nat \ {0}, points : Nat \ {0}, version : Nat]

ASSUME NoItemAssumption == NoItem \notin Chunks

Entries == [item : Chunks \cup {NoItem}, points : Nat, upto : Nat]

Counters == [samples : Nat, points : Int]

Tasks == [state : {"none", "generating", "generated", "putting", "done", "crashed"},
          version : Nat, toPut : Seq(Nat \ {0}), part : Nat]

Fates == [trained : SUBSET Chunks, stale : SUBSET Chunks,
          overflow : SUBSET Chunks, partial : SUBSET Chunks]

QueueTypeOK ==
    /\ queue \in Seq(Entries)
    /\ queue_train_points \in Nat
    /\ running \in BOOLEAN
    /\ produced \in [samples : Nat, points : Nat]
    /\ consumed \in Counters
    /\ dropped \in Counters
    /\ cleared \in Counters
    /\ consumer \in [Consumers -> {"idle", "waiting", "woken"}]
    /\ received \in [Consumers -> Chunks \cup {NoItem}]

RolloutTypeOK ==
    /\ fed \in 0..TotalRolloutSteps
    /\ feeder \in {"feeding", "ending", "done"}
    /\ pending \in Seq(RolloutSamples \cup {End})
    /\ proc \in {"check", "pausing", "drain", "parked", "woken", "get", "slot",
                 "finish", "done", "failed"}
    /\ current \in RolloutSamples \cup {End}
    /\ active \in SUBSET RolloutSamples
    /\ task \in [RolloutSamples -> Tasks]
    /\ lock \in {"free", "processor", "reset"}
    /\ paused \in BOOLEAN
    /\ monitor \in {"asleep", "locking"}
    /\ rollout \in {"running", "finished", "failed"}

TrainerTypeOK ==
    /\ trainer \in {"collect", "train", "sync", "syncing", "reset", "stopping", "stopped",
                   "failed"}
    /\ batch \in SUBSET Chunks
    /\ collectedPoints \in Nat
    /\ localStep \in 1..TriggerSync
    /\ version \in Nat
    /\ lastSync \in BOOLEAN
    /\ fate \in Fates

(* Every variable stays in its type.                                       *)
TypeOK ==
    /\ QueueTypeOK /\ RolloutTypeOK /\ TrainerTypeOK
    /\ serverVersion \in Nat
    /\ syncing \in BOOLEAN
    /\ resetCall \in {"none", "called", "counting", "returned"}
    /\ main \in {"running", "done", "failed"}

Unfinished == {s \in active : ~Finished(s)}

SumOf(points) == FoldSeq(LAMBDA p, sum : p + sum, 0, points)

(* Train points the rollouter has committed the queue to: those queued,    *)
(* those about to be put, and the estimate for every rollout under way.    *)
Committed ==
    LET promised(s) == IF task[s].state = "putting" THEN SumOf(task[s].toPut)
                       ELSE EstimatedPoints
    IN queue_train_points + FoldSet(LAMBDA s, sum : promised(s) + sum, 0, Unfinished)

EstimateIsUpperBound == \A chunks \in Outcomes : SumOf(chunks) <= EstimatedPoints

(* _should_pause_generation, decided before a sample is fetched, waited for*)
(* and submitted: as long as no rollout yields more than its estimate, the *)
(* rollouter overshoots the queue by less than one rollout.                *)
BackpressureBound ==
    EstimateIsUpperBound => Committed <= MaxQueueSize + EstimatedPoints - 1

QueuedChunks == {queue[i].item : i \in 1..Len(queue)} \ {NoItem}

(* _get_samples_from_queue and MessageQueue together: a chunk taken from   *)
(* the queue has one fate, and none is taken, trained or dropped twice.    *)
EveryChunkOnce ==
    LET places == <<QueuedChunks, batch, fate.trained, fate.stale, fate.overflow, fate.partial>>
        got == batch \cup fate.trained \cup fate.stale \cup fate.overflow \cup fate.partial
        ids(chunks) == {<<chunk.sample, chunk.part>> : chunk \in chunks}
    IN /\ \A i, j \in 1..Len(places) : i # j => ids(places[i]) \cap ids(places[j]) = {}
       /\ Cardinality(got) \in {consumed.samples, consumed.samples - 1}

(* What the trainer takes for a batch is never older than allowed at the   *)
(* time it is trained on.                                                  *)
BatchIsFresh ==
    MaxStaleness >= 0 /\ trainer = "train" =>
        \A chunk \in batch : version - chunk.version <= MaxStaleness

(* Every chunk that was generated and not evicted from the queue.          *)
Seen == QueuedChunks \cup batch \cup UNION {fate[what] : what \in DOMAIN fate}

(* README.md 126-138, staleness_threshold: between two parameter updates   *)
(* the rollouter generates at most max_required_samples samples (which is  *)
(* the size of the queue).  The code counts only what is still unfinished  *)
(* or queued, so what the trainer has taken can be generated once more.    *)
AtMostRolloutNum ==
    \A v \in 0..version : Cardinality({chunk \in Seen : chunk.version = v}) <= MaxQueueSize

Stopped == trainer \in {"stopping", "stopped"} \/ lastSync

(* The termination signal is the last thing put: a trainer that stops on it*)
(* after a rollouter that finished has been given every rollout there is.  *)
StopsOnlyAtTheEnd ==
    Stopped /\ rollout # "failed" =>
        /\ rollout = "finished"
        /\ queue = <<>>
        /\ \A s \in RolloutSamples : task[s].state = "done"

(* Whatever is dropped, paused or failed, the run ends.                    *)
Terminates == <>(main # "running")

(* A rollout or a training step that raised fails the run.                 *)
CrashFailsTheRun ==
    (trainer = "failed" \/ \E s \in RolloutSamples : task[s].state = "crashed") ~> main = "failed"
===============================================================================
