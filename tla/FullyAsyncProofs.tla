---------------------------- MODULE FullyAsyncProofs ----------------------------
(***************************************************************************)
(* The fully asynchronous trainer for any number of rollouts, any sizes of *)
(* the queue, the batch and the chunks, any staleness limit and any order  *)
(* of the steps of rollouter, trainer and main.                            *)
(***************************************************************************)
EXTENDS FullyAsync, FiniteSetTheorems, SequenceTheorems, TLAPS

(* The queue is never shut down.                                           *)
QueueOpen == running

(* A task that puts has a chunk to put.                                    *)
PuttersHaveChunks ==
    \A s \in RolloutSamples : task[s].state = "putting" => task[s].toPut # <<>>

(* A sample is fed once: it is fed, pending, held by the processor and     *)
(* submitted in this order, and pending holds each sample once.            *)
Fresh(s) == task[s].state = "none"

FedInOrder ==
    /\ feeder = "feeding" => fed < TotalRolloutSteps
    /\ feeder = "ending" => fed = TotalRolloutSteps
    /\ \A s \in RolloutSamples : s > fed => Fresh(s)
    /\ \A i \in 1..Len(pending) : pending[i] # End =>
          pending[i] <= fed /\ Fresh(pending[i]) /\ pending[i] # current
    /\ \A i, k \in 1..Len(pending) : pending[i] = pending[k] => i = k
    /\ proc = "slot" => current # End
    /\ current # End => proc \in {"slot", "failed"} /\ current <= fed /\ Fresh(current)

(* None of the samples fed is lost, and the end comes after all of them.   *)
Pending(s) == \E i \in 1..Len(pending) : pending[i] = s

NoneLost ==
    /\ \A s \in RolloutSamples : s <= fed /\ Fresh(s) => Pending(s) \/ current = s
    /\ \A i \in 1..Len(pending) : pending[i] = End =>
          i = Len(pending) /\ feeder = "done" /\ fed = TotalRolloutSteps
    /\ proc \in {"finish", "done"} =>
          pending = <<>> /\ feeder = "done" /\ fed = TotalRolloutSteps

(* A task is collected once it is done, and one that crashed ends it all.  *)
TasksCollected ==
    /\ \A s \in RolloutSamples :
          Fresh(s) \/ s \in active \/ task[s].state = "done" \/ proc = "failed"
    /\ proc = "done" => active = {}
    /\ rollout = "finished" => proc = "done"

(* The termination signal is put when the rollouter has ended, after which *)
(* only a rollouter that failed puts anything.                             *)
SignalIsLast ==
    /\ \A i \in 1..Len(queue) : queue[i].item = NoItem =>
          rollout # "running" /\ (rollout = "finished" => i = Len(queue))
    /\ Stopped => rollout # "running" /\ (rollout = "finished" => queue = <<>>)

(* What the trainer has got from the queue, by what became of it.          *)
Got == batch \cup fate.trained \cup fate.stale \cup fate.overflow \cup fate.partial

SameId(c, d) == c.sample = d.sample /\ c.part = d.part

(* A chunk of a sample was put by its task: one that is done, or has       *)
(* passed it.                                                              *)
PutBefore(c) ==
    \/ task[c.sample].state = "done"
    \/ task[c.sample].state = "putting" /\ c.part <= task[c.sample].part

ChunksPutOnce ==
    /\ \A i \in 1..Len(queue) : queue[i].item # NoItem => PutBefore(queue[i].item)
    /\ \A c \in Got : PutBefore(c)
    /\ \A i, k \in 1..Len(queue) :
          queue[i].item # NoItem /\ queue[k].item # NoItem /\ SameId(queue[i].item, queue[k].item)
             => i = k
    /\ \A i \in 1..Len(queue) : \A c \in Got :
          queue[i].item # NoItem => ~SameId(queue[i].item, c)
    /\ \A c, d \in Got : SameId(c, d) => c = d

OneFate ==
    /\ batch \cap fate.trained = {} /\ batch \cap fate.stale = {}
    /\ batch \cap fate.overflow = {} /\ batch \cap fate.partial = {}
    /\ fate.trained \cap fate.stale = {} /\ fate.trained \cap fate.overflow = {}
    /\ fate.trained \cap fate.partial = {} /\ fate.stale \cap fate.overflow = {}
    /\ fate.stale \cap fate.partial = {} /\ fate.overflow \cap fate.partial = {}

GotCounted ==
    /\ IsFiniteSet(Got)
    /\ consumed.samples = Cardinality(Got) + (IF Stopped THEN 1 ELSE 0)

(* The batch is as fresh as it has to be, while it is collected too.       *)
BatchKeptFresh ==
    MaxStaleness >= 0 => \A c \in batch : version - c.version <= MaxStaleness

(* The sync after the last step ends the training.                         *)
LastSyncEnds == lastSync => trainer \in {"sync", "syncing", "reset", "stopped", "failed"}

RolloutInv == PuttersHaveChunks /\ FedInOrder /\ NoneLost /\ TasksCollected

IInv ==
    /\ TypeOK /\ QueueOpen /\ RolloutInv /\ LastSyncEnds /\ SignalIsLast
    /\ ChunksPutOnce /\ OneFate /\ GotCounted /\ BatchKeptFresh
-------------------------------------------------------------------------------
(* The steps, by what they share: a rollouter's that puts nothing, ...     *)
RolloutQuiet ==
    \/ Feed \/ FeedEnd \/ Processor
    \/ \E s \in RolloutSamples :
          \/ Generate(s) \/ Fail(s)
          \/ \E chunks \in Outcomes : Split(s, chunks)
    \/ MonitorDecides \/ MonitorResumes \/ ResetBegins \/ ResetReturns

RolloutPuts == (\E s \in RolloutSamples : PutChunk(s)) \/ RolloutFinishes \/ RolloutFails

(* ... and a trainer's that takes nothing from the queue.                  *)
TrainerQuiet == Train \/ SyncBegins \/ SyncEnds \/ ResetAnswered \/ Stop \/ TrainerRaises

LEMMA StepCases ==
    ASSUME [Next]_vars
    PROVE  \/ RolloutQuiet /\ UNCHANGED <<mqVars, trainerVars>>
           \/ RolloutPuts /\ UNCHANGED trainerVars
           \/ Collect /\ UNCHANGED rolloutVars
           \/ TrainerQuiet /\ UNCHANGED <<mqVars, rolloutVars>>
           \/ ClearQueue /\ UNCHANGED <<rolloutVars, trainerVars>>
           \/ UNCHANGED <<mqVars, rolloutVars, trainerVars>>
<1>1. CASE FeederStep \/ ProcessorStep \/ MonitorStep \/ ResetStep
  BY <1>1 DEF FeederStep, ProcessorStep, MonitorStep, ResetStep, Alone, Answering, RolloutQuiet
<1>2. ASSUME NEW s \in RolloutSamples, TaskStep(s) \/ TaskFails(s)
      PROVE  \/ RolloutQuiet /\ UNCHANGED <<mqVars, trainerVars>>
             \/ RolloutPuts /\ UNCHANGED trainerVars
  BY <1>2 DEF TaskStep, TaskFails, Alone, Putting, RolloutQuiet, RolloutPuts
<1>3. CASE RolloutEnds
  BY <1>3 DEF RolloutEnds, Putting, RolloutPuts
<1>4. CASE TrainerStep \/ TrainerFails
  BY <1>4 DEF TrainerStep, TrainerFails, Getting, Computing, Syncing, TrainerQuiet
<1>5. CASE MainDone \/ MainFails
  BY <1>5 DEF MainDone, MainFails
<1>6. CASE Exited \/ UNCHANGED vars
  BY <1>6 DEF Exited, vars
<1> QED BY <1>1, <1>2, <1>3, <1>4, <1>5, <1>6 DEF Next
-------------------------------------------------------------------------------
(* put_sample: the entries that are left, in order, then the new one.      *)
LEMMA PutShape ==
    ASSUME QueueTypeOK, NEW item \in Chunks \cup {NoItem}, NEW n \in Nat, PutSample(item, n)
    PROVE  /\ QueueTypeOK'
           /\ UNCHANGED <<running, received, consumed, cleared>>
           /\ \E k \in 0..Len(queue) :
                 /\ Len(queue') = (Len(queue) - k) + 1
                 /\ queue'[(Len(queue) - k) + 1].item = item
                 /\ \A i \in 1..Len(queue) - k : queue'[i] = queue[i + k]
<1> DEFINE points == TrainPoints(item, n)
           new == [item |-> item, points |-> points, upto |-> produced.points + points]
<1>1. PICK k \in 0..Len(queue) :
         /\ queue' = Append(SubSeq(queue, k + 1, Len(queue)), new)
         /\ queue_train_points' = PointsAfterDropping(k) + points
         /\ produced' = Plus(produced, 1, points)
         /\ dropped' = Plus(dropped, k, OldestPoints(k))
         /\ NotifyAll
         /\ UNCHANGED <<running, received, consumed, cleared>>
  BY DEF PutSample
<1>2. queue \in Seq(Entries) /\ Len(queue) \in Nat /\ k \in Nat /\ k <= Len(queue)
  BY DEF QueueTypeOK
<1>3. points \in Nat
  BY DEF TrainPoints
<1>4. new \in Entries /\ new.item = item
  BY <1>3 DEF Entries, QueueTypeOK
<1>5. OldestPoints(k) \in Int
  <2>1. CASE k = 0
    BY <2>1 DEF OldestPoints
  <2>2. CASE k # 0
    <3>1. queue[k] \in Entries /\ queue[1] \in Entries
      BY <1>2, <2>2
    <3> QED BY <2>2, <3>1 DEF OldestPoints, Entries
  <2> QED BY <2>1, <2>2
<1>6. PointsAfterDropping(k) \in Nat
  BY <1>5 DEF PointsAfterDropping, Max0, QueueTypeOK
<1> HIDE DEF points, new
<1> DEFINE rest == SubSeq(queue, k + 1, Len(queue))
<1>7. /\ rest \in Seq(Entries) /\ Len(rest) = Len(queue) - k
      /\ \A i \in 1..Len(queue) - k : rest[i] = queue[i + k]
  <2>1. k + 1 \in 1..Len(queue) + 1
    BY <1>2
  <2> QED BY <1>2, <2>1
<1> HIDE DEF rest
<1>8. /\ Append(rest, new) \in Seq(Entries) /\ Len(Append(rest, new)) = (Len(queue) - k) + 1
      /\ Append(rest, new)[(Len(queue) - k) + 1] = new
      /\ \A i \in 1..Len(queue) - k : Append(rest, new)[i] = queue[i + k]
  BY <1>4, <1>7
<1>9. queue' = Append(rest, new)
  BY <1>1 DEF rest
<1>10. consumer' \in [Consumers -> {"idle", "waiting", "woken"}]
  BY <1>1 DEF NotifyAll, QueueTypeOK
<1>11. produced' \in [samples : Nat, points : Nat] /\ dropped' \in Counters
  <2>1. /\ produced.samples \in Nat /\ produced.points \in Nat
        /\ dropped.samples \in Nat /\ dropped.points \in Int
    BY DEF QueueTypeOK, Counters
  <2>2. produced.samples + 1 \in Nat /\ produced.points + points \in Nat
    BY <1>3, <2>1
  <2>3. dropped.samples + k \in Nat /\ dropped.points + OldestPoints(k) \in Int
    BY <1>2, <1>5, <2>1
  <2> QED BY <1>1, <2>2, <2>3 DEF Plus, Counters
<1>12. queue_train_points' \in Nat
  BY <1>1, <1>3, <1>6
<1>13. QueueTypeOK'
  BY <1>1, <1>8, <1>9, <1>10, <1>11, <1>12 DEF QueueTypeOK
<1> QED BY <1>1, <1>4, <1>8, <1>9, <1>13

(* get_sample of a queue that is open: asleep, or the oldest entry.        *)
LEMMA GetShape ==
    ASSUME QueueTypeOK, QueueOpen, GetSample(TheTrainer)
    PROVE  /\ QueueTypeOK' /\ QueueOpen'
           /\ \/ /\ consumer'[TheTrainer] = "waiting"
                 /\ UNCHANGED <<queue, consumed>>
              \/ /\ consumer'[TheTrainer] # "waiting"
                 /\ Len(queue) \in Nat \ {0} /\ 1 \in 1..Len(queue)
                 /\ received'[TheTrainer] = queue[1].item
                 /\ received'[TheTrainer] \in Chunks \cup {NoItem}
                 /\ consumed'.samples = consumed.samples + 1
                 /\ Len(queue') = Len(queue) - 1
                 /\ \A i \in 1..Len(queue) - 1 : queue'[i] = queue[i + 1]
<1>1. TheTrainer \in Consumers
  BY TrainerAssumption
<1>2. CASE Sleep(TheTrainer)
  BY <1>1, <1>2 DEF Sleep, QueueTypeOK, QueueOpen, counters
<1>3. CASE ReturnOldest(TheTrainer)
  <2>1. queue \in Seq(Entries) /\ queue # <<>>
    BY <1>3 DEF ReturnOldest, QueueTypeOK
  <2>2. Len(queue) \in Nat \ {0} /\ 1 \in 1..Len(queue) /\ Head(queue) = queue[1]
    BY <2>1
  <2>3. queue[1] \in Entries
    BY <2>1, <2>2
  <2>4. queue' = Tail(queue)
    BY <1>3 DEF ReturnOldest
  <2>5. /\ queue' \in Seq(Entries) /\ Len(queue') = Len(queue) - 1
        /\ \A i \in 1..Len(queue) - 1 : queue'[i] = queue[i + 1]
    BY <2>1, <2>2, <2>4
  <2>6. /\ received' = [received EXCEPT ![TheTrainer] = queue[1].item]
        /\ consumer' = [consumer EXCEPT ![TheTrainer] = "idle"]
        /\ consumed' = Plus(consumed, 1, queue[1].points)
        /\ queue_train_points' = Max0(queue_train_points - queue[1].points)
        /\ UNCHANGED <<running, produced, dropped, cleared>>
    BY <1>3, <2>2 DEF ReturnOldest, OldestItem
  <2>7. queue[1].item \in Chunks \cup {NoItem} /\ queue[1].points \in Nat
    BY <2>3 DEF Entries
  <2>8. /\ received'[TheTrainer] = queue[1].item /\ consumer'[TheTrainer] = "idle"
        /\ received' \in [Consumers -> Chunks \cup {NoItem}]
        /\ consumer' \in [Consumers -> {"idle", "waiting", "woken"}]
    BY <1>1, <2>6, <2>7 DEF QueueTypeOK
  <2>9. consumed' \in Counters /\ consumed'.samples = consumed.samples + 1
    <3>1. consumed.samples \in Nat /\ consumed.points \in Int
      BY DEF QueueTypeOK, Counters
    <3>2. consumed.samples + 1 \in Nat /\ consumed.points + queue[1].points \in Int
      BY <2>7, <3>1
    <3> QED BY <2>6, <3>2 DEF Plus, Counters
  <2>10. queue_train_points' \in Nat
    BY <2>6, <2>7 DEF QueueTypeOK, Max0
  <2>11. QueueTypeOK' /\ QueueOpen'
    BY <2>5, <2>6, <2>8, <2>9, <2>10 DEF QueueTypeOK, QueueOpen
  <2> QED BY <2>2, <2>5, <2>7, <2>8, <2>9, <2>11
<1>4. ~ReturnClosed(TheTrainer)
  BY DEF ReturnClosed, QueueOpen
<1> QED BY <1>2, <1>3, <1>4 DEF GetSample

LEMMA ClearShape ==
    ASSUME QueueTypeOK, ClearQueue
    PROVE  QueueTypeOK' /\ queue' = <<>> /\ UNCHANGED <<running, consumed>>
BY DEF ClearQueue, QueueTypeOK, Counters, Plus
-------------------------------------------------------------------------------
(* Types.                                                                  *)

LEMMA TaskType ==
    ASSUME RolloutTypeOK, NEW s \in RolloutSamples
    PROVE  /\ task[s].state \in {"none", "generating", "generated", "putting", "done", "crashed"}
           /\ task[s].version \in Nat /\ task[s].toPut \in Seq(Nat \ {0}) /\ task[s].part \in Nat
           /\ task[s] \in Tasks
BY DEF RolloutTypeOK, Tasks

LEMMA NextChunkType ==
    ASSUME RolloutTypeOK, PuttersHaveChunks, NEW s \in RolloutSamples, task[s].state = "putting"
    PROVE  /\ NextChunk(s) \in Chunks /\ NextChunk(s).points \in Nat \ {0}
           /\ NextChunk(s).sample = s /\ NextChunk(s).part = task[s].part + 1
           /\ Len(task[s].toPut) \in Nat \ {0}
           /\ Tail(task[s].toPut) \in Seq(Nat \ {0})
           /\ Len(Tail(task[s].toPut)) = Len(task[s].toPut) - 1
<1>1. task[s].toPut \in Seq(Nat \ {0}) /\ task[s].toPut # <<>>
      /\ task[s].part \in Nat /\ task[s].version \in Nat
  BY TaskType DEF PuttersHaveChunks
<1>2. Head(task[s].toPut) \in Nat \ {0}
  BY <1>1
<1>3. NextChunk(s) \in Chunks
  BY <1>1, <1>2 DEF NextChunk, Chunks
<1>4. NextChunk(s).points = Head(task[s].toPut) /\ NextChunk(s).sample = s
      /\ NextChunk(s).part = task[s].part + 1
  BY DEF NextChunk
<1>5. /\ Len(task[s].toPut) \in Nat \ {0} /\ Tail(task[s].toPut) \in Seq(Nat \ {0})
      /\ Len(Tail(task[s].toPut)) = Len(task[s].toPut) - 1
  BY <1>1
<1> QED BY <1>2, <1>3, <1>4, <1>5

LEMMA AfterPutType ==
    ASSUME NEW t \in Tasks, t.state = "putting", Len(t.toPut) \in Nat \ {0},
           Tail(t.toPut) \in Seq(Nat \ {0}), Len(Tail(t.toPut)) = Len(t.toPut) - 1
    PROVE  /\ AfterPut(t) \in Tasks
           /\ AfterPut(t).state \in {"putting", "done"}
           /\ AfterPut(t).state = "putting" =>
                 AfterPut(t).toPut # <<>> /\ AfterPut(t).part = t.part + 1
<1>1. CASE Len(t.toPut) = 1
  <2>1. AfterPut(t) = [NoTask EXCEPT !.state = "done"]
    BY <1>1 DEF AfterPut
  <2>2. <<>> \in Seq(Nat \ {0})
    OBVIOUS
  <2>3. AfterPut(t) = [state |-> "done", version |-> 0, toPut |-> <<>>, part |-> 0]
    BY <2>1 DEF NoTask
  <2> QED BY <2>2, <2>3 DEF Tasks
<1>2. CASE Len(t.toPut) # 1
  <2>1. AfterPut(t) = [t EXCEPT !.toPut = Tail(@), !.part = @ + 1]
    BY <1>2 DEF AfterPut
  <2>2. t.part + 1 \in Nat
    BY DEF Tasks
  <2>3. /\ AfterPut(t) \in Tasks /\ AfterPut(t).state = t.state
        /\ AfterPut(t).toPut = Tail(t.toPut) /\ AfterPut(t).part = t.part + 1
    BY <2>1, <2>2 DEF Tasks
  <2>4. Tail(t.toPut) # <<>>
    <3>1. Len(Tail(t.toPut)) # 0
      BY <1>2
    <3> QED BY <3>1, EmptySeq
  <2> QED BY <2>3, <2>4
<1> QED BY <1>1, <1>2

(* What a task does is to itself alone.                                    *)
LEMMA TaskSteps ==
    ASSUME RolloutTypeOK, PuttersHaveChunks, NEW s \in RolloutSamples,
           \/ Generate(s) /\ serverVersion \in Nat
           \/ Fail(s)
           \/ \E chunks \in Outcomes : Split(s, chunks)
           \/ PutChunk(s)
    PROVE  /\ UNCHANGED taskOnly
           /\ task' \in [RolloutSamples -> Tasks]
           /\ \A q \in RolloutSamples \ {s} : task'[q] = task[q]
           /\ task[s].state \in {"generating", "generated", "putting"}
           /\ task'[s].state \in {"generated", "putting", "done", "crashed"}
           /\ task'[s].state = "putting" => task'[s].toPut # <<>>
<1>0. task[s] \in Tasks /\ task \in [RolloutSamples -> Tasks]
  BY DEF RolloutTypeOK
<1>1. CASE Generate(s) /\ serverVersion \in Nat
  <2>1. task' = [task EXCEPT ![s] = [@ EXCEPT !.state = "generated", !.version = serverVersion]]
    BY <1>1 DEF Generate
  <2>2. [task[s] EXCEPT !.state = "generated", !.version = serverVersion] \in Tasks
    BY <1>0, <1>1 DEF Tasks
  <2> QED BY <1>0, <1>1, <2>1, <2>2 DEF Generate, Tasks
<1>2. CASE Fail(s)
  <2>1. PICK end \in {"done", "crashed"} : task' = [task EXCEPT ![s] = [@ EXCEPT !.state = end]]
    BY <1>2 DEF Fail
  <2>2. [task[s] EXCEPT !.state = end] \in Tasks
    BY <1>0 DEF Tasks
  <2> QED BY <1>0, <1>2, <2>1, <2>2 DEF Fail, Tasks
<1>3. ASSUME NEW chunks \in Outcomes, Split(s, chunks)
      PROVE  /\ UNCHANGED taskOnly
             /\ task' \in [RolloutSamples -> Tasks]
             /\ \A q \in RolloutSamples \ {s} : task'[q] = task[q]
             /\ task[s].state \in {"generating", "generated", "putting"}
             /\ task'[s].state \in {"generated", "putting", "done", "crashed"}
             /\ task'[s].state = "putting" => task'[s].toPut # <<>>
  <2>1. task' = [task EXCEPT ![s] = [@ EXCEPT !.state = IF chunks = <<>> THEN "done" ELSE "putting",
                                              !.toPut = chunks]]
    BY <1>3 DEF Split
  <2>2. chunks \in Seq(Nat \ {0})
    BY RollouterAssumption
  <2>3. [task[s] EXCEPT !.state = IF chunks = <<>> THEN "done" ELSE "putting", !.toPut = chunks]
           \in Tasks
    BY <1>0, <2>2 DEF Tasks
  <2>4. task'[s] = [task[s] EXCEPT !.state = IF chunks = <<>> THEN "done" ELSE "putting",
                                   !.toPut = chunks]
    BY <1>0, <2>1
  <2>5. task'[s].state = (IF chunks = <<>> THEN "done" ELSE "putting") /\ task'[s].toPut = chunks
    BY <1>0, <2>4 DEF Tasks
  <2>6. task' \in [RolloutSamples -> Tasks] /\ \A q \in RolloutSamples \ {s} : task'[q] = task[q]
    BY <1>0, <2>1, <2>3
  <2>7. task[s].state = "generated" /\ UNCHANGED taskOnly
    BY <1>3 DEF Split
  <2> QED BY <2>5, <2>6, <2>7
<1>4. CASE PutChunk(s)
  <2>1. task[s].state = "putting" /\ UNCHANGED taskOnly
    BY <1>4 DEF PutChunk
  <2>2. /\ Len(task[s].toPut) \in Nat \ {0} /\ Tail(task[s].toPut) \in Seq(Nat \ {0})
        /\ Len(Tail(task[s].toPut)) = Len(task[s].toPut) - 1
    BY <2>1, NextChunkType
  <2>3. task' = [task EXCEPT ![s] = AfterPut(task[s])]
    BY <1>4 DEF PutChunk
  <2>4. /\ AfterPut(task[s]) \in Tasks
        /\ AfterPut(task[s]).state \in {"putting", "done"}
        /\ AfterPut(task[s]).state = "putting" => AfterPut(task[s]).toPut # <<>>
    BY <1>0, <2>1, <2>2, AfterPutType
  <2> QED BY <1>0, <2>1, <2>3, <2>4
<1> QED BY <1>1, <1>2, <1>3, <1>4
-------------------------------------------------------------------------------
(* The rollouter's order of feeding, submitting and collecting.            *)

RolloutOK == RolloutTypeOK /\ RolloutInv

(* Between two uses of pending and active the processor is in one of these.*)
Idle == {"check", "pausing", "drain", "parked", "woken", "get"}

(* Steps that pause, resume, wait and go on.                               *)
LEMMA FlagShape ==
    ASSUME RolloutTypeOK,
           \/ ProcessorGoesOn \/ ProcessorDecidesToPause \/ ProcessorPauses
           \/ ProcessorWaits \/ ProcessorParks
           \/ MonitorDecides \/ MonitorResumes \/ ResetBegins \/ ResetReturns
    PROVE  /\ UNCHANGED <<fed, feeder, pending, current, active, task, rollout>>
           /\ proc' = proc \/ (proc \in Idle /\ proc' \in Idle)
           /\ RolloutTypeOK'
<1>1. CASE ProcessorGoesOn \/ ProcessorDecidesToPause \/ ProcessorPauses \/ ProcessorWaits
  BY <1>1 DEF ProcessorGoesOn, ProcessorDecidesToPause, ProcessorPauses, ProcessorWaits,
              Idle, RolloutTypeOK
<1>2. CASE ProcessorParks
  BY <1>2 DEF ProcessorParks, Idle, RolloutTypeOK
<1>3. CASE MonitorDecides \/ MonitorResumes
  BY <1>3 DEF MonitorDecides, MonitorResumes, NotifyProcessor, Idle, RolloutTypeOK
<1>4. CASE ResetBegins \/ ResetReturns
  BY <1>4 DEF ResetBegins, ResetReturns, NotifyProcessor, Idle, RolloutTypeOK
<1> QED BY <1>1, <1>2, <1>3, <1>4

LEMMA FlagInv ==
    ASSUME RolloutOK, UNCHANGED <<fed, feeder, pending, current, active, task, rollout>>,
           proc' = proc \/ (proc \in Idle /\ proc' \in Idle)
    PROVE  RolloutInv'
<1>0. PuttersHaveChunks /\ FedInOrder /\ NoneLost /\ TasksCollected
  BY DEF RolloutOK, RolloutInv
<1>1. PuttersHaveChunks'
  BY <1>0 DEF PuttersHaveChunks
<1>2. FedInOrder'
  BY <1>0 DEF FedInOrder, Fresh, Idle
<1>3. NoneLost'
  BY <1>0 DEF NoneLost, Fresh, Pending, Idle
<1>4. TasksCollected'
  BY <1>0 DEF TasksCollected, Fresh, Idle
<1> QED BY <1>1, <1>2, <1>3, <1>4 DEF RolloutInv

(* pending with one more.                                                  *)
LEMMA PendingLonger ==
    ASSUME RolloutTypeOK, NEW e \in RolloutSamples \cup {End}, pending' = Append(pending, e)
    PROVE  /\ pending' \in Seq(RolloutSamples \cup {End})
           /\ Len(pending) \in Nat /\ Len(pending') = Len(pending) + 1
           /\ pending'[Len(pending) + 1] = e
           /\ \A i \in 1..Len(pending) :
                 pending'[i] = pending[i] /\ i \in 1..Len(pending') /\ i # Len(pending) + 1
           /\ \A i \in 1..Len(pending') : i \in 1..Len(pending) \/ i = Len(pending) + 1
<1>1. pending \in Seq(RolloutSamples \cup {End})
  BY DEF RolloutTypeOK
<1> QED BY <1>1

LEMMA FeedInv ==
    ASSUME RolloutOK, Feed
    PROVE  RolloutOK'
<1>0. /\ RolloutTypeOK /\ PuttersHaveChunks /\ FedInOrder /\ NoneLost /\ TasksCollected
      /\ TotalRolloutSteps \in Nat
  BY ChannelsAssumption DEF RolloutOK, RolloutInv
<1>1. /\ feeder = "feeding" /\ fed < TotalRolloutSteps /\ fed \in Nat
      /\ pending' = Append(pending, fed + 1) /\ fed' = fed + 1
      /\ feeder' = IF fed + 1 >= TotalRolloutSteps THEN "ending" ELSE "feeding"
      /\ UNCHANGED <<proc, current, active, task, lock, paused, monitor, rollout>>
  BY <1>0 DEF Feed, FedInOrder, RolloutTypeOK
<1>2. fed + 1 \in RolloutSamples /\ Fresh(fed + 1) /\ fed + 1 # End
  BY <1>0, <1>1 DEF RolloutSamples, FedInOrder, End
<1>3. /\ pending' \in Seq(RolloutSamples \cup {End})
      /\ Len(pending) \in Nat /\ Len(pending') = Len(pending) + 1
      /\ pending'[Len(pending) + 1] = fed + 1
      /\ \A i \in 1..Len(pending) :
            pending'[i] = pending[i] /\ i \in 1..Len(pending') /\ i # Len(pending) + 1
      /\ \A i \in 1..Len(pending') : i \in 1..Len(pending) \/ i = Len(pending) + 1
  BY <1>0, <1>1, <1>2, PendingLonger
<1>4. RolloutTypeOK'
  BY <1>0, <1>1, <1>3 DEF RolloutTypeOK
<1>5. PuttersHaveChunks' /\ TasksCollected'
  BY <1>0, <1>1 DEF PuttersHaveChunks, TasksCollected, Fresh
<1>6. \A i \in 1..Len(pending) : pending[i] \in RolloutSamples /\ pending[i] <= fed
  <2>1. \A i \in 1..Len(pending) : pending[i] # End
    BY <1>0, <1>1 DEF NoneLost
  <2>2. \A i \in 1..Len(pending) : pending[i] \in RolloutSamples \cup {End}
    BY <1>0 DEF RolloutTypeOK
  <2> QED BY <1>0, <2>1, <2>2 DEF FedInOrder
<1>7. FedInOrder'
  <2>1. /\ feeder' = "feeding" => fed' < TotalRolloutSteps
        /\ feeder' = "ending" => fed' = TotalRolloutSteps
    BY <1>0, <1>1
  <2>2. \A s \in RolloutSamples : s > fed' => Fresh(s)'
    BY <1>0, <1>1 DEF FedInOrder, Fresh, RolloutSamples
  <2>3. current # fed + 1
    BY <1>0, <1>1, <1>2 DEF FedInOrder
  <2>4. ASSUME NEW i \in 1..Len(pending'), pending'[i] # End
        PROVE  (pending[i] <= fed /\ Fresh(pending[i]) /\ pending[i] # current)'
    <3>1. CASE i \in 1..Len(pending)
      <4>1. pending[i] <= fed /\ Fresh(pending[i]) /\ pending[i] # current /\ pending[i] \in Nat
        BY <1>0, <1>3, <1>6, <2>4, <3>1 DEF FedInOrder, RolloutSamples
      <4> QED BY <1>1, <1>3, <3>1, <4>1 DEF Fresh
    <3>2. CASE i = Len(pending) + 1
      BY <1>1, <1>2, <1>3, <2>3, <3>2 DEF Fresh
    <3> QED BY <1>3, <3>1, <3>2
  <2>5. ASSUME NEW i \in 1..Len(pending'), NEW k \in 1..Len(pending'), pending'[i] = pending'[k]
        PROVE  i = k
    <3>1. \A j \in 1..Len(pending) : pending'[j] = pending[j] /\ pending[j] # fed + 1
      BY <1>1, <1>3, <1>6 DEF RolloutSamples
    <3>2. CASE i \in 1..Len(pending) /\ k \in 1..Len(pending)
      BY <1>0, <2>5, <3>1, <3>2 DEF FedInOrder
    <3> QED BY <1>3, <2>5, <3>1, <3>2
  <2>6. /\ proc' = "slot" => current' # End
        /\ (current # End => proc \in {"slot", "failed"} /\ current <= fed /\ Fresh(current))'
    <3>1. ASSUME current # End PROVE current <= fed + 1
      BY <1>0, <1>1, <3>1 DEF FedInOrder, RolloutTypeOK, RolloutSamples
    <3> QED BY <1>0, <1>1, <3>1 DEF FedInOrder, Fresh
  <2> QED BY <2>1, <2>2, <2>4, <2>5, <2>6 DEF FedInOrder
<1>8. NoneLost'
  <2>1. ASSUME NEW s \in RolloutSamples, s <= fed', Fresh(s)' PROVE Pending(s)' \/ current' = s
    <3>1. CASE s <= fed
      <4>1. Pending(s) \/ current = s
        BY <1>0, <1>1, <2>1, <3>1 DEF NoneLost, Fresh
      <4> QED BY <1>1, <1>3, <4>1 DEF Pending
    <3>2. CASE s = fed + 1
      <4>1. Len(pending) + 1 \in 1..Len(pending')
        BY <1>3
      <4> QED BY <1>3, <3>2, <4>1 DEF Pending
    <3> QED BY <1>1, <2>1, <3>1, <3>2 DEF RolloutSamples
  <2>2. ASSUME NEW i \in 1..Len(pending') PROVE pending'[i] # End
    BY <1>2, <1>3, <1>6 DEF RolloutSamples, End
  <2>3. proc' \notin {"finish", "done"}
    BY <1>0, <1>1 DEF NoneLost
  <2> QED BY <2>1, <2>2, <2>3 DEF NoneLost
<1> QED BY <1>4, <1>5, <1>7, <1>8 DEF RolloutOK, RolloutInv

LEMMA FeedEndInv ==
    ASSUME RolloutOK, FeedEnd
    PROVE  RolloutOK'
<1>0. RolloutTypeOK /\ PuttersHaveChunks /\ FedInOrder /\ NoneLost /\ TasksCollected
  BY DEF RolloutOK, RolloutInv
<1>1. /\ feeder = "ending" /\ fed = TotalRolloutSteps
      /\ pending' = Append(pending, End) /\ feeder' = "done"
      /\ UNCHANGED <<fed, proc, current, active, task, lock, paused, monitor, rollout>>
  BY <1>0 DEF FeedEnd, FedInOrder
<1>2. /\ pending' \in Seq(RolloutSamples \cup {End})
      /\ Len(pending) \in Nat /\ Len(pending') = Len(pending) + 1
      /\ pending'[Len(pending) + 1] = End
      /\ \A i \in 1..Len(pending) :
            pending'[i] = pending[i] /\ i \in 1..Len(pending') /\ i # Len(pending) + 1
      /\ \A i \in 1..Len(pending') : i \in 1..Len(pending) \/ i = Len(pending) + 1
  BY <1>0, <1>1, PendingLonger
<1>3. \A i \in 1..Len(pending) : pending[i] # End
  BY <1>0, <1>1 DEF NoneLost
<1>4. RolloutTypeOK'
  BY <1>0, <1>1, <1>2 DEF RolloutTypeOK
<1>5. PuttersHaveChunks' /\ TasksCollected'
  BY <1>0, <1>1 DEF PuttersHaveChunks, TasksCollected, Fresh
<1>6. FedInOrder'
  <2>1. ASSUME NEW i \in 1..Len(pending'), pending'[i] # End
        PROVE  (pending[i] <= fed /\ Fresh(pending[i]) /\ pending[i] # current)'
    BY <1>0, <1>1, <1>2, <2>1 DEF FedInOrder, Fresh
  <2>2. ASSUME NEW i \in 1..Len(pending'), NEW k \in 1..Len(pending'), pending'[i] = pending'[k]
        PROVE  i = k
    <3>1. CASE i \in 1..Len(pending) /\ k \in 1..Len(pending)
      BY <1>0, <1>2, <2>2, <3>1 DEF FedInOrder
    <3> QED BY <1>2, <1>3, <2>2, <3>1
  <2> QED BY <1>0, <1>1, <2>1, <2>2 DEF FedInOrder, Fresh
<1>7. NoneLost'
  <2>1. ASSUME NEW s \in RolloutSamples, s <= fed', Fresh(s)' PROVE Pending(s)' \/ current' = s
    BY <1>0, <1>1, <1>2, <2>1 DEF NoneLost, Fresh, Pending
  <2>2. ASSUME NEW i \in 1..Len(pending'), pending'[i] = End PROVE i = Len(pending')
    BY <1>2, <1>3, <2>2
  <2>3. proc' \notin {"finish", "done"}
    BY <1>0, <1>1 DEF NoneLost
  <2> QED BY <1>1, <2>1, <2>2, <2>3 DEF NoneLost
<1> QED BY <1>4, <1>5, <1>6, <1>7 DEF RolloutOK, RolloutInv

LEMMA CollectsInv ==
    ASSUME RolloutOK, ProcessorCollects
    PROVE  RolloutOK'
<1>0. RolloutTypeOK /\ PuttersHaveChunks /\ FedInOrder /\ NoneLost /\ TasksCollected
  BY DEF RolloutOK, RolloutInv
<1> DEFINE done == {s \in active : Finished(s)}
<1>1. /\ done # {} /\ active' = active \ done
      /\ proc' = (IF Raises(done) THEN "failed" ELSE proc) /\ lock' = "free"
      /\ UNCHANGED <<fed, feeder, pending, current, task, paused, monitor, rollout>>
  BY DEF ProcessorCollects
<1>2. RolloutTypeOK'
  BY <1>0, <1>1 DEF RolloutTypeOK
<1>3. PuttersHaveChunks'
  BY <1>0, <1>1 DEF PuttersHaveChunks
<1>4. FedInOrder'
  BY <1>0, <1>1 DEF FedInOrder, Fresh
<1>5. NoneLost'
  BY <1>0, <1>1 DEF NoneLost, Fresh, Pending
<1>6. TasksCollected'
  <2>1. active # {}
    BY <1>1
  <2>2. proc # "done" /\ rollout # "finished"
    BY <1>0, <2>1 DEF TasksCollected
  <2>3. ASSUME NEW s \in RolloutSamples
        PROVE  (Fresh(s) \/ s \in active \/ task[s].state = "done" \/ proc = "failed")'
    <3>1. CASE s \in done /\ task[s].state = "crashed"
      BY <1>1, <3>1 DEF Raises
    <3>2. CASE s \in done /\ task[s].state # "crashed"
      BY <1>1, <3>2 DEF Finished
    <3>3. CASE s \notin done
      BY <1>0, <1>1, <3>3 DEF TasksCollected, Fresh
    <3> QED BY <3>1, <3>2, <3>3
  <2> QED BY <1>1, <2>2, <2>3 DEF TasksCollected
<1> QED BY <1>2, <1>3, <1>4, <1>5, <1>6 DEF RolloutOK, RolloutInv

LEMMA GetsInv ==
    ASSUME RolloutOK, ProcessorGets
    PROVE  RolloutOK'
<1>0. RolloutTypeOK /\ PuttersHaveChunks /\ FedInOrder /\ NoneLost /\ TasksCollected
  BY DEF RolloutOK, RolloutInv
<1>1. /\ proc = "get" /\ pending # <<>> /\ pending' = Tail(pending)
      /\ current' = Head(pending)
      /\ proc' = (IF Head(pending) = End THEN "finish" ELSE "slot")
      /\ UNCHANGED <<fed, feeder, active, task, lock, paused, monitor, rollout>>
  BY DEF ProcessorGets
<1>2. pending \in Seq(RolloutSamples \cup {End})
  BY <1>0 DEF RolloutTypeOK
<1>3. /\ Len(pending) \in Nat /\ 1 \in 1..Len(pending) /\ Head(pending) = pending[1]
      /\ pending[1] \in RolloutSamples \cup {End}
      /\ pending' \in Seq(RolloutSamples \cup {End}) /\ Len(pending') = Len(pending) - 1
      /\ \A i \in 1..Len(pending) - 1 : pending'[i] = pending[i + 1] /\ i + 1 \in 1..Len(pending)
  BY <1>1, <1>2
<1>4. current = End
  BY <1>0, <1>1 DEF FedInOrder
<1>5. RolloutTypeOK'
  BY <1>0, <1>1, <1>3 DEF RolloutTypeOK
<1>6. PuttersHaveChunks' /\ TasksCollected'
  <2>1. PuttersHaveChunks'
    BY <1>0, <1>1 DEF PuttersHaveChunks
  <2>2. TasksCollected'
    BY <1>0, <1>1 DEF TasksCollected, Fresh
  <2> QED BY <2>1, <2>2
<1>7. FedInOrder'
  <2>1. ASSUME NEW i \in 1..Len(pending')
        PROVE  /\ i \in 1..Len(pending) - 1 /\ pending'[i] = pending[i + 1]
               /\ i + 1 \in 1..Len(pending) /\ pending[i + 1] # pending[1]
    <3>1. i \in 1..Len(pending) - 1 /\ i + 1 # 1
      BY <1>3
    <3> QED BY <1>0, <1>3, <3>1 DEF FedInOrder
  <2>2. ASSUME NEW i \in 1..Len(pending'), pending'[i] # End
        PROVE  (pending[i] <= fed /\ Fresh(pending[i]) /\ pending[i] # current)'
    BY <1>0, <1>1, <1>3, <2>1, <2>2 DEF FedInOrder, Fresh
  <2>3. ASSUME NEW i \in 1..Len(pending'), NEW k \in 1..Len(pending'), pending'[i] = pending'[k]
        PROVE  i = k
    <3>1. i + 1 = k + 1
      BY <1>0, <2>1, <2>3 DEF FedInOrder
    <3>2. i \in Int /\ k \in Int
      OBVIOUS
    <3> QED BY <3>1, <3>2
  <2>4. (current # End => proc \in {"slot", "failed"} /\ current <= fed /\ Fresh(current))'
    BY <1>0, <1>1, <1>3 DEF FedInOrder, Fresh
  <2>5. (proc = "slot" => current # End)'
    BY <1>1
  <2> QED BY <1>0, <1>1, <2>2, <2>3, <2>4, <2>5 DEF FedInOrder, Fresh
<1>8. NoneLost'
  <2>1. ASSUME NEW s \in RolloutSamples, s <= fed, Fresh(s) PROVE (Pending(s) \/ current = s)'
    <3>1. s # End
      BY DEF RolloutSamples, End
    <3>2. PICK i \in 1..Len(pending) : pending[i] = s
      BY <1>0, <1>4, <2>1, <3>1 DEF NoneLost, Pending
    <3>3. CASE i = 1
      BY <1>1, <1>3, <3>2, <3>3
    <3>4. CASE i # 1
      <4>1. i - 1 \in 1..Len(pending) - 1 /\ (i - 1) + 1 = i
        BY <1>3, <3>4
      <4>2. pending'[i - 1] = s /\ i - 1 \in 1..Len(pending')
        BY <1>3, <3>2, <4>1
      <4> QED BY <4>2 DEF Pending
    <3> QED BY <3>3, <3>4
  <2>2. ASSUME NEW i \in 1..Len(pending'), (pending[i] = End)'
        PROVE  (i = Len(pending) /\ feeder = "done" /\ fed = TotalRolloutSteps)'
    <3>1. i \in 1..Len(pending) - 1 /\ i + 1 \in 1..Len(pending) /\ pending[i + 1] = End
      BY <1>3, <2>2
    <3>2. i + 1 = Len(pending) /\ feeder = "done" /\ fed = TotalRolloutSteps
      BY <1>0, <3>1 DEF NoneLost
    <3>3. Len(pending') = Len(pending) - 1 /\ i \in Int
      BY <1>3
    <3>4. i = Len(pending')
      BY <3>2, <3>3
    <3> QED BY <1>1, <3>2, <3>4
  <2>3. ASSUME Head(pending) = End
        PROVE  (pending = <<>> /\ feeder = "done" /\ fed = TotalRolloutSteps)'
    <3>1. Len(pending) = 1 /\ feeder = "done" /\ fed = TotalRolloutSteps
      BY <1>0, <1>3, <2>3 DEF NoneLost
    <3>2. Len(pending') = 0
      <4>1. Len(pending') = Len(pending) - 1
        BY <1>3
      <4> QED BY <3>1, <4>1
    <3> QED BY <1>1, <1>3, <3>1, <3>2, EmptySeq
  <2> QED BY <1>1, <2>1, <2>2, <2>3 DEF NoneLost, Fresh
<1> QED BY <1>5, <1>6, <1>7, <1>8 DEF RolloutOK, RolloutInv

LEMMA SubmitsInv ==
    ASSUME RolloutOK, ProcessorSubmits
    PROVE  RolloutOK'
<1>0. RolloutTypeOK /\ PuttersHaveChunks /\ FedInOrder /\ NoneLost /\ TasksCollected
  BY DEF RolloutOK, RolloutInv
<1>1. /\ proc = "slot" /\ active' = active \cup {current}
      /\ task' = [task EXCEPT ![current] = [@ EXCEPT !.state = "generating"]]
      /\ current' = End /\ proc' = "check"
      /\ UNCHANGED <<fed, feeder, pending, lock, paused, monitor, rollout>>
  BY DEF ProcessorSubmits, End
<1>2. current \in RolloutSamples /\ current <= fed /\ Fresh(current) /\ current # End
  BY <1>0, <1>1 DEF FedInOrder, RolloutTypeOK
<1>3. /\ task' \in [RolloutSamples -> Tasks] /\ task'[current].state = "generating"
      /\ \A s \in RolloutSamples \ {current} : task'[s] = task[s]
  BY <1>0, <1>1, <1>2 DEF RolloutTypeOK, Tasks
<1>4. RolloutTypeOK'
  BY <1>0, <1>1, <1>2, <1>3 DEF RolloutTypeOK
<1>5. PuttersHaveChunks'
  BY <1>0, <1>3 DEF PuttersHaveChunks
<1>6. \A i \in 1..Len(pending) : pending[i] # End => pending[i] \in RolloutSamples \ {current}
  BY <1>0 DEF RolloutTypeOK, FedInOrder
<1>7. FedInOrder'
  <2>1. \A s \in RolloutSamples : s > fed => s # current
    BY <1>0, <1>2 DEF RolloutSamples, RolloutTypeOK
  <2>2. \A s \in RolloutSamples : s > fed' => Fresh(s)'
    BY <1>0, <1>1, <1>3, <2>1 DEF FedInOrder, Fresh
  <2>3. ASSUME NEW i \in 1..Len(pending'), pending'[i] # End
        PROVE  (pending[i] <= fed /\ Fresh(pending[i]) /\ pending[i] # current)'
    BY <1>0, <1>1, <1>3, <1>6, <2>3 DEF FedInOrder, Fresh
  <2> QED BY <1>0, <1>1, <2>2, <2>3 DEF FedInOrder
<1>8. NoneLost'
  BY <1>0, <1>1, <1>3 DEF NoneLost, Fresh, Pending
<1>9. TasksCollected'
  <2>1. proc # "done" /\ rollout # "finished" /\ proc # "failed"
    BY <1>0, <1>1 DEF TasksCollected
  <2> QED BY <1>0, <1>1, <1>3, <2>1 DEF TasksCollected, Fresh
<1> QED BY <1>4, <1>5, <1>7, <1>8, <1>9 DEF RolloutOK, RolloutInv

LEMMA EndsInv ==
    ASSUME RolloutOK,
           ProcessorEnds \/ RolloutFinishes \/ RolloutFails
    PROVE  RolloutOK'
<1>0. RolloutTypeOK /\ PuttersHaveChunks /\ FedInOrder /\ NoneLost /\ TasksCollected
  BY DEF RolloutOK, RolloutInv
<1>1. /\ UNCHANGED <<fed, pending, current, active, task, lock, paused, monitor>>
      /\ \/ /\ proc = "finish" /\ active = {} /\ proc' = "done"
            /\ UNCHANGED <<feeder, rollout>>
         \/ /\ proc = "done" /\ proc' = proc /\ rollout' = "finished"
            /\ UNCHANGED feeder
         \/ /\ proc = "failed" /\ proc' = proc /\ rollout' = "failed"
            /\ feeder' = "done"
  BY DEF ProcessorEnds, RolloutFinishes, RolloutFails
<1>2. RolloutTypeOK'
  BY <1>0, <1>1 DEF RolloutTypeOK
<1>3. PuttersHaveChunks'
  BY <1>0, <1>1 DEF PuttersHaveChunks
<1>4. FedInOrder'
  BY <1>0, <1>1 DEF FedInOrder, Fresh
<1>5. NoneLost'
  BY <1>0, <1>1 DEF NoneLost, Fresh, Pending
<1>6. TasksCollected'
  BY <1>0, <1>1 DEF TasksCollected, Fresh
<1> QED BY <1>2, <1>3, <1>4, <1>5, <1>6 DEF RolloutOK, RolloutInv

LEMMA TaskInv ==
    ASSUME RolloutOK, NEW s \in RolloutSamples, serverVersion \in Nat,
           \/ Generate(s) \/ Fail(s) \/ PutChunk(s)
           \/ \E chunks \in Outcomes : Split(s, chunks)
    PROVE  RolloutOK'
<1>0. RolloutTypeOK /\ PuttersHaveChunks /\ FedInOrder /\ NoneLost /\ TasksCollected
  BY DEF RolloutOK, RolloutInv
<1>1. /\ UNCHANGED taskOnly
      /\ task' \in [RolloutSamples -> Tasks]
      /\ \A q \in RolloutSamples \ {s} : task'[q] = task[q]
      /\ task[s].state \in {"generating", "generated", "putting"}
      /\ task'[s].state \in {"generated", "putting", "done", "crashed"}
      /\ task'[s].state = "putting" => task'[s].toPut # <<>>
  BY <1>0, TaskSteps
<1>2. RolloutTypeOK'
  BY <1>0, <1>1 DEF RolloutTypeOK, taskOnly
<1>3. PuttersHaveChunks'
  BY <1>0, <1>1 DEF PuttersHaveChunks
<1>4. \A q \in RolloutSamples : Fresh(q)' <=> Fresh(q)
  BY <1>1 DEF Fresh
<1>5. FedInOrder'
  <2>1. \A i \in 1..Len(pending) : pending[i] # End => pending[i] \in RolloutSamples
    BY <1>0 DEF RolloutTypeOK
  <2>2. current # End => current \in RolloutSamples
    BY <1>0 DEF RolloutTypeOK
  <2> QED BY <1>0, <1>1, <1>4, <2>1, <2>2 DEF FedInOrder, Fresh, taskOnly
<1>6. NoneLost'
  BY <1>0, <1>1, <1>4 DEF NoneLost, Pending, taskOnly
<1>7. TasksCollected'
  BY <1>0, <1>1, <1>4 DEF TasksCollected, taskOnly, Fresh
<1> QED BY <1>2, <1>3, <1>5, <1>6, <1>7 DEF RolloutOK, RolloutInv

LEMMA RolloutNextInv ==
    ASSUME RolloutOK, serverVersion \in Nat,
           RolloutQuiet \/ RolloutPuts \/ UNCHANGED rolloutVars
    PROVE  RolloutOK'
<1>0. RolloutTypeOK
  BY DEF RolloutOK
<1>1. CASE \/ ProcessorGoesOn \/ ProcessorDecidesToPause \/ ProcessorPauses
           \/ ProcessorWaits \/ ProcessorParks
           \/ MonitorDecides \/ MonitorResumes \/ ResetBegins \/ ResetReturns
  BY <1>0, <1>1, FlagShape, FlagInv DEF RolloutOK
<1>2. CASE Processor
  BY <1>1, <1>2, CollectsInv, GetsInv, SubmitsInv, EndsInv DEF Processor
<1>3. CASE RolloutPuts
  BY <1>3, TaskInv, EndsInv DEF RolloutPuts
<1>4. CASE UNCHANGED rolloutVars
  <2>1. UNCHANGED <<fed, feeder, pending, current, active, task, rollout, proc, lock, paused, monitor>>
    BY <1>4 DEF rolloutVars
  <2>2. RolloutTypeOK'
    BY <1>0, <2>1 DEF RolloutTypeOK
  <2>3. RolloutInv'
    BY <2>1, FlagInv
  <2> QED BY <2>2, <2>3 DEF RolloutOK
<1> QED BY <1>1, <1>2, <1>3, <1>4, FeedInv, FeedEndInv, TaskInv DEF RolloutQuiet
-------------------------------------------------------------------------------
(* The trainer.                                                            *)

(* What one call of get_sample and what is done with its value come to.    *)
TakesFirst ==
    /\ Len(queue) \in Nat \ {0} /\ 1 \in 1..Len(queue)
    /\ consumed'.samples = consumed.samples + 1
    /\ Len(queue') = Len(queue) - 1
    /\ \A i \in 1..Len(queue) - 1 : queue'[i] = queue[i + 1]

Asleep == UNCHANGED <<queue, consumed, trainer, batch, collectedPoints, fate>>

TakesSignal ==
    /\ queue[1].item = NoItem
    /\ trainer' = "stopping" /\ batch' = {} /\ collectedPoints' = 0
    /\ fate'.partial = fate.partial \cup batch
    /\ fate'.trained = fate.trained /\ fate'.stale = fate.stale /\ fate'.overflow = fate.overflow

TakesChunk(chunk) ==
    /\ chunk \in Chunks /\ queue[1].item = chunk
    /\ fate'.trained = fate.trained /\ fate'.partial = fate.partial
    /\ \/ /\ fate'.stale = fate.stale \cup {chunk} /\ fate'.overflow = fate.overflow
          /\ UNCHANGED <<trainer, batch, collectedPoints>>
       \/ /\ fate'.stale = fate.stale /\ fate'.overflow = fate.overflow \cup {chunk}
          /\ UNCHANGED <<trainer, batch, collectedPoints>>
       \/ /\ fate'.stale = fate.stale /\ fate'.overflow = fate.overflow
          /\ batch' = batch \cup {chunk} /\ trainer' \in {"collect", "train"}
          /\ MaxStaleness >= 0 => version - chunk.version <= MaxStaleness

LEMMA FateFields ==
    ASSUME TrainerTypeOK
    PROVE  /\ fate.trained \in SUBSET Chunks /\ fate.stale \in SUBSET Chunks
           /\ fate.overflow \in SUBSET Chunks /\ fate.partial \in SUBSET Chunks
BY DEF TrainerTypeOK, Fates

LEMMA CollectShape ==
    ASSUME TypeOK, QueueOpen, Collect
    PROVE  /\ QueueTypeOK' /\ QueueOpen' /\ TrainerTypeOK'
           /\ trainer = "collect" /\ UNCHANGED <<localStep, version, lastSync>>
           /\ \/ Asleep
              \/ TakesFirst /\ (TakesSignal \/ \E chunk \in Chunks : TakesChunk(chunk))
<1>0. QueueTypeOK /\ TrainerTypeOK /\ fate \in Fates
  BY DEF TypeOK, TrainerTypeOK
<1>1. /\ QueueTypeOK' /\ QueueOpen'
      /\ \/ /\ consumer'[TheTrainer] = "waiting"
            /\ UNCHANGED <<queue, consumed>>
         \/ /\ consumer'[TheTrainer] # "waiting"
            /\ TakesFirst
            /\ received'[TheTrainer] = queue[1].item
            /\ received'[TheTrainer] \in Chunks \cup {NoItem}
  BY <1>0, GetShape DEF Collect, TakesFirst
<1>2. trainer = "collect" /\ UNCHANGED <<localStep, version, lastSync>>
  BY DEF Collect
<1>3. CASE consumer'[TheTrainer] = "waiting"
  <2>1. Asleep
    BY <1>1, <1>3 DEF Collect, Asleep
  <2>2. TrainerTypeOK'
    BY <1>0, <1>2, <2>1 DEF TrainerTypeOK, Asleep
  <2> QED BY <1>1, <1>2, <2>1, <2>2
<1>4. CASE consumer'[TheTrainer] # "waiting"
  <2> DEFINE item == queue[1].item
  <2>1. TakesFirst /\ item \in Chunks \cup {NoItem}
    BY <1>1, <1>4
  <2>2. \/ StopsCollecting(item) \/ DropsStale(item) \/ DropsOverflow(item) \/ Keeps(item)
    BY <1>1, <1>4 DEF Collect
  <2>3. CASE StopsCollecting(item)
    <3>1. TakesSignal /\ fate' \in Fates
      BY <1>0, <2>3 DEF StopsCollecting, EmptiesBatch, TakesSignal, Fates, TrainerTypeOK
    <3>2. TrainerTypeOK'
      BY <1>0, <1>2, <3>1 DEF TrainerTypeOK, TakesSignal
    <3> QED BY <1>1, <1>2, <2>1, <3>1, <3>2
  <2>4. CASE DropsStale(item)
    <3>1. item \in Chunks
      BY <2>1, <2>4 DEF DropsStale
    <3>2. TakesChunk(item) /\ fate' \in Fates
      BY <1>0, <2>4, <3>1 DEF DropsStale, TakesChunk, Fates
    <3>3. TrainerTypeOK'
      BY <1>0, <1>2, <2>4, <3>2 DEF TrainerTypeOK, DropsStale
    <3> QED BY <1>1, <1>2, <2>1, <3>1, <3>2, <3>3
  <2>5. CASE DropsOverflow(item)
    <3>1. item \in Chunks
      BY <2>1, <2>5 DEF DropsOverflow
    <3>2. TakesChunk(item) /\ fate' \in Fates
      BY <1>0, <2>5, <3>1 DEF DropsOverflow, TakesChunk, Fates
    <3>3. TrainerTypeOK'
      BY <1>0, <1>2, <2>5, <3>2 DEF TrainerTypeOK, DropsOverflow
    <3> QED BY <1>1, <1>2, <2>1, <3>1, <3>2, <3>3
  <2>6. CASE Keeps(item)
    <3>1. item \in Chunks /\ item.points \in Nat /\ item.version \in Nat
      BY <2>1, <2>6 DEF Keeps, Chunks
    <3>2. MaxStaleness >= 0 => version - item.version <= MaxStaleness
      BY <1>0, <2>6, <3>1, TrainerAssumption DEF Keeps, TooStale, TrainerTypeOK
    <3>3. /\ batch' = batch \cup {item} /\ collectedPoints' = collectedPoints + item.points
          /\ trainer' \in {"collect", "train"} /\ UNCHANGED fate
      BY <2>6 DEF Keeps
    <3>4. TakesChunk(item)
      BY <3>1, <3>2, <3>3 DEF TakesChunk
    <3>5. TrainerTypeOK'
      BY <1>0, <1>2, <3>1, <3>3 DEF TrainerTypeOK
    <3> QED BY <1>1, <1>2, <2>1, <3>1, <3>4, <3>5
  <2> QED BY <2>2, <2>3, <2>4, <2>5, <2>6
<1> QED BY <1>3, <1>4

(* The other steps of the trainer take nothing; one of them trains.        *)
Trains ==
    /\ trainer = "train" /\ trainer' \in {"sync", "collect"} /\ batch' = {}
    /\ fate'.trained = fate.trained \cup batch
    /\ fate'.stale = fate.stale /\ fate'.overflow = fate.overflow /\ fate'.partial = fate.partial
    /\ UNCHANGED lastSync

LEMMA TrainerQuietShape ==
    ASSUME TrainerTypeOK, LastSyncEnds, TrainerQuiet
    PROVE  /\ TrainerTypeOK' /\ LastSyncEnds'
           /\ Stopped' <=> Stopped
           /\ Trains \/ UNCHANGED <<batch, version, fate>>
<1>0. localStep \in Nat /\ TriggerSync \in Nat \ {0} /\ fate \in Fates
  BY ChannelsAssumption DEF TrainerTypeOK
<1>1. CASE Train
  <2>1. /\ trainer = "train" /\ fate' = [fate EXCEPT !.trained = @ \cup batch]
        /\ collectedPoints' = 0 /\ batch' = {}
        /\ localStep' = (IF LastLocalStep THEN 1 ELSE localStep + 1)
        /\ version' = NextVersion /\ trainer' = (IF LastLocalStep THEN "sync" ELSE "collect")
        /\ UNCHANGED lastSync
    BY <1>1 DEF Train, EmptiesBatch
  <2>2. localStep' \in 1..TriggerSync
    BY <1>0, <2>1 DEF LastLocalStep, TrainerTypeOK
  <2>3. version' \in Nat
    BY <2>1 DEF NextVersion, TrainerTypeOK
  <2>4. fate' \in Fates /\ Trains
    BY <1>0, <2>1 DEF Trains, Fates, TrainerTypeOK
  <2>5. TrainerTypeOK'
    BY <2>1, <2>2, <2>3, <2>4 DEF TrainerTypeOK
  <2>6. LastSyncEnds' /\ (Stopped' <=> Stopped)
    BY <2>1 DEF LastSyncEnds, Stopped
  <2> QED BY <2>4, <2>5, <2>6
<1>2. CASE SyncBegins \/ SyncEnds \/ ResetAnswered
  BY <1>2 DEF SyncBegins, SyncEnds, ResetAnswered, AfterReset, TrainerTypeOK, LastSyncEnds, Stopped
<1>3. CASE Stop
  BY <1>3 DEF Stop, TrainerTypeOK, LastSyncEnds, Stopped
<1>4. CASE TrainerRaises
  BY <1>4 DEF TrainerRaises, TrainerTypeOK, LastSyncEnds, Stopped
<1> QED BY <1>1, <1>2, <1>3, <1>4 DEF TrainerQuiet

LEMMA ChannelTypes ==
    ASSUME TypeOK, [Next]_vars
    PROVE  /\ serverVersion' \in Nat
           /\ syncing' \in BOOLEAN
           /\ resetCall' \in {"none", "called", "counting", "returned"}
           /\ main' \in {"running", "done", "failed"}
<1>0. /\ serverVersion \in Nat /\ version \in Nat /\ syncing \in BOOLEAN
      /\ resetCall \in {"none", "called", "counting", "returned"}
      /\ main \in {"running", "done", "failed"}
  BY DEF TypeOK, TrainerTypeOK
<1>1. CASE \/ UNCHANGED <<channelVars, main>>
           \/ MainDone \/ MainFails
  BY <1>0, <1>1 DEF channelVars, MainDone, MainFails
<1>2. CASE ResetStep
  BY <1>0, <1>2 DEF ResetStep, Answering, ResetBegins, ResetReturns
<1>3. CASE TrainerStep \/ TrainerFails
  BY <1>0, <1>3 DEF TrainerStep, TrainerFails, Getting, Computing, Syncing, SyncBegins, SyncEnds, ResetAnswered,
                    channelVars
<1>4. CASE FeederStep \/ ProcessorStep \/ MonitorStep \/ RolloutEnds
  BY <1>1, <1>4 DEF FeederStep, ProcessorStep, MonitorStep, RolloutEnds, Alone, Putting
<1>5. ASSUME NEW s \in RolloutSamples, TaskStep(s) \/ TaskFails(s)
      PROVE  UNCHANGED <<channelVars, main>>
  BY <1>5 DEF TaskStep, TaskFails, Alone, Putting
<1>6. CASE Exited \/ UNCHANGED vars
  BY <1>1, <1>6 DEF Exited, vars
<1> QED BY <1>1, <1>2, <1>3, <1>4, <1>5, <1>6 DEF Next
-------------------------------------------------------------------------------
(* What is put, and what the rollouter's other steps leave alone.          *)

Puts(item) ==
    \E k \in 0..Len(queue) :
       /\ Len(queue') = (Len(queue) - k) + 1
       /\ queue'[(Len(queue) - k) + 1].item = item
       /\ \A i \in 1..Len(queue) - k : queue'[i] = queue[i + k]

LEMMA PutsShape ==
    ASSUME TypeOK, QueueOpen, RolloutInv, RolloutPuts
    PROVE  /\ QueueTypeOK' /\ QueueOpen' /\ consumed' = consumed
           /\ \/ \E s \in RolloutSamples : PutChunk(s) /\ Puts(NextChunk(s))
              \/ (RolloutFinishes \/ RolloutFails) /\ Puts(NoItem)
<1>0. QueueTypeOK /\ RolloutTypeOK /\ PuttersHaveChunks
  BY DEF TypeOK, RolloutInv
<1>1. ASSUME NEW s \in RolloutSamples, PutChunk(s)
      PROVE  /\ QueueTypeOK' /\ QueueOpen' /\ consumed' = consumed
             /\ PutChunk(s) /\ Puts(NextChunk(s))
  <2>1. NextChunk(s) \in Chunks /\ NextChunk(s).points \in Nat
        /\ PutSample(NextChunk(s), NextChunk(s).points)
    BY <1>0, <1>1, NextChunkType DEF PutChunk
  <2> QED BY <1>0, <1>1, <2>1, PutShape DEF Puts, QueueOpen
<1>2. CASE RolloutFinishes \/ RolloutFails
  <2>1. PutSample(NoItem, 0)
    BY <1>2 DEF RolloutFinishes, RolloutFails
  <2> QED BY <1>0, <1>2, <2>1, PutShape DEF Puts, QueueOpen
<1> QED BY <1>1, <1>2 DEF RolloutPuts

(* The entries after a put: some of those before, and the last one.        *)
LEMMA PutsEntries ==
    ASSUME QueueTypeOK, NEW item, Puts(item)
    PROVE  \E k \in 0..Len(queue) :
              /\ Len(queue) \in Nat /\ k \in Nat
              /\ Len(queue') = (Len(queue) - k) + 1
              /\ \A i \in 1..Len(queue') :
                    \/ i + k \in 1..Len(queue) /\ queue'[i] = queue[i + k]
                    \/ i = Len(queue') /\ queue'[i].item = item
<1>1. PICK k \in 0..Len(queue) :
         /\ Len(queue') = (Len(queue) - k) + 1
         /\ queue'[(Len(queue) - k) + 1].item = item
         /\ \A i \in 1..Len(queue) - k : queue'[i] = queue[i + k]
  BY DEF Puts
<1>2. Len(queue) \in Nat /\ k \in Nat /\ k <= Len(queue)
  BY DEF QueueTypeOK
<1>3. ASSUME NEW i \in 1..Len(queue')
      PROVE  \/ i + k \in 1..Len(queue) /\ queue'[i] = queue[i + k]
             \/ i = Len(queue') /\ queue'[i].item = item
  <2>1. i \in 1..Len(queue) - k \/ i = (Len(queue) - k) + 1
    BY <1>1, <1>2
  <2>2. CASE i \in 1..Len(queue) - k
    <3>1. i + k \in 1..Len(queue)
      BY <1>2, <2>2
    <3> QED BY <1>1, <2>2, <3>1
  <2>3. CASE i = (Len(queue) - k) + 1
    BY <1>1, <2>3
  <2> QED BY <2>1, <2>2, <2>3
<1> QED BY <1>1, <1>2, <1>3

LEMMA QuietRollout ==
    ASSUME RolloutOK, serverVersion \in Nat, RolloutQuiet
    PROVE  /\ rollout' = rollout
           /\ \A s \in RolloutSamples :
                 task[s].state \in {"putting", "done"} => task'[s] = task[s]
<1>0. RolloutTypeOK /\ PuttersHaveChunks /\ FedInOrder
  BY DEF RolloutOK, RolloutInv
<1>1. CASE \/ ProcessorGoesOn \/ ProcessorDecidesToPause \/ ProcessorPauses
           \/ ProcessorWaits \/ ProcessorParks
           \/ MonitorDecides \/ MonitorResumes \/ ResetBegins \/ ResetReturns
  BY <1>0, <1>1, FlagShape
<1>2. CASE Feed \/ FeedEnd \/ ProcessorCollects \/ ProcessorGets \/ ProcessorEnds
  BY <1>2 DEF Feed, FeedEnd, ProcessorCollects, ProcessorGets, ProcessorEnds
<1>3. CASE ProcessorSubmits
  <2>1. current \in RolloutSamples /\ Fresh(current)
    BY <1>0, <1>3 DEF ProcessorSubmits, FedInOrder, RolloutTypeOK
  <2>2. rollout' = rollout /\ task' = [task EXCEPT ![current] = [@ EXCEPT !.state = "generating"]]
    BY <1>3 DEF ProcessorSubmits
  <2> QED BY <1>0, <2>1, <2>2 DEF RolloutTypeOK, Fresh
<1>4. ASSUME NEW s \in RolloutSamples,
             Generate(s) \/ Fail(s) \/ \E chunks \in Outcomes : Split(s, chunks)
      PROVE  /\ rollout' = rollout
             /\ \A q \in RolloutSamples :
                   task[q].state \in {"putting", "done"} => task'[q] = task[q]
  <2>1. UNCHANGED taskOnly /\ \A q \in RolloutSamples \ {s} : task'[q] = task[q]
    BY <1>0, <1>4, TaskSteps
  <2>2. task[s].state \in {"generating", "generated"}
    BY <1>4 DEF Generate, Fail, Split
  <2> QED BY <2>1, <2>2 DEF taskOnly
<1> QED BY <1>1, <1>2, <1>3, <1>4 DEF RolloutQuiet, Processor

(* A rollouter that has finished has no task left that could put.          *)
LEMMA FinishedPutsNothing ==
    ASSUME RolloutOK, NEW s \in RolloutSamples, task[s].state = "putting"
    PROVE  rollout # "finished"
BY DEF RolloutOK, RolloutInv, TasksCollected, Fresh

LEMMA FinishedHasRunAll ==
    ASSUME RolloutOK, rollout = "finished", NEW s \in RolloutSamples
    PROVE  task[s].state = "done"
<1>1. FedInOrder /\ NoneLost /\ TasksCollected /\ proc = "done"
  BY DEF RolloutOK, RolloutInv, TasksCollected
<1>2. pending = <<>> /\ fed = TotalRolloutSteps /\ active = {} /\ current = End
  BY <1>1 DEF FedInOrder, NoneLost, TasksCollected
<1>3. s <= fed /\ s # End
  BY <1>2, ChannelsAssumption DEF RolloutSamples, End
<1>4. ~Fresh(s)
  <2>1. ~Pending(s)
    BY <1>2 DEF Pending
  <2> QED BY <1>1, <1>2, <1>3, <2>1 DEF NoneLost
<1> QED BY <1>1, <1>2, <1>4 DEF TasksCollected
-------------------------------------------------------------------------------
LEMMA SignalInv ==
    ASSUME IInv, [Next]_vars
    PROVE  SignalIsLast'
<1>0. /\ TypeOK /\ QueueOpen /\ RolloutInv /\ LastSyncEnds /\ SignalIsLast
      /\ QueueTypeOK /\ TrainerTypeOK /\ RolloutOK /\ serverVersion \in Nat
  BY DEF IInv, TypeOK, RolloutOK
<1>1. CASE RolloutQuiet /\ UNCHANGED <<mqVars, trainerVars>>
  <2>1. rollout' = rollout /\ queue' = queue /\ Stopped' = Stopped
    BY <1>0, <1>1, QuietRollout DEF mqVars, trainerVars, Stopped
  <2> QED BY <1>0, <2>1 DEF SignalIsLast
<1>2. CASE RolloutPuts /\ UNCHANGED trainerVars
  <2>0. Stopped' = Stopped
    BY <1>2 DEF trainerVars, Stopped
  <2>1. ASSUME NEW s \in RolloutSamples, PutChunk(s), Puts(NextChunk(s)) PROVE SignalIsLast'
    <3>1. task[s].state = "putting" /\ rollout' = rollout
      BY <2>1 DEF PutChunk, taskOnly
    <3>2. rollout # "finished"
      BY <1>0, <3>1, FinishedPutsNothing
    <3>3. NextChunk(s) # NoItem
      BY <1>0, <3>1, NextChunkType, NoItemAssumption DEF RolloutOK, RolloutInv
    <3>4. CASE rollout = "running"
      <4>1. ~Stopped /\ \A i \in 1..Len(queue) : queue[i].item # NoItem
        BY <1>0, <3>4 DEF SignalIsLast
      <4>2. \A i \in 1..Len(queue') : queue'[i].item # NoItem
        BY <1>0, <2>1, <3>3, <4>1, PutsEntries
      <4> QED BY <2>0, <4>1, <4>2 DEF SignalIsLast
    <3>5. CASE rollout = "failed"
      BY <3>1, <3>5 DEF SignalIsLast
    <3> QED BY <1>0, <3>2, <3>4, <3>5 DEF RolloutOK, RolloutTypeOK
  <2>2. CASE (RolloutFinishes \/ RolloutFails) /\ Puts(NoItem)
    <3>1. rollout = "running" /\ rollout' \in {"finished", "failed"}
      BY <2>2 DEF RolloutFinishes, RolloutFails
    <3>2. ~Stopped /\ \A i \in 1..Len(queue) : queue[i].item # NoItem
      BY <1>0, <3>1 DEF SignalIsLast
    <3>3. \A i \in 1..Len(queue') : queue'[i].item = NoItem => i = Len(queue')
      BY <1>0, <2>2, <3>2, PutsEntries
    <3> QED BY <2>0, <3>1, <3>2, <3>3 DEF SignalIsLast
  <2> QED BY <1>0, <1>2, <2>1, <2>2, PutsShape
<1>3. CASE Collect /\ UNCHANGED rolloutVars
  <2>0. rollout' = rollout
    BY <1>3 DEF rolloutVars
  <2>1. /\ trainer = "collect" /\ UNCHANGED lastSync /\ QueueTypeOK'
        /\ \/ Asleep
           \/ TakesFirst /\ (TakesSignal \/ \E chunk \in Chunks : TakesChunk(chunk))
    BY <1>0, <1>3, CollectShape
  <2>2. ~lastSync /\ ~lastSync' /\ ~Stopped
    BY <1>0, <2>1 DEF LastSyncEnds, Stopped
  <2>3. CASE Asleep
    BY <1>0, <2>0, <2>1, <2>3 DEF Asleep, SignalIsLast, Stopped
  <2>4. CASE TakesFirst
    <3>1. ASSUME NEW i \in 1..Len(queue')
          PROVE  i + 1 \in 1..Len(queue) /\ queue'[i] = queue[i + 1]
                 /\ (i + 1 = Len(queue) => i = Len(queue'))
      <4>1. i \in 1..Len(queue) - 1
        BY <2>4 DEF TakesFirst
      <4>2. i + 1 \in 1..Len(queue) /\ (i + 1 = Len(queue) => i = Len(queue) - 1)
        BY <2>4, <4>1 DEF TakesFirst
      <4> QED BY <2>4, <4>1, <4>2 DEF TakesFirst
    <3>2. \A i \in 1..Len(queue') : queue'[i].item = NoItem =>
             rollout' # "running" /\ (rollout' = "finished" => i = Len(queue'))
      BY <1>0, <2>0, <3>1 DEF SignalIsLast
    <3>3. CASE TakesSignal
      <4>1. rollout # "running" /\ (rollout = "finished" => 1 = Len(queue))
        BY <1>0, <2>4, <3>3 DEF SignalIsLast, TakesFirst, TakesSignal
      <4>2. ASSUME 1 = Len(queue) PROVE queue' = <<>>
        <5>1. Len(queue') = 0 /\ queue' \in Seq(Entries)
          <6>1. Len(queue') = Len(queue) - 1
            BY <2>4 DEF TakesFirst
          <6>2. queue' \in Seq(Entries)
            BY <2>1 DEF QueueTypeOK
          <6> QED BY <4>2, <6>1, <6>2
        <5> QED BY <5>1, EmptySeq
      <4> QED BY <2>0, <3>2, <4>1, <4>2 DEF SignalIsLast
    <3>4. ASSUME NEW chunk \in Chunks, TakesChunk(chunk) PROVE SignalIsLast'
      <4>1. ~Stopped'
        BY <2>1, <2>2, <3>4 DEF TakesChunk, Stopped
      <4> QED BY <3>2, <4>1 DEF SignalIsLast
    <3> QED BY <2>1, <3>3, <3>4, <2>3
  <2> QED BY <2>1, <2>3, <2>4
<1>4. CASE TrainerQuiet /\ UNCHANGED <<mqVars, rolloutVars>>
  <2>1. rollout' = rollout /\ queue' = queue /\ (Stopped' <=> Stopped)
    BY <1>0, <1>4, TrainerQuietShape DEF mqVars, rolloutVars
  <2> QED BY <1>0, <2>1 DEF SignalIsLast
<1>5. CASE ClearQueue /\ UNCHANGED <<rolloutVars, trainerVars>>
  <2>1. queue' = <<>> /\ rollout' = rollout /\ (Stopped' <=> Stopped)
    BY <1>5 DEF ClearQueue, rolloutVars, trainerVars, Stopped
  <2> QED BY <1>0, <2>1 DEF SignalIsLast
<1>6. CASE UNCHANGED <<mqVars, rolloutVars, trainerVars>>
  <2>1. queue' = queue /\ rollout' = rollout /\ (Stopped' <=> Stopped)
    BY <1>6 DEF mqVars, rolloutVars, trainerVars, Stopped
  <2> QED BY <1>0, <2>1 DEF SignalIsLast
<1> QED BY <1>1, <1>2, <1>3, <1>4, <1>5, <1>6, StepCases
-------------------------------------------------------------------------------
(* Chunks.                                                                 *)

LEMMA GotChunks ==
    ASSUME TrainerTypeOK
    PROVE  Got \in SUBSET Chunks
BY FateFields DEF Got, TrainerTypeOK

LEMMA ChunkFields ==
    ASSUME NEW c \in Chunks
    PROVE  c.sample \in RolloutSamples /\ c.part \in Nat
BY DEF Chunks

(* What was put before stays so as long as tasks only go on.               *)
LEMMA StillPutBefore ==
    ASSUME NEW c, c.sample \in RolloutSamples, PutBefore(c), task'[c.sample] = task[c.sample]
    PROVE  PutBefore(c)'
BY DEF PutBefore

LEMMA EntryChunk ==
    ASSUME QueueTypeOK, NEW i \in 1..Len(queue), queue[i].item # NoItem
    PROVE  queue[i].item \in Chunks
<1>1. queue[i] \in Entries
  BY DEF QueueTypeOK
<1> QED BY <1>1 DEF Entries

(* A step of the rollouter that puts nothing.                              *)
LEMMA ChunksQuiet ==
    ASSUME IInv, queue' = queue, Got' = Got,
           \A s \in RolloutSamples : task[s].state \in {"putting", "done"} => task'[s] = task[s]
    PROVE  ChunksPutOnce'
<1>0. ChunksPutOnce /\ QueueTypeOK /\ TrainerTypeOK
  BY DEF IInv, TypeOK
<1>1. ASSUME NEW c \in Chunks, PutBefore(c) PROVE PutBefore(c)'
  <2>1. c.sample \in RolloutSamples /\ task[c.sample].state \in {"putting", "done"}
    BY <1>1, ChunkFields DEF PutBefore
  <2> QED BY <1>1, <2>1, StillPutBefore
<1>2. ASSUME NEW i \in 1..Len(queue), queue[i].item # NoItem PROVE PutBefore(queue[i].item)'
  <2>1. queue[i].item \in Chunks /\ PutBefore(queue[i].item)
    BY <1>0, <1>2, EntryChunk DEF ChunksPutOnce
  <2> QED BY <1>1, <2>1
<1>3. ASSUME NEW c \in Got PROVE PutBefore(c)'
  <2>1. c \in Chunks /\ PutBefore(c)
    BY <1>0, GotChunks DEF ChunksPutOnce
  <2> QED BY <1>1, <2>1
<1>4. \A i \in 1..Len(queue') : (queue[i].item # NoItem => PutBefore(queue[i].item))'
  BY <1>2 DEF PutBefore
<1>5. \A c \in Got' : PutBefore(c)'
  BY <1>3
<1> QED BY <1>0, <1>4, <1>5 DEF ChunksPutOnce, SameId

(* The next chunk of a task has an identity of its own.                    *)
LEMMA NextChunkNew ==
    ASSUME RolloutTypeOK, PuttersHaveChunks, NEW s \in RolloutSamples,
           PutChunk(s), NEW c \in Chunks, PutBefore(c)
    PROVE  ~SameId(NextChunk(s), c) /\ PutBefore(c)'
<1>1. /\ task[s].state = "putting" /\ task[s].part \in Nat /\ task[s] \in Tasks
      /\ NextChunk(s).sample = s /\ NextChunk(s).part = task[s].part + 1
      /\ Len(task[s].toPut) \in Nat \ {0} /\ Tail(task[s].toPut) \in Seq(Nat \ {0})
      /\ Len(Tail(task[s].toPut)) = Len(task[s].toPut) - 1
  BY NextChunkType, TaskType DEF PutChunk
<1>2. c.sample \in RolloutSamples /\ c.part \in Nat
  BY ChunkFields
<1>3. CASE c.sample = s
  <2>1. c.part <= task[s].part
    BY <1>1, <1>3 DEF PutBefore
  <2>2. task'[s] = AfterPut(task[s])
    BY DEF PutChunk, RolloutTypeOK
  <2>3. /\ AfterPut(task[s]).state \in {"putting", "done"}
        /\ AfterPut(task[s]).state = "putting" => AfterPut(task[s]).part = task[s].part + 1
    BY <1>1, AfterPutType
  <2>4. PutBefore(c)'
    BY <1>1, <1>2, <1>3, <2>1, <2>2, <2>3 DEF PutBefore
  <2>5. ~SameId(NextChunk(s), c)
    BY <1>1, <1>2, <2>1 DEF SameId
  <2> QED BY <2>4, <2>5
<1>4. CASE c.sample # s
  <2>1. task'[c.sample] = task[c.sample]
    BY <1>2, <1>4 DEF PutChunk, RolloutTypeOK
  <2> QED BY <1>1, <1>2, <1>4, <2>1, StillPutBefore DEF SameId
<1> QED BY <1>3, <1>4

LEMMA NextChunkPut ==
    ASSUME RolloutTypeOK, PuttersHaveChunks, NEW s \in RolloutSamples, PutChunk(s), NEW c,
           c = NextChunk(s)
    PROVE  PutBefore(c)'
<1>1. /\ task[s].state = "putting" /\ task[s].part \in Nat /\ task[s] \in Tasks
      /\ NextChunk(s).sample = s /\ NextChunk(s).part = task[s].part + 1
      /\ Len(task[s].toPut) \in Nat \ {0} /\ Tail(task[s].toPut) \in Seq(Nat \ {0})
      /\ Len(Tail(task[s].toPut)) = Len(task[s].toPut) - 1
  BY NextChunkType, TaskType DEF PutChunk
<1>2. task'[s] = AfterPut(task[s])
  BY DEF PutChunk, RolloutTypeOK
<1>3. /\ AfterPut(task[s]).state \in {"putting", "done"}
      /\ AfterPut(task[s]).state = "putting" => AfterPut(task[s]).part = task[s].part + 1
  BY <1>1, AfterPutType
<1>4. c.sample = s /\ c.part = task[s].part + 1
  BY <1>1
<1> QED BY <1>1, <1>2, <1>3, <1>4 DEF PutBefore

(* An entry more, of a new chunk or the signal.                            *)
LEMMA ChunksPut ==
    ASSUME IInv, NEW item \in Chunks \cup {NoItem}, Puts(item), Got' = Got,
           \A c \in Chunks : PutBefore(c) => PutBefore(c)',
           item # NoItem => /\ \A c \in Chunks : PutBefore(c) => ~SameId(item, c)
                            /\ PutBefore(item)'
    PROVE  ChunksPutOnce'
<1>0. ChunksPutOnce /\ QueueTypeOK /\ TrainerTypeOK
  BY DEF IInv, TypeOK
<1>1. PICK k \in 0..Len(queue) :
         /\ Len(queue) \in Nat /\ k \in Nat
         /\ Len(queue') = (Len(queue) - k) + 1
         /\ \A i \in 1..Len(queue') :
               \/ i + k \in 1..Len(queue) /\ queue'[i] = queue[i + k]
               \/ i = Len(queue') /\ queue'[i].item = item
  BY <1>0, PutsEntries
<1>2. \A c \in Got : c \in Chunks /\ PutBefore(c)
  BY <1>0, GotChunks DEF ChunksPutOnce
<1>3. \A i \in 1..Len(queue) : queue[i].item # NoItem =>
         queue[i].item \in Chunks /\ PutBefore(queue[i].item)
  BY <1>0, EntryChunk DEF ChunksPutOnce
<1>4. ASSUME NEW i \in 1..Len(queue'), queue'[i].item # NoItem
      PROVE  PutBefore(queue[i].item)'
  <2>1. CASE i + k \in 1..Len(queue) /\ queue'[i] = queue[i + k]
    <3>1. queue[i + k].item \in Chunks /\ PutBefore(queue[i + k].item)
      BY <1>3, <1>4, <2>1
    <3>2. PICK d \in Chunks : d = queue[i + k].item
      BY <3>1
    <3>3. PutBefore(d)' /\ queue'[i].item = d
      BY <2>1, <3>1, <3>2
    <3> QED BY <3>3 DEF PutBefore
  <2>2. CASE queue'[i].item = item
    BY <1>4, <2>2 DEF PutBefore
  <2> QED BY <1>1, <2>1, <2>2
<1>5. ASSUME NEW i \in 1..Len(queue'), NEW j \in 1..Len(queue'),
             queue'[i].item # NoItem, queue'[j].item # NoItem,
             SameId(queue'[i].item, queue'[j].item)
      PROVE  i = j
  <2>0. i \in Nat /\ j \in Nat
    BY <1>1
  <2>1. CASE /\ i + k \in 1..Len(queue) /\ queue'[i] = queue[i + k]
             /\ j + k \in 1..Len(queue) /\ queue'[j] = queue[j + k]
    <3>1. i + k = j + k
      BY <1>0, <1>5, <2>1 DEF ChunksPutOnce
    <3> QED BY <1>1, <2>0, <3>1
  <2>2. CASE /\ i + k \in 1..Len(queue) /\ queue'[i] = queue[i + k]
             /\ j = Len(queue') /\ queue'[j].item = item
    <3>1. ~SameId(item, queue[i + k].item)
      BY <1>3, <1>5, <2>2
    <3> QED BY <1>5, <2>2, <3>1 DEF SameId
  <2>3. CASE /\ j + k \in 1..Len(queue) /\ queue'[j] = queue[j + k]
             /\ i = Len(queue') /\ queue'[i].item = item
    <3>1. ~SameId(item, queue[j + k].item)
      BY <1>3, <1>5, <2>3
    <3> QED BY <1>5, <2>3, <3>1 DEF SameId
  <2>4. CASE i = Len(queue') /\ j = Len(queue')
    BY <2>4
  <2>5. /\ \/ i + k \in 1..Len(queue) /\ queue'[i] = queue[i + k]
           \/ i = Len(queue') /\ queue'[i].item = item
        /\ \/ j + k \in 1..Len(queue) /\ queue'[j] = queue[j + k]
           \/ j = Len(queue') /\ queue'[j].item = item
    BY <1>1
  <2> QED BY <2>1, <2>2, <2>3, <2>4, <2>5
<1>6. ASSUME NEW i \in 1..Len(queue'), NEW c \in Got, queue'[i].item # NoItem
      PROVE  ~SameId(queue'[i].item, c)
  <2>1. CASE i + k \in 1..Len(queue) /\ queue'[i] = queue[i + k]
    BY <1>0, <1>6, <2>1 DEF ChunksPutOnce
  <2>2. CASE queue'[i].item = item
    BY <1>2, <1>6, <2>2
  <2> QED BY <1>1, <2>1, <2>2
<1>7. \A c \in Got' : PutBefore(c)'
  BY <1>2
<1>8. \A c, d \in Got' : SameId(c, d) => c = d
  BY <1>0 DEF ChunksPutOnce
<1> QED BY <1>4, <1>5, <1>6, <1>7, <1>8 DEF ChunksPutOnce, SameId

(* An entry less: it has been got, or it was the signal.                   *)
LEMMA ChunksGot ==
    ASSUME IInv, TakesFirst, task' = task,
           \/ Got' = Got
           \/ queue[1].item \in Chunks /\ Got' = Got \cup {queue[1].item}
    PROVE  ChunksPutOnce'
<1>0. ChunksPutOnce /\ QueueTypeOK
  BY DEF IInv, TypeOK
<1>1. \A i \in 1..Len(queue') :
         /\ i + 1 \in 1..Len(queue) /\ i \in 1..Len(queue) - 1 /\ i + 1 # 1
         /\ queue'[i] = queue[i + 1]
  BY DEF TakesFirst
<1>2. 1 \in 1..Len(queue)
  BY DEF TakesFirst
<1>3. queue[1].item \in Chunks => queue[1].item # NoItem
  BY NoItemAssumption
<1>4. ASSUME NEW i \in 1..Len(queue'), queue'[i].item # NoItem
      PROVE  PutBefore(queue[i].item)'
  <2>1. PutBefore(queue[i + 1].item) /\ queue'[i].item = queue[i + 1].item
    BY <1>0, <1>1, <1>4 DEF ChunksPutOnce
  <2> QED BY <2>1 DEF PutBefore
<1>5. ASSUME NEW c \in Got' PROVE PutBefore(c)'
  <2>1. PutBefore(c)
    BY <1>0, <1>2, <1>3, <1>5 DEF ChunksPutOnce
  <2> QED BY <2>1 DEF PutBefore
<1>6. ASSUME NEW i \in 1..Len(queue'), NEW j \in 1..Len(queue'),
             queue'[i].item # NoItem, queue'[j].item # NoItem,
             SameId(queue'[i].item, queue'[j].item)
      PROVE  i = j
  <2>0. /\ i + 1 \in 1..Len(queue) /\ queue'[i] = queue[i + 1]
        /\ j + 1 \in 1..Len(queue) /\ queue'[j] = queue[j + 1]
    BY <1>1
  <2>1. i + 1 = j + 1
    BY <1>0, <1>6, <2>0 DEF ChunksPutOnce
  <2>2. i \in Int /\ j \in Int
    OBVIOUS
  <2> QED BY <2>1, <2>2
<1>7. ASSUME NEW i \in 1..Len(queue'), NEW c \in Got', queue'[i].item # NoItem
      PROVE  ~SameId(queue'[i].item, c)
  <2>1. CASE c \in Got
    BY <1>0, <1>1, <1>7, <2>1 DEF ChunksPutOnce
  <2>2. CASE c = queue[1].item /\ c \in Chunks
    <3>1. SameId(queue[i + 1].item, queue[1].item) => i + 1 = 1
      BY <1>0, <1>1, <1>2, <1>3, <1>7, <2>2 DEF ChunksPutOnce
    <3> QED BY <1>1, <2>2, <3>1
  <2> QED BY <2>1, <2>2
<1>8. ASSUME NEW c \in Got', NEW d \in Got', SameId(c, d) PROVE c = d
  BY <1>0, <1>2, <1>3, <1>8 DEF ChunksPutOnce, SameId
<1> QED BY <1>4, <1>5, <1>6, <1>7, <1>8 DEF ChunksPutOnce, SameId

(* Who has got what, by the step.                                          *)
LEMMA GotSteps ==
    /\ UNCHANGED <<batch, fate>> => Got' = Got
    /\ Asleep => Got' = Got
    /\ TakesSignal => Got' = Got
    /\ Trains => Got' = Got
    /\ \A chunk : TakesChunk(chunk) => Got' = Got \cup {chunk}
<1>1. UNCHANGED <<batch, fate>> => Got' = Got
  BY DEF Got
<1>2. Asleep => Got' = Got
  BY DEF Got, Asleep
<1>3. TakesSignal => Got' = Got
  BY DEF Got, TakesSignal
<1>4. Trains => Got' = Got
  BY DEF Got, Trains
<1>5. ASSUME NEW chunk, TakesChunk(chunk) PROVE Got' = Got \cup {chunk}
  BY <1>5 DEF Got, TakesChunk
<1> QED BY <1>1, <1>2, <1>3, <1>4, <1>5

LEMMA ChunksInv ==
    ASSUME IInv, [Next]_vars
    PROVE  ChunksPutOnce'
<1>0. /\ TypeOK /\ QueueOpen /\ RolloutInv /\ RolloutOK /\ LastSyncEnds /\ ChunksPutOnce
      /\ QueueTypeOK /\ TrainerTypeOK /\ serverVersion \in Nat
      /\ RolloutTypeOK /\ PuttersHaveChunks
  BY DEF IInv, TypeOK, RolloutOK, RolloutInv
<1>1. CASE RolloutQuiet /\ UNCHANGED <<mqVars, trainerVars>>
  <2>1. queue' = queue /\ Got' = Got
    BY <1>1, GotSteps DEF mqVars, trainerVars
  <2>2. \A s \in RolloutSamples : task[s].state \in {"putting", "done"} => task'[s] = task[s]
    BY <1>0, <1>1, QuietRollout
  <2> QED BY <2>1, <2>2, ChunksQuiet
<1>2. CASE RolloutPuts /\ UNCHANGED trainerVars
  <2>0. Got' = Got
    BY <1>2, GotSteps DEF trainerVars
  <2>1. ASSUME NEW s \in RolloutSamples, PutChunk(s), Puts(NextChunk(s)) PROVE ChunksPutOnce'
    <3>1. PICK item \in Chunks : item = NextChunk(s)
      BY <1>0, <2>1, NextChunkType DEF PutChunk
    <3>2. \A c \in Chunks : PutBefore(c) => ~SameId(item, c) /\ PutBefore(c)'
      BY <1>0, <2>1, <3>1, NextChunkNew
    <3>3. PutBefore(item)'
      BY <1>0, <2>1, <3>1, NextChunkPut
    <3>4. Puts(item)
      BY <2>1, <3>1
    <3> QED BY <2>0, <3>2, <3>3, <3>4, ChunksPut
  <2>2. CASE (RolloutFinishes \/ RolloutFails) /\ Puts(NoItem)
    <3>1. task' = task
      BY <2>2 DEF RolloutFinishes, RolloutFails
    <3>2. \A c \in Chunks : PutBefore(c) => PutBefore(c)'
      BY <3>1 DEF PutBefore
    <3> QED BY <2>0, <2>2, <3>2, ChunksPut
  <2> QED BY <1>0, <1>2, <2>1, <2>2, PutsShape
<1>3. CASE Collect /\ UNCHANGED rolloutVars
  <2>0. task' = task
    BY <1>3 DEF rolloutVars
  <2>1. \/ Asleep
        \/ TakesFirst /\ (TakesSignal \/ \E chunk \in Chunks : TakesChunk(chunk))
    BY <1>0, <1>3, CollectShape
  <2>2. CASE Asleep
    BY <2>0, <2>2, GotSteps, ChunksQuiet DEF Asleep
  <2>3. CASE TakesFirst /\ TakesSignal
    BY <2>0, <2>3, GotSteps, ChunksGot
  <2>4. ASSUME NEW chunk \in Chunks, TakesFirst, TakesChunk(chunk) PROVE ChunksPutOnce'
    <3>1. queue[1].item = chunk /\ Got' = Got \cup {queue[1].item}
      BY <2>4, GotSteps DEF TakesChunk
    <3> QED BY <2>0, <2>4, <3>1, ChunksGot
  <2> QED BY <2>1, <2>2, <2>3, <2>4
<1>4. CASE TrainerQuiet /\ UNCHANGED <<mqVars, rolloutVars>>
  <2>1. Got' = Got /\ queue' = queue /\ task' = task
    BY <1>0, <1>4, TrainerQuietShape, GotSteps DEF mqVars, rolloutVars
  <2> QED BY <2>1, ChunksQuiet
<1>5. CASE ClearQueue /\ UNCHANGED <<rolloutVars, trainerVars>>
  <2>1. queue' = <<>> /\ task' = task /\ Got' = Got
    BY <1>5, GotSteps DEF ClearQueue, rolloutVars, trainerVars
  <2> QED BY <1>0, <2>1 DEF ChunksPutOnce, PutBefore
<1>6. CASE UNCHANGED <<mqVars, rolloutVars, trainerVars>>
  <2>1. queue' = queue /\ task' = task /\ Got' = Got
    BY <1>6, GotSteps DEF mqVars, rolloutVars, trainerVars
  <2> QED BY <2>1, ChunksQuiet
<1> QED BY <1>1, <1>2, <1>3, <1>4, <1>5, <1>6, StepCases

(* The first entry of the queue is not among what has been got.            *)
LEMMA FirstIsNew ==
    ASSUME IInv, TakesFirst, NEW chunk \in Chunks, TakesChunk(chunk)
    PROVE  chunk \notin Got
BY NoItemAssumption DEF IInv, ChunksPutOnce, TakesFirst, TakesChunk, SameId

LEMMA FateInv ==
    ASSUME IInv, [Next]_vars
    PROVE  OneFate' /\ GotCounted' /\ BatchKeptFresh'
<1>0. /\ TypeOK /\ QueueOpen /\ RolloutInv /\ LastSyncEnds /\ QueueTypeOK /\ TrainerTypeOK
      /\ OneFate /\ GotCounted /\ BatchKeptFresh
  BY DEF IInv, TypeOK
<1>1. ASSUME UNCHANGED <<batch, fate, version>>, consumed' = consumed, Stopped' <=> Stopped
      PROVE  OneFate' /\ GotCounted' /\ BatchKeptFresh'
  BY <1>0, <1>1, GotSteps DEF OneFate, GotCounted, BatchKeptFresh
<1>2. CASE RolloutQuiet /\ UNCHANGED <<mqVars, trainerVars>>
  BY <1>1, <1>2 DEF mqVars, trainerVars, Stopped
<1>3. CASE RolloutPuts /\ UNCHANGED trainerVars
  <2>1. consumed' = consumed
    BY <1>0, <1>3, PutsShape
  <2> QED BY <1>1, <1>3, <2>1 DEF trainerVars, Stopped
<1>4. CASE Collect
  <2>1. /\ trainer = "collect" /\ UNCHANGED <<version, lastSync>>
        /\ \/ Asleep
           \/ TakesFirst /\ (TakesSignal \/ \E chunk \in Chunks : TakesChunk(chunk))
    BY <1>0, <1>4, CollectShape
  <2>2. ~lastSync /\ ~lastSync' /\ ~Stopped
    BY <1>0, <2>1 DEF LastSyncEnds, Stopped
  <2>3. consumed.samples \in Nat /\ Cardinality(Got) = consumed.samples /\ IsFiniteSet(Got)
    <3>1. consumed.samples \in Nat /\ consumed.samples = Cardinality(Got) + 0 /\ IsFiniteSet(Got)
      BY <1>0, <2>2 DEF QueueTypeOK, Counters, GotCounted
    <3>2. Cardinality(Got) \in Nat
      BY <3>1, FS_CardinalityType
    <3> QED BY <3>1, <3>2
  <2>4. CASE Asleep
    <3>1. Stopped' <=> Stopped
      BY <2>1, <2>4 DEF Asleep, Stopped
    <3> QED BY <1>1, <2>1, <2>4, <3>1 DEF Asleep
  <2>5. CASE TakesFirst /\ TakesSignal
    <3>1. OneFate'
      BY <1>0, <2>5 DEF TakesSignal, OneFate
    <3>2. Got' = Got /\ Stopped' /\ consumed'.samples = consumed.samples + 1
      BY <2>5, GotSteps DEF TakesSignal, TakesFirst, Stopped
    <3>3. GotCounted'
      BY <2>3, <3>2 DEF GotCounted
    <3>4. BatchKeptFresh'
      BY <2>5 DEF TakesSignal, BatchKeptFresh
    <3> QED BY <3>1, <3>3, <3>4
  <2>6. ASSUME NEW chunk \in Chunks, TakesFirst, TakesChunk(chunk)
        PROVE  OneFate' /\ GotCounted' /\ BatchKeptFresh'
    <3>1. chunk \notin Got /\ Got' = Got \cup {chunk}
      BY <2>6, FirstIsNew, GotSteps
    <3>2. OneFate'
      BY <1>0, <2>6, <3>1 DEF TakesChunk, Got, OneFate
    <3>3. IsFiniteSet(Got \cup {chunk}) /\ Cardinality(Got \cup {chunk}) = Cardinality(Got) + 1
      BY <2>3, <3>1, FS_AddElement
    <3>4. ~Stopped' /\ consumed'.samples = consumed.samples + 1
      BY <2>1, <2>2, <2>6 DEF TakesChunk, TakesFirst, Stopped
    <3>5. GotCounted'
      BY <2>3, <3>1, <3>3, <3>4 DEF GotCounted
    <3>6. BatchKeptFresh'
      BY <1>0, <2>1, <2>6 DEF TakesChunk, BatchKeptFresh
    <3> QED BY <3>2, <3>5, <3>6
  <2> QED BY <2>1, <2>4, <2>5, <2>6
<1>5. CASE TrainerQuiet /\ UNCHANGED mqVars
  <2>1. consumed' = consumed /\ (Stopped' <=> Stopped) /\ (Trains \/ UNCHANGED <<batch, version, fate>>)
    BY <1>0, <1>5, TrainerQuietShape DEF mqVars
  <2>2. CASE Trains
    <3>1. OneFate'
      BY <1>0, <2>2 DEF Trains, OneFate
    <3>2. GotCounted'
      BY <1>0, <2>1, <2>2, GotSteps DEF GotCounted
    <3>3. BatchKeptFresh'
      BY <2>2 DEF Trains, BatchKeptFresh
    <3> QED BY <3>1, <3>2, <3>3
  <2> QED BY <1>1, <2>1, <2>2
<1>6. CASE ClearQueue /\ UNCHANGED trainerVars
  BY <1>1, <1>6 DEF ClearQueue, trainerVars, Stopped
<1>7. CASE UNCHANGED <<mqVars, trainerVars>>
  BY <1>1, <1>7 DEF mqVars, trainerVars, Stopped
<1> QED BY <1>2, <1>3, <1>4, <1>5, <1>6, <1>7, StepCases

LEMMA TypeInv ==
    ASSUME IInv, [Next]_vars
    PROVE  TypeOK' /\ QueueOpen' /\ RolloutInv' /\ LastSyncEnds'
<1>0. /\ TypeOK /\ QueueOpen /\ RolloutInv /\ LastSyncEnds /\ RolloutOK
      /\ QueueTypeOK /\ TrainerTypeOK /\ RolloutTypeOK /\ serverVersion \in Nat
  BY DEF IInv, TypeOK, RolloutOK
<1>1. RolloutTypeOK' /\ RolloutInv'
  <2>1. RolloutQuiet \/ RolloutPuts \/ UNCHANGED rolloutVars
    BY StepCases
  <2> QED BY <1>0, <2>1, RolloutNextInv DEF RolloutOK
<1>2. UNCHANGED mqVars => QueueTypeOK' /\ QueueOpen'
  BY <1>0 DEF mqVars, QueueTypeOK, QueueOpen
<1>3. UNCHANGED trainerVars => TrainerTypeOK' /\ LastSyncEnds'
  BY <1>0 DEF trainerVars, TrainerTypeOK, LastSyncEnds
<1>4. Collect => QueueTypeOK' /\ QueueOpen' /\ TrainerTypeOK' /\ LastSyncEnds'
  <2> SUFFICES ASSUME Collect PROVE QueueTypeOK' /\ QueueOpen' /\ TrainerTypeOK' /\ LastSyncEnds'
    OBVIOUS
  <2>1. QueueTypeOK' /\ QueueOpen' /\ TrainerTypeOK' /\ trainer = "collect" /\ UNCHANGED lastSync
    BY <1>0, CollectShape
  <2> QED BY <1>0, <2>1 DEF LastSyncEnds
<1>5. ClearQueue => QueueTypeOK' /\ QueueOpen'
  BY <1>0, ClearShape DEF QueueOpen
<1>6. RolloutPuts => QueueTypeOK' /\ QueueOpen'
  BY <1>0, PutsShape
<1>7. TrainerQuiet => TrainerTypeOK' /\ LastSyncEnds'
  BY <1>0, TrainerQuietShape
<1>8. QueueTypeOK' /\ QueueOpen' /\ TrainerTypeOK' /\ LastSyncEnds'
  BY <1>2, <1>3, <1>4, <1>5, <1>6, <1>7, StepCases
<1>9. TypeOK'
  BY <1>0, <1>1, <1>8, ChannelTypes DEF TypeOK
<1> QED BY <1>1, <1>8, <1>9

LEMMA InitInv == Init => IInv
<1> SUFFICES ASSUME Init PROVE IInv
  OBVIOUS
<1>1. /\ MQInit /\ RollouterInit /\ TrainerInit /\ main = "running"
      /\ serverVersion = 0 /\ syncing = FALSE /\ resetCall = "none"
  BY DEF Init, ChannelsInit
<1>2. QueueTypeOK /\ QueueOpen
  BY <1>1 DEF MQInit, QueueTypeOK, QueueOpen, Nothing, Counters
<1>3. NoTask \in Tasks
  <2>1. <<>> \in Seq(Nat \ {0})
    OBVIOUS
  <2> QED BY <2>1 DEF NoTask, Tasks
<1>4. RolloutTypeOK
  <2>1. /\ fed = 0 /\ feeder = "feeding" /\ pending = <<>> /\ proc = "check" /\ current = End
        /\ active = {} /\ task = [s \in RolloutSamples |-> NoTask] /\ lock = "free"
        /\ paused = FALSE /\ monitor = "asleep" /\ rollout = "running"
    BY <1>1 DEF RollouterInit, End
  <2>2. 0 \in 0..TotalRolloutSteps
    BY ChannelsAssumption
  <2>3. task \in [RolloutSamples -> Tasks]
    BY <1>3, <2>1
  <2>4. pending \in Seq(RolloutSamples \cup {End})
    BY <2>1
  <2> QED BY <2>1, <2>2, <2>3, <2>4 DEF RolloutTypeOK
<1>5. TrainerTypeOK /\ LastSyncEnds
  <2>1. 1 \in 1..TriggerSync
    BY ChannelsAssumption
  <2>2. NoFate \in Fates
    BY DEF NoFate, Fates
  <2> QED BY <1>1, <2>1, <2>2 DEF TrainerInit, TrainerTypeOK, LastSyncEnds
<1>6. TypeOK
  BY <1>1, <1>2, <1>4, <1>5 DEF TypeOK
<1>7. \A s \in RolloutSamples : task[s].state = "none"
  BY <1>1 DEF RollouterInit, NoTask
<1>8. RolloutInv
  <2>1. PuttersHaveChunks
    BY <1>7 DEF PuttersHaveChunks
  <2>2. FedInOrder
    BY <1>1, <1>7, ChannelsAssumption DEF RollouterInit, FedInOrder, Fresh, End
  <2>3. NoneLost
    BY <1>1 DEF RollouterInit, NoneLost, RolloutSamples
  <2>4. TasksCollected
    BY <1>1, <1>7 DEF RollouterInit, TasksCollected, Fresh
  <2> QED BY <2>1, <2>2, <2>3, <2>4 DEF RolloutInv
<1>9. queue = <<>> /\ Got = {} /\ batch = {} /\ consumed.samples = 0 /\ ~Stopped
  BY <1>1 DEF MQInit, TrainerInit, NoFate, Got, Nothing, Stopped
<1>10. SignalIsLast /\ ChunksPutOnce /\ BatchKeptFresh
  BY <1>9 DEF SignalIsLast, ChunksPutOnce, BatchKeptFresh
<1>11. OneFate
  BY <1>1 DEF TrainerInit, NoFate, OneFate
<1>12. GotCounted
  BY <1>9, FS_EmptySet DEF GotCounted
<1> QED BY <1>2, <1>5, <1>6, <1>8, <1>10, <1>11, <1>12 DEF IInv

LEMMA NextInv == IInv /\ [Next]_vars => IInv'
BY TypeInv, SignalInv, ChunksInv, FateInv DEF IInv

LEMMA Invariant == Spec => []IInv
BY InitInv, NextInv, PTL DEF Spec
-------------------------------------------------------------------------------
(* Rollouter, trainer, queue and main keep every variable in its type.     *)
THEOREM TypeCorrect == Spec => []TypeOK
BY Invariant, PTL DEF IInv

(* A trainer that has stopped while the rollouter did not fail has been    *)
(* given everything: the rollouter has finished, every sample was run to   *)
(* its end and nothing is queued (FullyAsync!StopsOnlyAtTheEnd).           *)
THEOREM StopsOnlyAtTheEndHolds == Spec => []StopsOnlyAtTheEnd
<1>1. IInv => StopsOnlyAtTheEnd
  <2> SUFFICES ASSUME IInv, Stopped, rollout # "failed"
               PROVE  /\ rollout = "finished" /\ queue = <<>>
                      /\ \A s \in RolloutSamples : task[s].state = "done"
    BY DEF StopsOnlyAtTheEnd
  <2>1. SignalIsLast /\ RolloutOK /\ rollout \in {"running", "finished", "failed"}
    BY DEF IInv, RolloutOK, TypeOK, RolloutTypeOK
  <2>2. rollout = "finished" /\ queue = <<>>
    BY <2>1 DEF SignalIsLast
  <2> QED BY <2>1, <2>2, FinishedHasRunAll
<1> QED BY <1>1, Invariant, PTL

(* What is trained on is never older than max_policy_version_staleness     *)
(* (FullyAsync!BatchIsFresh).                                              *)
THEOREM BatchIsFreshHolds == Spec => []BatchIsFresh
<1>1. IInv => BatchIsFresh
  BY DEF IInv, BatchKeptFresh, BatchIsFresh
<1> QED BY <1>1, Invariant, PTL

(* A chunk the trainer takes has one fate, none is taken, trained on or    *)
(* dropped twice, and all that were taken are accounted for                *)
(* (FullyAsync!EveryChunkOnce).                                            *)
THEOREM EveryChunkOnceHolds == Spec => []EveryChunkOnce
<1> DEFINE places == <<QueuedChunks, batch, fate.trained, fate.stale, fate.overflow, fate.partial>>
           ids(chunks) == {<<chunk.sample, chunk.part>> : chunk \in chunks}
<1>1. ASSUME IInv, NEW S, NEW T, S \cap T = {},
             \/ S \subseteq Got /\ T \subseteq Got
             \/ S = QueuedChunks /\ T \subseteq Got
             \/ S \subseteq Got /\ T = QueuedChunks
      PROVE  ids(S) \cap ids(T) = {}
  <2>1. ASSUME NEW c \in S, NEW d \in T PROVE ~SameId(c, d)
    <3>1. ChunksPutOnce
      BY <1>1 DEF IInv
    <3>2. \A e \in QueuedChunks, g \in Got : ~SameId(e, g)
      BY <3>1 DEF ChunksPutOnce, QueuedChunks
    <3>3. \A e, g \in Got : SameId(e, g) => e = g
      BY <3>1 DEF ChunksPutOnce
    <3>4. SameId(c, d) <=> SameId(d, c)
      BY DEF SameId
    <3> QED BY <1>1, <3>2, <3>3, <3>4
  <2> QED BY <2>1 DEF SameId
<1>2. ASSUME IInv, NEW S \in SUBSET Got PROVE QueuedChunks \cap S = {}
  BY <1>2 DEF IInv, ChunksPutOnce, QueuedChunks, SameId
<1>3. ASSUME IInv PROVE EveryChunkOnce
  <2>1. /\ places[1] = QueuedChunks /\ places[2] = batch /\ places[3] = fate.trained
        /\ places[4] = fate.stale /\ places[5] = fate.overflow /\ places[6] = fate.partial
        /\ Len(places) = 6
    OBVIOUS
  <2>2. \A i \in 2..6 : places[i] \subseteq Got
    BY <2>1 DEF Got
  <2>3. \A i, j \in 2..6 : i # j => places[i] \cap places[j] = {}
    <3>1. /\ batch \cap fate.trained = {} /\ batch \cap fate.stale = {}
          /\ batch \cap fate.overflow = {} /\ batch \cap fate.partial = {}
          /\ fate.trained \cap fate.stale = {} /\ fate.trained \cap fate.overflow = {}
          /\ fate.trained \cap fate.partial = {} /\ fate.stale \cap fate.overflow = {}
          /\ fate.stale \cap fate.partial = {} /\ fate.overflow \cap fate.partial = {}
      BY <1>3 DEF IInv, OneFate
    <3>2. \A i \in 2..6 : i = 2 \/ i = 3 \/ i = 4 \/ i = 5 \/ i = 6
      OBVIOUS
    <3> HIDE DEF places
    <3> QED BY <2>1, <3>1, <3>2
  <2>4. \A i \in 2..6 : QueuedChunks \cap places[i] = {}
    BY <1>2, <1>3, <2>2
  <2>5. \A i, j \in 1..Len(places) : i # j => ids(places[i]) \cap ids(places[j]) = {}
    <3> HIDE DEF places, ids
    <3>1. ASSUME NEW i \in 2..6, NEW j \in 2..6, i # j PROVE ids(places[i]) \cap ids(places[j]) = {}
      BY <1>1, <1>3, <2>2, <2>3, <3>1
    <3>2. ASSUME NEW i \in 2..6
          PROVE  /\ ids(places[1]) \cap ids(places[i]) = {}
                 /\ ids(places[i]) \cap ids(places[1]) = {}
      BY <1>1, <1>3, <2>1, <2>2, <2>4
    <3>3. \A i \in 1..Len(places) : i = 1 \/ i \in 2..6
      BY <2>1
    <3> QED BY <3>1, <3>2, <3>3
  <2>6. Cardinality(Got) \in {consumed.samples, consumed.samples - 1}
    <3>1. GotCounted /\ IsFiniteSet(Got) /\ Cardinality(Got) \in Nat
      BY <1>3, FS_CardinalityType DEF IInv, GotCounted
    <3> QED BY <3>1 DEF GotCounted
  <2> QED BY <2>5, <2>6 DEF EveryChunkOnce, Got
<1> QED BY <1>3, Invariant, PTL
-----------------------------------------------------------------------------
(* Sums. FoldSet and FoldSeq add up by a function over the subsets of what *)
(* is summed, which takes one element out at a time; Total is that sum.    *)
AnyOf(s) == CHOOSE x \in s : TRUE

Adds(sum, w, U) ==
    sum = [s \in SUBSET U |-> IF s = {} THEN 0 ELSE w[AnyOf(s)] + sum[s \ {AnyOf(s)}]]

Summing(w, U) == CHOOSE sum : Adds(sum, w, U)

Total(w, U) == Summing(w, U)[U]

(* A set of naturals has a least element.                                  *)
LEMMA Least ==
    ASSUME NEW T, T \subseteq Nat, T # {}
    PROVE  \E x \in T : \A y \in T : x <= y
<1>1. PICK x \in T : \A y \in T : <<y, x>> \notin OpToRel(<, Nat)
  BY WFMin, NatLessThanWellFounded, Zenon
<1>2. ASSUME NEW y \in T PROVE ~(y < x)
  BY <1>1, <1>2, Zenon DEF OpToRel
<1> QED BY <1>2

(* What holds of a finite set if it holds of all that are smaller.         *)
LEMMA MinimalSubset ==
    ASSUME NEW U, IsFiniteSet(U), NEW T \in SUBSET SUBSET U, T # {}
    PROVE  \E m \in T : \A s \in SUBSET m : s # m => s \notin T
<1>1. IsWellFoundedOn(StrictSubsetOrdering(U), SUBSET U)
  BY FS_StrictSubsetOrderingWellFounded, FS_FiniteSubsetsOfFinite, Zenon
<1>2. PICK m \in T : \A s \in T : ~(<<s, m>> \in StrictSubsetOrdering(U))
  BY <1>1, WFMin, Zenon
<1>3. ASSUME NEW s \in SUBSET m, s # m, s \in T PROVE FALSE
  BY <1>2, <1>3 DEF StrictSubsetOrdering
<1> QED BY <1>3

LEMMA AnyOfIn == ASSUME NEW s, s # {} PROVE AnyOf(s) \in s
  BY DEF AnyOf

LEMMA AddsAt ==
    ASSUME NEW sum, NEW w, NEW U, Adds(sum, w, U), NEW s \in SUBSET U
    PROVE  sum[s] = IF s = {} THEN 0 ELSE w[AnyOf(s)] + sum[s \ {AnyOf(s)}]
  BY DEF Adds

LEMMA SumsAgree ==
    ASSUME NEW w, NEW U, NEW V, NEW a, NEW b, IsFiniteSet(U), Adds(a, w, U), Adds(b, w, V),
           NEW s \in SUBSET U, s \in SUBSET V
    PROVE  a[s] = b[s]
<1> DEFINE T == {t \in SUBSET U : t \in SUBSET V /\ a[t] # b[t]}
<1>1. ASSUME T # {} PROVE FALSE
  <2>1. PICK m \in T : \A t \in SUBSET m : t # m => t \notin T
    BY <1>1, MinimalSubset
  <2>2. m # {} /\ m \in SUBSET U /\ m \in SUBSET V /\ a[m] # b[m]
    BY <2>1, AddsAt
  <2>3. AnyOf(m) \in m
    BY <2>2, AnyOfIn
  <2>4. a[m \ {AnyOf(m)}] = b[m \ {AnyOf(m)}]
    BY <2>1, <2>3
  <2> HIDE DEF T
  <2>5. a[m] = w[AnyOf(m)] + a[m \ {AnyOf(m)}]
    BY <2>2, AddsAt, Zenon
  <2>6. b[m] = w[AnyOf(m)] + b[m \ {AnyOf(m)}]
    BY <2>2, Zenon DEF Adds
  <2> QED BY <2>2, <2>4, <2>5, <2>6
<1> QED BY <1>1

LEMMA SumsExist ==
    ASSUME NEW w, NEW U, IsFiniteSet(U)
    PROVE  Adds(Summing(w, U), w, U)
<1> DEFINE Has(s) == \E sum : Adds(sum, w, s)
           T == {s \in SUBSET U : ~Has(s)}
<1>1. ASSUME T # {} PROVE FALSE
  <2>0. T \in SUBSET SUBSET U
    OBVIOUS
  <2>1. PICK m \in T : \A t \in SUBSET m : t # m => t \notin T
    <3> HIDE DEF T
    <3> QED BY <1>1, <2>0, MinimalSubset
  <2>2. \A t \in SUBSET m : t # m => Adds(Summing(w, t), w, t)
    BY <2>1 DEF Summing
  <2> DEFINE value(t) == IF t = {} THEN 0 ELSE w[AnyOf(t)] + Summing(w, t \ {AnyOf(t)})[t \ {AnyOf(t)}]
             sum == [t \in SUBSET m |-> value(t)]
  <2>3. ASSUME NEW t \in SUBSET m, t # m PROVE sum[t] = Summing(w, t)[t]
    <3>1. CASE t = {}
      BY <2>2, <2>3, <3>1, AddsAt
    <3>2. CASE t # {}
      <4> DEFINE r == t \ {AnyOf(t)}
      <4>1. AnyOf(t) \in t /\ r \in SUBSET t /\ r \in SUBSET m /\ r # m
        BY <2>3, <3>2, AnyOfIn
      <4>2. Adds(Summing(w, t), w, t) /\ Adds(Summing(w, r), w, r)
        BY <2>2, <2>3, <4>1
      <4>3. IsFiniteSet(t)
        BY <2>1, <2>3, FS_Subset
      <4>4. Summing(w, t)[r] = Summing(w, r)[r]
        BY <4>1, <4>2, <4>3, SumsAgree
      <4>5. Summing(w, t)[t] = w[AnyOf(t)] + Summing(w, t)[r]
        BY <3>2, <4>2, AddsAt
      <4> QED BY <2>3, <3>2, <4>4, <4>5
    <3> QED BY <3>1, <3>2
  <2>4. ASSUME NEW t \in SUBSET m
        PROVE  sum[t] = IF t = {} THEN 0 ELSE w[AnyOf(t)] + sum[t \ {AnyOf(t)}]
    <3>1. CASE t # {}
      <4>1. t \ {AnyOf(t)} \in SUBSET m /\ t \ {AnyOf(t)} # m
        BY <3>1, AnyOfIn
      <4>2. sum[t \ {AnyOf(t)}] = Summing(w, t \ {AnyOf(t)})[t \ {AnyOf(t)}]
        BY <2>3, <4>1
      <4> QED BY <3>1, <4>2
    <3> QED BY <3>1
  <2>5. sum = [t \in SUBSET m |-> IF t = {} THEN 0 ELSE w[AnyOf(t)] + sum[t \ {AnyOf(t)}]]
    <3> HIDE DEF value
    <3>1. sum = [t \in SUBSET m |-> sum[t]]
      OBVIOUS
    <3> HIDE DEF sum
    <3> QED BY <2>4, <3>1
  <2>6. Adds(sum, w, m)
    BY <2>5, Zenon DEF Adds
  <2> QED BY <2>1, <2>6
<1>2. Has(U)
  BY <1>1
<1> QED BY <1>2 DEF Summing

LEMMA TotalTakes ==
    ASSUME NEW w, NEW U, IsFiniteSet(U)
    PROVE  Total(w, U) = IF U = {} THEN 0 ELSE w[AnyOf(U)] + Total(w, U \ {AnyOf(U)})
<1>1. CASE U = {}
  BY <1>1, SumsExist, AddsAt DEF Total
<1>2. CASE U # {}
  <2> DEFINE r == U \ {AnyOf(U)}
  <2>1. IsFiniteSet(r) /\ r \in SUBSET U
    BY FS_Subset
  <2>2. Adds(Summing(w, U), w, U) /\ Adds(Summing(w, r), w, r)
    BY <2>1, SumsExist
  <2>3. Summing(w, U)[r] = Summing(w, r)[r]
    BY <2>1, <2>2, SumsAgree
  <2> QED BY <1>2, <2>2, <2>3, AddsAt DEF Total
<1> QED BY <1>1, <1>2

(* Any element may be taken out first.                                     *)
LEMMA TotalWithout ==
    ASSUME NEW w, NEW U, IsFiniteSet(U), \A y \in U : w[y] \in Nat
    PROVE  /\ Total(w, U) \in Nat
           /\ \A x \in U : Total(w, U) = w[x] + Total(w, U \ {x})
<1> DEFINE OK(s) == /\ Total(w, s) \in Nat
                    /\ \A x \in s : Total(w, s) = w[x] + Total(w, s \ {x})
           T == {s \in SUBSET U : ~OK(s)}
<1>1. ASSUME T # {} PROVE FALSE
  <2>0. T \in SUBSET SUBSET U
    OBVIOUS
  <2>1. PICK m \in T : \A t \in SUBSET m : t # m => t \notin T
    <3> HIDE DEF T
    <3> QED BY <1>1, <2>0, MinimalSubset
  <2>2. m \in SUBSET U /\ IsFiniteSet(m) /\ ~OK(m)
    BY <2>1, FS_Subset
  <2>3. \A t \in SUBSET m : t # m => OK(t)
    BY <2>1
  <2> HIDE DEF T
  <2>4. CASE m = {}
    <3>1. Total(w, m) = 0
      BY <2>2, <2>4, TotalTakes
    <3> QED BY <2>2, <2>4, <3>1
  <2>5. CASE m # {}
    <3> DEFINE c == AnyOf(m)
    <3>1. c \in m /\ Total(w, m) = w[c] + Total(w, m \ {c})
      BY <2>2, <2>5, AnyOfIn, TotalTakes
    <3>2. OK(m \ {c})
      BY <2>3, <3>1
    <3> HIDE DEF c
    <3>3. Total(w, m) \in Nat
      BY <2>2, <3>1, <3>2
    <3>4. ASSUME NEW x \in m PROVE Total(w, m) = w[x] + Total(w, m \ {x})
      <4>1. CASE x = c
        BY <3>1, <4>1
      <4>2. CASE x # c
        <5>1. Total(w, m \ {c}) = w[x] + Total(w, (m \ {c}) \ {x})
          BY <3>2, <4>2
        <5>2. OK(m \ {x})
          BY <2>3
        <5>3. Total(w, m \ {x}) = w[c] + Total(w, (m \ {x}) \ {c})
          BY <3>1, <4>2, <5>2
        <5>4. (m \ {c}) \ {x} = (m \ {x}) \ {c} /\ OK((m \ {c}) \ {x})
          BY <2>3, <3>1
        <5>5. w[c] \in Nat /\ w[x] \in Nat /\ Total(w, (m \ {c}) \ {x}) \in Nat
          BY <2>2, <3>1, <5>4
        <5> DEFINE n == Total(w, (m \ {c}) \ {x})
        <5>6. /\ Total(w, m) = w[c] + (w[x] + n) /\ Total(w, m \ {x}) = w[c] + n
              /\ n \in Nat
          BY <3>1, <5>1, <5>3, <5>4, <5>5
        <5> HIDE DEF OK, n
        <5> QED BY <5>5, <5>6
      <4> QED BY <4>1, <4>2
    <3> QED BY <2>2, <3>3, <3>4
  <2> QED BY <2>4, <2>5
<1>2. OK(U)
  BY <1>1
<1> QED BY <1>2

LEMMA TotalWith ==
    ASSUME NEW w, NEW U, IsFiniteSet(U), NEW x, x \notin U, \A y \in U \cup {x} : w[y] \in Nat
    PROVE  Total(w, U \cup {x}) = w[x] + Total(w, U)
<1>1. IsFiniteSet(U \cup {x}) /\ (U \cup {x}) \ {x} = U
  BY FS_AddElement
<1> QED BY <1>1, TotalWithout

(* A sum depends on what is summed alone.                                  *)
LEMMA TotalOfSame ==
    ASSUME NEW w, NEW v, NEW U, IsFiniteSet(U), \A y \in U : w[y] = v[y]
    PROVE  Total(w, U) = Total(v, U)
<1> DEFINE T == {s \in SUBSET U : Total(w, s) # Total(v, s)}
<1>1. ASSUME T # {} PROVE FALSE
  <2>0. T \in SUBSET SUBSET U
    OBVIOUS
  <2>1. PICK m \in T : \A t \in SUBSET m : t # m => t \notin T
    <3> HIDE DEF T
    <3> QED BY <1>1, <2>0, MinimalSubset
  <2>2. m \in SUBSET U /\ IsFiniteSet(m)
    BY <2>1, FS_Subset
  <2>3. /\ Total(w, m) = IF m = {} THEN 0 ELSE w[AnyOf(m)] + Total(w, m \ {AnyOf(m)})
        /\ Total(v, m) = IF m = {} THEN 0 ELSE v[AnyOf(m)] + Total(v, m \ {AnyOf(m)})
    BY <2>2, TotalTakes
  <2>4. m # {} => AnyOf(m) \in m /\ Total(w, m \ {AnyOf(m)}) = Total(v, m \ {AnyOf(m)})
    BY <2>1, <2>2, AnyOfIn
  <2> QED BY <2>1, <2>2, <2>3, <2>4
<1> QED BY <1>1

(* A sum of terms that are at most e.                                      *)
LEMMA TotalAtMost ==
    ASSUME NEW w, NEW e \in Nat, NEW U, IsFiniteSet(U), \A y \in U : w[y] \in 0..e
    PROVE  Total(w, U) <= e * Cardinality(U)
<1> DEFINE T == {s \in SUBSET U : ~(Total(w, s) <= e * Cardinality(s))}
<1>1. ASSUME T # {} PROVE FALSE
  <2>0. T \in SUBSET SUBSET U
    OBVIOUS
  <2>1. PICK m \in T : \A t \in SUBSET m : t # m => t \notin T
    <3> HIDE DEF T
    <3> QED BY <1>1, <2>0, MinimalSubset
  <2>2. m \in SUBSET U /\ IsFiniteSet(m)
    BY <2>1, FS_Subset
  <2>3. CASE m = {}
    <3>1. Total(w, m) = 0 /\ Cardinality(m) = 0
      BY <2>2, <2>3, TotalTakes, FS_EmptySet
    <3> QED BY <2>1, <3>1
  <2>4. CASE m # {}
    <3> DEFINE c == AnyOf(m)
               r == m \ {c}
    <3>1. c \in m /\ Total(w, m) = w[c] + Total(w, r)
      BY <2>2, <2>4, AnyOfIn, TotalTakes
    <3>2. IsFiniteSet(r) /\ Cardinality(r) = Cardinality(m) - 1 /\ Cardinality(m) \in Nat
      BY <2>2, <3>1, FS_RemoveElement, FS_CardinalityType
    <3>3. Total(w, r) <= e * Cardinality(r)
      BY <2>1, <2>2, <3>1
    <3>4. Total(w, r) \in Nat /\ w[c] \in 0..e
      BY <2>2, <3>1, <3>2, TotalWithout
    <3>5. e * Cardinality(m) = e * (Cardinality(m) - 1) + e
      BY <3>2
    <3>6. ~(Total(w, m) <= e * Cardinality(m))
      BY <2>1
    <3> HIDE DEF c, r
    <3>7. e * (Cardinality(m) - 1) \in Int
      BY <3>2
    <3> QED BY <3>1, <3>2, <3>3, <3>4, <3>5, <3>6, <3>7
  <2> QED BY <2>3, <2>4
<1> QED BY <1>1

(* The sum of a sequence without its first term.                           *)
LEMMA TotalOfTail ==
    ASSUME NEW s \in Seq(Nat), s # <<>>
    PROVE  Total(s, 1..Len(s)) = Head(s) + Total(Tail(s), 1..Len(Tail(s)))
<1> DEFINE t == Tail(s)
           T == {k \in 0..Len(t) : Total(t, 1..k) # Total(s, 2..(k + 1))}
<1>1. /\ Len(s) \in Nat \ {0} /\ Len(t) = Len(s) - 1 /\ Head(s) = s[1]
      /\ \A k \in 1..Len(t) : t[k] = s[k + 1] /\ t[k] \in Nat
      /\ \A k \in 1..Len(s) : s[k] \in Nat
  <2>1. Len(s) \in Nat \ {0} /\ t \in Seq(Nat) /\ Len(t) = Len(s) - 1 /\ Head(s) = s[1]
    BY HeadTailProperties, EmptySeq, LenProperties
  <2>2. \A k \in 1..Len(t) : t[k] = s[k + 1]
    BY HeadTailProperties
  <2> QED BY <2>1, <2>2, ElementOfSeq
<1> HIDE DEF t
<1>2. ASSUME T # {} PROVE FALSE
  <2>0. T \subseteq Nat
    BY <1>1
  <2>1. PICK k \in T : \A j \in T : k <= j
    <3> HIDE DEF T
    <3> QED BY <1>2, <2>0, Least
  <2>2. k \in 0..Len(t) /\ k \in Nat
    BY <1>1, <2>1
  <2>3. CASE k = 0
    <3>1. 1..k = {} /\ 2..(k + 1) = {}
      BY <2>3
    <3>2. Total(t, {}) = 0 /\ Total(s, {}) = 0
      BY TotalTakes, FS_EmptySet
    <3> QED BY <2>1, <3>1, <3>2
  <2>4. CASE k # 0
    <3>1. Total(t, 1..(k - 1)) = Total(s, 2..k)
      <4>1. k - 1 \in 0..Len(t) /\ (k - 1) + 1 = k /\ ~(k <= k - 1)
        BY <1>1, <2>2, <2>4
      <4> QED BY <2>1, <4>1
    <3>2. 1..k = (1..(k - 1)) \cup {k} /\ 2..(k + 1) = (2..k) \cup {k + 1}
      BY <2>2, <2>4
    <3>3. IsFiniteSet(1..(k - 1)) /\ IsFiniteSet(2..k) /\ k \notin 1..(k - 1) /\ k + 1 \notin 2..k
      BY <2>2, FS_Interval
    <3>4. Total(t, 1..k) = t[k] + Total(t, 1..(k - 1))
      <4>1. \A y \in (1..(k - 1)) \cup {k} : t[y] \in Nat
        BY <1>1, <2>2, <2>4
      <4>2. Total(t, (1..(k - 1)) \cup {k}) = t[k] + Total(t, 1..(k - 1))
        BY <3>3, <4>1, TotalWith, Zenon
      <4> QED BY <3>2, <4>2
    <3>5. Total(s, 2..(k + 1)) = s[k + 1] + Total(s, 2..k)
      <4>1. \A y \in (2..k) \cup {k + 1} : s[y] \in Nat
        BY <1>1, <2>2, <2>4
      <4>2. Total(s, (2..k) \cup {k + 1}) = s[k + 1] + Total(s, 2..k)
        BY <3>3, <4>1, TotalWith, Zenon
      <4> QED BY <3>2, <4>2
    <3>6. t[k] = s[k + 1]
      BY <1>1, <2>2, <2>4
    <3> QED BY <2>1, <3>1, <3>4, <3>5, <3>6
  <2> QED BY <2>3, <2>4
<1>3. Total(t, 1..Len(t)) = Total(s, 2..Len(s))
  <2>1. Len(t) \in 0..Len(t) /\ Len(t) + 1 = Len(s)
    BY <1>1
  <2> QED BY <1>2, <2>1
<1>4. Total(s, 1..Len(s)) = s[1] + Total(s, 2..Len(s))
  <2>1. 1 \in 1..Len(s) /\ (1..Len(s)) \ {1} = 2..Len(s)
    BY <1>1
  <2>2. IsFiniteSet(1..Len(s))
    BY <1>1, FS_Interval
  <2> DEFINE U == 1..Len(s)
  <2>3. 1 \in U /\ IsFiniteSet(U) /\ \A y \in U : s[y] \in Nat
    BY <1>1, <2>1, <2>2
  <2> HIDE DEF U
  <2>4. Total(s, U) = s[1] + Total(s, U \ {1})
    BY <2>3, TotalWithout
  <2> QED BY <2>1, <2>4 DEF U
<1> QED BY <1>1, <1>3, <1>4 DEF t
-------------------------------------------------------------------------------
(* What the rollouter has committed the queue to, as sums.                 *)

Promised(t) == [s \in RolloutSamples |->
    IF t[s].state = "putting" THEN SumOf(t[s].toPut) ELSE EstimatedPoints]

Open(t, a) == {s \in a : t[s].state \notin {"done", "crashed"}}

(* Tasks t, of which those in a have not been collected, have promised:    *)
Load(t, a) == Total(Promised(t), Open(t, a))

LEMMA SumOfIsTotal ==
    ASSUME NEW p \in Seq(Nat)
    PROVE  SumOf(p) = Total(p, 1..Len(p))
<1>1. DOMAIN p = 1..Len(p)
  BY LenProperties
<1>2. SumOf(p) = FoldFunctionOnSet(LAMBDA q, sum : q + sum, 0, p, 1..Len(p))
  BY <1>1, Zenon DEF SumOf, FoldSeq, FoldFunction
<1>3. FoldFunctionOnSet(LAMBDA q, sum : q + sum, 0, p, 1..Len(p)) = Total(p, 1..Len(p))
  BY Zenon DEF FoldFunctionOnSet, MapThenFoldSet, Total, Summing, Adds, AnyOf
<1> QED BY <1>2, <1>3

LEMMA CommittedIsLoad ==
    ASSUME active \in SUBSET RolloutSamples, IsFiniteSet(Unfinished)
    PROVE  Committed = queue_train_points + Load(task, active)
<1> DEFINE promised(s) == IF task[s].state = "putting" THEN SumOf(task[s].toPut) ELSE EstimatedPoints
           Takes(sum) == sum = [s \in SUBSET Unfinished |->
               IF s = {} THEN 0 ELSE promised(AnyOf(s)) + sum[s \ {AnyOf(s)}]]
           fold == CHOOSE sum : Takes(sum)
           w == Promised(task)
<1>1. Committed = queue_train_points + fold[Unfinished]
  BY Zenon DEF Committed, FoldSet, MapThenFoldSet, AnyOf
<1>2. ASSUME NEW s \in SUBSET Unfinished, s # {} PROVE w[AnyOf(s)] = promised(AnyOf(s))
  BY <1>2, AnyOfIn DEF Promised, Unfinished
<1>3. Unfinished = Open(task, active)
  BY DEF Unfinished, Finished, Open
<1> HIDE DEF w
<1>4. ASSUME NEW sum PROVE Takes(sum) <=> Adds(sum, w, Unfinished)
  <2> HIDE DEF promised
  <2>1. [s \in SUBSET Unfinished |-> IF s = {} THEN 0 ELSE promised(AnyOf(s)) + sum[s \ {AnyOf(s)}]]
        = [s \in SUBSET Unfinished |-> IF s = {} THEN 0 ELSE w[AnyOf(s)] + sum[s \ {AnyOf(s)}]]
    BY <1>2
  <2> QED BY <2>1 DEF Adds
<1> HIDE DEF Takes
<1>5. Adds(Summing(w, Unfinished), w, Unfinished)
  BY SumsExist
<1>6. Takes(fold)
  BY <1>4, <1>5
<1>7. Adds(fold, w, Unfinished)
  BY <1>4, <1>6
<1> HIDE DEF fold
<1>8. fold[Unfinished] = Summing(w, Unfinished)[Unfinished]
  BY <1>5, <1>7, SumsAgree
<1>9. fold[Unfinished] = Total(w, Unfinished)
  BY <1>8 DEF Total
<1> QED BY <1>1, <1>3, <1>9 DEF w, Load
-------------------------------------------------------------------------------
(* Back-pressure.                                                          *)

(* The stamps grow along the queue.                                        *)
Stamped ==
    \A i \in 1..Len(queue) :
        /\ queue[i].upto <= produced.points
        /\ \A k \in 1..Len(queue) : i <= k => queue[i].upto <= queue[k].upto

(* A task that is under way has not been collected.                        *)
UnderWay ==
    \A s \in RolloutSamples :
        task[s].state \in {"generating", "generated", "putting"} => s \in active

(* What a rollout has yet to put is no more than the estimate.             *)
WithinEstimate ==
    \A s \in RolloutSamples : task[s].state = "putting" => SumOf(task[s].toPut) <= EstimatedPoints

(* The rollouter goes on only below the queue's capacity, and from there   *)
(* until it submits nothing is added.                                      *)
Commitment == queue_train_points + Load(task, active)

CommitBound ==
    /\ Commitment <= MaxQueueSize + EstimatedPoints - 1
    /\ proc \in {"get", "slot"} => Commitment <= MaxQueueSize - 1

BackpressureInv ==
    /\ Stamped /\ UnderWay
    /\ EstimateIsUpperBound => WithinEstimate /\ CommitBound

LEMMA SumOfFacts ==
    /\ SumOf(<<>>) = 0
    /\ \A p \in Seq(Nat) :
          SumOf(p) \in Nat /\ (p # <<>> => SumOf(p) = Head(p) + SumOf(Tail(p)))
<1>1. <<>> \in Seq(Nat) /\ 1..Len(<<>>) = {}
  OBVIOUS
<1>2. SumOf(<<>>) = 0
  BY <1>1, SumOfIsTotal, TotalTakes, FS_EmptySet
<1>3. ASSUME NEW p \in Seq(Nat) PROVE SumOf(p) \in Nat
  <2>1. Len(p) \in Nat /\ \A y \in 1..Len(p) : p[y] \in Nat
    BY LenProperties, ElementOfSeq
  <2>2. IsFiniteSet(1..Len(p))
    BY <2>1, FS_Interval
  <2> QED BY <2>1, <2>2, SumOfIsTotal, TotalWithout
<1>4. ASSUME NEW p \in Seq(Nat), p # <<>> PROVE SumOf(p) = Head(p) + SumOf(Tail(p))
  <2>1. Tail(p) \in Seq(Nat)
    BY <1>4, HeadTailProperties
  <2> QED BY <1>4, <2>1, SumOfIsTotal, TotalOfTail
<1> QED BY <1>2, <1>3, <1>4

(* Every term of the sum is a number, and there are finitely many.         *)
LEMMA Terms ==
    ASSUME NEW t \in [RolloutSamples -> Tasks], NEW a \in SUBSET RolloutSamples
    PROVE  /\ IsFiniteSet(Open(t, a)) /\ Open(t, a) \in SUBSET RolloutSamples
           /\ \A s \in RolloutSamples : t[s].toPut \in Seq(Nat) /\ Promised(t)[s] \in Nat
<1>1. IsFiniteSet(RolloutSamples)
  BY FS_Interval, ChannelsAssumption DEF RolloutSamples
<1>2. Open(t, a) \in SUBSET RolloutSamples
  BY DEF Open
<1>3. IsFiniteSet(Open(t, a))
  BY <1>1, <1>2, FS_Subset
<1>4. ASSUME NEW s \in RolloutSamples PROVE t[s].toPut \in Seq(Nat) /\ Promised(t)[s] \in Nat
  <2>1. t[s].toPut \in Seq(Nat)
    <3>1. t[s].toPut \in Seq(Nat \ {0})
      BY DEF Tasks
    <3> QED BY <3>1, SeqMonotonic
  <2>2. SumOf(t[s].toPut) \in Nat
    BY <2>1, SumOfFacts
  <2> QED BY <2>1, <2>2, RollouterAssumption DEF Promised
<1> QED BY <1>2, <1>3, <1>4

(* What one rollout has promised, apart from the others.                   *)
Due(t, a, s) == IF s \in Open(t, a) THEN Promised(t)[s] ELSE 0

LEMMA DueApart ==
    ASSUME NEW t \in [RolloutSamples -> Tasks], NEW a \in SUBSET RolloutSamples,
           NEW s \in RolloutSamples
    PROVE  /\ Load(t, a) = Due(t, a, s) + Total(Promised(t), Open(t, a) \ {s})
           /\ Due(t, a, s) \in Nat /\ Total(Promised(t), Open(t, a) \ {s}) \in Nat
           /\ Load(t, a) \in Nat
<1> DEFINE U == Open(t, a)
           w == Promised(t)
<1>1. IsFiniteSet(U) /\ \A y \in U : w[y] \in Nat
  BY Terms
<1>2. IsFiniteSet(U \ {s}) /\ \A y \in U \ {s} : w[y] \in Nat
  BY <1>1, FS_RemoveElement
<1> HIDE DEF U, w
<1>3. Total(w, U) \in Nat /\ \A x \in U : Total(w, U) = w[x] + Total(w, U \ {x})
  BY <1>1, TotalWithout
<1>4. Total(w, U \ {s}) \in Nat
  BY <1>2, TotalWithout
<1>5. CASE s \in U
  BY <1>1, <1>3, <1>4, <1>5 DEF Due, Load, U, w
<1>6. CASE s \notin U
  <2>1. U \ {s} = U
    BY <1>6
  <2> QED BY <1>3, <1>4, <1>6, <2>1 DEF Due, Load, U, w
<1> QED BY <1>5, <1>6

LEMMA OneChanges ==
    ASSUME NEW t \in [RolloutSamples -> Tasks], NEW a \in SUBSET RolloutSamples,
           NEW u \in [RolloutSamples -> Tasks], NEW b \in SUBSET RolloutSamples,
           NEW s \in RolloutSamples,
           \A q \in RolloutSamples \ {s} : u[q] = t[q] /\ (q \in a <=> q \in b)
    PROVE  Load(u, b) + Due(t, a, s) = Load(t, a) + Due(u, b, s)
<1> DEFINE rest == Open(t, a) \ {s}
           now == Promised(t)
           then == Promised(u)
<1>1. Open(u, b) \ {s} = rest
  BY DEF Open
<1>2. IsFiniteSet(rest)
  BY Terms, FS_RemoveElement
<1>3. \A q \in rest : then[q] = now[q]
  BY DEF Promised, Open
<1>4. /\ Load(t, a) = Due(t, a, s) + Total(now, rest)
      /\ Load(u, b) = Due(u, b, s) + Total(then, Open(u, b) \ {s})
      /\ Due(t, a, s) \in Nat /\ Due(u, b, s) \in Nat /\ Total(now, rest) \in Nat
  BY DueApart
<1> HIDE DEF rest, now, then
<1>5. Total(then, rest) = Total(now, rest)
  BY <1>2, <1>3, TotalOfSame
<1> DEFINE n == Total(now, rest)
<1>6. Load(t, a) = Due(t, a, s) + n /\ Load(u, b) = Due(u, b, s) + n /\ n \in Nat
  BY <1>1, <1>4, <1>5
<1> HIDE DEF n
<1> QED BY <1>4, <1>6

(* What is decided on is no less than what has been promised.              *)
LEMMA OutstandingCovers ==
    ASSUME RolloutTypeOK, queue_train_points \in Nat, WithinEstimate
    PROVE  Commitment <= Outstanding
<1> DEFINE U == Open(task, active)
           w == Promised(task)
<1>1. /\ task \in [RolloutSamples -> Tasks] /\ active \in SUBSET RolloutSamples
      /\ EstimatedPoints \in Nat
  BY RollouterAssumption DEF RolloutTypeOK
<1>2. IsFiniteSet(U) /\ U \in SUBSET RolloutSamples /\ \A s \in RolloutSamples : w[s] \in Nat
  BY <1>1, Terms
<1>3. \A s \in U : w[s] \in 0..EstimatedPoints
  BY <1>1, <1>2 DEF WithinEstimate, Promised
<1>4. {s \in active : ~Finished(s)} = U
  BY DEF Open, Finished
<1> HIDE DEF U, w
<1>5. Total(w, U) <= EstimatedPoints * Cardinality(U) /\ Total(w, U) \in Nat
  BY <1>1, <1>2, <1>3, TotalAtMost, TotalWithout
<1>6. Cardinality(U) \in Nat
  BY <1>2, FS_CardinalityType
<1>7. EstimatedPoints * Cardinality(U) \in Nat
  BY <1>1, <1>6
<1> QED BY <1>4, <1>5, <1>7 DEF Commitment, Outstanding, Load, U, w
-------------------------------------------------------------------------------
(* What the steps do to it.                                                *)

LEMMA LoadIsNat ==
    ASSUME RolloutTypeOK PROVE Load(task, active) \in Nat
<1>1. task \in [RolloutSamples -> Tasks] /\ active \in SUBSET RolloutSamples
  BY DEF RolloutTypeOK
<1>2. 1 \in RolloutSamples
  BY ChannelsAssumption DEF RolloutSamples
<1> QED BY <1>1, <1>2, DueApart

(* put_sample adds no more than what is put: what it evicts weighs nothing *)
(* less than nothing.                                                      *)
LEMMA PutAdds ==
    ASSUME QueueTypeOK, Stamped, NEW item \in Chunks \cup {NoItem}, NEW n \in Nat,
           PutSample(item, n), QueueTypeOK'
    PROVE  Stamped' /\ queue_train_points' <= queue_train_points + TrainPoints(item, n)
<1> DEFINE points == TrainPoints(item, n)
           new == [item |-> item, points |-> points, upto |-> produced.points + points]
<1>1. PICK k \in 0..Len(queue) :
         /\ queue' = Append(SubSeq(queue, k + 1, Len(queue)), new)
         /\ queue_train_points' = PointsAfterDropping(k) + points
         /\ produced' = Plus(produced, 1, points)
  BY DEF PutSample
<1>2. queue \in Seq(Entries) /\ Len(queue) \in Nat /\ k \in Nat /\ k <= Len(queue)
  BY DEF QueueTypeOK
<1>3. points \in Nat /\ produced.points \in Nat /\ queue_train_points \in Nat
  BY DEF TrainPoints, QueueTypeOK
<1>4. \A i \in 1..Len(queue) : queue[i].upto \in Nat /\ queue[i].points \in Nat
  <2>1. \A i \in 1..Len(queue) : queue[i] \in Entries
    BY <1>2
  <2> QED BY <2>1 DEF Entries
<1>5. OldestPoints(k) \in Nat
  <2>1. CASE k = 0
    BY <2>1 DEF OldestPoints
  <2>2. CASE k # 0
    <3>1. k \in 1..Len(queue) /\ 1 \in 1..Len(queue) /\ 1 <= k
      BY <1>2, <2>2
    <3>2. queue[1].upto <= queue[k].upto
      BY <3>1 DEF Stamped
    <3> QED BY <1>4, <2>2, <3>1, <3>2 DEF OldestPoints
  <2> QED BY <2>1, <2>2
<1>6. queue_train_points' <= queue_train_points + points
  BY <1>1, <1>3, <1>5 DEF PointsAfterDropping, Max0
<1> DEFINE rest == SubSeq(queue, k + 1, Len(queue))
<1>7. /\ rest \in Seq(Entries) /\ Len(rest) = Len(queue) - k
      /\ \A i \in 1..Len(queue) - k : rest[i] = queue[i + k]
  <2>1. k + 1 \in 1..Len(queue) + 1
    BY <1>2
  <2> QED BY <1>2, <2>1
<1>8. new \in Entries /\ queue' = Append(rest, new) /\ new.upto = produced.points + points
      /\ produced'.points = produced.points + points
  BY <1>1, <1>3 DEF Plus, Entries
<1> HIDE DEF points, new, rest
<1>9. /\ Len(Append(rest, new)) = (Len(queue) - k) + 1
      /\ Append(rest, new)[(Len(queue) - k) + 1] = new
      /\ \A i \in 1..Len(queue) - k : Append(rest, new)[i] = queue[i + k]
  BY <1>7, <1>8
<1>10. ASSUME NEW i \in 1..Len(queue')
       PROVE  \/ i \in 1..Len(queue) - k /\ queue'[i] = queue[i + k] /\ i + k \in 1..Len(queue)
              \/ i = (Len(queue) - k) + 1 /\ queue'[i] = new
  BY <1>2, <1>8, <1>9
<1>11. \A i \in 1..Len(queue) : queue[i].upto <= produced.points
  BY DEF Stamped
<1>12. ASSUME NEW i \in 1..Len(queue') PROVE queue'[i].upto <= produced'.points
  <2>1. CASE queue'[i] = new
    BY <1>3, <1>8, <2>1
  <2>2. CASE i \in 1..Len(queue) - k /\ queue'[i] = queue[i + k] /\ i + k \in 1..Len(queue)
    <3>1. queue[i + k].upto <= produced.points /\ queue[i + k].upto \in Nat
      BY <1>4, <1>11, <2>2
    <3> QED BY <1>3, <1>8, <2>2, <3>1
  <2> QED BY <1>10, <2>1, <2>2
<1>13. ASSUME NEW i \in 1..Len(queue'), NEW j \in 1..Len(queue'), i <= j
       PROVE  queue'[i].upto <= queue'[j].upto
  <2>1. CASE queue'[j] = new
    BY <1>8, <1>12, <2>1
  <2>2. CASE /\ j \in 1..Len(queue) - k /\ queue'[j] = queue[j + k] /\ j + k \in 1..Len(queue)
    <3>1. i \in 1..Len(queue) - k /\ queue'[i] = queue[i + k] /\ i + k \in 1..Len(queue)
      BY <1>2, <1>10, <1>13, <2>2
    <3>2. i + k <= j + k
      BY <1>2, <1>13, <2>2, <3>1
    <3> QED BY <2>2, <3>1, <3>2 DEF Stamped
  <2> QED BY <1>10, <2>1, <2>2
<1> QED BY <1>6, <1>12, <1>13 DEF Stamped, points

LEMMA GetTakes ==
    ASSUME QueueTypeOK, Stamped, GetSample(TheTrainer)
    PROVE  Stamped' /\ queue_train_points' <= queue_train_points
<1>1. CASE Sleep(TheTrainer) \/ ReturnClosed(TheTrainer)
  BY <1>1 DEF Sleep, ReturnClosed, counters, Stamped, QueueTypeOK
<1>2. CASE ReturnOldest(TheTrainer)
  <2>1. /\ queue \in Seq(Entries) /\ queue # <<>> /\ queue' = Tail(queue)
        /\ queue_train_points' = Max0(queue_train_points - Head(queue).points)
        /\ produced' = produced /\ queue_train_points \in Nat
    BY <1>2 DEF ReturnOldest, QueueTypeOK
  <2>2. /\ Head(queue) \in Entries /\ Len(queue) \in Nat \ {0} /\ Len(Tail(queue)) = Len(queue) - 1
        /\ \A i \in 1..Len(queue) - 1 : Tail(queue)[i] = queue[i + 1]
    BY <2>1
  <2>3. queue_train_points' <= queue_train_points
    BY <2>1, <2>2 DEF Max0, Entries
  <2>4. \A i \in 1..Len(queue') : queue'[i] = queue[i + 1] /\ i + 1 \in 1..Len(queue)
    BY <2>1, <2>2
  <2>5. \A i, j \in 1..Len(queue') : i <= j => i + 1 <= j + 1
    BY <2>2
  <2> QED BY <2>1, <2>3, <2>4, <2>5 DEF Stamped
<1> QED BY <1>1, <1>2 DEF GetSample

LEMMA ClearEmpties ==
    ASSUME ClearQueue PROVE Stamped' /\ queue_train_points' = 0
<1>1. queue' = <<>> /\ queue_train_points' = 0
  BY DEF ClearQueue
<1>2. 1..Len(<<>>) = {}
  OBVIOUS
<1> QED BY <1>1, <1>2 DEF Stamped

(* Nothing is added, and the processor is where it was or does not go on.  *)
LEMMA NothingAdded ==
    ASSUME RolloutTypeOK, QueueTypeOK, CommitBound,
           queue_train_points' + Load(task', active') <= queue_train_points + Load(task, active),
           proc' \in {"get", "slot"} => proc \in {"get", "slot"}
    PROVE  CommitBound'
<1> DEFINE c == queue_train_points + Load(task, active)
           d == queue_train_points' + Load(task', active')
<1>1. Commitment = c /\ Commitment' = d
  BY DEF Commitment
<1>2. MaxQueueSize \in Nat /\ EstimatedPoints \in Nat \ {0}
  BY QueueAssumption, RollouterAssumption
<1> QED BY <1>1, <1>2 DEF CommitBound
(* The parts of the invariant that only the tasks disturb.                 *)
TasksKept == UnderWay /\ (EstimateIsUpperBound => WithinEstimate)

CommitKept == EstimateIsUpperBound => CommitBound

LEMMA TasksUntouched ==
    ASSUME TasksKept, UNCHANGED <<active, task>>
    PROVE  TasksKept'
BY DEF TasksKept, UnderWay, WithinEstimate

LEMMA IdleStep ==
    ASSUME IInv, TasksKept, CommitKept, UNCHANGED <<active, task, queue_train_points>>,
           proc' \in {"get", "slot"} => proc \in {"get", "slot"}
    PROVE  TasksKept' /\ CommitKept'
<1>1. RolloutTypeOK /\ QueueTypeOK
  BY DEF IInv, TypeOK
<1>2. Load(task, active) \in Nat /\ queue_train_points \in Nat
  BY <1>1, LoadIsNat DEF QueueTypeOK
<1>3. queue_train_points' + Load(task', active') <= queue_train_points + Load(task, active)
  BY <1>2
<1> QED BY <1>1, <1>3, NothingAdded, TasksUntouched DEF CommitKept

LEMMA GoesOnStep ==
    ASSUME IInv, TasksKept, CommitKept, ProcessorGoesOn, UNCHANGED mqVars
    PROVE  TasksKept' /\ CommitKept'
<1>1. UNCHANGED <<active, task, queue_train_points>> /\ ~ShouldPause
  BY DEF ProcessorGoesOn, mqVars
<1>2. RolloutTypeOK /\ QueueTypeOK /\ queue_train_points \in Nat
  BY DEF IInv, TypeOK, QueueTypeOK
<1>3. ASSUME EstimateIsUpperBound PROVE CommitBound'
  <2>1. Commitment <= Outstanding /\ ~(Outstanding >= MaxQueueSize)
    BY <1>1, <1>2, <1>3, OutstandingCovers DEF TasksKept, ShouldPause
  <2>2. Commitment \in Nat /\ Outstanding \in Int
    <3>1. task \in [RolloutSamples -> Tasks] /\ active \in SUBSET RolloutSamples
      BY <1>2 DEF RolloutTypeOK
    <3>2. IsFiniteSet(Open(task, active)) /\ Open(task, active) = {s \in active : ~Finished(s)}
      BY <3>1, Terms DEF Open, Finished
    <3>3. Cardinality({s \in active : ~Finished(s)}) \in Nat
      BY <3>2, FS_CardinalityType
    <3> QED BY <1>2, <3>3, LoadIsNat, RollouterAssumption DEF Commitment, Outstanding
  <2>3. Commitment <= MaxQueueSize - 1
    BY <2>1, <2>2, QueueAssumption
  <2>4. Commitment' = Commitment
    BY <1>1 DEF Commitment
  <2> QED BY <2>2, <2>3, <2>4, QueueAssumption, RollouterAssumption DEF CommitBound
<1> QED BY <1>1, <1>3, TasksUntouched DEF CommitKept

LEMMA CollectsStep ==
    ASSUME IInv, TasksKept, CommitKept, ProcessorCollects, UNCHANGED mqVars
    PROVE  TasksKept' /\ CommitKept'
<1>1. /\ task' = task /\ active' = active \ {s \in active : Finished(s)}
      /\ queue_train_points' = queue_train_points
      /\ proc' \in {"failed", proc}
  BY DEF ProcessorCollects, mqVars
<1>2. RolloutTypeOK /\ QueueTypeOK
  BY DEF IInv, TypeOK
<1>3. Open(task', active') = Open(task, active)
  BY <1>1 DEF Open, Finished
<1>4. Load(task', active') = Load(task, active)
  BY <1>1, <1>3 DEF Load
<1>5. Load(task, active) \in Nat /\ queue_train_points \in Nat
  BY <1>2, LoadIsNat DEF QueueTypeOK
<1>6. queue_train_points' + Load(task', active') <= queue_train_points + Load(task, active)
  BY <1>1, <1>4, <1>5
<1>7. TasksKept'
  BY <1>1 DEF TasksKept, UnderWay, WithinEstimate, Finished
<1> QED BY <1>1, <1>2, <1>6, <1>7, NothingAdded DEF CommitKept

LEMMA SubmitsStep ==
    ASSUME IInv, IInv', TasksKept, CommitKept, ProcessorSubmits, UNCHANGED mqVars
    PROVE  TasksKept' /\ CommitKept'
<1> DEFINE s == current
<1>1. /\ proc = "slot" /\ proc' = "check" /\ active' = active \cup {s}
      /\ task' = [task EXCEPT ![s].state = "generating"]
      /\ queue_train_points' = queue_train_points
  BY DEF ProcessorSubmits, mqVars
<1>2. /\ RolloutTypeOK /\ QueueTypeOK /\ RolloutTypeOK' /\ FedInOrder
  BY DEF IInv, TypeOK, RolloutInv
<1>3. s \in RolloutSamples /\ task[s].state = "none"
  BY <1>1, <1>2 DEF FedInOrder, RolloutTypeOK, Fresh
<1>4. /\ task \in [RolloutSamples -> Tasks] /\ active \in SUBSET RolloutSamples
      /\ task' \in [RolloutSamples -> Tasks] /\ active' \in SUBSET RolloutSamples
  BY <1>2 DEF RolloutTypeOK
<1>5. /\ \A q \in RolloutSamples \ {s} : task'[q] = task[q] /\ (q \in active <=> q \in active')
      /\ task'[s].state = "generating" /\ s \in active'
  BY <1>1, <1>3, <1>4 DEF Tasks
<1> HIDE DEF s
<1>6. TasksKept'
  BY <1>5 DEF TasksKept, UnderWay, WithinEstimate
<1>7. ASSUME EstimateIsUpperBound PROVE CommitBound'
  <2>1. Load(task', active') + Due(task, active, s) = Load(task, active) + Due(task', active', s)
    BY <1>3, <1>4, <1>5, OneChanges
  <2>2. Due(task', active', s) = EstimatedPoints
    BY <1>3, <1>4, <1>5 DEF Due, Open, Promised
  <2>3. Due(task, active, s) \in Nat /\ Load(task, active) \in Nat /\ Load(task', active') \in Nat
    BY <1>3, <1>4, DueApart
  <2>4. Commitment <= MaxQueueSize - 1
    BY <1>1, <1>7 DEF CommitKept, CommitBound
  <2>5. /\ Commitment = queue_train_points + Load(task, active)
        /\ Commitment' = queue_train_points + Load(task', active')
    BY <1>1 DEF Commitment
  <2>6. queue_train_points \in Nat /\ MaxQueueSize \in Nat /\ EstimatedPoints \in Nat
    BY <1>2, QueueAssumption, RollouterAssumption DEF QueueTypeOK
  <2>7. Load(task', active') <= Load(task, active) + EstimatedPoints
    BY <2>1, <2>2, <2>3, <2>6
  <2>8. Commitment' <= MaxQueueSize + EstimatedPoints - 1
    BY <2>3, <2>4, <2>5, <2>6, <2>7
  <2> QED BY <1>1, <2>8 DEF CommitBound
<1> QED BY <1>6, <1>7 DEF CommitKept

(* A task step adds to the queue at most what it no longer promises.       *)
LEMMA OneTask ==
    ASSUME IInv, IInv', TasksKept, CommitKept, NEW s \in RolloutSamples,
           UNCHANGED taskOnly, NEW n \in Nat, s \in active,
           \A q \in RolloutSamples \ {s} : task'[q] = task[q],
           queue_train_points' <= queue_train_points + n,
           EstimateIsUpperBound =>
              /\ Due(task', active, s) + n <= Due(task, active, s)
              /\ task'[s].state = "putting" => SumOf(task'[s].toPut) <= EstimatedPoints
    PROVE  TasksKept' /\ CommitKept'
<1>1. /\ RolloutTypeOK /\ QueueTypeOK /\ QueueTypeOK' /\ RolloutTypeOK'
      /\ active' = active /\ proc' = proc
  BY DEF IInv, TypeOK, taskOnly
<1>2. /\ task \in [RolloutSamples -> Tasks] /\ active \in SUBSET RolloutSamples
      /\ task' \in [RolloutSamples -> Tasks]
  BY <1>1 DEF RolloutTypeOK
<1>3. TasksKept'
  BY <1>1 DEF TasksKept, UnderWay, WithinEstimate
<1>4. ASSUME EstimateIsUpperBound PROVE CommitBound'
  <2>1. Load(task', active) + Due(task, active, s) = Load(task, active) + Due(task', active, s)
    BY <1>2, OneChanges
  <2>2. /\ Due(task, active, s) \in Nat /\ Load(task, active) \in Nat
        /\ Due(task', active, s) \in Nat /\ Load(task', active) \in Nat
    BY <1>2, DueApart
  <2>3. queue_train_points \in Nat /\ queue_train_points' \in Nat
    BY <1>1 DEF QueueTypeOK
  <2>4. Due(task', active, s) + n <= Due(task, active, s)
    BY <1>4
  <2>5. queue_train_points' + Load(task', active) <= queue_train_points + Load(task, active)
    BY <2>1, <2>2, <2>3, <2>4
  <2> QED BY <1>1, <1>4, <2>5, NothingAdded DEF CommitKept
<1> QED BY <1>3, <1>4 DEF CommitKept
LEMMA TaskStepKeeps ==
    ASSUME IInv, IInv', TasksKept, CommitKept, Stamped, NEW s \in RolloutSamples,
           \/ Generate(s) /\ UNCHANGED mqVars
           \/ Fail(s) /\ UNCHANGED mqVars
           \/ (\E chunks \in Outcomes : Split(s, chunks)) /\ UNCHANGED mqVars
           \/ PutChunk(s)
    PROVE  TasksKept' /\ CommitKept'
<1>1. /\ RolloutTypeOK /\ QueueTypeOK /\ QueueTypeOK' /\ PuttersHaveChunks /\ serverVersion \in Nat
      /\ task[s] \in Tasks /\ task[s].toPut \in Seq(Nat) /\ EstimatedPoints \in Nat
  <2>1. /\ RolloutTypeOK /\ QueueTypeOK /\ QueueTypeOK' /\ PuttersHaveChunks /\ serverVersion \in Nat
    BY DEF IInv, TypeOK, RolloutInv
  <2>2. task[s].toPut \in Seq(Nat)
    BY <2>1, Terms DEF RolloutTypeOK
  <2> QED BY <2>1, <2>2, TaskType, RollouterAssumption
<1>2. /\ UNCHANGED taskOnly /\ \A q \in RolloutSamples \ {s} : task'[q] = task[q]
      /\ task' \in [RolloutSamples -> Tasks]
      /\ task[s].state \in {"generating", "generated", "putting"}
      /\ task'[s].state = "putting" => task'[s].toPut # <<>>
  BY <1>1, TaskSteps
<1>3. s \in active /\ active \in SUBSET RolloutSamples /\ queue_train_points \in Nat
  BY <1>1, <1>2 DEF TasksKept, UnderWay, RolloutTypeOK, QueueTypeOK
<1>4. Due(task, active, s) = IF task[s].state = "putting" THEN SumOf(task[s].toPut) ELSE EstimatedPoints
  BY <1>2, <1>3 DEF Due, Open, Promised
<1>5. Due(task', active, s) = IF task'[s].state \in {"done", "crashed"} THEN 0
                              ELSE IF task'[s].state = "putting" THEN SumOf(task'[s].toPut)
                              ELSE EstimatedPoints
  BY <1>3 DEF Due, Open, Promised
<1>6. ASSUME UNCHANGED mqVars,
             EstimateIsUpperBound =>
                /\ Due(task', active, s) <= Due(task, active, s)
                /\ task'[s].state = "putting" => SumOf(task'[s].toPut) <= EstimatedPoints
      PROVE  TasksKept' /\ CommitKept'
  <2>1. queue_train_points' <= queue_train_points + 0 /\ 0 \in Nat
    BY <1>3, <1>6 DEF mqVars
  <2>2. Due(task', active, s) \in Nat
    BY <1>2, <1>3, DueApart
  <2>3. Due(task', active, s) + 0 = Due(task', active, s)
    BY <2>2
  <2> QED BY <1>2, <1>3, <1>6, <2>1, <2>3, OneTask
<1>7. CASE Generate(s) /\ UNCHANGED mqVars
  <2>1. task[s].state = "generating" /\ task'[s].state = "generated"
    BY <1>1, <1>7 DEF Generate, RolloutTypeOK, Tasks
  <2> QED BY <1>1, <1>4, <1>5, <1>6, <1>7, <2>1
<1>8. CASE Fail(s) /\ UNCHANGED mqVars
  <2>1. task[s].state = "generating" /\ task'[s].state \in {"done", "crashed"}
    BY <1>1, <1>8 DEF Fail, RolloutTypeOK, Tasks
  <2> QED BY <1>1, <1>4, <1>5, <1>6, <1>8, <2>1
<1>9. ASSUME NEW chunks \in Outcomes, Split(s, chunks), UNCHANGED mqVars
      PROVE  TasksKept' /\ CommitKept'
  <2>1. /\ task[s].state = "generated" /\ task'[s].toPut = chunks
        /\ task'[s].state = (IF chunks = <<>> THEN "done" ELSE "putting")
    BY <1>1, <1>9 DEF Split, RolloutTypeOK, Tasks
  <2>2. EstimateIsUpperBound => SumOf(chunks) <= EstimatedPoints
    BY DEF EstimateIsUpperBound
  <2> QED BY <1>1, <1>4, <1>5, <1>6, <1>9, <2>1, <2>2
<1>10. CASE PutChunk(s)
  <2> DEFINE toPut == task[s].toPut
             n == NextChunk(s).points
  <2>1. /\ task[s].state = "putting" /\ toPut \in Seq(Nat) /\ toPut # <<>>
        /\ PutSample(NextChunk(s), n) /\ task' = [task EXCEPT ![s] = AfterPut(task[s])]
    BY <1>1, <1>10 DEF PutChunk, PuttersHaveChunks
  <2>2. /\ NextChunk(s) \in Chunks /\ n \in Nat \ {0} /\ n = Head(toPut)
        /\ Tail(toPut) \in Seq(Nat) /\ Len(Tail(toPut)) = Len(toPut) - 1
    <3>1. Tail(toPut) \in Seq(Nat)
      BY <2>1
    <3> QED BY <1>1, <2>1, <3>1, NextChunkType DEF NextChunk
  <2>3. SumOf(toPut) = n + SumOf(Tail(toPut)) /\ SumOf(Tail(toPut)) \in Nat
    BY <2>1, <2>2, SumOfFacts
  <2>4. task'[s] = AfterPut(task[s])
    BY <1>1, <2>1 DEF RolloutTypeOK
  <2>5. \/ task'[s].state = "done"
        \/ task'[s].state = "putting" /\ task'[s].toPut = Tail(toPut)
    <3>1. CASE Len(toPut) = 1
      BY <2>4, <3>1 DEF AfterPut, NoTask
    <3>2. CASE Len(toPut) # 1
      <4>1. task'[s] = [task[s] EXCEPT !.toPut = Tail(@), !.part = @ + 1]
        BY <2>4, <3>2 DEF AfterPut
      <4>2. task'[s].state = task[s].state /\ task'[s].toPut = Tail(toPut)
        BY <1>1, <4>1 DEF Tasks
      <4> QED BY <2>1, <4>2
    <3> QED BY <3>1, <3>2
  <2>6. Due(task, active, s) = n + SumOf(Tail(toPut))
    BY <1>4, <2>1, <2>3
  <2>7. Due(task', active, s) <= SumOf(Tail(toPut)) /\ Due(task', active, s) \in Nat
    BY <1>5, <2>3, <2>5
  <2>8. Due(task', active, s) + n <= Due(task, active, s)
    <3> DEFINE d == Due(task', active, s)
               e == Due(task, active, s)
               m == SumOf(Tail(toPut))
    <3>1. e = n + m /\ d <= m /\ d \in Nat /\ m \in Nat /\ n \in Nat
      BY <2>2, <2>3, <2>6, <2>7
    <3> HIDE DEF d, e, m, n
    <3> QED BY <3>1 DEF d, e
  <2>9. queue_train_points' <= queue_train_points + n
    <3>1. NextChunk(s) # NoItem
      BY <2>2, NoItemAssumption
    <3>2. TrainPoints(NextChunk(s), n) = n
      BY <2>2, <3>1 DEF TrainPoints
    <3> QED BY <1>1, <2>1, <2>2, <3>2, PutAdds
  <2>10. EstimateIsUpperBound /\ task'[s].state = "putting" => SumOf(task'[s].toPut) <= EstimatedPoints
    <3> SUFFICES ASSUME EstimateIsUpperBound, task'[s].state = "putting"
                 PROVE  SumOf(task'[s].toPut) <= EstimatedPoints
      OBVIOUS
    <3>1. SumOf(toPut) <= EstimatedPoints
      BY <2>1 DEF TasksKept, WithinEstimate
    <3>2. task'[s].toPut = Tail(toPut)
      BY <2>5
    <3> HIDE DEF n, toPut
    <3> QED BY <1>1, <2>2, <2>3, <3>1, <3>2
  <2>11. n \in Nat
    BY <2>2
  <2> HIDE DEF n, toPut
  <2> QED BY <1>2, <1>3, <2>8, <2>9, <2>10, <2>11, OneTask
<1> QED BY <1>7, <1>8, <1>9, <1>10

LEMMA QuietKeeps ==
    ASSUME IInv, IInv', Stamped, TasksKept, CommitKept, RolloutQuiet, UNCHANGED mqVars
    PROVE  TasksKept' /\ CommitKept'
<1>1. UNCHANGED queue_train_points
  BY DEF mqVars
<1>2. CASE \/ Feed \/ FeedEnd \/ ProcessorDecidesToPause \/ ProcessorPauses \/ ProcessorWaits
           \/ ProcessorParks \/ ProcessorGets \/ ProcessorEnds
  <2>1. UNCHANGED <<active, task>> /\ (proc' \in {"get", "slot"} => proc \in {"get", "slot"})
    BY <1>2 DEF Feed, FeedEnd, ProcessorDecidesToPause, ProcessorPauses, ProcessorWaits,
                ProcessorParks, ProcessorGets, ProcessorEnds
  <2> QED BY <1>1, <2>1, IdleStep
<1>3. CASE MonitorDecides \/ MonitorResumes \/ ResetBegins \/ ResetReturns
  <2>1. UNCHANGED <<active, task>> /\ (proc' \in {"get", "slot"} => proc \in {"get", "slot"})
    BY <1>3 DEF MonitorDecides, MonitorResumes, ResetBegins, ResetReturns, NotifyProcessor
  <2> QED BY <1>1, <2>1, IdleStep
<1>4. ASSUME NEW s \in RolloutSamples,
             Generate(s) \/ Fail(s) \/ \E chunks \in Outcomes : Split(s, chunks)
      PROVE  TasksKept' /\ CommitKept'
  BY <1>4, TaskStepKeeps
<1> QED BY <1>2, <1>3, <1>4, GoesOnStep, CollectsStep, SubmitsStep DEF RolloutQuiet, Processor

LEMMA BackpressureInit == Init => BackpressureInv
<1> SUFFICES ASSUME Init PROVE BackpressureInv
  OBVIOUS
<1>1. IInv
  BY InitInv
<1>2. /\ queue = <<>> /\ queue_train_points = 0 /\ proc = "check" /\ active = {}
      /\ task = [s \in RolloutSamples |-> NoTask]
  BY DEF Init, ChannelsInit, MQInit, RollouterInit
<1>3. Stamped
  <2>1. 1..Len(<<>>) = {}
    OBVIOUS
  <2> QED BY <1>2, <2>1 DEF Stamped
<1>4. \A s \in RolloutSamples : task[s].state = "none"
  BY <1>2 DEF NoTask
<1>5. UnderWay /\ WithinEstimate
  BY <1>4 DEF UnderWay, WithinEstimate
<1>6. Load(task, active) = 0
  <2>1. Open(task, active) = {}
    BY <1>2 DEF Open
  <2> QED BY <2>1, TotalTakes, FS_EmptySet DEF Load
<1>7. CommitBound
  BY <1>2, <1>6, QueueAssumption, RollouterAssumption DEF CommitBound, Commitment
<1> QED BY <1>3, <1>5, <1>7 DEF BackpressureInv

LEMMA BackpressureNext == IInv /\ IInv' /\ BackpressureInv /\ [Next]_vars => BackpressureInv'
<1> SUFFICES ASSUME IInv, IInv', BackpressureInv, [Next]_vars PROVE BackpressureInv'
  OBVIOUS
<1>1. Stamped /\ TasksKept /\ CommitKept
  BY DEF BackpressureInv, TasksKept, CommitKept
<1>2. QueueTypeOK /\ QueueTypeOK' /\ RolloutTypeOK /\ queue_train_points \in Nat
  BY DEF IInv, TypeOK, QueueTypeOK
<1>3. CASE RolloutQuiet /\ UNCHANGED <<mqVars, trainerVars>>
  <2>1. Stamped'
    BY <1>1, <1>3 DEF Stamped, mqVars
  <2> QED BY <1>1, <1>3, <2>1, QuietKeeps DEF BackpressureInv, TasksKept, CommitKept
<1>4. ASSUME NEW s \in RolloutSamples, PutChunk(s) PROVE BackpressureInv'
  <2>1. NextChunk(s) \in Chunks /\ NextChunk(s).points \in Nat
    BY <1>2, <1>4, NextChunkType DEF PutChunk, IInv, RolloutInv
  <2>2. Stamped'
    BY <1>1, <1>2, <1>4, <2>1, PutAdds DEF PutChunk
  <2> QED BY <1>1, <1>4, <2>2, TaskStepKeeps DEF BackpressureInv, TasksKept, CommitKept
<1>5. ASSUME Stamped', queue_train_points' <= queue_train_points, UNCHANGED <<active, task, proc>>
      PROVE  BackpressureInv'
  <2>1. TasksKept'
    BY <1>1, <1>5, TasksUntouched
  <2>2. queue_train_points' + Load(task', active') <= queue_train_points + Load(task, active)
    <3>1. queue_train_points' \in Nat /\ Load(task, active) \in Nat
      BY <1>2, LoadIsNat DEF QueueTypeOK
    <3>2. Load(task', active') = Load(task, active)
      BY <1>5
    <3> QED BY <1>2, <1>5, <3>1, <3>2
  <2>3. CommitKept'
    BY <1>1, <1>2, <1>5, <2>2, NothingAdded DEF CommitKept
  <2> QED BY <1>5, <2>1, <2>3 DEF BackpressureInv, TasksKept, CommitKept
<1>6. CASE RolloutFinishes \/ RolloutFails
  <2>1. PutSample(NoItem, 0) /\ UNCHANGED <<active, task, proc>>
    BY <1>6 DEF RolloutFinishes, RolloutFails
  <2>2. Stamped' /\ queue_train_points' <= queue_train_points + 0
    BY <1>1, <1>2, <2>1, PutAdds DEF TrainPoints
  <2> QED BY <1>2, <1>5, <2>1, <2>2
<1>7. CASE Collect /\ UNCHANGED rolloutVars
  <2>1. GetSample(TheTrainer) /\ UNCHANGED <<active, task, proc>>
    BY <1>7 DEF Collect, rolloutVars
  <2> QED BY <1>1, <1>2, <1>5, <2>1, GetTakes
<1>8. CASE ClearQueue /\ UNCHANGED <<rolloutVars, trainerVars>>
  <2>1. Stamped' /\ queue_train_points' = 0 /\ UNCHANGED <<active, task, proc>>
    BY <1>8, ClearEmpties DEF rolloutVars
  <2> QED BY <1>2, <1>5, <2>1
<1>9. CASE UNCHANGED <<mqVars, rolloutVars>>
  <2>1. UNCHANGED <<queue, produced, queue_train_points>> /\ UNCHANGED <<active, task, proc>>
    BY <1>9 DEF mqVars, rolloutVars
  <2>2. Stamped'
    BY <1>1, <2>1 DEF Stamped
  <2> QED BY <1>2, <1>5, <2>1, <2>2
<1> QED BY <1>3, <1>4, <1>6, <1>7, <1>8, <1>9, StepCases DEF RolloutPuts

LEMMA Backpressure == Spec => []BackpressureInv
BY BackpressureInit, BackpressureNext, Invariant, PTL DEF Spec

(* As long as no rollout yields more than its estimate, what is queued and *)
(* what is under way exceed the queue's capacity by less than one rollout, *)
(* for any number of rollouts, any sizes and any interleaving              *)
(* (FullyAsync!BackpressureBound).                                         *)
THEOREM BackpressureHolds == Spec => []BackpressureBound
<1>1. IInv /\ BackpressureInv => BackpressureBound
  <2> SUFFICES ASSUME IInv, BackpressureInv, EstimateIsUpperBound
               PROVE  Committed <= MaxQueueSize + EstimatedPoints - 1
    BY DEF BackpressureBound
  <2>1. task \in [RolloutSamples -> Tasks] /\ active \in SUBSET RolloutSamples
    BY DEF IInv, TypeOK, RolloutTypeOK
  <2>2. IsFiniteSet(Unfinished)
    <3>1. Unfinished = Open(task, active)
      BY DEF Unfinished, Finished, Open
    <3> QED BY <2>1, <3>1, Terms
  <2>3. Committed = Commitment
    BY <2>1, <2>2, CommittedIsLoad DEF Commitment
  <2>4. CommitBound
    BY DEF BackpressureInv
  <2> QED BY <2>3, <2>4 DEF CommitBound
<1> QED BY <1>1, Invariant, Backpressure, PTL
===============================================================================
