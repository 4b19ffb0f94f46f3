----------------------------- MODULE MessageQueue -----------------------------
(***************************************************************************)
(* The bounded queue between the rollouter and the trainer, the Ray actor  *)
(* of message_queue.py.  Its capacity is counted in train points, not in   *)
(* entries: an entry weighs the trainable rows it carries, the termination *)
(* signal None weighs nothing, and a put makes room by dropping the oldest *)
(* entries.  Every method runs under one asyncio lock and suspends only in *)
(* the consumer condition, so every method is one atomic step, except that *)
(* get_sample may go to sleep and is resumed by notify_all.                *)
(***************************************************************************)
EXTENDS Integers, Sequences

CONSTANTS MaxQueueSize,  \* max_queue_size, in train points
          Consumers,     \* the callers of get_sample
          NoItem         \* Python's None, the termination signal

ASSUME QueueAssumption == MaxQueueSize \in Nat

VARIABLES queue,               \* entries [item, points, upto], oldest first
          queue_train_points,  \* the running total the code keeps
          running,             \* cleared by shutdown, never set again
          produced,            \* total_produced and total_produced_train_points
          consumed,            \* total_consumed and total_consumed_train_points
          dropped,             \* dropped_samples and dropped_train_points
          cleared,             \* what clear_queue discarded (auxiliary: not counted there)
          consumer,            \* per consumer: "idle", "waiting" or "woken"
          received             \* per consumer: the last value get_sample returned

mqVars == <<queue, queue_train_points, running,
            produced, consumed, dropped, cleared, consumer, received>>

counters == <<produced, consumed, dropped, cleared>>

(***************************************************************************)
(* An entry's upto is the value produced.points had once the entry was     *)
(* appended.  The code does not store it: it is an auxiliary stamp that    *)
(* gives the weight of any run of entries as a difference.                 *)
(***************************************************************************)
Nothing == [samples |-> 0, points |-> 0]

Plus(counter, samples, points) ==
    [samples |-> counter.samples + samples, points |-> counter.points + points]

MQInit ==
    /\ queue = <<>>
    /\ queue_train_points = 0
    /\ running = TRUE
    /\ produced = Nothing
    /\ consumed = Nothing
    /\ dropped = Nothing
    /\ cleared = Nothing
    /\ consumer = [c \in Consumers |-> "idle"]
    /\ received = [c \in Consumers |-> NoItem]

Max0(n) == IF n < 0 THEN 0 ELSE n

(* The weight put_sample gives an item: None weighs 0, anything else >= 1. *)
TrainPoints(item, item_count) ==
    IF item = NoItem THEN 0 ELSE IF item_count < 1 THEN 1 ELSE item_count

(* Weight of the k oldest entries.                                         *)
OldestPoints(k) ==
    IF k = 0 THEN 0 ELSE queue[k].upto - (queue[1].upto - queue[1].points)

(* Mutant of PointsAfterDropping: an eviction does not reduce the total.    *)
TotalKept(k) == queue_train_points

PointsAfterDropping(k) == Max0(queue_train_points - OldestPoints(k))

(* Mutant of EvictsUntil: "if" instead of "while".                          *)
EvictsAtMostOne(k, points) ==
    k = IF queue # <<>> /\ queue_train_points + points > MaxQueueSize THEN 1 ELSE 0

(* The eviction loop stops after k entries: it would have gone on at every *)
(* earlier count, and at k the queue is empty or the new item fits.        *)
EvictsUntil(k, points) ==
    /\ \A j \in 0..k-1 : PointsAfterDropping(j) + points > MaxQueueSize
    /\ \/ k = Len(queue)
       \/ PointsAfterDropping(k) + points <= MaxQueueSize

(* Mutant of NotifyAll: notify() instead of notify_all().                   *)
NotifyOne ==
    IF \A c \in Consumers : consumer[c] # "waiting"
      THEN UNCHANGED consumer
      ELSE \E c \in Consumers : consumer[c] = "waiting"
                               /\ consumer' = [consumer EXCEPT ![c] = "woken"]

NotifyAll == consumer' = [c \in Consumers |->
                            IF consumer[c] = "waiting" THEN "woken" ELSE consumer[c]]

(* put_sample: returns False exactly when it evicted something.            *)
PutSample(item, item_count) ==
    LET points == TrainPoints(item, item_count)
    IN \E k \in 0..Len(queue) :
         /\ EvictsUntil(k, points)
         /\ queue' = Append(SubSeq(queue, k + 1, Len(queue)),
                            [item |-> item, points |-> points,
                             upto |-> produced.points + points])
         /\ queue_train_points' = PointsAfterDropping(k) + points
         /\ produced' = Plus(produced, 1, points)
         /\ dropped' = Plus(dropped, k, OldestPoints(k))
         /\ NotifyAll
         /\ UNCHANGED <<running, received, consumed, cleared>>

(* get_sample, up to its suspension on the condition ...                   *)
Sleep(c) ==
    /\ queue = <<>>
    /\ running
    /\ consumer' = [consumer EXCEPT ![c] = "waiting"]
    /\ UNCHANGED <<queue, queue_train_points, running, counters, received>>

(* ... or to its return: None from a closed empty queue, else the oldest.  *)
ReturnClosed(c) ==
    /\ queue = <<>>
    /\ ~running
    /\ consumer' = [consumer EXCEPT ![c] = "idle"]
    /\ received' = [received EXCEPT ![c] = NoItem]
    /\ UNCHANGED <<queue, queue_train_points, running, counters>>

(* Mutant of OldestItem: pop instead of popleft.                            *)
NewestItem == queue[Len(queue)].item

OldestItem == Head(queue).item

ReturnOldest(c) ==
    /\ queue # <<>>
    /\ queue' = Tail(queue)
    /\ queue_train_points' = Max0(queue_train_points - Head(queue).points)
    /\ consumed' = Plus(consumed, 1, Head(queue).points)
    /\ consumer' = [consumer EXCEPT ![c] = "idle"]
    /\ received' = [received EXCEPT ![c] = OldestItem]
    /\ UNCHANGED <<running, produced, dropped, cleared>>

(* A call starts when its consumer is idle and resumes when it is woken.   *)
GetSample(c) ==
    /\ consumer[c] \in {"idle", "woken"}
    /\ Sleep(c) \/ ReturnClosed(c) \/ ReturnOldest(c)

(* clear_queue does not count what it discards: cleared_* are auxiliary.   *)
ClearQueue ==
    /\ queue' = <<>>
    /\ queue_train_points' = 0
    /\ cleared' = Plus(cleared, Len(queue), queue_train_points)
    /\ UNCHANGED <<running, consumer, received, produced, consumed, dropped>>

Shutdown ==
    /\ running' = FALSE
    /\ NotifyAll
    /\ UNCHANGED <<queue, queue_train_points, counters, received>>
===============================================================================
