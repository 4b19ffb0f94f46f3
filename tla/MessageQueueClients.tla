-------------------------- MODULE MessageQueueClients --------------------------
(***************************************************************************)
(* The message queue with callers that use it in every way its interface   *)
(* allows: items of any weight and termination signals are put, several    *)
(* consumers call get_sample, and the queue may be cleared or shut down at *)
(* any point.  The n-th put carries the number n, so that an item is known *)
(* by the order in which it was put.                                       *)
(***************************************************************************)
EXTENDS MessageQueue, SequencesExt

CONSTANTS Counts,   \* the item_count values callers pass
          MaxPuts   \* bound on the number of puts in a behaviour

ASSUME ClientsAssumption ==
    /\ Counts \subseteq Int
    /\ MaxPuts \in Nat
    /\ NoItem \notin Nat

Items == (1..MaxPuts) \cup {NoItem}

Put(item, item_count) ==
    /\ produced.samples < MaxPuts
    /\ PutSample(item, item_count)

PutNext(item_count) == Put(produced.samples + 1, item_count)

PutTermination == Put(NoItem, 0)

(* Clearing an empty queue, or closing a closed one, changes nothing.      *)
Clear == queue # <<>> /\ ClearQueue

Close == running /\ Shutdown

Next ==
    \/ \E item_count \in Counts : PutNext(item_count)
    \/ PutTermination
    \/ \E c \in Consumers : GetSample(c)
    \/ Clear
    \/ Close

Init == MQInit

(* The event loop resumes every coroutine that was notified.               *)
Fairness == \A c \in Consumers : WF_mqVars(consumer[c] = "woken" /\ GetSample(c))

Spec == Init /\ [][Next]_mqVars

FairSpec == Spec /\ Fairness
-------------------------------------------------------------------------------
Entry == [item : Items, points : Nat, upto : Nat]

Counter == [samples : Nat, points : Nat]

(* Every variable stays in its type (the queue's counters never go below   *)
(* zero although the code only clamps one of them).                        *)
TypeOK ==
    /\ queue \in Seq(Entry)
    /\ queue_train_points \in Nat
    /\ running \in BOOLEAN
    /\ produced \in Counter
    /\ consumed \in Counter
    /\ dropped \in Counter
    /\ cleared \in Counter
    /\ consumer \in [Consumers -> {"idle", "waiting", "woken"}]
    /\ received \in [Consumers -> Items]

EntriesBalance ==
    produced.samples = consumed.samples + dropped.samples + cleared.samples + Len(queue)

PointsBalance ==
    produced.points = consumed.points + dropped.points + cleared.points + queue_train_points

(* put_sample/get_sample/clear_queue bookkeeping: every entry and every    *)
(* train point ever produced is consumed, dropped, cleared or still queued.*)
Accounting == EntriesBalance /\ PointsBalance

(* put_sample: the queue is over its capacity only when it holds a single  *)
(* entry that is larger than the whole queue.                              *)
OverCapacityOnlyAlone == queue_train_points > MaxQueueSize => Len(queue) = 1

(* get_sample's wait loop and the notifications of put_sample and shutdown:*)
(* no consumer sleeps while there is an item for it, or after the close.   *)
NoLostWakeup ==
    (\E c \in Consumers : consumer[c] = "waiting") => queue = <<>> /\ running

(* shutdown lets every consumer that slept in get_sample return.           *)
ShutdownReleases ==
    \A c \in Consumers : consumer[c] # "idle" /\ ~running ~> consumer[c] = "idle"

(* The queue implements the FIFO that only loses its oldest items.         *)
Fifo == INSTANCE LossyFifo WITH
            contents <- [i \in 1..Len(queue) |-> queue[i].item],
            open <- running,
            given <- received

ImplementsLossyFifo == Fifo!Spec
===============================================================================
