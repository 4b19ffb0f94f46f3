-------------------------- MODULE MessageQueueProofs --------------------------
(***************************************************************************)
(* The message queue's invariants, for every capacity, every set of        *)
(* consumers and every choice of weights.                                  *)
(***************************************************************************)
EXTENDS MessageQueueClients, SequenceTheorems, TLAPS

(* The stamps of the queued entries increase by each entry's own weight,   *)
(* and the last one is the total put so far.                               *)
Stamps ==
    /\ \A i \in 1..Len(queue) :
          /\ queue[i].points <= queue[i].upto
          /\ queue[i].upto <= produced.points
    /\ \A i, j \in 1..Len(queue) : j < i => queue[j].upto <= queue[i].upto - queue[i].points
    /\ \A i \in 1..Len(queue) : i < Len(queue) =>
          queue[i+1].upto = queue[i].upto + queue[i+1].points
    /\ queue # <<>> => queue[Len(queue)].upto = produced.points

(* The running total is what was put after the oldest entry's predecessor. *)
TotalFromStamps ==
    queue_train_points =
        IF queue = <<>> THEN 0
        ELSE produced.points - (queue[1].upto - queue[1].points)

(* Moving e points from one term of a sum to another and adding f points.  *)
LEMMA MovedPoints ==
    \A a, b, c, d, e, f \in Int :
        a + (b + e) + c + (d - e + f) = (a + b + c + d) + f
  OBVIOUS

IInv ==
    /\ TypeOK
    /\ Stamps
    /\ TotalFromStamps
    /\ Accounting
    /\ OverCapacityOnlyAlone
    /\ NoLostWakeup
-------------------------------------------------------------------------------
(* The shape of a queue after a put that drops the k oldest entries.       *)
LEMMA DropThenAppend ==
    ASSUME NEW S, NEW q \in Seq(S), NEW k \in 0..Len(q), NEW e \in S
    PROVE  /\ Append(SubSeq(q, k + 1, Len(q)), e) \in Seq(S)
           /\ Len(Append(SubSeq(q, k + 1, Len(q)), e)) = Len(q) - k + 1
           /\ Append(SubSeq(q, k + 1, Len(q)), e) # <<>>
           /\ \A i \in 1..Len(q) - k :
                 Append(SubSeq(q, k + 1, Len(q)), e)[i] = q[i + k]
           /\ Append(SubSeq(q, k + 1, Len(q)), e)[Len(q) - k + 1] = e
<1> DEFINE t == SubSeq(q, k + 1, Len(q))
<1>1. Len(q) \in Nat /\ \A i \in 1..Len(q) : q[i] \in S
  BY LenProperties, ElementOfSeq
<1>2. /\ t \in Seq(S)
      /\ Len(t) = Len(q) - k
      /\ \A i \in 1..Len(q) - k : t[i] = q[i + k]
  <2>1. \A i \in (k + 1)..Len(q) : q[i] \in S
    BY <1>1
  <2>2. /\ SubSeq(q, k + 1, Len(q)) \in Seq(S)
        /\ Len(SubSeq(q, k + 1, Len(q))) =
             IF k + 1 <= Len(q) THEN Len(q) - (k + 1) + 1 ELSE 0
        /\ \A i \in 1..Len(q) - (k + 1) + 1 :
             SubSeq(q, k + 1, Len(q))[i] = q[(k + 1) + i - 1]
    <3>1. k + 1 \in Int /\ Len(q) \in Int
      BY <1>1
    <3> QED  BY <2>1, <3>1, SubSeqProperties
  <2> QED  BY <1>1, <2>2
<1> HIDE DEF t
<1>3. /\ Append(t, e) \in Seq(S)
      /\ Append(t, e) # <<>>
      /\ Len(Append(t, e)) = Len(t) + 1
      /\ \A i \in 1..Len(t) : Append(t, e)[i] = t[i]
      /\ Append(t, e)[Len(t) + 1] = e
  BY <1>2, AppendProperties
<1>4. \A i \in 1..Len(q) - k : Append(t, e)[i] = q[i + k]
  BY <1>2, <1>3
<1>5. Len(Append(t, e)) = Len(q) - k + 1 /\ Append(t, e)[Len(q) - k + 1] = e
  BY <1>1, <1>2, <1>3
<1> QED  BY <1>3, <1>4, <1>5 DEF t

LEMMA QueueFacts ==
    ASSUME TypeOK
    PROVE  /\ Len(queue) \in Nat
           /\ queue # <<>> <=> Len(queue) > 0
           /\ \A i \in 1..Len(queue) :
                 queue[i] \in Entry /\ queue[i].upto \in Nat /\ queue[i].points \in Nat
           /\ produced.points \in Nat
           /\ queue_train_points \in Nat
<1>1. /\ Len(queue) \in Nat
      /\ \A i \in 1..Len(queue) : queue[i] \in Entry
      /\ queue # <<>> <=> Len(queue) > 0
      /\ produced.points \in Nat
      /\ queue_train_points \in Nat
  BY LenProperties, ElementOfSeq, EmptySeq DEF TypeOK, Counter
<1>2. \A i \in 1..Len(queue) : queue[i].upto \in Nat /\ queue[i].points \in Nat
  BY <1>1 DEF Entry
<1> QED  BY <1>1, <1>2

(* The weight of the k oldest entries, under the invariant, is at most the *)
(* running total, so the clamp at zero in the eviction loop never applies. *)
LEMMA EvictedWeight ==
    ASSUME TypeOK, Stamps, TotalFromStamps, NEW k \in 0..Len(queue)
    PROVE  /\ OldestPoints(k) \in Nat
           /\ OldestPoints(k) <= queue_train_points
           /\ PointsAfterDropping(k) = queue_train_points - OldestPoints(k)
           /\ k < Len(queue) => PointsAfterDropping(k) =
                produced.points - (queue[k+1].upto - queue[k+1].points)
           /\ k = Len(queue) => PointsAfterDropping(k) = 0
<1>1. /\ Len(queue) \in Nat
      /\ queue # <<>> <=> Len(queue) > 0
      /\ produced.points \in Nat
      /\ queue_train_points \in Nat
  BY QueueFacts
<1>2. \A i \in 1..Len(queue) : queue[i].upto \in Nat /\ queue[i].points \in Nat
  BY QueueFacts
<1>3. CASE k = 0
  BY <1>1, <1>2, <1>3 DEF Stamps, TotalFromStamps, OldestPoints, PointsAfterDropping, Max0
<1>4. CASE k > 0
  <2>1. k \in 1..Len(queue) /\ 1 \in 1..Len(queue) /\ queue # <<>>
    BY <1>1, <1>4
  <2>2. OldestPoints(k) = queue[k].upto - (queue[1].upto - queue[1].points)
    BY <1>4 DEF OldestPoints
  <2>3. queue[1].upto - queue[1].points <= queue[k].upto
    BY <1>2, <2>1 DEF Stamps
  <2>4. queue_train_points =
          produced.points - (queue[1].upto - queue[1].points)
    BY <2>1 DEF TotalFromStamps
  <2>5. queue[k].upto <= produced.points
    BY <2>1 DEF Stamps
  <2>6. k < Len(queue) => queue[k+1].upto = queue[k].upto + queue[k+1].points
                          /\ k + 1 \in 1..Len(queue)
    BY <1>1, <2>1 DEF Stamps
  <2>7. k = Len(queue) => queue[k].upto = produced.points
    BY <2>1 DEF Stamps
  <2>8. /\ OldestPoints(k) \in Nat
        /\ OldestPoints(k) <= queue_train_points
    BY <1>1, <1>2, <2>1, <2>2, <2>3, <2>4, <2>5
  <2>9. PointsAfterDropping(k) = queue_train_points - OldestPoints(k)
    BY <1>1, <2>8 DEF PointsAfterDropping, Max0
  <2>10. PointsAfterDropping(k) = produced.points - queue[k].upto
    BY <1>1, <1>2, <2>1, <2>2, <2>4, <2>9
  <2> QED
    BY <1>1, <1>2, <2>1, <2>6, <2>7, <2>8, <2>9, <2>10
<1> QED  BY <1>1, <1>3, <1>4
-------------------------------------------------------------------------------
LEMMA InitIInv == Init => IInv
<1> SUFFICES ASSUME Init PROVE IInv
  OBVIOUS
<1> USE DEF Init, MQInit
<1>1. queue = <<>> /\ Len(queue) = 0
  BY EmptySeq
<1>2. TypeOK
  BY DEF TypeOK, Entry, Items, Counter, Nothing
<1>3. Stamps /\ TotalFromStamps
  BY <1>1 DEF Stamps, TotalFromStamps
<1>4. Accounting
  BY <1>1 DEF Accounting, EntriesBalance, PointsBalance, Nothing
<1>5. OverCapacityOnlyAlone /\ NoLostWakeup
  BY <1>1, QueueAssumption DEF OverCapacityOnlyAlone, NoLostWakeup
<1> QED  BY <1>2, <1>3, <1>4, <1>5 DEF IInv

(* A put keeps the invariant, however many entries it has to evict.        *)
LEMMA PutKeepsIInv ==
    ASSUME IInv, NEW item \in Items, NEW item_count \in Int, PutSample(item, item_count)
    PROVE  IInv'
<1> DEFINE points == TrainPoints(item, item_count)
           total == produced.points
           new == [item |-> item, points |-> points, upto |-> total + points]
<1>1. points \in Nat /\ total \in Nat /\ new \in Entry
  BY DEF TrainPoints, IInv, TypeOK, Counter, Entry
<1>2. PICK k \in 0..Len(queue) :
         /\ EvictsUntil(k, points)
         /\ queue' = Append(SubSeq(queue, k + 1, Len(queue)), new)
         /\ queue_train_points' = PointsAfterDropping(k) + points
         /\ produced' = Plus(produced, 1, points)
         /\ dropped' = Plus(dropped, k, OldestPoints(k))
         /\ NotifyAll
         /\ UNCHANGED <<running, received, consumed, cleared>>
  BY DEF PutSample
<1> HIDE DEF points
<1>3. Len(queue) \in Nat /\ queue \in Seq(Entry) /\ k \in Nat /\ k <= Len(queue)
  <2>1. TypeOK /\ queue \in Seq(Entry)
    BY DEF IInv, TypeOK
  <2>2. Len(queue) \in Nat
    BY <2>1, QueueFacts
  <2> QED  BY <2>1, <2>2
<1>4. \A i \in 1..Len(queue) :
         queue[i] \in Entry /\ queue[i].upto \in Nat /\ queue[i].points \in Nat
  BY QueueFacts DEF IInv
<1>5. /\ queue' \in Seq(Entry)
      /\ Len(queue') = Len(queue) - k + 1
      /\ queue' # <<>>
      /\ \A i \in 1..Len(queue) - k : queue'[i] = queue[i + k]
      /\ queue'[Len(queue) - k + 1] = new
  <2> HIDE DEF new
  <2>1. queue' = Append(SubSeq(queue, k + 1, Len(queue)), new)
    BY <1>2
  <2>2. queue \in Seq(Entry) /\ new \in Entry /\ k \in 0..Len(queue)
    BY <1>1, <1>3
  <2> DEFINE r == Append(SubSeq(queue, k + 1, Len(queue)), new)
  <2>3. /\ r \in Seq(Entry)
        /\ Len(r) = Len(queue) - k + 1
        /\ r # <<>>
        /\ \A i \in 1..Len(queue) - k : r[i] = queue[i + k]
        /\ r[Len(queue) - k + 1] = new
    BY <2>2, DropThenAppend, SMTT(40)
  <2> HIDE DEF r
  <2>4. queue' = r
    BY <2>1 DEF r
  <2> QED  BY <2>3, <2>4
<1>6. Len(queue') = Len(queue) - k + 1 /\ queue' # <<>>
  BY <1>5
<1>7. \A i \in 1..Len(queue') :
         \/ i = Len(queue') /\ queue'[i] = new
         \/ /\ i < Len(queue')
            /\ i + k \in 1..Len(queue)
            /\ i \in 1..Len(queue) - k
            /\ queue'[i] = queue[i + k]
  <2> SUFFICES ASSUME NEW i \in 1..Len(queue')
               PROVE  \/ i = Len(queue') /\ queue'[i] = new
                      \/ /\ i < Len(queue')
                         /\ i + k \in 1..Len(queue)
                         /\ i \in 1..Len(queue) - k
                         /\ queue'[i] = queue[i + k]
    OBVIOUS
  <2> HIDE DEF new
  <2>1. \/ i = Len(queue) - k + 1 /\ i = Len(queue')
        \/ i \in 1..Len(queue) - k /\ i + k \in 1..Len(queue) /\ i < Len(queue')
    BY <1>3, <1>6
  <2> QED  BY <1>5, <2>1, Zenon
<1>8. /\ OldestPoints(k) \in Nat
      /\ OldestPoints(k) <= queue_train_points
      /\ PointsAfterDropping(k) = queue_train_points - OldestPoints(k)
      /\ k < Len(queue) =>
           PointsAfterDropping(k) = total - (queue[k+1].upto - queue[k+1].points)
      /\ k = Len(queue) => PointsAfterDropping(k) = 0
  BY EvictedWeight DEF IInv
<1>9. /\ produced' \in Counter /\ dropped' \in Counter
      /\ produced'.samples = produced.samples + 1
      /\ produced'.points = total + points
      /\ dropped'.samples = dropped.samples + k
      /\ dropped'.points = dropped.points + OldestPoints(k)
  <2>1. produced \in Counter /\ dropped \in Counter
    BY DEF IInv, TypeOK
  <2>2. /\ produced' = Plus(produced, 1, points)
        /\ dropped' = Plus(dropped, k, OldestPoints(k))
    BY <1>2
  <2>3. k \in Nat /\ points \in Nat /\ OldestPoints(k) \in Nat
    BY <1>1, <1>3, <1>8
  <2> QED  BY <2>1, <2>2, <2>3 DEF Counter, Plus
<1>10. TypeOK'
  <2>1. queue_train_points' \in Nat
    <3>1. queue_train_points \in Nat
      BY DEF IInv, TypeOK
    <3> QED  BY <1>1, <1>2, <1>8, <3>1
  <2>2. consumer' \in [Consumers -> {"idle", "waiting", "woken"}]
    BY <1>2 DEF NotifyAll, IInv, TypeOK
  <2> QED  BY <1>2, <1>5, <1>9, <2>1, <2>2 DEF IInv, TypeOK
<1>11. new.upto = total + points /\ new.points = points
  OBVIOUS
<1> HIDE DEF new
<1>12. Stamps'
  <2>1. \A i \in 1..Len(queue) :
           /\ queue[i].points <= queue[i].upto
           /\ queue[i].upto <= total
    BY DEF IInv, Stamps
  <2>2. \A i \in 1..Len(queue') :
           /\ queue'[i].points <= queue'[i].upto
           /\ queue'[i].upto <= produced'.points
    <3> SUFFICES ASSUME NEW i \in 1..Len(queue')
                 PROVE  /\ queue'[i].points <= queue'[i].upto
                        /\ queue'[i].upto <= total + points
      BY <1>9
    <3>1. CASE queue'[i] = new
      BY <1>1, <1>11, <3>1
    <3>2. CASE i + k \in 1..Len(queue) /\ queue'[i] = queue[i + k]
      BY <1>1, <1>4, <2>1, <3>2
    <3> QED  BY <1>7, <3>1, <3>2
  <2>3. \A i, j \in 1..Len(queue') : j < i => queue'[j].upto <= queue'[i].upto - queue'[i].points
    <3> SUFFICES ASSUME NEW i \in 1..Len(queue'), NEW j \in 1..Len(queue'), j < i
                 PROVE  queue'[j].upto <= queue'[i].upto - queue'[i].points
      OBVIOUS
    <3>1. j # Len(queue')
      BY <1>3, <1>6
    <3>2. j + k \in 1..Len(queue) /\ queue'[j] = queue[j + k]
      BY <1>7, <3>1
    <3>3. CASE queue'[i] = new
      BY <1>1, <1>4, <1>11, <2>1, <3>2, <3>3
    <3>4. CASE i + k \in 1..Len(queue) /\ queue'[i] = queue[i + k]
      <4>1. j + k < i + k
        BY <1>3, <1>6
      <4>2. \A a, b \in 1..Len(queue) : b < a => queue[b].upto <= queue[a].upto - queue[a].points
        BY DEF IInv, Stamps
      <4> QED  BY <3>2, <3>4, <4>1, <4>2
    <3> QED  BY <1>7, <3>3, <3>4
  <2>4. \A i \in 1..Len(queue') : i < Len(queue') =>
           queue'[i+1].upto = queue'[i].upto + queue'[i+1].points
    <3> SUFFICES ASSUME NEW i \in 1..Len(queue'), i < Len(queue')
                 PROVE  queue'[i+1].upto = queue'[i].upto + queue'[i+1].points
      OBVIOUS
    <3>1. i + k \in 1..Len(queue) /\ queue'[i] = queue[i + k]
      BY <1>7
    <3>2. i + 1 \in 1..Len(queue') /\ (i + 1) + k = (i + k) + 1
      BY <1>3, <1>6
    <3>3. CASE queue'[i+1] = new /\ i + 1 = Len(queue')
      <4>1. i + k = Len(queue) /\ queue # <<>>
        BY <1>3, <1>6, <3>1, <3>3, QueueFacts DEF IInv
      <4>2. queue[Len(queue)].upto = total
        BY <4>1 DEF IInv, Stamps
      <4> QED  BY <1>1, <1>11, <3>1, <3>3, <4>1, <4>2
    <3>4. CASE (i + 1) + k \in 1..Len(queue) /\ queue'[i+1] = queue[(i + 1) + k]
      <4>1. i + k < Len(queue)
        BY <1>3, <3>1, <3>2, <3>4
      <4>2. \A a \in 1..Len(queue) : a < Len(queue) =>
               queue[a+1].upto = queue[a].upto + queue[a+1].points
        BY DEF IInv, Stamps
      <4> QED  BY <3>1, <3>2, <3>4, <4>1, <4>2
    <3> QED  BY <1>7, <3>2, <3>3, <3>4
  <2>5. queue'[Len(queue')].upto = produced'.points
    BY <1>5, <1>6, <1>9, <1>11
  <2> QED  BY <2>2, <2>3, <2>4, <2>5 DEF Stamps
<1>13. TotalFromStamps'
  <2>1. queue_train_points' = produced'.points - (queue'[1].upto - queue'[1].points)
    <3>1. 1 \in 1..Len(queue')
      BY <1>3, <1>6
    <3>2. CASE k = Len(queue)
      <4>1. queue'[1] = new
        BY <1>3, <1>6, <1>7, <3>1, <3>2
      <4> QED  BY <1>1, <1>2, <1>8, <1>9, <1>11, <3>2, <4>1
    <3>3. CASE k < Len(queue)
      <4>1. k + 1 \in 1..Len(queue) /\ 1 + k = k + 1 /\ 1 # Len(queue')
        BY <1>3, <1>6, <3>3
      <4>2. queue'[1] = queue[k + 1]
        BY <1>7, <3>1, <4>1
      <4>3. queue[k+1].upto \in Nat /\ queue[k+1].points \in Nat
        BY <1>4, <4>1
      <4>4. PointsAfterDropping(k) = total - (queue[k+1].upto - queue[k+1].points)
        BY <1>8, <3>3
      <4>5. queue_train_points' = PointsAfterDropping(k) + points
        BY <1>2
      <4>6. produced'.points = total + points
        BY <1>9
      <4> QED  BY <1>1, <4>2, <4>3, <4>4, <4>5, <4>6
    <3> QED  BY <1>3, <3>2, <3>3
  <2> QED  BY <1>6, <2>1 DEF TotalFromStamps
<1>14. Accounting'
  <2>1. /\ queue_train_points \in Nat
        /\ produced.samples \in Nat /\ consumed.samples \in Nat
        /\ dropped.samples \in Nat /\ cleared.samples \in Nat
        /\ produced.points \in Nat /\ consumed.points \in Nat
        /\ dropped.points \in Nat /\ cleared.points \in Nat
    BY DEF IInv, TypeOK, Counter
  <2>2. consumed' = consumed /\ cleared' = cleared
    BY <1>2
  <2>3. queue_train_points' = queue_train_points - OldestPoints(k) + points
    BY <1>2, <1>8
  <2>4. OldestPoints(k) \in Nat
    BY <1>8
  <2>5. EntriesBalance /\ PointsBalance
    BY DEF IInv, Accounting
  <2>6. EntriesBalance'
    <3>1. produced'.samples = produced.samples + 1 /\ dropped'.samples = dropped.samples + k
      BY <1>9
    <3>2. Len(queue) \in Nat /\ k \in Nat /\ Len(queue') = Len(queue) - k + 1
      BY <1>3, <1>6
    <3>3. /\ produced.samples \in Nat /\ consumed.samples \in Nat
          /\ dropped.samples \in Nat /\ cleared.samples \in Nat
      BY <2>1
    <3>4. consumed.samples + dropped'.samples + cleared.samples + Len(queue') =
            (consumed.samples + dropped.samples + cleared.samples + Len(queue)) + 1
      BY <3>1, <3>2, <3>3
    <3> QED  BY <2>2, <2>5, <3>1, <3>4 DEF EntriesBalance
  <2>7. PointsBalance'
    <3>1. /\ produced'.points = produced.points + points
          /\ dropped'.points = dropped.points + OldestPoints(k)
      BY <1>9
    <3>2. /\ produced.points \in Nat /\ consumed.points \in Nat
          /\ dropped.points \in Nat /\ cleared.points \in Nat
          /\ queue_train_points \in Nat /\ points \in Nat
      BY <1>1, <2>1
    <3>3. consumed.points + dropped'.points + cleared.points + queue_train_points' =
            (consumed.points + dropped.points + cleared.points + queue_train_points) + points
      <4>1. consumed.points + (dropped.points + OldestPoints(k)) + cleared.points
              + (queue_train_points - OldestPoints(k) + points) =
            (consumed.points + dropped.points + cleared.points + queue_train_points) + points
        BY <2>4, <3>2, MovedPoints
      <4> QED  BY <2>3, <3>1, <4>1
    <3> QED  BY <2>2, <2>5, <3>1, <3>3 DEF PointsBalance
  <2> QED  BY <2>6, <2>7 DEF Accounting
<1>15. OverCapacityOnlyAlone'
  <2>1. k = Len(queue) \/ PointsAfterDropping(k) + points <= MaxQueueSize
    BY <1>2 DEF EvictsUntil
  <2>2. queue_train_points' \in Nat /\ queue_train_points' = PointsAfterDropping(k) + points
    BY <1>2, <1>10 DEF TypeOK
  <2> QED  BY <1>3, <1>6, <2>1, <2>2, QueueAssumption DEF OverCapacityOnlyAlone
<1>16. NoLostWakeup'
  <2>1. consumer' = [c \in Consumers |->
                       IF consumer[c] = "waiting" THEN "woken" ELSE consumer[c]]
    BY <1>2 DEF NotifyAll
  <2> QED  BY <2>1 DEF NoLostWakeup
<1> QED  BY <1>10, <1>12, <1>13, <1>14, <1>15, <1>16 DEF IInv

(* A get that returns an entry.                                            *)
LEMMA TakeKeepsIInv ==
    ASSUME IInv, NEW c \in Consumers, ReturnOldest(c)
    PROVE  IInv'
<1>1. /\ TypeOK
      /\ queue \in Seq(Entry)
      /\ queue # <<>>
      /\ Len(queue) \in Nat /\ Len(queue) >= 1
      /\ queue_train_points \in Nat
      /\ produced.samples \in Nat /\ consumed.samples \in Nat
      /\ dropped.samples \in Nat /\ cleared.samples \in Nat
      /\ produced.points \in Nat /\ consumed.points \in Nat
      /\ dropped.points \in Nat /\ cleared.points \in Nat
  <2>1. TypeOK /\ queue # <<>>
    BY DEF IInv, ReturnOldest
  <2>2. Len(queue) \in Nat /\ Len(queue) >= 1
    BY <2>1, QueueFacts
  <2> QED  BY <2>1, <2>2 DEF TypeOK, Counter
<1>2. \A i \in 1..Len(queue) :
         queue[i] \in Entry /\ queue[i].upto \in Nat /\ queue[i].points \in Nat
  BY <1>1, QueueFacts
<1>3. /\ Head(queue) = queue[1]
      /\ 1 \in 1..Len(queue)
  BY <1>1
<1>4. /\ queue' = Tail(queue)
      /\ queue_train_points' = Max0(queue_train_points - queue[1].points)
      /\ consumed' = Plus(consumed, 1, queue[1].points)
      /\ consumer' = [consumer EXCEPT ![c] = "idle"]
      /\ received' = [received EXCEPT ![c] = queue[1].item]
      /\ UNCHANGED <<running, produced, dropped, cleared>>
  BY <1>3 DEF ReturnOldest, OldestItem
<1>5. /\ queue' \in Seq(Entry)
      /\ Len(queue') = Len(queue) - 1
      /\ \A i \in 1..Len(queue') : queue'[i] = queue[i + 1]
  BY <1>1, <1>4, HeadTailProperties
<1>6. Len(queue') = Len(queue) - 1 /\ queue' \in Seq(Entry)
  BY <1>5
<1>7. \A i \in 1..Len(queue') :
         /\ i + 1 \in 1..Len(queue)
         /\ queue'[i] = queue[i + 1]
         /\ queue'[i].upto \in Nat /\ queue'[i].points \in Nat
  <2> SUFFICES ASSUME NEW i \in 1..Len(queue')
               PROVE  /\ i + 1 \in 1..Len(queue)
                      /\ queue'[i] = queue[i + 1]
                      /\ queue'[i].upto \in Nat /\ queue'[i].points \in Nat
    OBVIOUS
  <2>1. i + 1 \in 1..Len(queue)
    BY <1>1, <1>6
  <2>2. queue'[i] = queue[i + 1]
    BY <1>5
  <2> QED  BY <1>2, <2>1, <2>2
<1>8. /\ \A i \in 1..Len(queue) :
            queue[i].points <= queue[i].upto /\ queue[i].upto <= produced.points
      /\ \A i, j \in 1..Len(queue) : j < i => queue[j].upto <= queue[i].upto - queue[i].points
      /\ \A i \in 1..Len(queue) : i < Len(queue) =>
            queue[i+1].upto = queue[i].upto + queue[i+1].points
      /\ queue[Len(queue)].upto = produced.points
      /\ queue_train_points = produced.points - (queue[1].upto - queue[1].points)
  BY <1>1 DEF IInv, Stamps, TotalFromStamps
<1>9. /\ queue_train_points' \in Nat
      /\ queue_train_points' = queue_train_points - queue[1].points
      /\ queue_train_points' = produced.points - queue[1].upto
  <2>1. queue[1].upto \in Nat /\ queue[1].points \in Nat /\ queue[1].upto <= produced.points
    BY <1>2, <1>3, <1>8
  <2>2. queue_train_points' = Max0(queue_train_points - queue[1].points)
    BY <1>4
  <2>3. queue_train_points = produced.points - (queue[1].upto - queue[1].points)
    BY <1>8
  <2>4. queue_train_points - queue[1].points = produced.points - queue[1].upto
    BY <1>1, <2>1, <2>3
  <2>5. queue_train_points - queue[1].points \in Nat
    BY <1>1, <2>1, <2>4
  <2> QED  BY <2>2, <2>4, <2>5 DEF Max0
<1>10. /\ consumed' \in Counter
       /\ consumed'.samples = consumed.samples + 1
       /\ consumed'.points = consumed.points + queue[1].points
  <2>1. queue[1].points \in Nat /\ consumed.samples \in Nat /\ consumed.points \in Nat
    BY <1>1, <1>2, <1>3
  <2>2. consumed' = Plus(consumed, 1, queue[1].points)
    BY <1>4
  <2> QED  BY <2>1, <2>2 DEF Plus, Counter
<1>11. TypeOK'
  <2>1. queue[1].item \in Items
    BY <1>2, <1>3 DEF Entry
  <2> QED  BY <1>1, <1>4, <1>6, <1>9, <1>10, <2>1 DEF TypeOK
<1>12. Stamps'
  <2>1. \A i \in 1..Len(queue') :
           queue'[i].points <= queue'[i].upto /\ queue'[i].upto <= produced'.points
    BY <1>4, <1>7, <1>8
  <2>2. \A i, j \in 1..Len(queue') : j < i => queue'[j].upto <= queue'[i].upto - queue'[i].points
    <3> SUFFICES ASSUME NEW i \in 1..Len(queue'), NEW j \in 1..Len(queue'), j < i
                 PROVE  queue'[j].upto <= queue'[i].upto - queue'[i].points
      OBVIOUS
    <3>1. j + 1 < i + 1
      BY <1>1, <1>6
    <3> QED  BY <1>7, <1>8, <3>1
  <2>3. \A i \in 1..Len(queue') : i < Len(queue') =>
           queue'[i+1].upto = queue'[i].upto + queue'[i+1].points
    <3> SUFFICES ASSUME NEW i \in 1..Len(queue'), i < Len(queue')
                 PROVE  queue'[i+1].upto = queue'[i].upto + queue'[i+1].points
      OBVIOUS
    <3>1. i + 1 \in 1..Len(queue') /\ i + 1 < Len(queue)
      BY <1>1, <1>6
    <3>2. queue'[i] = queue[i + 1] /\ queue'[i + 1] = queue[(i + 1) + 1] /\ i + 1 \in 1..Len(queue)
      BY <1>7, <3>1
    <3> QED  BY <1>8, <3>1, <3>2
  <2>4. queue' # <<>> => queue'[Len(queue')].upto = produced'.points
    <3> SUFFICES ASSUME queue' # <<>> PROVE queue'[Len(queue')].upto = produced.points
      BY <1>4
    <3>1. Len(queue') \in 1..Len(queue') /\ Len(queue') + 1 = Len(queue)
      BY <1>1, <1>6, EmptySeq
    <3> QED  BY <1>7, <1>8, <3>1
  <2> QED  BY <2>1, <2>2, <2>3, <2>4 DEF Stamps
<1>13. TotalFromStamps'
  <2>1. CASE queue' = <<>>
    <3>1. Len(queue) = 1
      BY <1>1, <1>6, <2>1, EmptySeq
    <3> QED  BY <1>8, <1>9, <2>1, <3>1, <1>1 DEF TotalFromStamps
  <2>2. CASE queue' # <<>>
    <3>1. 1 \in 1..Len(queue') /\ 1 < Len(queue)
      BY <1>1, <1>6, <2>2, EmptySeq
    <3>2. queue'[1] = queue[1 + 1] /\ queue[1+1].upto = queue[1].upto + queue[1+1].points
      BY <1>3, <1>7, <1>8, <3>1
    <3>3. queue'[1].upto - queue'[1].points = queue[1].upto
      <4>1. queue[1].upto \in Nat /\ queue'[1].upto \in Nat /\ queue'[1].points \in Nat
        BY <1>2, <1>3, <1>7, <3>1
      <4> QED  BY <3>2, <4>1
    <3> QED  BY <1>4, <1>9, <2>2, <3>3 DEF TotalFromStamps
  <2> QED  BY <2>1, <2>2
<1>14. Accounting'
  <2>1. EntriesBalance /\ PointsBalance /\ queue[1].points \in Nat
    BY <1>2, <1>3 DEF IInv, Accounting
  <2>2. EntriesBalance'
    <3>1. /\ produced.samples \in Nat /\ consumed.samples \in Nat
          /\ dropped.samples \in Nat /\ cleared.samples \in Nat /\ Len(queue) \in Nat
      BY <1>1
    <3>2. consumed'.samples = consumed.samples + 1 /\ Len(queue') = Len(queue) - 1
      BY <1>6, <1>10
    <3>3. produced' = produced /\ dropped' = dropped /\ cleared' = cleared
      BY <1>4
    <3>4. consumed'.samples + dropped.samples + cleared.samples + Len(queue') =
            consumed.samples + dropped.samples + cleared.samples + Len(queue)
      <4> DEFINE gone == consumed.samples + dropped.samples + cleared.samples
      <4>1. gone \in Nat
        BY <3>1
      <4>2. consumed'.samples + dropped.samples + cleared.samples = gone + 1
        BY <3>1, <3>2
      <4> HIDE DEF gone
      <4>3. (gone + 1) + Len(queue') = gone + Len(queue)
        BY <3>1, <3>2, <4>1
      <4> QED  BY <4>2, <4>3 DEF gone
    <3> QED  BY <2>1, <3>3, <3>4 DEF EntriesBalance
  <2>3. PointsBalance'
    <3>1. /\ produced.points \in Nat /\ consumed.points \in Nat
          /\ dropped.points \in Nat /\ cleared.points \in Nat
          /\ queue_train_points \in Nat
      BY <1>1
    <3>2. /\ consumed'.points = consumed.points + queue[1].points
          /\ queue_train_points' = queue_train_points - queue[1].points
      BY <1>9, <1>10
    <3>3. produced' = produced /\ dropped' = dropped /\ cleared' = cleared
      BY <1>4
    <3> QED  BY <2>1, <3>1, <3>2, <3>3 DEF PointsBalance
  <2> QED  BY <2>2, <2>3 DEF Accounting
<1>15. OverCapacityOnlyAlone'
  <2>1. CASE Len(queue) = 1
    <3>1. queue_train_points' = 0
      BY <1>1, <1>8, <1>9, <2>1
    <3> QED  BY <3>1, QueueAssumption DEF OverCapacityOnlyAlone
  <2>2. CASE Len(queue) # 1
    <3>1. queue_train_points <= MaxQueueSize
      BY <1>1, <2>2, QueueAssumption DEF IInv, OverCapacityOnlyAlone
    <3>2. queue_train_points' <= queue_train_points
      BY <1>1, <1>2, <1>3, <1>9
    <3> QED  BY <1>1, <1>9, <3>1, <3>2, QueueAssumption DEF OverCapacityOnlyAlone
  <2> QED  BY <2>1, <2>2
<1>16. NoLostWakeup'
  BY <1>1, <1>4 DEF IInv, NoLostWakeup, TypeOK
<1> QED  BY <1>11, <1>12, <1>13, <1>14, <1>15, <1>16 DEF IInv

(* Going to sleep, finding the queue closed, clearing and closing.         *)
LEMMA SleepKeepsIInv ==
    ASSUME IInv, NEW c \in Consumers, Sleep(c)
    PROVE  IInv'
<1>1. /\ UNCHANGED <<queue, queue_train_points, running, counters, received>>
      /\ consumer' = [consumer EXCEPT ![c] = "waiting"]
      /\ queue = <<>> /\ running
  BY DEF Sleep
<1>2. TypeOK'
  BY <1>1 DEF IInv, TypeOK, counters
<1>3. Stamps' /\ TotalFromStamps' /\ Accounting' /\ OverCapacityOnlyAlone'
  BY <1>1 DEF IInv, Stamps, TotalFromStamps, Accounting, EntriesBalance, PointsBalance,
              OverCapacityOnlyAlone, counters
<1>4. NoLostWakeup'
  BY <1>1 DEF NoLostWakeup
<1> QED  BY <1>2, <1>3, <1>4 DEF IInv

LEMMA ReturnClosedKeepsIInv ==
    ASSUME IInv, NEW c \in Consumers, ReturnClosed(c)
    PROVE  IInv'
<1>1. /\ UNCHANGED <<queue, queue_train_points, running, counters>>
      /\ consumer' = [consumer EXCEPT ![c] = "idle"]
      /\ received' = [received EXCEPT ![c] = NoItem]
  BY DEF ReturnClosed
<1>2. TypeOK'
  BY <1>1 DEF IInv, TypeOK, counters, Items
<1>3. Stamps' /\ TotalFromStamps' /\ Accounting' /\ OverCapacityOnlyAlone'
  BY <1>1 DEF IInv, Stamps, TotalFromStamps, Accounting, EntriesBalance, PointsBalance,
              OverCapacityOnlyAlone, counters
<1>4. NoLostWakeup'
  BY <1>1 DEF IInv, TypeOK, NoLostWakeup
<1> QED  BY <1>2, <1>3, <1>4 DEF IInv

LEMMA ClearKeepsIInv ==
    ASSUME IInv, ClearQueue
    PROVE  IInv'
<1>1. /\ queue' = <<>> /\ queue_train_points' = 0
      /\ cleared' = Plus(cleared, Len(queue), queue_train_points)
      /\ UNCHANGED <<running, consumer, received, produced, consumed, dropped>>
      /\ Len(queue') = 0
  BY EmptySeq DEF ClearQueue
<1>2. /\ TypeOK
      /\ Len(queue) \in Nat /\ queue_train_points \in Nat
      /\ cleared.samples \in Nat /\ cleared.points \in Nat
      /\ produced.samples \in Nat /\ consumed.samples \in Nat /\ dropped.samples \in Nat
      /\ produced.points \in Nat /\ consumed.points \in Nat /\ dropped.points \in Nat
  <2>1. TypeOK
    BY DEF IInv
  <2>2. Len(queue) \in Nat /\ queue_train_points \in Nat
    BY <2>1, QueueFacts
  <2> QED  BY <2>1, <2>2 DEF TypeOK, Counter
<1>3. /\ cleared' \in Counter
      /\ cleared'.samples = cleared.samples + Len(queue)
      /\ cleared'.points = cleared.points + queue_train_points
  BY <1>1, <1>2 DEF Plus, Counter
<1>4. TypeOK'
  BY <1>1, <1>2, <1>3 DEF TypeOK
<1>5. Stamps' /\ TotalFromStamps'
  BY <1>1 DEF Stamps, TotalFromStamps
<1>6. Accounting'
  <2>1. EntriesBalance /\ PointsBalance
    BY DEF IInv, Accounting
  <2>2. EntriesBalance'
    <3>1. consumed.samples + dropped.samples + cleared'.samples + 0 =
            consumed.samples + dropped.samples + cleared.samples + Len(queue)
      BY <1>2, <1>3
    <3> QED  BY <1>1, <2>1, <3>1 DEF EntriesBalance
  <2>3. PointsBalance'
    <3>1. consumed.points + dropped.points + cleared'.points + 0 =
            consumed.points + dropped.points + cleared.points + queue_train_points
      BY <1>2, <1>3
    <3> QED  BY <1>1, <2>1, <3>1 DEF PointsBalance
  <2> QED  BY <2>2, <2>3 DEF Accounting
<1>7. OverCapacityOnlyAlone' /\ NoLostWakeup'
  BY <1>1, QueueAssumption DEF IInv, OverCapacityOnlyAlone, NoLostWakeup
<1> QED  BY <1>4, <1>5, <1>6, <1>7 DEF IInv

LEMMA ShutdownKeepsIInv ==
    ASSUME IInv, Shutdown
    PROVE  IInv'
<1>1. /\ running' = FALSE
      /\ consumer' = [c \in Consumers |->
                        IF consumer[c] = "waiting" THEN "woken" ELSE consumer[c]]
      /\ UNCHANGED <<queue, queue_train_points, counters, received>>
  BY DEF Shutdown, NotifyAll
<1>2. TypeOK'
  BY <1>1 DEF IInv, TypeOK, counters
<1>3. Stamps' /\ TotalFromStamps' /\ Accounting' /\ OverCapacityOnlyAlone'
  BY <1>1 DEF IInv, Stamps, TotalFromStamps, Accounting, EntriesBalance, PointsBalance,
              OverCapacityOnlyAlone, counters
<1>4. NoLostWakeup'
  BY <1>1 DEF NoLostWakeup
<1> QED  BY <1>2, <1>3, <1>4 DEF IInv

LEMMA NextKeepsIInv == IInv /\ [Next]_mqVars => IInv'
<1> SUFFICES ASSUME IInv, [Next]_mqVars PROVE IInv'
  OBVIOUS
<1>1. ASSUME NEW item_count \in Counts, PutNext(item_count) PROVE IInv'
  <2>1. produced.samples + 1 \in Items /\ item_count \in Int
    BY <1>1, ClientsAssumption DEF IInv, TypeOK, Counter, Items, PutNext, Put
  <2> QED  BY <1>1, <2>1, PutKeepsIInv DEF PutNext, Put
<1>2. CASE PutTermination
  <2>1. NoItem \in Items
    BY DEF Items
  <2> QED  BY <1>2, <2>1, PutKeepsIInv DEF PutTermination, Put
<1>3. ASSUME NEW c \in Consumers, GetSample(c) PROVE IInv'
  BY <1>3, SleepKeepsIInv, ReturnClosedKeepsIInv, TakeKeepsIInv DEF GetSample
<1>4. CASE Clear
  BY <1>4, ClearKeepsIInv DEF Clear
<1>5. CASE Close
  BY <1>5, ShutdownKeepsIInv DEF Close
<1>6. CASE UNCHANGED mqVars
  BY <1>6 DEF mqVars, IInv, TypeOK, Stamps, TotalFromStamps, Accounting, EntriesBalance,
              PointsBalance, OverCapacityOnlyAlone, NoLostWakeup
<1> QED  BY <1>1, <1>2, <1>3, <1>4, <1>5, <1>6 DEF Next

THEOREM Invariance == Spec => []IInv
<1>1. Init => IInv
  BY InitIInv
<1>2. IInv /\ [Next]_mqVars => IInv'
  BY NextKeepsIInv
<1> QED  BY <1>1, <1>2, PTL DEF Spec

(* Every variable keeps its type, so no counter of the queue goes negative.*)
THEOREM TypeCorrect == Spec => []TypeOK
<1>1. IInv => TypeOK
  BY DEF IInv
<1> QED  BY <1>1, Invariance, PTL

(* Nothing put into the queue disappears from its statistics: put_sample,  *)
(* get_sample and clear_queue keep both balances.                          *)
THEOREM AccountingHolds == Spec => []Accounting
<1>1. IInv => Accounting
  BY DEF IInv
<1> QED  BY <1>1, Invariance, PTL

(* The eviction loop of put_sample bounds the queue by its capacity, except*)
(* for one entry that is larger than the capacity by itself.               *)
THEOREM CapacityHolds == Spec => []OverCapacityOnlyAlone
<1>1. IInv => OverCapacityOnlyAlone
  BY DEF IInv
<1> QED  BY <1>1, Invariance, PTL

(* No consumer sleeps in get_sample while the queue holds an item or is    *)
(* shut down.                                                              *)
THEOREM NoLostWakeupHolds == Spec => []NoLostWakeup
<1>1. IInv => NoLostWakeup
  BY DEF IInv
<1> QED  BY <1>1, Invariance, PTL
-------------------------------------------------------------------------------
(* The items of a sequence of entries, oldest first: what the abstract     *)
(* queue holds.                                                            *)
ItemsIn(q) == [i \in 1..Len(q) |-> q[i].item]

LEMMA ItemsInShape ==
    ASSUME NEW q \in Seq(Entry)
    PROVE  /\ ItemsIn(q) \in Seq(Items)
           /\ Len(ItemsIn(q)) = Len(q)
           /\ \A i \in 1..Len(q) : ItemsIn(q)[i] = q[i].item
<1>1. Len(q) \in Nat /\ \A i \in 1..Len(q) : q[i].item \in Items
  <2>1. Len(q) \in Nat /\ \A i \in 1..Len(q) : q[i] \in Entry
    BY LenProperties, ElementOfSeq
  <2> QED  BY <2>1 DEF Entry
<1>2. ItemsIn(q) \in [1..Len(q) -> Items]
  BY <1>1 DEF ItemsIn
<1>3. ItemsIn(q) \in Seq(Items)
  BY <1>1, <1>2, SeqDef
<1>4. Len(ItemsIn(q)) = Len(q)
  BY <1>1, <1>2, <1>3, LenProperties
<1> QED  BY <1>3, <1>4 DEF ItemsIn

LEMMA ItemsInEmpty ==
    ASSUME NEW q \in Seq(Entry)
    PROVE  ItemsIn(q) = <<>> <=> q = <<>>
<1>1. Len(ItemsIn(q)) = Len(q) /\ ItemsIn(q) \in Seq(Items) /\ Len(q) \in Nat
  BY ItemsInShape, LenProperties
<1>2. q = <<>> <=> Len(q) = 0
  BY EmptySeq
<1>3. ItemsIn(q) = <<>> <=> Len(ItemsIn(q)) = 0
  BY <1>1, EmptySeq
<1> QED  BY <1>1, <1>2, <1>3

(* An abstract take: the items of the tail are the tail of the items.      *)
LEMMA ItemsInTail ==
    ASSUME NEW q \in Seq(Entry), q # <<>>
    PROVE  ItemsIn(Tail(q)) = Tail(ItemsIn(q)) /\ Head(ItemsIn(q)) = Head(q).item
<1>1. /\ Tail(q) \in Seq(Entry)
      /\ Len(Tail(q)) = Len(q) - 1
      /\ \A i \in 1..Len(Tail(q)) : Tail(q)[i] = q[i + 1]
  BY HeadTailProperties
<1>2. /\ ItemsIn(q) \in Seq(Items) /\ ItemsIn(q) # <<>>
      /\ Len(ItemsIn(q)) = Len(q)
      /\ \A i \in 1..Len(q) : ItemsIn(q)[i] = q[i].item
  BY ItemsInShape, ItemsInEmpty
<1>3. /\ Tail(ItemsIn(q)) \in Seq(Items)
      /\ Len(Tail(ItemsIn(q))) = Len(q) - 1
      /\ \A i \in 1..Len(Tail(ItemsIn(q))) : Tail(ItemsIn(q))[i] = ItemsIn(q)[i + 1]
  BY <1>2, HeadTailProperties
<1>4. /\ ItemsIn(Tail(q)) \in Seq(Items)
      /\ Len(ItemsIn(Tail(q))) = Len(q) - 1
      /\ \A i \in 1..Len(q) - 1 : ItemsIn(Tail(q))[i] = Tail(q)[i].item
  BY <1>1, ItemsInShape
<1>5. Len(q) \in Nat /\ Len(q) > 0
  BY LenProperties, EmptySeq
<1>6. \A i \in 1..Len(q) - 1 : ItemsIn(Tail(q))[i] = Tail(ItemsIn(q))[i]
  BY <1>1, <1>2, <1>3, <1>4, <1>5
<1>7. ItemsIn(Tail(q)) = Tail(ItemsIn(q))
  BY <1>3, <1>4, <1>6, SeqEqual
<1>8. Head(ItemsIn(q)) = ItemsIn(q)[1] /\ Head(q) = q[1]
  BY <1>2
<1> QED  BY <1>2, <1>5, <1>7, <1>8

(* An abstract put that loses the k oldest items.                          *)
LEMMA ItemsInPut ==
    ASSUME NEW q \in Seq(Entry), NEW k \in 0..Len(q), NEW e \in Entry
    PROVE  ItemsIn(Append(SubSeq(q, k + 1, Len(q)), e)) =
               Append(SubSeq(ItemsIn(q), k + 1, Len(ItemsIn(q))), e.item)
<1> DEFINE t == Append(SubSeq(q, k + 1, Len(q)), e)
           u == Append(SubSeq(ItemsIn(q), k + 1, Len(ItemsIn(q))), e.item)
<1>1. /\ Len(q) \in Nat
      /\ ItemsIn(q) \in Seq(Items)
      /\ Len(ItemsIn(q)) = Len(q)
      /\ \A i \in 1..Len(q) : ItemsIn(q)[i] = q[i].item
      /\ e.item \in Items
  BY LenProperties, ItemsInShape DEF Entry
<1>2. /\ t \in Seq(Entry)
      /\ Len(t) = Len(q) - k + 1
      /\ \A i \in 1..Len(q) - k : t[i] = q[i + k]
      /\ t[Len(q) - k + 1] = e
  BY DropThenAppend
<1>3. /\ u \in Seq(Items)
      /\ Len(u) = Len(q) - k + 1
      /\ \A i \in 1..Len(q) - k : u[i] = ItemsIn(q)[i + k]
      /\ u[Len(q) - k + 1] = e.item
  <2>1. ItemsIn(q) \in Seq(Items) /\ k \in 0..Len(ItemsIn(q)) /\ e.item \in Items
    BY <1>1
  <2>2. /\ u \in Seq(Items)
        /\ Len(u) = Len(ItemsIn(q)) - k + 1
        /\ \A i \in 1..Len(ItemsIn(q)) - k : u[i] = ItemsIn(q)[i + k]
        /\ u[Len(ItemsIn(q)) - k + 1] = e.item
    BY <2>1, DropThenAppend
  <2> HIDE DEF u
  <2> QED  BY <1>1, <2>2
<1> HIDE DEF t, u
<1>4. /\ ItemsIn(t) \in Seq(Items)
      /\ Len(ItemsIn(t)) = Len(t)
      /\ \A i \in 1..Len(t) : ItemsIn(t)[i] = t[i].item
  BY <1>2, ItemsInShape
<1>5. ASSUME NEW i \in 1..Len(t) PROVE ItemsIn(t)[i] = u[i]
  <2>1. CASE i = Len(q) - k + 1
    BY <1>2, <1>3, <1>4, <2>1
  <2>2. CASE i # Len(q) - k + 1
    <3>1. i \in 1..Len(q) - k /\ i + k \in 1..Len(q)
      <4>1. Len(q) \in Nat /\ k \in 0..Len(q) /\ i \in 1..Len(q) - k + 1
        BY <1>1, <1>2
      <4> QED  BY <2>2, <4>1
    <3> QED  BY <1>1, <1>2, <1>3, <1>4, <3>1
  <2> QED  BY <2>1, <2>2
<1>6. ItemsIn(t) = u
  BY <1>2, <1>3, <1>4, <1>5, SeqEqual
<1> QED  BY <1>6 DEF t, u

(* The refinement mapping, as Fifo's WITH states it.                       *)
LEMMA InitMaps == Init => Fifo!Init
<1> SUFFICES ASSUME Init PROVE Fifo!Init
  OBVIOUS
<1>1. ItemsIn(queue) = <<>>
  <2>1. queue = <<>> /\ queue \in Seq(Entry)
    BY EmptySeq DEF Init, MQInit
  <2> QED  BY <2>1, ItemsInEmpty
<1>2. ItemsIn(queue) = [i \in 1..Len(queue) |-> queue[i].item]
  BY DEF ItemsIn
<1> QED  BY <1>1, <1>2 DEF Init, MQInit, Fifo!Init

(* put_sample: the evicted entries are the oldest ones, however many.      *)
LEMMA PutMaps ==
    ASSUME TypeOK, NEW item \in Items, NEW item_count \in Int, PutSample(item, item_count)
    PROVE  Fifo!Put(item)
<1> DEFINE points == TrainPoints(item, item_count)
<1>1. PICK k \in 0..Len(queue) :
         /\ queue' = Append(SubSeq(queue, k + 1, Len(queue)),
                            [item |-> item, points |-> points,
                             upto |-> produced.points + points])
         /\ UNCHANGED <<running, received>>
  BY DEF PutSample
<1>2. points \in Nat /\ produced.points \in Nat /\ queue \in Seq(Entry)
  BY DEF TypeOK, Counter, TrainPoints
<1> HIDE DEF points
<1>3. [item |-> item, points |-> points, upto |-> produced.points + points] \in Entry
  BY <1>2 DEF Entry
<1>4. ItemsIn(queue') = Append(SubSeq(ItemsIn(queue), k + 1, Len(ItemsIn(queue))), item)
  BY <1>1, <1>2, <1>3, ItemsInPut
<1>5. Len(ItemsIn(queue)) = Len(queue)
  BY <1>2, ItemsInShape
<1>6. /\ ItemsIn(queue) = [i \in 1..Len(queue) |-> queue[i].item]
      /\ ItemsIn(queue') = [i \in 1..Len(queue') |-> queue'[i].item]
  BY DEF ItemsIn
<1> QED  BY <1>1, <1>4, <1>5, <1>6 DEF Fifo!Put

(* get_sample: a consumer gets the oldest item.                            *)
LEMMA TakeMaps ==
    ASSUME TypeOK, NEW c \in Consumers, ReturnOldest(c)
    PROVE  Fifo!Take(c)
<1>1. queue # <<>> /\ queue \in Seq(Entry) /\ queue' = Tail(queue)
  BY DEF ReturnOldest, TypeOK
<1>2. /\ ItemsIn(queue) # <<>>
      /\ ItemsIn(queue') = Tail(ItemsIn(queue))
      /\ Head(ItemsIn(queue)) = Head(queue).item
  BY <1>1, ItemsInEmpty, ItemsInTail
<1>3. /\ ItemsIn(queue) = [i \in 1..Len(queue) |-> queue[i].item]
      /\ ItemsIn(queue') = [i \in 1..Len(queue') |-> queue'[i].item]
  BY DEF ItemsIn
<1>4. received' = [received EXCEPT ![c] = Head(queue).item] /\ UNCHANGED running
  BY DEF ReturnOldest, OldestItem
<1> QED  BY <1>2, <1>3, <1>4 DEF Fifo!Take

LEMMA TakeFromClosedMaps ==
    ASSUME TypeOK, NEW c \in Consumers, ReturnClosed(c)
    PROVE  Fifo!TakeFromClosed(c)
<1>1. ItemsIn(queue) = <<>> /\ ItemsIn(queue) = [i \in 1..Len(queue) |-> queue[i].item]
  BY ItemsInEmpty DEF ReturnClosed, TypeOK, ItemsIn
<1>2. UNCHANGED [i \in 1..Len(queue) |-> queue[i].item]
  BY DEF ReturnClosed
<1> QED  BY <1>1, <1>2 DEF ReturnClosed, Fifo!TakeFromClosed

LEMMA ClearMaps ==
    ASSUME TypeOK, ClearQueue
    PROVE  Fifo!Discard
<1>1. queue' = <<>> /\ <<>> \in Seq(Entry)
  BY EmptySeq DEF ClearQueue
<1>2. ItemsIn(queue') = <<>>
  BY <1>1, ItemsInEmpty
<1>3. ItemsIn(queue') = [i \in 1..Len(queue') |-> queue'[i].item]
  BY DEF ItemsIn
<1> QED  BY <1>2, <1>3 DEF ClearQueue, Fifo!Discard

(* Every step of the queue's users is a step of the FIFO, or leaves it as  *)
(* it is: a consumer going to sleep is invisible in it.                    *)
LEMMA NextMaps == TypeOK /\ [Next]_mqVars => [Fifo!Next]_(Fifo!fifoVars)
<1> SUFFICES ASSUME TypeOK, [Next]_mqVars PROVE [Fifo!Next]_(Fifo!fifoVars)
  OBVIOUS
<1>1. ASSUME NEW item_count \in Counts, PutNext(item_count) PROVE Fifo!Next
  <2>1. produced.samples + 1 \in Items /\ item_count \in Int
    BY <1>1, ClientsAssumption DEF TypeOK, Counter, Items, PutNext, Put
  <2>2. PutSample(produced.samples + 1, item_count)
    BY <1>1 DEF PutNext, Put
  <2> QED  BY <2>1, <2>2, PutMaps DEF Fifo!Next
<1>2. CASE PutTermination
  <2>1. NoItem \in Items /\ PutSample(NoItem, 0)
    BY <1>2 DEF Items, PutTermination, Put
  <2> QED  BY <2>1, PutMaps DEF Fifo!Next
<1>3. ASSUME NEW c \in Consumers, GetSample(c) PROVE [Fifo!Next]_(Fifo!fifoVars)
  <2>1. CASE Sleep(c)
    BY <2>1 DEF Sleep, Fifo!fifoVars
  <2>2. CASE ReturnClosed(c)
    BY <2>2, TakeFromClosedMaps DEF Fifo!Next
  <2>3. CASE ReturnOldest(c)
    BY <2>3, TakeMaps DEF Fifo!Next
  <2> QED  BY <1>3, <2>1, <2>2, <2>3 DEF GetSample
<1>4. CASE Clear
  BY <1>4, ClearMaps DEF Clear, Fifo!Next
<1>5. CASE Close
  BY <1>5 DEF Close, Shutdown, Fifo!Close, Fifo!Next
<1>6. CASE UNCHANGED mqVars
  BY <1>6 DEF mqVars, Fifo!fifoVars
<1> QED  BY <1>1, <1>2, <1>3, <1>4, <1>5, <1>6 DEF Next

(* The message queue, with its weights, its evictions and its sleeping     *)
(* consumers, is a FIFO that loses only its oldest items (put_sample,      *)
(* get_sample, clear_queue, shutdown).                                     *)
THEOREM FifoImplemented == Spec => ImplementsLossyFifo
<1>1. Init => Fifo!Init
  BY InitMaps
<1>2. TypeOK /\ [Next]_mqVars => [Fifo!Next]_(Fifo!fifoVars)
  BY NextMaps
<1> QED  BY <1>1, <1>2, TypeCorrect, PTL DEF Spec, ImplementsLossyFifo, Fifo!Spec
===============================================================================
