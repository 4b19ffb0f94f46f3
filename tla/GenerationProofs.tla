---------------------------- MODULE GenerationProofs ----------------------------
(***************************************************************************)
(* The load balancer's invariants and stickiness, for any number of        *)
(* servers, any finite set of conversations and any cache size; and what a *)
(* generation may rely on when it is routed by it to servers whose weights *)
(* are updated meanwhile: whole answers, true version spans, and updates   *)
(* that are one change of version.                                         *)
(***************************************************************************)
EXTENDS LoadBalancerClients, PartialRollout, FiniteSetTheorems, SequenceTheorems, WellFoundedInduction, TLAPS

(* Whatever is more recent in the cache was routed since.                  *)
Recent == \A i, j \in 1..Len(recency) : i < j => recency[j] \in others[recency[i]]

(* What the cache holds is the server last given; what it no longer holds  *)
(* was pushed out by CacheSize other conversations.                        *)
Remembered ==
    \A c \in Conversations :
        /\ session[c] # NoServer => session[c] = last[c]
        /\ session[c] = NoServer /\ last[c] # NoServer => Cardinality(others[c]) >= CacheSize

(* A conversation that holds a server owes no release yet.                 *)
OneRequest == \A c \in Conversations : using[c] # NoServer => owed[c] = NoServer

RoutingInv == RoutingTypeOK /\ CountsRequests /\ OneRequest /\ CacheConsistent /\ Recent /\ Remembered
-------------------------------------------------------------------------------
(* Lemmas about sequences and sets                                         *)

(* Taking the i-th element out of a sequence.                              *)
LEMMA TakeOut ==
    ASSUME NEW S, NEW q \in Seq(S), NEW i \in 1..Len(q)
    PROVE  /\ SubSeq(q, 1, i - 1) \o SubSeq(q, i + 1, Len(q)) \in Seq(S)
           /\ Len(SubSeq(q, 1, i - 1) \o SubSeq(q, i + 1, Len(q))) = Len(q) - 1
           /\ \A j \in 1..(Len(q) - 1) :
                 (SubSeq(q, 1, i - 1) \o SubSeq(q, i + 1, Len(q)))[j]
                   = IF j < i THEN q[j] ELSE q[j + 1]
<1> DEFINE a == SubSeq(q, 1, i - 1)
           b == SubSeq(q, i + 1, Len(q))
<1>1. Len(q) \in Nat /\ \A j \in 1..Len(q) : q[j] \in S
  BY LenProperties, ElementOfSeq
<1>2. a \in Seq(S) /\ Len(a) = i - 1 /\ \A j \in 1..(i - 1) : a[j] = q[j]
  <2>1. \A j \in 1..(i - 1) : q[j] \in S
    BY <1>1
  <2> HIDE DEF a
  <2> QED BY <1>1, <2>1, SubSeqProperties DEF a
<1>3. /\ b \in Seq(S) /\ Len(b) = Len(q) - i
      /\ \A j \in 1..(Len(q) - i) : b[j] = q[i + j]
  <2>1. \A j \in (i + 1)..Len(q) : q[j] \in S
    BY <1>1
  <2>2. /\ b \in Seq(S)
        /\ Len(b) = IF i + 1 <= Len(q) THEN Len(q) - (i + 1) + 1 ELSE 0
        /\ \A j \in 1..Len(q) - (i + 1) + 1 : b[j] = q[(i + 1) + j - 1]
    BY <1>1, <2>1, SubSeqProperties
  <2> HIDE DEF b
  <2>3. Len(b) = Len(q) - i
    BY <1>1, <2>2
  <2>4. ASSUME NEW j \in 1..(Len(q) - i) PROVE b[j] = q[i + j]
    <3>1. j \in 1..Len(q) - (i + 1) + 1 /\ (i + 1) + j - 1 = i + j
      BY <1>1
    <3> QED BY <2>2, <3>1
  <2> QED BY <2>2, <2>3, <2>4
<1> HIDE DEF a, b
<1>4. /\ a \o b \in Seq(S) /\ Len(a \o b) = Len(q) - 1
      /\ \A j \in 1..(Len(q) - 1) : (a \o b)[j] = IF j < i THEN q[j] ELSE q[j + 1]
  <2>1. /\ a \o b \in Seq(S) /\ Len(a \o b) = Len(a) + Len(b)
        /\ \A j \in 1..Len(a) + Len(b) : (a \o b)[j] = IF j <= Len(a) THEN a[j] ELSE b[j - Len(a)]
    BY <1>2, <1>3, ConcatProperties
  <2>2. Len(a) + Len(b) = Len(q) - 1
    BY <1>1, <1>2, <1>3
  <2>3. ASSUME NEW j \in 1..(Len(q) - 1)
        PROVE  (a \o b)[j] = IF j < i THEN q[j] ELSE q[j + 1]
    <3>1. (a \o b)[j] = IF j <= i - 1 THEN a[j] ELSE b[j - (i - 1)]
      BY <2>1, <2>2, <1>2
    <3>2. CASE j < i
      BY <3>1, <3>2, <1>1, <1>2
    <3>3. CASE ~(j < i)
      <4>1. j - (i - 1) \in 1..(Len(q) - i) /\ i + (j - (i - 1)) = j + 1
        BY <3>3, <1>1
      <4> QED BY <3>1, <3>3, <4>1, <1>3, <1>1
    <3> QED BY <3>2, <3>3
  <2> QED BY <2>1, <2>2, <2>3
<1> QED BY <1>4 DEF a, b

(* A set with n distinct members listed has at least n members.            *)
LEMMA AtLeast ==
    ASSUME NEW n \in Nat, NEW T, IsFiniteSet(T), NEW f \in [1..n -> T],
           \A i, j \in 1..n : f[i] = f[j] => i = j
    PROVE  Cardinality(T) >= n
<1>1. f \in Injection(1..n, T)
  BY DEF Injection, IsInjective
<1>2. Cardinality(1..n) = n
  BY FS_Interval
<1>3. Cardinality(1..n) <= Cardinality(T)
  BY <1>1, FS_Injection
<1> QED BY <1>2, <1>3, FS_CardinalityType

(* A set of naturals that is not empty has a least member.                 *)
LEMMA LeastNatural ==
    ASSUME NEW T, T \subseteq Nat, T # {}
    PROVE  \E x \in T : \A y \in T : x <= y
<1>1. PICK x \in T : \A y \in T : <<y, x>> \notin OpToRel(<, Nat)
  BY WFMin, NatLessThanWellFounded, Zenon
<1>2. ASSUME NEW y \in T PROVE ~(y < x)
  BY <1>1, <1>2, Zenon DEF OpToRel
<1> QED BY <1>2
-------------------------------------------------------------------------------
(* Routing: a server is always chosen, and the cache stays an LRU cache.   *)

LEMMA LeastLoadedIsServer == RoutingTypeOK => LeastLoaded \in Servers
<1> SUFFICES ASSUME RoutingTypeOK PROVE LeastLoaded \in Servers
  OBVIOUS
<1> USE LoadBalancerAssumption
<1>1. \A s \in Servers : inflight[s] \in Nat /\ s \in Nat
  BY DEF RoutingTypeOK, Servers
<1> DEFINE loads == {inflight[s] : s \in Servers}
<1>2. PICK low \in loads : \A x \in loads : low <= x
  <2>1. loads \subseteq Nat
    BY <1>1
  <2>2. 1 \in Servers
    BY DEF Servers
  <2>3. loads # {}
    BY <2>2
  <2> HIDE DEF loads
  <2> QED BY <2>1, <2>3, LeastNatural
<1> DEFINE best == {s \in Servers : inflight[s] = low}
<1>3. PICK s \in best : \A t \in best : s <= t
  <2>1. best \subseteq Nat /\ best # {}
    BY <1>1, <1>2
  <2> HIDE DEF best
  <2> QED BY <2>1, LeastNatural
<1>4. ASSUME NEW t \in Servers
      PROVE  inflight[s] < inflight[t] \/ (inflight[s] = inflight[t] /\ s <= t)
  <2>1. low <= inflight[t] /\ inflight[s] = low
    BY <1>2, <1>3
  <2>2. inflight[t] = low => s <= t
    BY <1>3
  <2>3. inflight[t] \in Nat /\ low \in Nat
    BY <1>1, <1>2
  <2> QED BY <2>1, <2>2, <2>3
<1>5. s \in Servers
  BY <1>3
<1> HIDE DEF best, loads
<1> QED BY <1>4, <1>5 DEF LeastLoaded

LEMMA RoutedIsServer == RoutingTypeOK => \A c \in Conversations : Routed(c) \in Servers
  BY LeastLoadedIsServer DEF RoutingTypeOK, Routed, Slots, Servers

(* The order after a hit: c moved from its position to the end.            *)
LEMMA HitOrder ==
    ASSUME RoutingTypeOK, CacheConsistent, NEW c \in Conversations, session[c] # NoServer, Hit(c)
    PROVE  /\ recency' \in Seq(Conversations)
           /\ Len(recency') = Len(recency) /\ Len(recency) \in Nat \ {0}
           /\ \E i \in 1..Len(recency) :
                 /\ recency[i] = c
                 /\ \A j \in 1..(Len(recency) - 1) :
                       recency'[j] = IF j < i THEN recency[j] ELSE recency[j + 1]
           /\ recency'[Len(recency)] = c
<1>1. PICK k \in 1..Len(recency) : recency[k] = c
  BY DEF CacheConsistent
<1>2. Position(c) \in 1..Len(recency) /\ recency[Position(c)] = c
  BY <1>1 DEF Position
<1> DEFINE i == Position(c)
<1>3. recency \in Seq(Conversations) /\ i \in 1..Len(recency)
  BY <1>2 DEF RoutingTypeOK
<1>4. Len(recency) \in Nat
  BY <1>3, LenProperties
<1> DEFINE t == Without(i)
<1>5. recency' = Append(t, c)
  BY DEF Hit
<1> HIDE DEF i
<1>6. /\ t \in Seq(Conversations)
      /\ Len(t) = Len(recency) - 1
      /\ \A j \in 1..(Len(recency) - 1) : t[j] = IF j < i THEN recency[j] ELSE recency[j + 1]
  BY <1>3, TakeOut DEF Without
<1> HIDE DEF t
<1>8. /\ recency' \in Seq(Conversations) /\ Len(recency') = Len(t) + 1
      /\ \A j \in 1..Len(t) : recency'[j] = t[j]
      /\ recency'[Len(t) + 1] = c
  BY <1>5, <1>6
<1>9. Len(t) + 1 = Len(recency)
  BY <1>4, <1>6
<1>7. recency[i] = c
  BY <1>2 DEF i
<1> QED BY <1>1, <1>3, <1>4, <1>6, <1>7, <1>8, <1>9

(* The order after a miss: c at the end, the oldest gone if it was full.   *)
LEMMA MissOrder ==
    ASSUME RoutingTypeOK, CacheConsistent, NEW c \in Conversations, NEW s \in Servers, Miss(c, s)
    PROVE  /\ recency' \in Seq(Conversations)
           /\ Len(recency) \in Nat
           /\ Len(recency) >= CacheSize =>
                 /\ Len(recency') = Len(recency) /\ Len(recency) = CacheSize
                 /\ recency[1] \in Conversations
                 /\ \A j \in 1..(Len(recency) - 1) : recency'[j] = recency[j + 1]
                 /\ recency'[Len(recency)] = c
                 /\ session' = [session EXCEPT ![recency[1]] = NoServer, ![c] = s]
           /\ Len(recency) < CacheSize =>
                 /\ Len(recency') = Len(recency) + 1
                 /\ \A j \in 1..Len(recency) : recency'[j] = recency[j]
                 /\ recency'[Len(recency) + 1] = c
                 /\ session' = [session EXCEPT ![c] = s]
<1> USE LoadBalancerAssumption
<1>1. recency \in Seq(Conversations) /\ Len(recency) \in Nat /\ Len(recency) <= CacheSize
  BY LenProperties DEF RoutingTypeOK, CacheConsistent
<1>2. CASE Len(recency) >= CacheSize
  <2>1. recency # <<>> /\ Len(recency) = CacheSize
    BY <1>1, <1>2
  <2>2. /\ Head(recency) = recency[1] /\ Head(recency) \in Conversations
        /\ Tail(recency) \in Seq(Conversations)
        /\ Len(Tail(recency)) = Len(recency) - 1
        /\ \A j \in 1..Len(Tail(recency)) : Tail(recency)[j] = recency[j + 1]
    BY <1>1, <2>1, HeadTailProperties
  <2>3. recency' = Append(Tail(recency), c)
    BY <1>2 DEF Miss
  <2> DEFINE t == Tail(recency)
  <2>4. t \in Seq(Conversations) /\ recency' = Append(t, c)
    BY <2>2, <2>3
  <2> HIDE DEF t
  <2>5. /\ recency' \in Seq(Conversations) /\ Len(recency') = Len(t) + 1
        /\ \A j \in 1..Len(t) : recency'[j] = t[j]
        /\ recency'[Len(t) + 1] = c
    BY <2>4
  <2>6. Len(t) = Len(recency) - 1 /\ Len(t) + 1 = Len(recency)
    BY <2>2, <1>1 DEF t
  <2>7. \A j \in 1..(Len(recency) - 1) : recency'[j] = recency[j + 1]
    BY <2>2, <2>5, <2>6 DEF t
  <2>8. session' = [session EXCEPT ![recency[1]] = NoServer, ![c] = s]
    BY <1>2, <2>2 DEF Miss
  <2>9. Len(recency') = Len(recency) /\ recency'[Len(recency)] = c
    BY <2>5, <2>6
  <2>10. recency[1] \in Conversations /\ ~(Len(recency) < CacheSize)
    BY <2>1, <2>2, <1>1
  <2> HIDE DEF t
  <2> QED BY <1>1, <1>2, <2>1, <2>5, <2>7, <2>8, <2>9, <2>10
<1>3. CASE Len(recency) < CacheSize
  <2>1. recency' = Append(recency, c) /\ session' = [session EXCEPT ![c] = s]
    BY <1>1, <1>3 DEF Miss
  <2> QED BY <1>1, <1>3, <2>1
<1> QED BY <1>1, <1>2, <1>3
-------------------------------------------------------------------------------
(* Each conjunct of the invariant, over each action.                       *)

LEMMA InitRoutingInv == LBInit => RoutingInv
<1> SUFFICES ASSUME LBInit PROVE RoutingInv
  OBVIOUS
<1> USE LoadBalancerAssumption DEF LBInit
<1>1. RoutingTypeOK
  BY EmptySeq DEF RoutingTypeOK, Slots, NoServer
<1>2. CountsRequests
  <2> SUFFICES ASSUME NEW s \in Servers
               PROVE  inflight[s] = Cardinality(Using(s)) + Cardinality(Owing(s))
    BY DEF CountsRequests
  <2>1. Using(s) = {} /\ Owing(s) = {}
    BY DEF Using, Owing, Servers, NoServer
  <2> QED BY <2>1, FS_EmptySet
<1>3. Len(recency) = 0
  BY EmptySeq
<1>4. OneRequest /\ CacheConsistent /\ Recent /\ Remembered
  BY <1>3 DEF OneRequest, CacheConsistent, Recent, Remembered, NoServer
<1> QED BY <1>1, <1>2, <1>4 DEF RoutingInv

LEMMA AcquireTypeOK ==
    ASSUME RoutingTypeOK, CacheConsistent, NEW c \in Conversations, Acquire(c)
    PROVE  RoutingTypeOK'
<1>1. Routed(c) \in Servers
  BY RoutedIsServer
<1>2. /\ inflight' \in [Servers -> Nat]
      /\ using' \in [Conversations -> Slots]
      /\ owed' \in [Conversations -> Slots]
      /\ last' \in [Conversations -> Slots]
  BY <1>1 DEF RoutingTypeOK, Acquire, Slots, Servers
<1>3. others' \in [Conversations -> SUBSET Conversations]
  BY DEF RoutingTypeOK, Acquire
<1>4. CASE session[c] # NoServer
  <2>1. Hit(c)
    BY <1>4 DEF Acquire
  <2>2. recency' \in Seq(Conversations)
    BY <1>4, <2>1, HitOrder
  <2> QED BY <1>2, <1>3, <2>1, <2>2 DEF RoutingTypeOK, Hit
<1>5. CASE session[c] = NoServer
  <2>1. Miss(c, Routed(c))
    BY <1>5 DEF Acquire
  <2>2. recency' \in Seq(Conversations)
    BY <1>1, <2>1, MissOrder
  <2>3. session' \in [Conversations -> Slots]
    BY <1>1, <2>1 DEF RoutingTypeOK, Miss, Slots
  <2> QED BY <1>2, <1>3, <2>2, <2>3 DEF RoutingTypeOK
<1> QED BY <1>4, <1>5

LEMMA UsingIsFinite ==
    \A s : /\ IsFiniteSet(Using(s)) /\ IsFiniteSet(Owing(s))
          /\ Cardinality(Using(s)) \in Nat /\ Cardinality(Owing(s)) \in Nat
  BY ConversationsAreFinite, FS_Subset, FS_CardinalityType DEF Using, Owing

LEMMA AcquireCounts ==
    ASSUME RoutingTypeOK, CountsRequests, NEW c \in Conversations, Acquire(c)
    PROVE  CountsRequests'
<1> SUFFICES ASSUME NEW s \in Servers
             PROVE  inflight'[s] = Cardinality(Using(s)') + Cardinality(Owing(s)')
  BY DEF CountsRequests
<1>1. Routed(c) \in Servers /\ NoServer \notin Servers
  BY RoutedIsServer DEF Servers, NoServer
<1>2. /\ using[c] = NoServer /\ using' = [using EXCEPT ![c] = Routed(c)]
      /\ owed' = owed
      /\ inflight' = [inflight EXCEPT ![Routed(c)] = @ + 1]
  BY DEF Acquire
<1>3. Owing(s)' = Owing(s)
  BY <1>2 DEF Owing
<1>4. inflight[s] = Cardinality(Using(s)) + Cardinality(Owing(s)) /\ inflight[s] \in Nat
  BY DEF CountsRequests, RoutingTypeOK
<1>5. CASE s = Routed(c)
  <2>1. Using(s)' = Using(s) \cup {c} /\ c \notin Using(s)
    BY <1>1, <1>2, <1>5 DEF Using, RoutingTypeOK
  <2>2. Cardinality(Using(s)') = Cardinality(Using(s)) + 1
    BY <2>1, UsingIsFinite, FS_AddElement
  <2>3. inflight'[s] = inflight[s] + 1
    BY <1>2, <1>5 DEF RoutingTypeOK
  <2> QED BY <1>3, <1>4, <2>2, <2>3, UsingIsFinite
<1>6. CASE s # Routed(c)
  <2>1. Using(s)' = Using(s)
    BY <1>1, <1>2, <1>6 DEF Using, RoutingTypeOK
  <2>2. inflight'[s] = inflight[s]
    BY <1>2, <1>6 DEF RoutingTypeOK
  <2> QED BY <1>3, <1>4, <2>1, <2>2
<1> QED BY <1>5, <1>6

LEMMA SendReleaseCounts ==
    ASSUME RoutingTypeOK, CountsRequests, NEW c \in Conversations, SendRelease(c), owed[c] = NoServer
    PROVE  CountsRequests'
<1> SUFFICES ASSUME NEW s \in Servers
             PROVE  inflight'[s] = Cardinality(Using(s)') + Cardinality(Owing(s)')
  BY DEF CountsRequests
<1>1. NoServer \notin Servers
  BY DEF Servers, NoServer
<1>2. /\ owed' = [owed EXCEPT ![c] = using[c]]
      /\ using' = [using EXCEPT ![c] = NoServer]
      /\ inflight' = inflight
  BY DEF SendRelease
<1>3. inflight[s] = Cardinality(Using(s)) + Cardinality(Owing(s)) /\ inflight[s] \in Nat
  BY DEF CountsRequests, RoutingTypeOK
<1>4. CASE using[c] = s
  <2>1. /\ Using(s)' = Using(s) \ {c} /\ c \in Using(s)
        /\ Owing(s)' = Owing(s) \cup {c} /\ c \notin Owing(s)
    BY <1>1, <1>2, <1>4 DEF Using, Owing, RoutingTypeOK
  <2>2. Cardinality(Using(s)') = Cardinality(Using(s)) - 1
    BY <2>1, UsingIsFinite, FS_RemoveElement
  <2>3. Cardinality(Owing(s)') = Cardinality(Owing(s)) + 1
    BY <2>1, UsingIsFinite, FS_AddElement
  <2> QED BY <1>2, <1>3, <2>2, <2>3, UsingIsFinite
<1>5. CASE using[c] # s
  <2>1. Using(s)' = Using(s) /\ Owing(s)' = Owing(s)
    BY <1>1, <1>2, <1>5 DEF Using, Owing, RoutingTypeOK
  <2> QED BY <1>2, <1>3, <2>1
<1> QED BY <1>4, <1>5

(* In particular the counter of a server that is owed a release is not 0.  *)
LEMMA ReleaseCounts ==
    ASSUME RoutingTypeOK, CountsRequests, NEW c \in Conversations, Release(c)
    PROVE  CountsRequests'
<1> SUFFICES ASSUME NEW s \in Servers
             PROVE  inflight'[s] = Cardinality(Using(s)') + Cardinality(Owing(s)')
  BY DEF CountsRequests
<1>1. NoServer \notin Servers /\ owed[c] \in Servers
  BY DEF Servers, NoServer, RoutingTypeOK, Slots, Release
<1>2. using' = using /\ owed' = [owed EXCEPT ![c] = NoServer]
  BY DEF Release
<1>3. Using(s)' = Using(s)
  BY <1>2 DEF Using
<1>4. inflight[s] = Cardinality(Using(s)) + Cardinality(Owing(s)) /\ inflight[s] \in Nat
  BY DEF CountsRequests, RoutingTypeOK
<1>5. CASE owed[c] = s
  <2>1. Owing(s)' = Owing(s) \ {c} /\ c \in Owing(s)
    BY <1>1, <1>2, <1>5 DEF Owing, RoutingTypeOK
  <2>2. Cardinality(Owing(s)') = Cardinality(Owing(s)) - 1
    BY <2>1, UsingIsFinite, FS_RemoveElement
  <2>3. Cardinality(Owing(s)) # 0
    BY <2>1, UsingIsFinite, FS_EmptySet
  <2>4. CanRelease(owed[c])
    BY <1>4, <1>5, <2>3, UsingIsFinite DEF CanRelease
  <2>5. inflight'[s] = inflight[s] - 1
    BY <1>5, <2>4 DEF Release, RoutingTypeOK
  <2> QED BY <1>3, <1>4, <2>2, <2>5, UsingIsFinite
<1>6. CASE owed[c] # s
  <2>1. Owing(s)' = Owing(s)
    BY <1>1, <1>2, <1>6 DEF Owing, RoutingTypeOK
  <2>2. inflight'[s] = inflight[s]
    BY <1>1, <1>6 DEF Release, RoutingTypeOK
  <2> QED BY <1>3, <1>4, <2>1, <2>2
<1> QED BY <1>5, <1>6

LEMMA AcquireCache ==
    ASSUME RoutingTypeOK, CacheConsistent, NEW c \in Conversations, Acquire(c)
    PROVE  CacheConsistent'
<1> USE LoadBalancerAssumption
<1>1. Routed(c) \in Servers /\ NoServer \notin Servers
  BY RoutedIsServer DEF Servers, NoServer
<1>2. CASE session[c] # NoServer
  <2>1. Hit(c) /\ session' = session
    BY <1>2 DEF Acquire, Hit
  <2>2. PICK i \in 1..Len(recency) :
          /\ recency[i] = c
          /\ \A j \in 1..(Len(recency) - 1) :
                recency'[j] = IF j < i THEN recency[j] ELSE recency[j + 1]
    BY <1>2, <2>1, HitOrder
  <2>3. /\ Len(recency') = Len(recency) /\ Len(recency) \in Nat \ {0}
        /\ recency'[Len(recency)] = c
    BY <1>2, <2>1, HitOrder
  <2> DEFINE old(j) == IF j = Len(recency) THEN i ELSE IF j < i THEN j ELSE j + 1
  <2>4. \A j \in 1..Len(recency) : old(j) \in 1..Len(recency) /\ recency'[j] = recency[old(j)]
    BY <2>2, <2>3
  <2>5. \A j, k \in 1..Len(recency) : old(j) = old(k) => j = k
    BY <2>2, <2>3
  <2>6. \A k \in 1..Len(recency) : \E j \in 1..Len(recency) : old(j) = k
    <3> SUFFICES ASSUME NEW k \in 1..Len(recency)
                 PROVE  \E j \in 1..Len(recency) : old(j) = k
      OBVIOUS
    <3>1. CASE k = i
      <4>1. Len(recency) \in 1..Len(recency) /\ old(Len(recency)) = k
        BY <2>3, <3>1
      <4> QED BY <4>1
    <3>2. CASE k < i
      <4>1. k \in 1..Len(recency) /\ old(k) = k
        BY <2>2, <2>3, <3>2
      <4> QED BY <4>1
    <3>3. CASE k > i
      <4>1. k - 1 \in 1..Len(recency) /\ old(k - 1) = k
        BY <2>2, <2>3, <3>3
      <4> QED BY <4>1
    <3> QED BY <2>2, <2>3, <3>1, <3>2, <3>3
  <2> HIDE DEF old
  <2>7. \A d \in Conversations : (\E j \in 1..Len(recency) : recency'[j] = d)
                              <=> (\E k \in 1..Len(recency) : recency[k] = d)
    BY <2>4, <2>6
  <2>8. \A j, k \in 1..Len(recency) : recency'[j] = recency'[k] => j = k
    <3>1. \A j, k \in 1..Len(recency) : recency[j] = recency[k] => j = k
      BY DEF CacheConsistent
    <3> SUFFICES ASSUME NEW j \in 1..Len(recency), NEW k \in 1..Len(recency),
                        recency'[j] = recency'[k]
                 PROVE  j = k
      OBVIOUS
    <3>2. old(j) = old(k)
      BY <2>4, <3>1
    <3> QED BY <2>5, <3>2
  <2> QED BY <2>1, <2>3, <2>7, <2>8 DEF CacheConsistent
<1>3. CASE session[c] = NoServer
  <2>1. Miss(c, Routed(c))
    BY <1>3 DEF Acquire
  <2>2. /\ \A k \in 1..Len(recency) : recency[k] # c
        /\ Len(recency) <= CacheSize /\ Len(recency) \in Nat
    BY <1>1, <1>3, <2>1, MissOrder DEF CacheConsistent
  <2>3. CASE Len(recency) >= CacheSize
    <3>1. /\ Len(recency') = CacheSize /\ Len(recency) = CacheSize
          /\ recency[1] \in Conversations /\ recency[1] # c
          /\ \A j \in 1..(CacheSize - 1) : recency'[j] = recency[j + 1]
          /\ recency'[CacheSize] = c
          /\ session' = [session EXCEPT ![recency[1]] = NoServer, ![c] = Routed(c)]
      <4>1. /\ Len(recency') = Len(recency) /\ Len(recency) = CacheSize
            /\ recency[1] \in Conversations
            /\ \A j \in 1..(Len(recency) - 1) : recency'[j] = recency[j + 1]
            /\ recency'[Len(recency)] = c
            /\ session' = [session EXCEPT ![recency[1]] = NoServer, ![c] = Routed(c)]
        BY <1>1, <2>1, <2>3, MissOrder
      <4>2. recency[1] # c
        BY <2>2, <4>1
      <4> QED BY <4>1, <4>2
    <3>2. \A j, k \in 1..CacheSize : recency'[j] = recency'[k] => j = k
      <4> SUFFICES ASSUME NEW j \in 1..CacheSize, NEW k \in 1..CacheSize,
                          recency'[j] = recency'[k]
                   PROVE  j = k
        OBVIOUS
      <4>1. CASE j = CacheSize \/ k = CacheSize
        BY <2>2, <3>1, <4>1
      <4>2. CASE j # CacheSize /\ k # CacheSize
        <5>1. j + 1 \in 1..CacheSize /\ k + 1 \in 1..CacheSize /\ recency[j + 1] = recency[k + 1]
          BY <3>1, <4>2
        <5>2. j + 1 = k + 1
          BY <3>1, <5>1 DEF CacheConsistent
        <5> QED BY <5>2
      <4> QED BY <4>1, <4>2
    <3>3. ASSUME NEW d \in Conversations
          PROVE  session'[d] # NoServer <=> \E j \in 1..CacheSize : recency'[j] = d
      <4>1. CASE d = c
        BY <1>1, <3>1, <4>1 DEF RoutingTypeOK
      <4>2. CASE d = recency[1]
        <5>1. \A j \in 1..CacheSize : recency'[j] # d
          <6> SUFFICES ASSUME NEW j \in 1..CacheSize PROVE recency'[j] # d
            OBVIOUS
          <6>1. CASE j = CacheSize
            BY <3>1, <4>2, <6>1
          <6>2. CASE j # CacheSize
            <7>1. recency'[j] = recency[j + 1] /\ j + 1 \in 1..CacheSize /\ 1 \in 1..CacheSize
                  /\ j + 1 # 1
              BY <3>1, <6>2
            <7> QED BY <7>1, <3>1, <4>2 DEF CacheConsistent
          <6> QED BY <6>1, <6>2
        <5>2. session'[d] = NoServer
          BY <3>1, <4>2 DEF RoutingTypeOK
        <5> QED BY <5>1, <5>2
      <4>3. CASE d # c /\ d # recency[1]
        <5>1. session'[d] = session[d]
          BY <3>1, <4>3 DEF RoutingTypeOK
        <5>2. (\E k \in 1..CacheSize : recency[k] = d) => \E j \in 1..CacheSize : recency'[j] = d
          <6> SUFFICES ASSUME NEW k \in 1..CacheSize, recency[k] = d
                       PROVE  \E j \in 1..CacheSize : recency'[j] = d
            OBVIOUS
          <6>1. k # 1
            BY <4>3
          <6>2. k - 1 \in 1..(CacheSize - 1) /\ (k - 1) + 1 = k /\ k - 1 \in 1..CacheSize
            BY <6>1
          <6>3. recency'[k - 1] = d
            BY <3>1, <6>2
          <6> QED BY <6>2, <6>3
        <5>3. (\E j \in 1..CacheSize : recency'[j] = d) => \E k \in 1..CacheSize : recency[k] = d
          <6> SUFFICES ASSUME NEW j \in 1..CacheSize, recency'[j] = d
                       PROVE  \E k \in 1..CacheSize : recency[k] = d
            OBVIOUS
          <6>1. j # CacheSize
            BY <3>1, <4>3
          <6>2. j \in 1..(CacheSize - 1) /\ j + 1 \in 1..CacheSize
            BY <6>1
          <6> QED BY <3>1, <6>2
        <5> QED BY <3>1, <5>1, <5>2, <5>3 DEF CacheConsistent
      <4> QED BY <4>1, <4>2, <4>3
    <3> QED BY <3>1, <3>2, <3>3 DEF CacheConsistent
  <2>4. CASE Len(recency) < CacheSize
    <3> DEFINE n == Len(recency)
    <3>1. /\ Len(recency') = n + 1
          /\ \A j \in 1..n : recency'[j] = recency[j]
          /\ recency'[n + 1] = c
          /\ session' = [session EXCEPT ![c] = Routed(c)]
      BY <1>1, <2>1, <2>4, MissOrder
    <3>2. n \in Nat /\ n + 1 <= CacheSize
      BY <2>2, <2>4
    <3>3. \A j, k \in 1..n : recency[j] = recency[k] => j = k
      BY DEF CacheConsistent
    <3>4. \A d \in Conversations : session[d] # NoServer <=> \E j \in 1..n : recency[j] = d
      BY DEF CacheConsistent
    <3>5. \A j \in 1..n : recency[j] # c
      BY <2>2
    <3> HIDE DEF n
    <3>6. \A j \in 1..(n + 1) : j \in 1..n \/ j = n + 1
      BY <3>2
    <3>7. \A j, k \in 1..(n + 1) : recency'[j] = recency'[k] => j = k
      BY <3>1, <3>3, <3>5, <3>6
    <3>8. \A d \in Conversations : session'[d] # NoServer <=> \E j \in 1..(n + 1) : recency'[j] = d
      <4>1. n + 1 \in 1..(n + 1) /\ \A j \in 1..n : j \in 1..(n + 1)
        BY <3>2
      <4> QED BY <1>1, <3>1, <3>4, <3>5, <3>6, <4>1 DEF RoutingTypeOK
    <3> QED BY <3>1, <3>2, <3>7, <3>8 DEF CacheConsistent
  <2> QED BY <2>2, <2>3, <2>4
<1> QED BY <1>2, <1>3
LEMMA AcquireRecent ==
    ASSUME RoutingTypeOK, CacheConsistent, Recent, NEW c \in Conversations, Acquire(c)
    PROVE  Recent'
<1> USE LoadBalancerAssumption
<1>1. /\ others' = [d \in Conversations |-> IF d = c THEN {} ELSE others[d] \cup {c}]
      /\ recency' \in Seq(Conversations)
  BY AcquireTypeOK DEF Acquire, RoutingTypeOK
<1>2. /\ \A i \in 1..Len(recency) : recency[i] \in Conversations
      /\ \A i \in 1..Len(recency') : recency'[i] \in Conversations
  BY <1>1, ElementOfSeq DEF RoutingTypeOK
<1>3. CASE session[c] # NoServer
  <2>1. Hit(c)
    BY <1>3 DEF Acquire
  <2>2. PICK p \in 1..Len(recency) :
          /\ recency[p] = c
          /\ \A j \in 1..(Len(recency) - 1) :
                recency'[j] = IF j < p THEN recency[j] ELSE recency[j + 1]
    BY <1>3, <2>1, HitOrder
  <2>3. /\ Len(recency') = Len(recency) /\ Len(recency) \in Nat \ {0}
        /\ recency'[Len(recency)] = c
    BY <1>3, <2>1, HitOrder
  <2> SUFFICES ASSUME NEW i \in 1..Len(recency), NEW j \in 1..Len(recency), i < j
               PROVE  recency'[j] \in others'[recency'[i]]
    BY <2>3 DEF Recent
  <2> DEFINE old(k) == IF k < p THEN k ELSE k + 1
  <2>4. i \in 1..(Len(recency) - 1) /\ old(i) \in 1..Len(recency) /\ old(i) # p
        /\ recency'[i] = recency[old(i)]
    BY <2>2, <2>3
  <2>5. recency[old(i)] # c /\ recency[old(i)] \in Conversations
    BY <1>2, <2>2, <2>4 DEF CacheConsistent
  <2>6. others'[recency'[i]] = others[recency[old(i)]] \cup {c}
    BY <1>1, <2>4, <2>5
  <2>7. CASE j = Len(recency)
    BY <2>3, <2>6, <2>7
  <2>8. CASE j # Len(recency)
    <3>1. j \in 1..(Len(recency) - 1) /\ old(j) \in 1..Len(recency) /\ old(i) < old(j)
          /\ recency'[j] = recency[old(j)]
      BY <2>2, <2>3, <2>8
    <3> HIDE DEF old
    <3>2. recency[old(j)] \in others[recency[old(i)]]
      BY <2>4, <3>1 DEF Recent
    <3> QED BY <2>6, <3>1, <3>2
  <2> QED BY <2>7, <2>8
<1>4. CASE session[c] = NoServer
  <2>1. Miss(c, Routed(c)) /\ Routed(c) \in Servers
    BY <1>4, RoutedIsServer DEF Acquire
  <2>2. (\A k \in 1..Len(recency) : recency[k] # c) /\ Len(recency) \in Nat
    BY <1>4, <2>1, MissOrder DEF CacheConsistent
  <2>3. CASE Len(recency) >= CacheSize
    <3>1. /\ Len(recency') = Len(recency)
          /\ \A j \in 1..(Len(recency) - 1) : recency'[j] = recency[j + 1]
          /\ recency'[Len(recency)] = c
      BY <2>1, <2>3, MissOrder
    <3> SUFFICES ASSUME NEW i \in 1..Len(recency), NEW j \in 1..Len(recency), i < j
                 PROVE  recency'[j] \in others'[recency'[i]]
      BY <3>1 DEF Recent
    <3>2. i \in 1..(Len(recency) - 1) /\ i + 1 \in 1..Len(recency) /\ recency'[i] = recency[i + 1]
      BY <2>2, <3>1
    <3>3. others'[recency'[i]] = others[recency[i + 1]] \cup {c}
      BY <1>1, <1>2, <2>2, <3>2
    <3>4. CASE j = Len(recency)
      BY <3>1, <3>3, <3>4
    <3>5. CASE j # Len(recency)
      <4>1. j \in 1..(Len(recency) - 1) /\ j + 1 \in 1..Len(recency) /\ i + 1 < j + 1
        BY <2>2, <3>5
      <4>2. recency[j + 1] \in others[recency[i + 1]] /\ recency'[j] = recency[j + 1]
        BY <3>1, <3>2, <4>1 DEF Recent
      <4> QED BY <3>3, <4>2
    <3> QED BY <3>4, <3>5
  <2>4. CASE Len(recency) < CacheSize
    <3>1. /\ Len(recency') = Len(recency) + 1
          /\ \A j \in 1..Len(recency) : recency'[j] = recency[j]
          /\ recency'[Len(recency) + 1] = c
      BY <2>1, <2>4, MissOrder
    <3> SUFFICES ASSUME NEW i \in 1..Len(recency) + 1, NEW j \in 1..Len(recency) + 1, i < j
                 PROVE  recency'[j] \in others'[recency'[i]]
      BY <3>1 DEF Recent
    <3>2. i \in 1..Len(recency) /\ recency'[i] = recency[i]
      BY <2>2, <3>1
    <3>3. others'[recency'[i]] = others[recency[i]] \cup {c}
      BY <1>1, <1>2, <2>2, <3>2
    <3>4. CASE j = Len(recency) + 1
      BY <3>1, <3>3, <3>4
    <3>5. CASE j # Len(recency) + 1
      <4>1. j \in 1..Len(recency)
        BY <2>2, <3>5
      <4>2. recency[j] \in others[recency[i]] /\ recency'[j] = recency[j]
        BY <3>1, <3>2, <4>1 DEF Recent
      <4> QED BY <3>3, <4>2
    <3> QED BY <3>4, <3>5
  <2> QED BY <2>2, <2>3, <2>4
<1> QED BY <1>3, <1>4

LEMMA AcquireRemembered ==
    ASSUME RoutingInv, NEW c \in Conversations, Acquire(c)
    PROVE  Remembered'
<1> USE LoadBalancerAssumption
<1>1. /\ others' = [d \in Conversations |-> IF d = c THEN {} ELSE others[d] \cup {c}]
      /\ last' = [last EXCEPT ![c] = Routed(c)]
      /\ RoutingTypeOK /\ CacheConsistent /\ Recent /\ Remembered
  BY DEF Acquire, RoutingInv
<1>2. Routed(c) \in Servers /\ NoServer \notin Servers
  BY <1>1, RoutedIsServer DEF Servers, NoServer
<1>3. ASSUME NEW d \in Conversations, d # c
      PROVE  /\ IsFiniteSet(others'[d])
             /\ Cardinality(others'[d]) \in Nat /\ Cardinality(others[d]) \in Nat
             /\ Cardinality(others'[d]) >= Cardinality(others[d])
  <2>1. others'[d] = others[d] \cup {c} /\ others[d] \subseteq Conversations
    BY <1>1, <1>3 DEF RoutingTypeOK
  <2>2. IsFiniteSet(others'[d]) /\ others[d] \subseteq others'[d]
    BY <2>1, ConversationsAreFinite, FS_Subset
  <2> QED BY <2>2, FS_Subset, FS_CardinalityType
<1>4. CASE session[c] # NoServer
  <2>1. session' = session
    BY <1>4 DEF Acquire, Hit
  <2>2. session'[c] = last'[c] /\ session'[c] # NoServer
    BY <1>1, <1>4, <2>1 DEF Routed, RoutingTypeOK
  <2>3. ASSUME NEW d \in Conversations, d # c
        PROVE  /\ session'[d] # NoServer => session'[d] = last'[d]
               /\ session'[d] = NoServer /\ last'[d] # NoServer => Cardinality(others'[d]) >= CacheSize
    <3>1. last'[d] = last[d]
      BY <1>1, <2>3 DEF RoutingTypeOK
    <3> QED BY <1>1, <1>3, <2>1, <2>3, <3>1 DEF Remembered
  <2> QED BY <2>2, <2>3 DEF Remembered
<1>5. CASE session[c] = NoServer
  <2>1. Miss(c, Routed(c))
    BY <1>5 DEF Acquire
  <2>2. (\A k \in 1..Len(recency) : recency[k] # c) /\ Len(recency) \in Nat
    BY <1>1, <1>2, <1>5, <2>1, MissOrder DEF CacheConsistent
  <2>3. session'[c] = Routed(c) /\ last'[c] = Routed(c)
    <3>1. CASE Len(recency) >= CacheSize
      BY <1>1, <1>2, <2>1, <3>1, MissOrder DEF RoutingTypeOK
    <3>2. CASE Len(recency) < CacheSize
      BY <1>1, <1>2, <2>1, <3>2, MissOrder DEF RoutingTypeOK
    <3> QED BY <1>1, <2>2, <3>1, <3>2 DEF RoutingTypeOK
  <2>4. ASSUME NEW d \in Conversations, d # c
        PROVE  /\ session'[d] # NoServer => session'[d] = last'[d]
               /\ session'[d] = NoServer /\ last'[d] # NoServer => Cardinality(others'[d]) >= CacheSize
    <3>1. last'[d] = last[d]
      BY <1>1, <2>4 DEF RoutingTypeOK
    <3>2. CASE session'[d] = session[d]
      BY <1>1, <1>3, <2>4, <3>1, <3>2 DEF Remembered
    <3>3. CASE session'[d] # session[d]
      <4>1. /\ Len(recency) >= CacheSize => session' = [session EXCEPT ![recency[1]] = NoServer, ![c] = Routed(c)]
            /\ Len(recency) < CacheSize => session' = [session EXCEPT ![c] = Routed(c)]
        BY <1>1, <1>2, <2>1, MissOrder
      <4>2. Len(recency) >= CacheSize /\ d = recency[1] /\ session'[d] = NoServer
        BY <1>1, <2>2, <2>4, <3>3, <4>1 DEF RoutingTypeOK
      <4>3. Len(recency) = CacheSize
        BY <1>1, <1>2, <2>1, <4>2, MissOrder
      <4> DEFINE f == [i \in 1..CacheSize |-> IF i = 1 THEN c ELSE recency[i]]
      <4>4. others'[d] = others[d] \cup {c}
        BY <1>1, <2>4
      <4>5. \A i \in 1..CacheSize : i # 1 => recency[i] \in others[d]
        <5>1. \A i \in 1..CacheSize : i # 1 => 1 < i
          OBVIOUS
        <5>2. 1 \in 1..CacheSize
          OBVIOUS
        <5> QED BY <1>1, <4>2, <4>3, <5>1, <5>2 DEF Recent
      <4>6. f \in [1..CacheSize -> others'[d]]
        BY <4>4, <4>5
      <4>7. \A i, j \in 1..CacheSize : f[i] = f[j] => i = j
        BY <1>1, <2>2, <4>3 DEF CacheConsistent
      <4> HIDE DEF f
      <4>8. Cardinality(others'[d]) >= CacheSize
        BY <1>3, <2>4, <4>6, <4>7, AtLeast
      <4> QED BY <4>2, <4>8
    <3> QED BY <3>2, <3>3
  <2> QED BY <2>3, <2>4 DEF Remembered
<1> QED BY <1>4, <1>5

-------------------------------------------------------------------------------
LEMMA StepRoutingInv == RoutingInv /\ [ClientsNext]_lbVars => RoutingInv'
<1> SUFFICES ASSUME RoutingInv, [ClientsNext]_lbVars PROVE RoutingInv'
  OBVIOUS
<1>1. ASSUME NEW c \in Conversations, Acquire(c) PROVE RoutingInv'
  <2>1. OneRequest'
    BY <1>1 DEF RoutingInv, OneRequest, Acquire
  <2> QED
    BY <1>1, <2>1, AcquireTypeOK, AcquireCounts, AcquireCache, AcquireRecent,
       AcquireRemembered DEF RoutingInv
<1>2. ASSUME NEW c \in Conversations, SendRelease(c) PROVE RoutingInv'
  <2>1. RoutingTypeOK'
    BY <1>2 DEF RoutingInv, RoutingTypeOK, SendRelease, Slots
  <2>2. OneRequest' /\ owed[c] = NoServer
    BY <1>2 DEF RoutingInv, OneRequest, SendRelease, RoutingTypeOK
  <2>3. CountsRequests'
    BY <1>2, <2>2, SendReleaseCounts DEF RoutingInv
  <2>4. CacheConsistent' /\ Recent' /\ Remembered'
    BY <1>2 DEF RoutingInv, SendRelease, CacheConsistent, Recent, Remembered
  <2> QED BY <2>1, <2>2, <2>3, <2>4 DEF RoutingInv
<1>3. ASSUME NEW c \in Conversations, Release(c) PROVE RoutingInv'
  <2>1. RoutingTypeOK'
    <3>1. inflight' \in [Servers -> Nat]
      <4>1. owed[c] \in Servers
        BY <1>3 DEF RoutingInv, RoutingTypeOK, Release, Slots
      <4> QED BY <1>3, <4>1 DEF RoutingInv, RoutingTypeOK, Release, CanRelease
    <3> QED BY <1>3, <3>1 DEF RoutingInv, RoutingTypeOK, Release, Slots
  <2>2. CountsRequests'
    BY <1>3, ReleaseCounts DEF RoutingInv
  <2>3. OneRequest'
    BY <1>3 DEF RoutingInv, OneRequest, Release, RoutingTypeOK
  <2>4. CacheConsistent' /\ Recent' /\ Remembered'
    BY <1>3 DEF RoutingInv, Release, CacheConsistent, Recent, Remembered
  <2> QED BY <2>1, <2>2, <2>3, <2>4 DEF RoutingInv
<1>4. ASSUME UNCHANGED lbVars PROVE RoutingInv'
  <2> USE <1>4 DEF lbVars
  <2>1. RoutingTypeOK' /\ OneRequest' /\ CacheConsistent' /\ Recent' /\ Remembered'
    BY DEF RoutingInv, RoutingTypeOK, OneRequest, CacheConsistent, Recent, Remembered
  <2>2. \A s : Using(s)' = Using(s) /\ Owing(s)' = Owing(s)
    BY DEF Using, Owing
  <2>3. CountsRequests'
    BY <2>2 DEF RoutingInv, CountsRequests
  <2> QED BY <2>1, <2>3 DEF RoutingInv
<1> QED BY <1>1, <1>2, <1>3, <1>4 DEF ClientsNext

LEMMA RoutingInvHolds == ClientsSpec => []RoutingInv
  BY InitRoutingInv, StepRoutingInv, PTL DEF ClientsSpec

(* The variables of the balancer and its callers keep their types.         *)
THEOREM RoutingTypeCorrect == ClientsSpec => []RoutingTypeOK
<1>1. RoutingInv => RoutingTypeOK
  BY DEF RoutingInv
<1> QED BY <1>1, RoutingInvHolds, PTL

(* The count of a server is its requests plus the releases under way, for  *)
(* any number of servers and conversations: no release finds it at zero.   *)
THEOREM CountsRequestsHolds == ClientsSpec => []CountsRequests
<1>1. RoutingInv => CountsRequests
  BY DEF RoutingInv
<1> QED BY <1>1, RoutingInvHolds, PTL

(* The cache never outgrows its size, and its mapping and order agree.     *)
THEOREM CacheConsistentHolds == ClientsSpec => []CacheConsistent
<1>1. RoutingInv => CacheConsistent
  BY DEF RoutingInv
<1> QED BY <1>1, RoutingInvHolds, PTL

(* A conversation is given another server only when at least CacheSize     *)
(* others were routed since its last request.                              *)
THEOREM StickyHolds == ClientsSpec => Sticky
<1>1. RoutingInv /\ [ClientsNext]_lbVars =>
        [\A c \in Conversations :
            last[c] # NoServer /\ last'[c] # last[c] => Cardinality(others[c]) >= CacheSize]_lbVars
  <2> SUFFICES ASSUME RoutingInv, ClientsNext, NEW d \in Conversations, last[d] # NoServer, last'[d] # last[d]
               PROVE  Cardinality(others[d]) >= CacheSize
    BY DEF lbVars
  <2>1. PICK c \in Conversations : Acquire(c)
    BY DEF ClientsNext, SendRelease, Release
  <2>2. d = c /\ last'[c] = Routed(c)
    BY <2>1 DEF RoutingInv, RoutingTypeOK, Acquire
  <2>3. session[d] = NoServer
    BY <2>2 DEF RoutingInv, Remembered, Routed
  <2> QED BY <2>3 DEF RoutingInv, Remembered
<1> QED BY <1>1, RoutingInvHolds, PTL DEF ClientsSpec, Sticky
-------------------------------------------------------------------------------
(* Generations over servers whose weights are updated                      *)

(* The version of the weights for the generations, as Atomic sees it.      *)
Current == IF Loaded THEN target ELSE target - 1

Named == {NoVersion} \cup (0..MaxUpdates)

Stops == {"none", "completed", "aborted"}

Requests == {"none", "asking", "sent", "running", "answered", "done"}

(* The servers' variables have their types ...                             *)
ServersType ==
    /\ weights \in [Servers -> (0..MaxUpdates) \cup {Mixed}]
    /\ globalSteps \in [Servers -> 0..MaxUpdates]
    /\ held \subseteq Servers
    /\ phase \in {"idle", "aborting", "loading", "resuming"}
    /\ left \subseteq Servers
    /\ target \in 0..MaxUpdates
    /\ phase # "idle" => target > 0 /\ left # {}

(* ... and the generations theirs.                                         *)
GenerationsType ==
    /\ request \in [Conversations -> Requests]
    /\ tokens \in [Conversations -> Seq((0..MaxUpdates) \cup {Mixed})]
    /\ DOMAIN capacity = Conversations
    /\ answer \in [Conversations -> [stop : Stops, version : Named]]
    /\ span \in [Conversations -> [min : Named, max : Named]]

(* A request holds a server from the time it is sent until its answer is   *)
(* merged; an answer names a version, and so does what it is merged into.  *)
Answered ==
    \A c \in Conversations :
        /\ request[c] \in {"sent", "running", "answered"} <=> using[c] \in Servers
        /\ request[c] = "answered" => answer[c].version # NoVersion /\ answer[c].stop # "none"
        /\ span[c].min = NoVersion <=> span[c].max = NoVersion
        /\ request[c] = "done" => span[c].min # NoVersion

(* Where an update is determines the weights of every server ...           *)
Synced ==
    \A s \in Servers :
        /\ phase \in {"idle", "resuming"} => weights[s] = target /\ globalSteps[s] = target
        /\ phase = "aborting" => weights[s] = target - 1 /\ globalSteps[s] = target - 1
        /\ phase = "loading" /\ s \in left =>
              weights[s] \in {target - 1, Mixed, target} /\ globalSteps[s] = target - 1
        /\ phase = "loading" /\ s \notin left => weights[s] = target /\ globalSteps[s] = target

(* ... and which engines are paused.                                       *)
Paused ==
    \A s \in Servers :
        /\ phase = "idle" => s \notin held
        /\ phase = "aborting" => (s \in held <=> s \notin left)
        /\ phase = "loading" => s \in held
        /\ phase = "resuming" => (s \in held <=> s \in left)

(* What runs is on an engine that is not paused.                           *)
RunsFree == \A c \in Conversations : request[c] = "running" => using[c] \notin held

(* The tokens of a generation were generated by versions of the past, none *)
(* before its span begins; the ones of the request it has out, and of its  *)
(* answer, by a single one.                                                *)
TokensOf(c) ==
    \A i \in 1..Len(tokens[c]) :
        /\ tokens[c][i] \in 0..Current
        /\ span[c].min # NoVersion => span[c].min <= tokens[c][i]
        /\ request[c] = "running" /\ span[c].min = NoVersion => tokens[c][i] = Current
        /\ request[c] = "answered" => tokens[c][i] <= answer[c].version
        /\ request[c] = "answered" /\ span[c].min = NoVersion => answer[c].version = tokens[c][i]
        /\ request[c] = "done" => tokens[c][i] <= span[c].max

OfItsTime(c) ==
    /\ request[c] \in {"none", "asking", "sent"} /\ span[c].min = NoVersion => tokens[c] = <<>>
    /\ span[c].min # NoVersion => span[c].min <= Current
    /\ request[c] = "answered" => answer[c].version <= Current

Timely == \A c \in Conversations : TokensOf(c) /\ OfItsTime(c)

(* A request is sent with room for a token at least, and its engine stops  *)
(* at the limit.                                                           *)
Limited ==
    \A c \in Conversations :
        /\ Len(tokens[c]) <= ResponseLength
        /\ request[c] \in {"none", "asking", "sent", "running"} => Len(tokens[c]) < ResponseLength
        /\ request[c] = "running" => capacity[c] = ResponseLength

TypeInv == RoutingInv /\ ServersType /\ GenerationsType /\ Answered

UpdateInv == Synced /\ (EnginePauses => Paused /\ RunsFree /\ Timely)

LimitInv == HasLimit => Limited /\ (PartialRolloutOn => NotCutShort)

GenerationInv == TypeInv /\ UpdateInv /\ LimitInv
-------------------------------------------------------------------------------
(* The balancer and the servers under an update                            *)

(* The servers are those of the balancer, and there is one at least.       *)
LEMMA SomeServer == Replicas = Servers /\ 1 \in Servers /\ MaxUpdates \in Nat /\ 0 \notin Servers
  BY LoadBalancerAssumption, PartialRolloutAssumption, WeightUpdateAssumption DEF Servers

(* The generations call the balancer as its clients do.                    *)
LEMMA RoutedAsClients == [Next]_vars => [ClientsNext]_lbVars
<1> USE DEF lbVars, vars
<1> SUFFICES ASSUME [Next]_vars PROVE [ClientsNext]_lbVars
  OBVIOUS
<1>1. ASSUME NEW c \in Conversations, GenerationStep(c) PROVE [ClientsNext]_lbVars
  <2>1. CASE Begin(c) \/ Start(c) \/ Token(c)
    BY <2>1 DEF Begin, Start, Token
  <2>2. CASE Ask(c) \/ Merge(c) \/ Releases(c)
    BY <2>2 DEF Ask, Merge, Releases, ClientsNext
  <2> QED BY <1>1, <2>1, <2>2 DEF GenerationStep
<1>2. CASE UpdateStep \/ Server(BeginUpdate) \/ AllDone \/ UNCHANGED vars
  BY <1>2 DEF UpdateStep, Server, Abort, AllDone
<1> QED BY <1>1, <1>2 DEF Next

(* The steps of an update, without what an abort does to the generations.  *)
ServerStep(s) ==
    AbortAll(s) \/ LoadBegins(s) \/ LoadEnds(s) \/ SetGlobalSteps(s) \/ ResumeGeneration(s)

LEMMA ThroughPhase ==
    ASSUME ServersType, NEW s \in left, NEW next, Through(s, next), s \in Servers
    PROVE  \/ left = {s} /\ phase' = next /\ left' = IF next = "idle" THEN {} ELSE Servers
           \/ left # {s} /\ phase' = phase /\ left' = left \ {s} /\ left' # {}
  BY SomeServer DEF Through, GatheredAll, ServersType

LEMMA ServersTypeKept ==
    ASSUME ServersType, BeginUpdate \/ \E s \in Servers : ServerStep(s)
    PROVE  ServersType'
<1> USE SomeServer
<1>1. CASE BeginUpdate
  BY <1>1 DEF BeginUpdate, ServersType
<1>2. ASSUME NEW s \in Servers, AbortAll(s) PROVE ServersType'
  <2>1. held' \subseteq Servers
    BY <1>2 DEF AbortAll, HeldBy, ServersType
  <2> QED BY <1>2, <2>1, ThroughPhase DEF AbortAll, ServersType
<1>3. ASSUME NEW s \in Servers, LoadBegins(s) PROVE ServersType'
  BY <1>3 DEF LoadBegins, ServersType
<1>4. ASSUME NEW s \in Servers, LoadEnds(s) PROVE ServersType'
  BY <1>4 DEF LoadEnds, ServersType
<1>5. ASSUME NEW s \in Servers, SetGlobalSteps(s) PROVE ServersType'
  BY <1>5, ThroughPhase DEF SetGlobalSteps, ServersType
<1>6. ASSUME NEW s \in Servers, ResumeGeneration(s) PROVE ServersType'
  BY <1>6, ThroughPhase DEF ResumeGeneration, ServersType
<1> QED BY <1>1, <1>2, <1>3, <1>4, <1>5, <1>6 DEF ServerStep

LEMMA SyncedKept ==
    ASSUME ServersType, Synced, BeginUpdate \/ \E s \in Servers : ServerStep(s)
    PROVE  Synced'
<1> USE SomeServer
<1>1. CASE BeginUpdate
  BY <1>1 DEF BeginUpdate, ServersType, Synced
<1>2. ASSUME NEW s \in Servers, AbortAll(s) PROVE Synced'
  BY <1>2, ThroughPhase DEF AbortAll, ServersType, Synced
<1>3. ASSUME NEW s \in Servers, LoadBegins(s) PROVE Synced'
  BY <1>3 DEF LoadBegins, ServersType, Synced
<1>4. ASSUME NEW s \in Servers, LoadEnds(s) PROVE Synced'
  <2>1. phase = "loading" /\ s \in left
    BY <1>4 DEF LoadEnds, ServersType, Synced, Mixed
  <2> QED BY <1>4, <2>1 DEF LoadEnds, ServersType, Synced
<1>5. ASSUME NEW s \in Servers, SetGlobalSteps(s) PROVE Synced'
  BY <1>5, ThroughPhase DEF SetGlobalSteps, ServersType, Synced
<1>6. ASSUME NEW s \in Servers, ResumeGeneration(s) PROVE Synced'
  BY <1>6, ThroughPhase DEF ResumeGeneration, ServersType, Synced
<1> QED BY <1>1, <1>2, <1>3, <1>4, <1>5, <1>6 DEF ServerStep

LEMMA PausedKept ==
    ASSUME EnginePauses, ServersType, Synced, Paused, BeginUpdate \/ \E s \in Servers : ServerStep(s)
    PROVE  Paused'
<1> USE SomeServer
<1>1. CASE BeginUpdate
  BY <1>1 DEF BeginUpdate, ServersType, Paused
<1>2. ASSUME NEW s \in Servers, AbortAll(s) PROVE Paused'
  BY <1>2, ThroughPhase DEF AbortAll, HeldBy, ServersType, Paused
<1>3. ASSUME NEW s \in Servers, LoadBegins(s) \/ LoadEnds(s) PROVE Paused'
  BY <1>3 DEF LoadBegins, LoadEnds, Paused
<1>4. ASSUME NEW s \in Servers, SetGlobalSteps(s) PROVE Paused'
  BY <1>4, ThroughPhase DEF SetGlobalSteps, ServersType, Paused
<1>5. ASSUME NEW s \in Servers, ResumeGeneration(s) PROVE Paused'
  BY <1>5, ThroughPhase DEF ResumeGeneration, ServersType, Paused
<1> QED BY <1>1, <1>2, <1>3, <1>4, <1>5 DEF ServerStep

(* The version is one of those an update had.                              *)
LEMMA CurrentType == ASSUME ServersType, Synced PROVE Current \in 0..MaxUpdates
<1>1. phase = "idle" => Loaded
  BY DEF Synced, Loaded
<1> QED BY <1>1, SomeServer DEF Current, ServersType

(* The steps of an update and the version: only the end of a load changes  *)
(* it, and by one.                                                         *)
LEMMA CurrentKept ==
    ASSUME ServersType, Synced,
           \/ BeginUpdate
           \/ \E s \in Servers :
                 AbortAll(s) \/ LoadBegins(s) \/ SetGlobalSteps(s) \/ ResumeGeneration(s)
    PROVE  Current' = Current
<1> USE SomeServer DEF Current, Loaded
<1>1. CASE BeginUpdate
  BY <1>1 DEF BeginUpdate, ServersType, Synced
<1>2. ASSUME NEW s \in Servers, AbortAll(s) \/ SetGlobalSteps(s) \/ ResumeGeneration(s)
      PROVE  Current' = Current
  BY <1>2 DEF AbortAll, SetGlobalSteps, ResumeGeneration
<1>3. ASSUME NEW s \in Servers, LoadBegins(s) PROVE Current' = Current
  <2>1. weights'[s] = Mixed /\ target # Mixed /\ target' = target
    BY <1>3 DEF LoadBegins, ServersType, Mixed
  <2>2. ~Loaded /\ ~Loaded'
    BY <1>3, <2>1 DEF LoadBegins
  <2> QED BY <2>1, <2>2
<1> QED BY <1>1, <1>2, <1>3

LEMMA CurrentGrows ==
    ASSUME ServersType, Synced, NEW s \in Servers, LoadEnds(s)
    PROVE  /\ phase = "loading"
           /\ Current' = Current \/ Current' = Current + 1
<1>1. phase = "loading" /\ target' = target
  BY SomeServer DEF LoadEnds, ServersType, Synced, Mixed
<1>2. ~Loaded
  BY DEF LoadEnds, Loaded, ServersType, Mixed
<1> QED BY <1>1, <1>2 DEF Current, ServersType

(* A server that is not paused has the version and says so.                *)
LEMMA FreeIsCurrent ==
    ASSUME ServersType, Synced, Paused, NEW s \in Servers, s \notin held
    PROVE  weights[s] = Current /\ globalSteps[s] = Current
<1>1. CASE phase \in {"idle", "resuming"}
  BY <1>1 DEF Synced, Current, Loaded
<1>2. CASE phase = "aborting"
  <2>1. ~Loaded
    BY <1>2, SomeServer DEF Synced, Loaded, ServersType
  <2> QED BY <1>2, <2>1 DEF Synced, Current
<1>3. phase # "loading"
  BY DEF Paused
<1> QED BY <1>1, <1>2, <1>3 DEF ServersType

(* Nothing runs while weights are loaded.                                  *)
LEMMA NothingRuns ==
    ASSUME Answered, Paused, RunsFree, phase = "loading"
    PROVE  \A c \in Conversations : request[c] # "running"
  BY DEF Answered, Paused, RunsFree
-------------------------------------------------------------------------------
(* The generations                                                         *)

GenerationTypes == ServersType /\ GenerationsType /\ Answered /\ RoutingTypeOK

(* A step of the servers alone, or of nothing.                             *)
ServersOnly ==
    /\ \/ BeginUpdate
       \/ \E s \in Servers : LoadBegins(s) \/ LoadEnds(s) \/ SetGlobalSteps(s) \/ ResumeGeneration(s)
       \/ UNCHANGED updateVars
    /\ UNCHANGED <<lbVars, genVars>>

(* What a step can be.                                                     *)
LEMMA Steps ==
    ASSUME [Next]_vars
    PROVE  \/ \E c \in Conversations : GenerationStep(c)
           \/ \E s \in Servers : Abort(s)
           \/ ServersOnly
  BY DEF Next, UpdateStep, Server, ServersOnly, AllDone, vars, lbVars, genVars, updateVars

LEMMA AcquireUses ==
    ASSUME RoutingTypeOK, NEW c \in Conversations, Acquire(c)
    PROVE  /\ \E s \in Servers : using' = [using EXCEPT ![c] = s]
           /\ using[c] = NoServer
  BY RoutedIsServer DEF Acquire

(* The steps of one conversation say nothing of the others.                *)
LEMMA OthersKept ==
    ASSUME GenerationTypes, NEW c \in Conversations, GenerationStep(c),
           NEW d \in Conversations, d # c
    PROVE  /\ request'[d] = request[d] /\ tokens'[d] = tokens[d] /\ capacity'[d] = capacity[d]
           /\ answer'[d] = answer[d] /\ span'[d] = span[d] /\ using'[d] = using[d]
<1> USE DEF GenerationTypes, GenerationsType, RoutingTypeOK, lbVars, genVars
<1>1. CASE Begin(c) \/ Start(c)
  BY <1>1 DEF Begin, Start
<1>2. CASE Ask(c)
  BY <1>2, AcquireUses DEF Ask
<1>3. CASE Token(c)
  BY <1>3 DEF Token, Answers
<1>4. CASE Merge(c)
  BY <1>4 DEF Merge, SendRelease
<1>5. CASE Releases(c)
  BY <1>5 DEF Releases, Release
<1> QED BY <1>1, <1>2, <1>3, <1>4, <1>5 DEF GenerationStep

LEMMA GenerationsTypeKept ==
    ASSUME GenerationTypes, [Next]_vars
    PROVE  GenerationsType'
<1> USE DEF GenerationTypes, GenerationsType, Requests, Stops, Named
<1>1. ASSUME NEW c \in Conversations, Begin(c) \/ Ask(c) \/ Start(c) PROVE GenerationsType'
  BY <1>1 DEF Begin, Ask, Start
<1>2. ASSUME NEW c \in Conversations, Token(c) PROVE GenerationsType'
  <2>1. using[c] \in Servers
    BY <1>2 DEF Token, Answered
  <2>2. /\ weights[using[c]] \in (0..MaxUpdates) \cup {Mixed}
        /\ globalSteps[using[c]] \in 0..MaxUpdates
    BY <2>1 DEF ServersType
  <2>3. tokens[c] \in Seq((0..MaxUpdates) \cup {Mixed})
    OBVIOUS
  <2>4. Append(tokens[c], weights[using[c]]) \in Seq((0..MaxUpdates) \cup {Mixed})
    BY <2>2, <2>3, AppendProperties
  <2>5. tokens' \in [Conversations -> Seq((0..MaxUpdates) \cup {Mixed})]
    BY <1>2, <2>4 DEF Token
  <2>6. request' \in [Conversations -> Requests]
    BY <1>2 DEF Token
  <2>7. answer' \in [Conversations -> [stop : Stops, version : Named]]
    <3>1. [stop |-> "completed", version |-> globalSteps[using[c]]] \in [stop : Stops, version : Named]
      BY <2>2
    <3>2. UNCHANGED answer \/ answer' = Answers(c, "completed")
      BY <1>2 DEF Token
    <3> QED BY <3>1, <3>2 DEF Answers
  <2> QED BY <1>2, <2>5, <2>6, <2>7 DEF Token
<1>3. ASSUME NEW c \in Conversations, Merge(c) PROVE GenerationsType'
  <2>1. span' \in [Conversations -> [min : Named, max : Named]]
    BY <1>3 DEF Merge, Spanned
  <2> QED BY <1>3, <2>1 DEF Merge
<1>4. ASSUME NEW s \in Servers, Abort(s) PROVE GenerationsType'
  <2>1. globalSteps[s] \in 0..MaxUpdates
    BY DEF ServersType
  <2>2. answer' \in [Conversations -> [stop : Stops, version : Named]]
    BY <1>4, <2>1 DEF Abort
  <2> QED BY <1>4, <2>2 DEF Abort
<1>5. ASSUME NEW c \in Conversations, Releases(c) PROVE GenerationsType'
  BY <1>5 DEF Releases, genVars
<1>6. CASE ServersOnly
  BY <1>6 DEF ServersOnly, genVars
<1> QED BY Steps, <1>1, <1>2, <1>3, <1>4, <1>5, <1>6 DEF GenerationStep

LEMMA AnsweredKept ==
    ASSUME GenerationTypes, [Next]_vars
    PROVE  Answered'
<1> USE SomeServer DEF NoServer
<1>1. ASSUME NEW c \in Conversations, GenerationStep(c) PROVE Answered'
  <2> DEFINE A(d) == /\ request[d] \in {"sent", "running", "answered"} <=> using[d] \in Servers
                     /\ request[d] = "answered" =>
                           answer[d].version # NoVersion /\ answer[d].stop # "none"
                     /\ span[d].min = NoVersion <=> span[d].max = NoVersion
                     /\ request[d] = "done" => span[d].min # NoVersion
  <2>1. \A d \in Conversations : A(d)
    BY DEF GenerationTypes, Answered
  <2>2. ASSUME NEW d \in Conversations, d # c PROVE A(d)'
    BY <1>1, <2>1, <2>2, OthersKept
  <2>3. A(c)'
    <3> USE DEF GenerationTypes, GenerationsType, RoutingTypeOK
    <3>0. A(c)
      BY <2>1
    <3>1. CASE Begin(c) \/ Start(c)
      BY <3>0, <3>1 DEF Begin, Start, lbVars
    <3>2. CASE Ask(c)
      BY <3>0, <3>2, AcquireUses DEF Ask
    <3>3. CASE Token(c)
      <4>1. globalSteps[using[c]] # NoVersion
        BY <3>0, <3>3 DEF Token, ServersType, NoVersion
      <4> QED BY <3>0, <3>3, <4>1 DEF Token, Answers, lbVars
    <3>4. CASE Merge(c)
      <4>1. using'[c] = NoServer
        BY <3>4 DEF Merge, SendRelease
      <4>2. answer[c].version # NoVersion
        BY <3>0, <3>4 DEF Merge
      <4>3. span'[c] = Spanned(span[c], answer[c].version)
        BY <3>4 DEF Merge
      <4>4. span'[c].min # NoVersion /\ span'[c].max # NoVersion
        BY <4>2, <4>3 DEF Spanned
      <4>5. request'[c] \in {"asking", "done"}
        BY <3>4 DEF Merge
      <4> QED BY <4>1, <4>4, <4>5
    <3>5. CASE Releases(c)
      BY <3>0, <3>5 DEF Releases, Release, genVars
    <3> QED BY <1>1, <3>1, <3>2, <3>3, <3>4, <3>5 DEF GenerationStep
  <2> HIDE DEF A
  <2>4. \A d \in Conversations : A(d)'
    BY <2>2, <2>3
  <2> QED BY <2>4 DEF A, Answered
<1>2. ASSUME NEW s \in Servers, Abort(s) PROVE Answered'
  <2>1. globalSteps[s] # NoVersion
    BY DEF GenerationTypes, ServersType, NoVersion
  <2> QED BY <1>2, <2>1 DEF GenerationTypes, GenerationsType, Answered, Abort, Running, lbVars
<1>3. CASE ServersOnly
  BY <1>3 DEF GenerationTypes, Answered, ServersOnly, lbVars, genVars
<1> QED BY Steps, <1>1, <1>2, <1>3

(* The requests that run are on engines that are not paused.               *)
LEMMA RunsFreeKept ==
    ASSUME EnginePauses, GenerationTypes, RunsFree, [Next]_vars
    PROVE  RunsFree'
<1>1. ASSUME NEW c \in Conversations, GenerationStep(c) PROVE RunsFree'
  <2>1. held' = held
    BY <1>1 DEF GenerationStep, Begin, Ask, Start, Token, Merge, Releases, updateVars
  <2>2. ASSUME NEW d \in Conversations, d # c, request'[d] = "running" PROVE using'[d] \notin held'
    BY <1>1, <2>1, <2>2, OthersKept DEF RunsFree
  <2>3. ASSUME request'[c] = "running" PROVE using'[c] \notin held'
    <3> USE DEF GenerationTypes, GenerationsType
    <3>1. CASE Start(c)
      BY <2>1, <3>1 DEF Start, lbVars
    <3>2. CASE Token(c)
      BY <2>1, <2>3, <3>2 DEF Token, lbVars, RunsFree
    <3>3. CASE Releases(c)
      BY <2>1, <2>3, <3>3 DEF Releases, Release, genVars, RunsFree
    <3>4. CASE Begin(c) \/ Ask(c) \/ Merge(c)
      BY <2>3, <3>4 DEF Begin, Ask, Merge
    <3> QED BY <1>1, <3>1, <3>2, <3>3, <3>4 DEF GenerationStep
  <2> QED BY <2>2, <2>3 DEF RunsFree
<1>2. ASSUME NEW s \in Servers, Abort(s) PROVE RunsFree'
  <2>1. held' = held \cup {s}
    BY <1>2 DEF Abort, AbortAll, HeldBy
  <2>2. ASSUME NEW d \in Conversations, request'[d] = "running"
        PROVE  request[d] = "running" /\ using[d] # s /\ using'[d] = using[d]
    BY <1>2, <2>2 DEF Abort, Running, lbVars
  <2> QED BY <2>1, <2>2 DEF RunsFree
<1>3. CASE ServersOnly
  <2>1. held' \subseteq held
    BY <1>3 DEF ServersOnly, BeginUpdate, LoadBegins, LoadEnds, SetGlobalSteps, ResumeGeneration,
                updateVars
  <2>2. request' = request /\ using' = using
    BY <1>3 DEF ServersOnly, lbVars, genVars
  <2> QED BY <2>1, <2>2 DEF RunsFree
<1> QED BY Steps, <1>1, <1>2, <1>3

(* The version in a step of a generation, and in one of the servers.       *)
LEMMA CurrentInGeneration ==
    ASSUME NEW c \in Conversations, GenerationStep(c)
    PROVE  Current' = Current
  BY DEF GenerationStep, Begin, Ask, Start, Token, Merge, Releases, updateVars, Current, Loaded

LEMMA CurrentInServers ==
    ASSUME ServersType, Synced, ServersOnly
    PROVE  \/ Current' = Current
           \/ phase = "loading" /\ Current' = Current + 1
<1>1. CASE UNCHANGED updateVars
  BY <1>1 DEF updateVars, Current, Loaded
<1>2. CASE \E s \in Servers : LoadEnds(s)
  BY <1>2, CurrentGrows
<1> QED BY <1>1, <1>2, CurrentKept DEF ServersOnly

(* What a running request appends.                                         *)
LEMMA TokenIsCurrent ==
    ASSUME GenerationTypes, Synced, Paused, RunsFree, NEW c \in Conversations, Token(c)
    PROVE  /\ tokens'[c] = Append(tokens[c], Current)
           /\ weights[using[c]] = Current /\ globalSteps[using[c]] = Current
           /\ tokens[c] \in Seq((0..MaxUpdates) \cup {Mixed}) /\ Current \in 0..MaxUpdates
<1>1. using[c] \in Servers /\ using[c] \notin held
  BY DEF Token, GenerationTypes, Answered, RunsFree
<1>2. weights[using[c]] = Current /\ globalSteps[using[c]] = Current
  BY <1>1, FreeIsCurrent DEF GenerationTypes
<1> QED BY <1>2, CurrentType DEF Token, GenerationTypes, GenerationsType

LEMMA TimelyInToken ==
    ASSUME GenerationTypes, Synced, Paused, RunsFree,
           NEW c \in Conversations, TokensOf(c), OfItsTime(c), Token(c)
    PROVE  TokensOf(c)' /\ OfItsTime(c)'
<1>1. /\ tokens'[c] = Append(tokens[c], Current)
      /\ tokens[c] \in Seq((0..MaxUpdates) \cup {Mixed}) /\ Current \in 0..MaxUpdates
      /\ globalSteps[using[c]] = Current
  BY TokenIsCurrent
<1>2. \A i \in 1..Len(tokens'[c]) :
          (i \in 1..Len(tokens[c]) /\ tokens'[c][i] = tokens[c][i]) \/ tokens'[c][i] = Current
  <2> DEFINE t == tokens[c]
  <2>1. t \in Seq((0..MaxUpdates) \cup {Mixed}) /\ tokens'[c] = Append(t, Current)
    BY <1>1
  <2> HIDE DEF t
  <2>2. \A i \in 1..Len(Append(t, Current)) :
            (i \in 1..Len(t) /\ Append(t, Current)[i] = t[i]) \/ Append(t, Current)[i] = Current
    BY <2>1
  <2> QED BY <2>1, <2>2 DEF t
<1>3. Current' = Current /\ span'[c] = span[c] /\ request[c] = "running"
  BY CurrentInGeneration DEF Token, GenerationStep
<1>4. \/ request'[c] = "running"
      \/ request'[c] = "answered" /\ answer'[c].version = Current
  <2>1. request[c] = "running" /\ request \in [Conversations -> Requests]
    BY DEF Token, GenerationTypes, GenerationsType
  <2>2. answer \in [Conversations -> [stop : Stops, version : Named]]
    BY DEF GenerationTypes, GenerationsType
  <2>3. \/ UNCHANGED request
        \/ request' = [request EXCEPT ![c] = "answered"] /\ answer' = Answers(c, "completed")
    BY DEF Token
  <2> QED BY <1>1, <2>1, <2>2, <2>3 DEF Answers
<1>5. span[c].min \in Named
  BY DEF GenerationTypes, GenerationsType
<1>6. TokensOf(c)'
  BY <1>1, <1>2, <1>3, <1>4, <1>5, SomeServer DEF TokensOf, OfItsTime, Named
<1>7. OfItsTime(c)'
  BY <1>1, <1>3, <1>4, <1>5, SomeServer DEF OfItsTime, Named
<1> QED BY <1>6, <1>7

LEMMA TimelyInMerge ==
    ASSUME GenerationTypes, Synced,
           NEW c \in Conversations, TokensOf(c), OfItsTime(c), Merge(c)
    PROVE  TokensOf(c)' /\ OfItsTime(c)'
<1>1. Current' = Current /\ tokens'[c] = tokens[c] /\ answer'[c] = answer[c]
  BY CurrentInGeneration DEF Merge, GenerationStep
<1>2. Current \in 0..MaxUpdates
  BY CurrentType DEF GenerationTypes
<1>3. /\ request[c] = "answered" /\ request'[c] \in {"asking", "done"}
      /\ span'[c] = Spanned(span[c], answer[c].version)
  BY DEF Merge, GenerationTypes, GenerationsType
<1>4. answer[c].version \in 0..MaxUpdates /\ span[c].min \in Named
  BY <1>3 DEF GenerationTypes, GenerationsType, Answered, Named
<1>5. /\ span'[c].min = (IF span[c].min = NoVersion THEN answer[c].version ELSE span[c].min)
      /\ span'[c].max = answer[c].version
  BY <1>3 DEF Spanned
<1>6. span'[c].min # NoVersion /\ span'[c].min <= Current
  BY <1>2, <1>3, <1>4, <1>5 DEF OfItsTime, NoVersion
<1>7. OfItsTime(c)'
  BY <1>1, <1>3, <1>6 DEF OfItsTime
<1>8. TokensOf(c)'
  BY <1>1, <1>2, <1>3, <1>4, <1>5, <1>6, SomeServer DEF TokensOf
<1> QED BY <1>7, <1>8

LEMMA TimelyKept ==
    ASSUME EnginePauses, GenerationTypes, Synced, Paused, RunsFree, Timely, [Next]_vars
    PROVE  Timely'
<1> USE DEF GenerationTypes, GenerationsType
<1>1. ASSUME NEW c \in Conversations, GenerationStep(c) PROVE Timely'
  <2>1. ASSUME NEW d \in Conversations, d # c PROVE (TokensOf(d) /\ OfItsTime(d))'
    <3>1. /\ request'[d] = request[d] /\ tokens'[d] = tokens[d]
          /\ answer'[d] = answer[d] /\ span'[d] = span[d]
      BY <1>1, <2>1, OthersKept
    <3>2. Current' = Current
      BY <1>1, CurrentInGeneration
    <3> QED BY <3>1, <3>2 DEF Timely, TokensOf, OfItsTime
  <2>2. (TokensOf(c) /\ OfItsTime(c))'
    <3>1. TokensOf(c) /\ OfItsTime(c) /\ Current' = Current
      BY <1>1, CurrentInGeneration DEF Timely
    <3>2. CASE Begin(c) \/ Ask(c)
      <4>1. /\ request[c] \in {"none", "asking"} /\ request'[c] \in {"asking", "sent"}
            /\ tokens' = tokens /\ answer' = answer /\ span' = span
        BY <3>2 DEF Begin, Ask
      <4> QED BY <3>1, <4>1 DEF TokensOf, OfItsTime
    <3>3. CASE Start(c)
      <4>1. /\ request[c] = "sent" /\ request'[c] = "running"
            /\ tokens' = tokens /\ answer' = answer /\ span' = span
        BY <3>3 DEF Start
      <4>2. span[c].min = NoVersion => Len(tokens[c]) = 0
        BY <3>1, <4>1 DEF OfItsTime
      <4>3. span[c].min = NoVersion => \A i \in 1..Len(tokens[c]) : FALSE
        BY <4>2
      <4> QED BY <3>1, <4>1, <4>3 DEF TokensOf, OfItsTime
    <3>4. CASE Token(c)
      BY <3>1, <3>4, TimelyInToken
    <3>5. CASE Merge(c)
      BY <3>1, <3>5, TimelyInMerge
    <3>6. CASE Releases(c)
      BY <3>1, <3>6 DEF Releases, genVars, TokensOf, OfItsTime
    <3> QED BY <1>1, <3>2, <3>3, <3>4, <3>5, <3>6 DEF GenerationStep
  <2> QED BY <2>1, <2>2 DEF Timely
<1>2. ASSUME NEW s \in Servers, Abort(s) PROVE Timely'
  <2>1. Current' = Current /\ Current \in 0..MaxUpdates
    BY <1>2, CurrentKept, CurrentType DEF Abort
  <2>2. tokens' = tokens /\ span' = span
    BY <1>2 DEF Abort
  <2>3. ASSUME NEW d \in Conversations PROVE (TokensOf(d) /\ OfItsTime(d))'
    <3>1. TokensOf(d) /\ OfItsTime(d)
      BY DEF Timely
    <3>2. CASE d \notin Running(s)
      <4>1. request'[d] = request[d] /\ answer'[d] = answer[d]
        BY <1>2, <3>2 DEF Abort
      <4> QED BY <2>1, <2>2, <3>1, <4>1 DEF TokensOf, OfItsTime
    <3>3. CASE d \in Running(s)
      <4>1. request[d] = "running" /\ request'[d] = "answered" /\ answer'[d].version = globalSteps[s]
        BY <1>2, <3>3 DEF Abort, Running
      <4>2. globalSteps[s] = Current
        BY <3>3, <4>1, FreeIsCurrent DEF RunsFree, Running
      <4>3. \A i \in 1..Len(tokens[d]) :
                /\ tokens[d][i] \in 0..Current
                /\ span[d].min # NoVersion => span[d].min <= tokens[d][i]
                /\ span[d].min = NoVersion => tokens[d][i] = Current
        BY <3>1, <4>1 DEF TokensOf
      <4>4. TokensOf(d)'
        BY <2>1, <2>2, <4>1, <4>2, <4>3 DEF TokensOf
      <4>5. OfItsTime(d)'
        BY <2>1, <2>2, <3>1, <4>1, <4>2 DEF OfItsTime
      <4> QED BY <4>4, <4>5
    <3> QED BY <3>2, <3>3
  <2> QED BY <2>3 DEF Timely
<1>3. CASE ServersOnly
  <2>1. request' = request /\ tokens' = tokens /\ answer' = answer /\ span' = span
    BY <1>3 DEF ServersOnly, genVars
  <2>2. Current \in 0..MaxUpdates
    BY CurrentType
  <2>3. \/ Current' = Current
        \/ /\ Current' = Current + 1
           /\ \A d \in Conversations : request[d] # "running"
    BY <1>3, CurrentInServers, NothingRuns
  <2>4. ASSUME NEW d \in Conversations PROVE (TokensOf(d) /\ OfItsTime(d))'
    <3>1. TokensOf(d) /\ OfItsTime(d) /\ span[d].min \in Named /\ answer[d].version \in Named
      BY DEF Timely
    <3>2. TokensOf(d)'
      BY <2>1, <2>2, <2>3, <3>1 DEF TokensOf
    <3>3. OfItsTime(d)'
      BY <2>1, <2>2, <2>3, <3>1, SomeServer DEF OfItsTime, Named, NoVersion
    <3> QED BY <3>2, <3>3
  <2> QED BY <2>4 DEF Timely
<1> QED BY Steps, <1>1, <1>2, <1>3

(* With a limit named, every request is for the rest of it.                *)
LEMMA LimitKept ==
    ASSUME HasLimit, GenerationTypes, Limited, [Next]_vars
    PROVE  Limited'
<1> USE DEF GenerationTypes, GenerationsType
<1> DEFINE L(d) == /\ Len(tokens[d]) <= ResponseLength
                   /\ request[d] \in {"none", "asking", "sent", "running"} =>
                         Len(tokens[d]) < ResponseLength
                   /\ request[d] = "running" => capacity[d] = ResponseLength
<1>1. \A d \in Conversations : L(d)
  BY DEF Limited
<1>2. ASSUME NEW c \in Conversations, GenerationStep(c) PROVE Limited'
  <2>1. ASSUME NEW d \in Conversations, d # c PROVE L(d)'
    BY <1>1, <1>2, <2>1, OthersKept
  <2>2. L(c)'
    <3>0. L(c) /\ Len(tokens[c]) \in Nat /\ ResponseLength \in Nat \ {0}
      BY <1>1, LenProperties, PartialRolloutAssumption
    <3>1. CASE Begin(c) \/ Ask(c)
      BY <3>0, <3>1 DEF Begin, Ask
    <3>2. CASE Start(c)
      <4>1. capacity'[c] = Len(tokens[c]) + (ResponseLength - Len(tokens[c]))
        BY <3>2 DEF Start, MaxTokens
      <4>2. request[c] = "sent" /\ tokens' = tokens
        BY <3>2 DEF Start
      <4> QED BY <3>0, <4>1, <4>2
    <3>3. CASE Token(c)
      <4>1. using[c] \in Servers
        BY <3>3 DEF Token, Answered
      <4>2. weights[using[c]] \in (0..MaxUpdates) \cup {Mixed}
        BY <4>1 DEF ServersType
      <4>3. tokens'[c] = Append(tokens[c], weights[using[c]])
        BY <3>3 DEF Token
      <4>4. Len(tokens'[c]) = Len(tokens[c]) + 1
        BY <4>2, <4>3, AppendProperties
      <4>5. /\ request[c] = "running" /\ capacity' = capacity
            /\ \/ Len(tokens'[c]) < capacity[c] /\ request' = request
               \/ request'[c] = "answered"
        BY <3>3 DEF Token
      <4> QED BY <3>0, <4>4, <4>5
    <3>4. CASE Merge(c)
      <4>1. tokens' = tokens /\ request[c] = "answered"
        BY <3>4 DEF Merge
      <4>2. request'[c] = IF GoesOn(c) THEN "asking" ELSE "done"
        BY <3>4 DEF Merge
      <4>3. GoesOn(c) => Len(tokens[c]) < ResponseLength
        BY <3>0 DEF GoesOn
      <4> QED BY <3>0, <4>1, <4>2, <4>3
    <3>5. CASE Releases(c)
      BY <3>0, <3>5 DEF Releases, genVars
    <3> QED BY <1>2, <3>1, <3>2, <3>3, <3>4, <3>5 DEF GenerationStep
  <2> HIDE DEF L
  <2>3. \A d \in Conversations : L(d)'
    BY <2>1, <2>2
  <2> QED BY <2>3 DEF L, Limited
<1>3. ASSUME NEW s \in Servers, Abort(s) PROVE Limited'
  <2>1. /\ tokens' = tokens /\ capacity' = capacity
        /\ \A d \in Conversations : request'[d] \in {request[d], "answered"}
    BY <1>3 DEF Abort
  <2> QED BY <2>1 DEF Limited
<1>4. CASE ServersOnly
  BY <1>4 DEF ServersOnly, genVars, Limited
<1> QED BY Steps, <1>2, <1>3, <1>4

(* An aborted request goes on unless its limit is reached.                 *)
LEMMA NotCutShortKept ==
    ASSUME HasLimit, PartialRolloutOn, GenerationTypes, Limited, NotCutShort, [Next]_vars
    PROVE  NotCutShort'
<1> USE DEF GenerationTypes, GenerationsType
<1> DEFINE N(d) == request[d] = "done" => answer[d].stop = "completed" \/ Len(tokens[d]) = ResponseLength
<1>1. \A d \in Conversations : N(d)
  BY DEF NotCutShort
<1>2. ASSUME NEW c \in Conversations, GenerationStep(c) PROVE NotCutShort'
  <2>1. ASSUME NEW d \in Conversations, d # c PROVE N(d)'
    BY <1>1, <1>2, <2>1, OthersKept
  <2>2. N(c)'
    <3>0. N(c)
      BY <1>1
    <3>1. CASE Begin(c) \/ Ask(c) \/ Start(c)
      BY <3>1 DEF Begin, Ask, Start
    <3>2. CASE Token(c)
      BY <3>2 DEF Token
    <3>3. CASE Merge(c)
      <4>1. request[c] = "answered" /\ tokens' = tokens /\ answer' = answer
        BY <3>3 DEF Merge
      <4>2. request'[c] = IF GoesOn(c) THEN "asking" ELSE "done"
        BY <3>3 DEF Merge
      <4>3. answer[c].stop \in {"completed", "aborted"}
        BY <4>1 DEF Answered, Stops
      <4>4. /\ Len(tokens[c]) <= ResponseLength /\ Len(tokens[c]) \in Nat
            /\ ResponseLength \in Nat
        BY LenProperties, PartialRolloutAssumption DEF Limited
      <4>5. ~GoesOn(c) => answer[c].stop = "completed" \/ Len(tokens[c]) = ResponseLength
        BY <4>3, <4>4 DEF GoesOn
      <4> QED BY <4>1, <4>2, <4>5
    <3>4. CASE Releases(c)
      BY <3>0, <3>4 DEF Releases, genVars
    <3> QED BY <1>2, <3>1, <3>2, <3>3, <3>4 DEF GenerationStep
  <2> HIDE DEF N
  <2>3. \A d \in Conversations : N(d)'
    BY <2>1, <2>2
  <2> QED BY <2>3 DEF N, NotCutShort
<1>3. ASSUME NEW s \in Servers, Abort(s) PROVE NotCutShort'
  <2>1. ASSUME NEW d \in Conversations PROVE N(d)'
    <3>1. tokens' = tokens
      BY <1>3 DEF Abort
    <3>2. CASE d \in Running(s)
      BY <1>3, <3>2 DEF Abort
    <3>3. CASE d \notin Running(s)
      BY <1>1, <1>3, <3>1, <3>3 DEF Abort
    <3> QED BY <3>2, <3>3
  <2> QED BY <2>1 DEF NotCutShort
<1>4. CASE ServersOnly
  BY <1>4 DEF ServersOnly, genVars, NotCutShort
<1> QED BY Steps, <1>2, <1>3, <1>4
-------------------------------------------------------------------------------
(* The invariant of the generations                                        *)

LEMMA InitGenerationInv == Init => GenerationInv
<1> SUFFICES ASSUME Init PROVE GenerationInv
  OBVIOUS
<1> USE SomeServer DEF Init
<1>1. RoutingInv
  BY InitRoutingInv
<1>2. ServersType
  BY DEF WUInit, ServersType
<1>3. GenerationsType
  BY EmptySeq DEF GenerationsType, Requests, Stops, Named
<1>4. Answered
  BY DEF Answered, LBInit, NoServer
<1>5. Synced /\ Paused /\ RunsFree
  BY DEF WUInit, Synced, Paused, RunsFree
<1>6. Timely
  <2> SUFFICES ASSUME NEW c \in Conversations PROVE TokensOf(c) /\ OfItsTime(c)
    BY DEF Timely
  <2>1. /\ request[c] = "none" /\ tokens[c] = <<>> /\ span[c].min = NoVersion
        /\ \A i \in 1..Len(tokens[c]) : FALSE
    OBVIOUS
  <2> QED BY <2>1 DEF TokensOf, OfItsTime
<1>7. Limited /\ NotCutShort
  BY PartialRolloutAssumption, EmptySeq DEF Limited, NotCutShort
<1> QED BY <1>1, <1>2, <1>3, <1>4, <1>5, <1>6, <1>7 DEF GenerationInv, TypeInv, UpdateInv, LimitInv

LEMMA ServersKept ==
    ASSUME ServersType, Synced, [Next]_vars
    PROVE  ServersType' /\ Synced' /\ (EnginePauses /\ Paused => Paused')
<1>1. CASE UNCHANGED updateVars
  BY <1>1 DEF ServersType, Synced, Paused, updateVars
<1>2. CASE BeginUpdate \/ \E s \in Servers : ServerStep(s)
  BY <1>2, ServersTypeKept, SyncedKept, PausedKept
<1>3. UNCHANGED updateVars \/ BeginUpdate \/ \E s \in Servers : ServerStep(s)
  <2>1. ASSUME NEW c \in Conversations, GenerationStep(c) PROVE UNCHANGED updateVars
    BY <2>1 DEF GenerationStep, Begin, Ask, Start, Token, Merge, Releases
  <2>2. ASSUME NEW s \in Servers, Abort(s) PROVE ServerStep(s)
    BY <2>2 DEF Abort, ServerStep
  <2> QED BY Steps, <2>1, <2>2 DEF ServersOnly, ServerStep
<1> QED BY <1>1, <1>2, <1>3

LEMMA NextGenerationInv == GenerationInv /\ [Next]_vars => GenerationInv'
<1> SUFFICES ASSUME GenerationInv, [Next]_vars PROVE GenerationInv'
  OBVIOUS
<1>1. GenerationTypes /\ RoutingInv /\ Synced
  BY DEF GenerationInv, TypeInv, UpdateInv, GenerationTypes, RoutingInv
<1>2. RoutingInv'
  BY <1>1, StepRoutingInv, RoutedAsClients
<1>3. ServersType' /\ Synced' /\ (EnginePauses /\ Paused => Paused')
  BY <1>1, ServersKept DEF GenerationTypes
<1>4. GenerationsType' /\ Answered'
  BY <1>1, GenerationsTypeKept, AnsweredKept
<1>5. ASSUME EnginePauses PROVE RunsFree' /\ Timely'
  BY <1>1, <1>5, RunsFreeKept, TimelyKept DEF GenerationInv, UpdateInv
<1>6. ASSUME HasLimit PROVE Limited' /\ (PartialRolloutOn => NotCutShort')
  BY <1>1, <1>6, LimitKept, NotCutShortKept DEF GenerationInv, LimitInv
<1>7. EnginePauses => Paused
  BY DEF GenerationInv, UpdateInv
<1> QED BY <1>2, <1>3, <1>4, <1>5, <1>6, <1>7 DEF GenerationInv, TypeInv, UpdateInv, LimitInv

(* Servers, update, routing and generations agree, whatever the engine and *)
(* the configuration (FullyAsyncLLMServerManager.generate, update_weights).*)
THEOREM GenerationInvariance == Spec => []GenerationInv
  BY InitGenerationInv, NextGenerationInv, PTL DEF Spec

(* Every variable of the update and the generations stays in its type.     *)
THEOREM GenerationsTypeCorrect == Spec => []TypeOK
<1>1. GenerationInv => TypeOK
  <2> SUFFICES ASSUME GenerationInv PROVE TypeOK
    OBVIOUS
  <2>1. ServersType /\ GenerationsType /\ Answered /\ RoutingTypeOK
    BY DEF GenerationInv, TypeInv, RoutingInv
  <2>2. \A s \in Servers : inflight[s] \in Nat
    BY <2>1 DEF RoutingTypeOK
  <2>3. ASSUME NEW c \in Conversations
        PROVE  \A i \in 1..Len(tokens[c]) : tokens[c][i] \in (0..MaxUpdates) \cup {Mixed}
    BY <2>1, ElementOfSeq DEF GenerationsType
  <2>4. ASSUME NEW c \in Conversations, request[c] = "done"
        PROVE  span[c].min \in 0..MaxUpdates /\ span[c].max \in 0..MaxUpdates
    BY <2>1, <2>4 DEF GenerationsType, Answered, Named
  <2> QED BY <2>1, <2>2, <2>3, <2>4 DEF TypeOK, ServersType, GenerationsType, Answered, Requests
<1> QED BY <1>1, GenerationInvariance, PTL

(* Generations route as clients of the balancer: its counts, its cache and *)
(* its stickiness hold of them (_acquire_server, _release_server).         *)
THEOREM GenerationsAreClients == Spec => ClientsSpec
<1>1. Init => LBInit
  BY DEF Init
<1> QED BY <1>1, RoutedAsClients, PTL DEF Spec, ClientsSpec

(* With an engine that pauses, no request runs while weights are loaded    *)
(* (abort_all_requests, resume_generation).                                *)
THEOREM InterruptedUntilSyncedHolds == EnginePauses => (Spec => []InterruptedUntilSynced)
<1> SUFFICES ASSUME EnginePauses PROVE Spec => []InterruptedUntilSynced
  OBVIOUS
<1>1. GenerationInv => InterruptedUntilSynced
  BY NothingRuns DEF GenerationInv, TypeInv, UpdateInv, InterruptedUntilSynced
<1> QED BY <1>1, GenerationInvariance, PTL

(* With an engine that pauses, the span of versions of a generation holds  *)
(* the version of every token it returns (generate, min_global_steps and   *)
(* max_global_steps), for any number of updates and interruptions.         *)
THEOREM SpanCoversTokensHolds == EnginePauses => (Spec => []SpanCoversTokens)
<1> SUFFICES ASSUME EnginePauses PROVE Spec => []SpanCoversTokens
  OBVIOUS
<1>1. GenerationInv => SpanCoversTokens
  BY DEF GenerationInv, TypeInv, UpdateInv, Answered, Timely, TokensOf, SpanCoversTokens
<1> QED BY <1>1, GenerationInvariance, PTL

(* With partial rollout on and a limit named, a generation ends where an   *)
(* uninterrupted one could (generate, "invisible to the AgentLoop").       *)
THEOREM AsUninterruptedHolds == HasLimit /\ PartialRolloutOn => (Spec => []AsUninterrupted)
<1> SUFFICES ASSUME HasLimit, PartialRolloutOn PROVE Spec => []AsUninterrupted
  OBVIOUS
<1>1. GenerationInv => AsUninterrupted
  BY DEF GenerationInv, LimitInv, Limited, AsUninterrupted
<1> QED BY <1>1, GenerationInvariance, PTL
-------------------------------------------------------------------------------
(* An update is one change of version                                      *)

EndedNow == {c \in Conversations : request[c] = "done"}

LEMMA InitIsAtomic == Init => Atomic!Init
<1> SUFFICES ASSUME Init PROVE Atomic!Init
  OBVIOUS
<1>1. Loaded /\ target = 0
  BY SomeServer DEF Init, WUInit, Loaded
<1>2. tokens = [c \in Conversations |-> <<>>]
  BY DEF Init
<1>3. {c \in Conversations : request[c] = "done"} = {}
  BY DEF Init
<1> QED BY <1>1, <1>2, <1>3 DEF Atomic!Init

LEMMA NextIsAtomic ==
    ASSUME EnginePauses, GenerationInv, [Next]_vars
    PROVE  [Atomic!Next]_(Atomic!atomicVars)
<1> USE DEF Atomic!Next, Atomic!atomicVars
<1>1. GenerationTypes /\ Synced /\ Paused /\ RunsFree /\ GenerationsType
  BY DEF GenerationInv, TypeInv, UpdateInv, GenerationTypes, RoutingInv
<1>2. ASSUME Current' = Current, tokens' = tokens, EndedNow' = EndedNow
      PROVE  UNCHANGED Atomic!atomicVars
  BY <1>2 DEF Current, EndedNow
<1>3. ASSUME NEW c \in Conversations, GenerationStep(c) PROVE [Atomic!Next]_(Atomic!atomicVars)
  <2>1. Current' = Current
    BY <1>3, CurrentInGeneration
  <2>2. CASE Begin(c) \/ Ask(c) \/ Start(c)
    <3>1. tokens' = tokens
      BY <2>2 DEF Begin, Ask, Start
    <3>2. EndedNow' = EndedNow
      BY <1>1, <2>2 DEF Begin, Ask, Start, EndedNow, GenerationsType
    <3> QED BY <1>2, <2>1, <3>1, <3>2
  <2>3. CASE Token(c)
    <3>1. tokens' = [tokens EXCEPT ![c] = Append(@, Current)]
      <4>1. weights[using[c]] = Current
        BY <1>1, <2>3, TokenIsCurrent
      <4> QED BY <2>3, <4>1 DEF Token
    <3>2. EndedNow' = EndedNow /\ c \notin EndedNow
      BY <1>1, <2>3 DEF Token, EndedNow, GenerationsType
    <3>3. Atomic!Emit(c)
      BY <2>1, <3>1, <3>2 DEF Atomic!Emit, Current, EndedNow
    <3> QED BY <3>3
  <2>4. CASE Merge(c)
    <3>1. tokens' = tokens
      BY <2>4 DEF Merge
    <3>2. CASE GoesOn(c)
      <4>1. EndedNow' = EndedNow
        BY <1>1, <2>4, <3>2 DEF Merge, EndedNow, GenerationsType
      <4> QED BY <1>2, <2>1, <3>1, <4>1
    <3>3. CASE ~GoesOn(c)
      <4>1. EndedNow' = EndedNow \cup {c}
        BY <1>1, <2>4, <3>3 DEF Merge, EndedNow, GenerationsType
      <4>2. Atomic!End(c)
        BY <2>1, <3>1, <4>1 DEF Atomic!End, Current, EndedNow
      <4> QED BY <4>2
    <3> QED BY <3>2, <3>3
  <2>5. CASE Releases(c)
    <3>1. tokens' = tokens /\ EndedNow' = EndedNow
      BY <2>5 DEF Releases, genVars, EndedNow
    <3> QED BY <1>2, <2>1, <3>1
  <2> QED BY <1>3, <2>2, <2>3, <2>4, <2>5 DEF GenerationStep
<1>4. ASSUME NEW s \in Servers, Abort(s) PROVE [Atomic!Next]_(Atomic!atomicVars)
  <2>1. Current' = Current
    BY <1>1, <1>4, CurrentKept DEF Abort, GenerationTypes
  <2>2. tokens' = tokens
    BY <1>4 DEF Abort
  <2>3. EndedNow' = EndedNow
    BY <1>1, <1>4 DEF Abort, Running, EndedNow, GenerationsType
  <2> QED BY <1>2, <2>1, <2>2, <2>3
<1>5. CASE ServersOnly
  <2>1. tokens' = tokens /\ EndedNow' = EndedNow
    BY <1>5 DEF ServersOnly, genVars, EndedNow
  <2>2. CASE Current' = Current
    BY <1>2, <2>1, <2>2
  <2>3. CASE Current' = Current + 1
    <3>1. Atomic!Update
      BY <2>1, <2>3 DEF Atomic!Update, Current, EndedNow
    <3> QED BY <3>1
  <2> QED BY <1>1, <1>5, <2>2, <2>3, CurrentInServers DEF GenerationTypes
<1> QED BY Steps, <1>3, <1>4, <1>5

(* With an engine that pauses, an update of any number of servers is for   *)
(* all the generations one change of version (update_weights).             *)
THEOREM AtomicUpdateImplemented == EnginePauses => (Spec => ImplementsAtomicUpdate)
<1> SUFFICES ASSUME EnginePauses PROVE Spec => ImplementsAtomicUpdate
  OBVIOUS
<1>1. Init => Atomic!Init
  BY InitIsAtomic
<1>2. GenerationInv /\ [Next]_vars => [Atomic!Next]_(Atomic!atomicVars)
  BY NextIsAtomic
<1> QED BY <1>1, <1>2, GenerationInvariance, PTL DEF Spec, ImplementsAtomicUpdate, Atomic!Spec
===============================================================================
