------------------------------ MODULE BatchProofs ------------------------------
(***************************************************************************)
(* Two parts that take a batch and give one back. First the permits and    *)
(* the answers of the rate-limited reward manager, for any batch, any      *)
(* number of workers, permits and threads, and any number of reward        *)
(* functions that never return. Then the rows of the two-stage rollout and *)
(* what is looked up for them by their traces, for any configurations and  *)
(* any number of queries in an output.                                     *)
(***************************************************************************)
EXTENDS RewardBatch, TwoStageRollout, FiniteSetTheorems, SequenceTheorems, WellFoundedInduction, TLAPS

Jobs == [kind : {"decode", "score"}, of : Requests]

TypeOK ==
    /\ isAsync \in BOOLEAN
    /\ req \in [Requests ->
           {"none", "decoding", "limited", "waiting", "admitted", "computing", "done"}]
    /\ outcome \in [Requests -> {"none", "score", "timeout", "error", "raised"}]
    /\ permits \in [Workers -> 0..MaxConcurrent]
    /\ sleepers \in [Workers -> Seq(Requests)]
    /\ jobs \in [Workers -> Seq(Jobs)]
    /\ busy \subseteq Jobs
    /\ hung \subseteq Jobs
    /\ batch \in {"running", "scored", "raised"}

(* A request sleeps once, at its own worker's semaphore, while it waits.   *)
SleepersWait ==
    /\ \A w \in Workers : \A i \in 1..Len(sleepers[w]) :
          Home[sleepers[w][i]] = w /\ req[sleepers[w][i]] = "waiting"
    /\ \A w \in Workers : \A i, k \in 1..Len(sleepers[w]) :
          sleepers[w][i] = sleepers[w][k] => i = k
    /\ \A r \in Requests : req[r] = "waiting" =>
          \E i \in 1..Len(sleepers[Home[r]]) : sleepers[Home[r]][i] = r

(* The job that decodes a request's answer is queued or run once, while    *)
(* the request is decoding.                                                *)
IsDecode(w, i) == jobs[w][i].kind = "decode"

DecodedOnce ==
    /\ \A w \in Workers : \A i \in 1..Len(jobs[w]) : Home[jobs[w][i].of] = w
    /\ \A w \in Workers : \A i \in 1..Len(jobs[w]) :
          IsDecode(w, i) => req[jobs[w][i].of] = "decoding" /\ jobs[w][i] \notin busy
    /\ \A w \in Workers : \A i, k \in 1..Len(jobs[w]) :
          IsDecode(w, i) /\ jobs[w][i] = jobs[w][k] => i = k
    /\ \A r \in Requests : Decode(r) \in busy => req[r] = "decoding"

(* Only a request that is done has an answer.                              *)
AnsweredWhenDone == \A r \in Requests : outcome[r] # "none" => req[r] = "done"

(* Permits and holders add up; a permit is free only if nobody sleeps.     *)
Held ==
    \A w \in Workers :
       /\ permits[w] + Cardinality(HoldersAt(w)) = MaxConcurrent
       /\ sleepers[w] # <<>> => permits[w] = 0

IInv == TypeOK /\ SleepersWait /\ DecodedOnce /\ AnsweredWhenDone /\ Held
-------------------------------------------------------------------------------
(* The requests that hold a permit are finitely many.                      *)
LEMMA HoldersFinite ==
    ASSUME NEW w
    PROVE  IsFiniteSet(HoldersAt(w)) /\ Cardinality(HoldersAt(w)) \in Nat
<1>1. HoldersAt(w) \in SUBSET Requests
  BY DEF HoldersAt
<1> QED BY <1>1, LimiterAssumption, FS_Subset, FS_CardinalityType

(* The queue without the job at i.                                         *)
LEMMA Removed ==
    ASSUME NEW S, NEW s \in Seq(S), NEW i \in 1..Len(s)
    PROVE  /\ RemoveAt(s, i) \in Seq(S)
           /\ Len(RemoveAt(s, i)) = Len(s) - 1
           /\ \A k \in 1..Len(s) - 1 : RemoveAt(s, i)[k] = s[IF k < i THEN k ELSE k + 1]
<1> DEFINE a == SubSeq(s, 1, i - 1)
           b == SubSeq(s, i + 1, Len(s))
<1>1. Len(s) \in Nat /\ i \in Nat /\ 1 <= i /\ i <= Len(s)
  OBVIOUS
<1>2. /\ a \in Seq(S) /\ Len(a) = i - 1
      /\ \A k \in 1..i - 1 : a[k] = s[k]
  BY <1>1
<1>3. /\ b \in Seq(S) /\ Len(b) = Len(s) - i
      /\ \A k \in 1..Len(s) - i : b[k] = s[i + k]
  BY <1>1
<1>4. RemoveAt(s, i) = a \o b
  BY DEF RemoveAt
<1> HIDE DEF a, b
<1>5. a \o b \in Seq(S) /\ Len(a \o b) = Len(s) - 1
  <2>1. a \o b \in Seq(S) /\ Len(a \o b) = Len(a) + Len(b)
    BY <1>2, <1>3, ConcatProperties
  <2> QED BY <1>1, <1>2, <1>3, <2>1
<1>6. ASSUME NEW k \in 1..Len(s) - 1 PROVE (a \o b)[k] = s[IF k < i THEN k ELSE k + 1]
  <2>1. CASE k < i
    BY <1>1, <1>2, <1>3, <2>1
  <2>2. CASE ~(k < i)
    <3>1. (a \o b)[k] = b[k - (i - 1)]
      BY <1>1, <1>2, <1>3, <2>2
    <3>2. k - (i - 1) \in 1..Len(s) - i /\ i + (k - (i - 1)) = k + 1
      BY <1>1, <2>2
    <3> QED BY <1>3, <3>1, <3>2, <2>2
  <2> QED BY <2>1, <2>2
<1> QED BY <1>4, <1>5, <1>6

(* A step that leaves the semaphores and who holds or wants a permit.      *)
LEMMA SameHolders ==
    ASSUME Held, permits' = permits, sleepers' = sleepers,
           \A w \in Workers : HoldersAt(w)' = HoldersAt(w)
    PROVE  Held'
BY DEF Held
-------------------------------------------------------------------------------
LEMMA InitInv == Init => IInv
<1> SUFFICES ASSUME Init PROVE IInv
  OBVIOUS
<1>1. TypeOK /\ SleepersWait /\ DecodedOnce /\ AnsweredWhenDone
  BY LimiterAssumption DEF Init, LimiterInit, TypeOK, SleepersWait, DecodedOnce,
     AnsweredWhenDone, Jobs, Workers
<1>2. ASSUME NEW w \in Workers PROVE HoldersAt(w) = {}
  BY DEF Init, LimiterInit, HoldersAt
<1>3. ASSUME NEW w \in Workers
      PROVE  permits[w] + Cardinality(HoldersAt(w)) = MaxConcurrent /\ sleepers[w] = <<>>
  <2>1. Cardinality(HoldersAt(w)) = 0
    BY <1>2, FS_EmptySet
  <2> QED BY <2>1, LimiterAssumption DEF Init, LimiterInit
<1>4. Held
  BY <1>3 DEF Held
<1> QED BY <1>1, <1>4 DEF IInv

(* A request that computes leaves the semaphore with an answer.            *)
LEMMA LeaveInv ==
    ASSUME IInv, NEW r \in Requests, req[r] = "computing",
           NEW result \in {"score", "timeout", "error"}, Leave(r, result)
    PROVE  /\ req' \in [Requests ->
                 {"none", "decoding", "limited", "waiting", "admitted", "computing", "done"}]
           /\ outcome' \in [Requests -> {"none", "score", "timeout", "error", "raised"}]
           /\ permits' \in [Workers -> 0..MaxConcurrent]
           /\ sleepers' \in [Workers -> Seq(Requests)]
           /\ SleepersWait' /\ AnsweredWhenDone' /\ Held'
           /\ \A q \in Requests : req[q] = "decoding" <=> req'[q] = "decoding"
           /\ \A q \in Requests : outcome[q] # "none" => outcome'[q] = outcome[q]
<1> DEFINE w == Home[r]
<1>0. TypeOK /\ SleepersWait /\ DecodedOnce /\ AnsweredWhenDone /\ Held
  BY DEF IInv
<1>1. w \in Workers /\ sleepers[w] \in Seq(Requests) /\ permits[w] \in 0..MaxConcurrent
      /\ MaxConcurrent \in Nat
  BY <1>0, LimiterAssumption DEF TypeOK, Workers
<1>2. r \in HoldersAt(w) /\ Cardinality(HoldersAt(w) \ {r}) = Cardinality(HoldersAt(w)) - 1
  <2>1. r \in HoldersAt(w)
    BY DEF HoldersAt
  <2> QED BY <2>1, HoldersFinite, FS_RemoveElement
<1>3. outcome' = [outcome EXCEPT ![r] = result] /\ outcome[r] = "none"
  BY <1>0 DEF Leave, AnsweredWhenDone, TypeOK
<1>4. /\ outcome' \in [Requests -> {"none", "score", "timeout", "error", "raised"}]
      /\ \A q \in Requests : outcome[q] # "none" => outcome'[q] = outcome[q]
  BY <1>0, <1>3 DEF TypeOK
<1>5. CASE sleepers[w] = <<>>
  <2>1. /\ permits' = [permits EXCEPT ![w] = @ + 1]
        /\ req' = [req EXCEPT ![r] = "done"]
        /\ sleepers' = sleepers
    BY <1>5 DEF Leave
  <2>2. permits[w] + Cardinality(HoldersAt(w)) = MaxConcurrent
    BY <1>0, <1>1 DEF Held
  <2>3. HoldersAt(w)' = HoldersAt(w) \ {r}
    BY <1>0, <2>1 DEF HoldersAt, TypeOK
  <2>4. permits[w] + 1 <= MaxConcurrent
    <3>1. Cardinality(HoldersAt(w)) # 0
      BY <1>2, HoldersFinite, FS_EmptySet
    <3> QED BY <1>1, <2>2, <3>1, HoldersFinite
  <2>5. permits' \in [Workers -> 0..MaxConcurrent]
    BY <1>0, <1>1, <2>1, <2>4 DEF TypeOK
  <2>6. SleepersWait'
    BY <1>0, <2>1 DEF SleepersWait, TypeOK
  <2>7. AnsweredWhenDone'
    BY <1>0, <1>3, <2>1 DEF AnsweredWhenDone, TypeOK
  <2>8. ASSUME NEW v \in Workers
        PROVE  /\ permits'[v] + Cardinality(HoldersAt(v))' = MaxConcurrent
               /\ sleepers'[v] # <<>> => permits'[v] = 0
    <3>1. CASE v = w
      <4>1. permits'[w] = permits[w] + 1
        BY <1>0, <1>1, <2>1 DEF TypeOK
      <4>2. permits'[w] + Cardinality(HoldersAt(w))' = MaxConcurrent
        BY <1>1, <1>2, <2>2, <2>3, <4>1, HoldersFinite
      <4> QED BY <1>5, <2>1, <3>1, <4>2
    <3>2. CASE v # w
      <4>1. HoldersAt(v)' = HoldersAt(v)
        BY <1>0, <2>1, <3>2 DEF HoldersAt, TypeOK
      <4>2. permits'[v] = permits[v]
        BY <1>0, <2>1, <3>2 DEF TypeOK
      <4> QED BY <1>0, <2>1, <4>1, <4>2 DEF Held
    <3> QED BY <3>1, <3>2
  <2>9. Held'
    BY <2>8 DEF Held
  <2>10. /\ req' \in [Requests ->
                 {"none", "decoding", "limited", "waiting", "admitted", "computing", "done"}]
         /\ sleepers' \in [Workers -> Seq(Requests)]
         /\ \A q \in Requests : req[q] = "decoding" <=> req'[q] = "decoding"
    BY <1>0, <2>1 DEF TypeOK
  <2> QED BY <1>4, <2>5, <2>6, <2>7, <2>9, <2>10
<1>6. CASE sleepers[w] # <<>>
  <2> DEFINE h == Head(sleepers[w])
  <2>1. /\ req' = [req EXCEPT ![r] = "done", ![h] = "admitted"]
        /\ sleepers' = [sleepers EXCEPT ![w] = Tail(@)]
        /\ permits' = permits
    BY <1>6 DEF Leave
  <2>2. /\ 1 \in 1..Len(sleepers[w]) /\ h = sleepers[w][1] /\ h \in Requests
        /\ Tail(sleepers[w]) \in Seq(Requests)
        /\ Len(Tail(sleepers[w])) = Len(sleepers[w]) - 1
        /\ \A i \in 1..Len(sleepers[w]) - 1 : Tail(sleepers[w])[i] = sleepers[w][i + 1]
    BY <1>1, <1>6
  <2>3. Home[h] = w /\ req[h] = "waiting"
    BY <1>0, <1>1, <2>2 DEF SleepersWait
  <2>4. h # r
    BY <2>3
  <2> HIDE DEF h
  <2>5. req' \in [Requests ->
                 {"none", "decoding", "limited", "waiting", "admitted", "computing", "done"}]
        /\ req'[r] = "done" /\ req'[h] = "admitted"
        /\ \A q \in Requests \ {r, h} : req'[q] = req[q]
    BY <1>0, <2>1, <2>2, <2>4 DEF TypeOK
  <2>6. /\ sleepers' \in [Workers -> Seq(Requests)] /\ sleepers'[w] = Tail(sleepers[w])
        /\ \A v \in Workers \ {w} : sleepers'[v] = sleepers[v]
    BY <1>0, <1>1, <2>1, <2>2 DEF TypeOK
  <2>7. SleepersWait'
    <3>1. ASSUME NEW v \in Workers, NEW i \in 1..Len(sleepers'[v])
          PROVE  Home[sleepers'[v][i]] = v /\ req'[sleepers'[v][i]] = "waiting"
      <4>1. CASE v = w
        <5>1. i + 1 \in 1..Len(sleepers[w]) /\ sleepers'[w][i] = sleepers[w][i + 1]
          <6>1. i \in 1..Len(sleepers[w]) - 1 /\ sleepers'[w][i] = Tail(sleepers[w])[i]
            BY <2>2, <2>6, <4>1
          <6> HIDE DEF w
          <6> QED BY <1>1, <2>2, <6>1
        <5>2. sleepers[w][i + 1] # h
          BY <1>0, <1>1, <2>2, <5>1 DEF SleepersWait
        <5>3. Home[sleepers[w][i + 1]] = w /\ req[sleepers[w][i + 1]] = "waiting"
              /\ sleepers[w][i + 1] \in Requests
          BY <1>0, <1>1, <5>1 DEF SleepersWait
        <5> QED BY <2>5, <4>1, <5>1, <5>2, <5>3
      <4>2. CASE v # w
        <5>1. i \in 1..Len(sleepers[v]) /\ sleepers'[v][i] = sleepers[v][i]
              /\ sleepers[v] \in Seq(Requests)
          BY <1>0, <2>6, <4>2 DEF TypeOK
        <5>2. Home[sleepers[v][i]] = v /\ req[sleepers[v][i]] = "waiting"
              /\ sleepers[v][i] \in Requests
          BY <1>0, <5>1 DEF SleepersWait
        <5> QED BY <2>3, <2>5, <4>2, <5>1, <5>2
      <4> QED BY <4>1, <4>2
    <3>2. ASSUME NEW v \in Workers, NEW i \in 1..Len(sleepers'[v]), NEW k \in 1..Len(sleepers'[v]),
                 sleepers'[v][i] = sleepers'[v][k]
          PROVE  i = k
      <4>1. CASE v = w
        <5>1. /\ i + 1 \in 1..Len(sleepers[w]) /\ sleepers'[w][i] = sleepers[w][i + 1]
              /\ k + 1 \in 1..Len(sleepers[w]) /\ sleepers'[w][k] = sleepers[w][k + 1]
          <6>1. /\ i \in 1..Len(sleepers[w]) - 1 /\ sleepers'[w][i] = Tail(sleepers[w])[i]
                /\ k \in 1..Len(sleepers[w]) - 1 /\ sleepers'[w][k] = Tail(sleepers[w])[k]
            BY <2>2, <2>6, <4>1
          <6> HIDE DEF w
          <6> QED BY <1>1, <2>2, <6>1
        <5>2. i + 1 = k + 1
          BY <1>0, <1>1, <3>2, <4>1, <5>1 DEF SleepersWait
        <5>3. i \in Int /\ k \in Int
          OBVIOUS
        <5> QED BY <5>2, <5>3
      <4>2. CASE v # w
        BY <1>0, <2>6, <3>2, <4>2 DEF SleepersWait
      <4> QED BY <4>1, <4>2
    <3>3. ASSUME NEW q \in Requests, req'[q] = "waiting"
          PROVE  \E i \in 1..Len(sleepers'[Home[q]]) : sleepers'[Home[q]][i] = q
      <4>1. q # h /\ q # r /\ req[q] = "waiting" /\ Home[q] \in Workers
        BY <2>5, <3>3, LimiterAssumption DEF Workers
      <4>2. PICK i \in 1..Len(sleepers[Home[q]]) : sleepers[Home[q]][i] = q
        BY <1>0, <4>1 DEF SleepersWait
      <4>3. CASE Home[q] = w
        <5>1. i # 1 /\ i - 1 \in 1..Len(sleepers[w]) - 1 /\ (i - 1) + 1 = i
          BY <1>1, <2>2, <4>1, <4>2, <4>3
        <5>2. sleepers'[w][i - 1] = q /\ i - 1 \in 1..Len(sleepers'[w])
          BY <2>2, <2>6, <4>2, <4>3, <5>1
        <5> QED BY <4>3, <5>2
      <4>4. CASE Home[q] # w
        BY <2>6, <4>1, <4>2, <4>4
      <4> QED BY <4>3, <4>4
    <3> QED BY <3>1, <3>2, <3>3 DEF SleepersWait
  <2>8. AnsweredWhenDone'
    <3>1. outcome[h] = "none"
      BY <1>0, <2>2, <2>3 DEF AnsweredWhenDone
    <3> QED BY <1>0, <1>3, <2>2, <2>4, <2>5, <3>1 DEF AnsweredWhenDone, TypeOK
  <2>9. HoldersAt(w)' = (HoldersAt(w) \ {r}) \cup {h} /\ h \notin HoldersAt(w) \ {r}
    BY <2>2, <2>3, <2>4, <2>5 DEF HoldersAt
  <2>10. Cardinality(HoldersAt(w))' = Cardinality(HoldersAt(w))
    <3>1. IsFiniteSet(HoldersAt(w) \ {r})
      BY HoldersFinite, FS_Subset
    <3>2. Cardinality((HoldersAt(w) \ {r}) \cup {h}) = Cardinality(HoldersAt(w) \ {r}) + 1
      BY <2>9, <3>1, FS_AddElement
    <3> QED BY <1>2, <2>9, <3>2, HoldersFinite
  <2>11. ASSUME NEW v \in Workers
         PROVE  /\ permits'[v] + Cardinality(HoldersAt(v))' = MaxConcurrent
                /\ sleepers'[v] # <<>> => permits'[v] = 0
    <3>1. CASE v = w
      BY <1>0, <1>6, <2>1, <2>10, <3>1 DEF Held
    <3>2. CASE v # w
      <4>1. HoldersAt(v)' = HoldersAt(v)
        BY <2>3, <2>5, <3>2 DEF HoldersAt
      <4> QED BY <1>0, <2>1, <2>6, <3>2, <4>1 DEF Held
    <3> QED BY <3>1, <3>2
  <2>12. Held'
    BY <2>11 DEF Held
  <2>13. permits' \in [Workers -> 0..MaxConcurrent]
    BY <1>0, <2>1 DEF TypeOK
  <2>14. \A q \in Requests : req[q] = "decoding" <=> req'[q] = "decoding"
    BY <2>2, <2>3, <2>5
  <2> QED BY <1>4, <2>5, <2>6, <2>7, <2>8, <2>12, <2>13, <2>14
<1> QED BY <1>5, <1>6

(* A queued job is one of a request.                                       *)
LEMMA QueuedJob ==
    ASSUME TypeOK, NEW w \in Workers, NEW i \in 1..Len(jobs[w])
    PROVE  jobs[w][i] \in Jobs /\ jobs[w][i].of \in Requests
<1>1. jobs[w] \in Seq(Jobs)
  BY DEF TypeOK
<1>2. jobs[w][i] \in Jobs
  BY <1>1
<1> QED BY <1>2 DEF Jobs

(* Who sleeps stays as it is if nobody else's waiting begins or ends.      *)
LEMMA SleepersKept ==
    ASSUME TypeOK, SleepersWait, sleepers' = sleepers,
           \A q \in Requests : req[q] = "waiting" <=> req'[q] = "waiting"
    PROVE  SleepersWait'
<1>1. ASSUME NEW w \in Workers, NEW i \in 1..Len(sleepers[w]) PROVE sleepers[w][i] \in Requests
  <2>1. sleepers[w] \in Seq(Requests)
    BY DEF TypeOK
  <2> QED BY <2>1
<1> QED BY <1>1 DEF SleepersWait

(* A step of a request that has not come to the semaphore yet, or ends     *)
(* before it does.                                                         *)
LEMMA QuietStep ==
    ASSUME IInv, NEW r \in Requests, NEW from, NEW to,
           from \notin {"waiting", "admitted", "computing", "done"},
           to \notin {"waiting", "admitted", "computing"},
           req[r] = from, req' = [req EXCEPT ![r] = to],
           outcome' = outcome \/ (to = "done" /\ outcome' = [outcome EXCEPT ![r] = "raised"]),
           UNCHANGED <<permits, sleepers>>
    PROVE  SleepersWait' /\ AnsweredWhenDone' /\ Held'
<1>0. TypeOK /\ SleepersWait /\ AnsweredWhenDone /\ Held
  BY DEF IInv
<1>1. SleepersWait'
  BY <1>0 DEF SleepersWait, TypeOK
<1>2. AnsweredWhenDone'
  BY <1>0 DEF AnsweredWhenDone, TypeOK
<1>3. ASSUME NEW w \in Workers PROVE HoldersAt(w)' = HoldersAt(w)
  BY <1>0 DEF HoldersAt, TypeOK
<1>4. Held'
  BY <1>0, <1>3, SameHolders
<1> QED BY <1>1, <1>2, <1>4

(* A queue to which a job is added.                                        *)
LEMMA Appended ==
    ASSUME TypeOK, NEW r \in Requests, NEW j \in Jobs,
           jobs' = [jobs EXCEPT ![Home[r]] = Append(@, j)]
    PROVE  /\ jobs' \in [Workers -> Seq(Jobs)] /\ Home[r] \in Workers
           /\ \A w \in Workers \ {Home[r]} : jobs'[w] = jobs[w]
           /\ LET q == jobs[Home[r]]
                  new == jobs'[Home[r]]
              IN  /\ Len(q) \in Nat /\ Len(new) = Len(q) + 1 /\ new[Len(q) + 1] = j
                  /\ \A i \in 1..Len(q) : new[i] = q[i] /\ i \in 1..Len(new)
                  /\ \A i \in 1..Len(new) : i \in 1..Len(q) \/ i = Len(q) + 1
<1>1. Home[r] \in Workers
  BY LimiterAssumption DEF Workers
<1>2. jobs[Home[r]] \in Seq(Jobs)
  BY <1>1 DEF TypeOK
<1>3. jobs'[Home[r]] = Append(jobs[Home[r]], j)
  BY <1>1 DEF TypeOK
<1>4. Append(jobs[Home[r]], j) \in Seq(Jobs)
  BY <1>2
<1>5. jobs' \in [Workers -> Seq(Jobs)] /\ \A w \in Workers \ {Home[r]} : jobs'[w] = jobs[w]
  BY <1>1, <1>4 DEF TypeOK
<1> QED BY <1>1, <1>2, <1>3, <1>5

(* A queue from which the job at i is taken.                               *)
LEMMA TakenOut ==
    ASSUME TypeOK, DecodedOnce, NEW w \in Workers, NEW i \in 1..Len(jobs[w]),
           jobs' = [jobs EXCEPT ![w] = RemoveAt(@, i)],
           \A r \in Requests : req[r] = "decoding" => req'[r] = "decoding",
           busy' = busy \/ busy' = busy \cup {jobs[w][i]}
    PROVE  jobs' \in [Workers -> Seq(Jobs)] /\ DecodedOnce'
<1>1. jobs[w] \in Seq(Jobs) /\ jobs[w][i] \in Jobs /\ Len(jobs[w]) \in Nat /\ i \in Nat
  BY DEF TypeOK
<1>2. /\ RemoveAt(jobs[w], i) \in Seq(Jobs)
      /\ Len(RemoveAt(jobs[w], i)) = Len(jobs[w]) - 1
      /\ \A k \in 1..Len(jobs[w]) - 1 :
            RemoveAt(jobs[w], i)[k] = jobs[w][IF k < i THEN k ELSE k + 1]
  BY <1>1, Removed
<1>3. /\ jobs' \in [Workers -> Seq(Jobs)] /\ jobs'[w] = RemoveAt(jobs[w], i)
      /\ \A v \in Workers \ {w} : jobs'[v] = jobs[v]
  BY <1>2 DEF TypeOK
<1> DEFINE old(v, k) == IF v = w /\ ~(k < i) THEN k + 1 ELSE k
<1>4. ASSUME NEW v \in Workers, NEW k \in 1..Len(jobs'[v])
      PROVE  /\ old(v, k) \in 1..Len(jobs[v]) /\ jobs'[v][k] = jobs[v][old(v, k)]
             /\ v = w => old(v, k) # i
             /\ jobs[v][old(v, k)] \in Jobs
  <2>1. CASE v = w
    <3>1. k \in 1..Len(jobs[w]) - 1
      BY <1>2, <1>3, <2>1
    <3>2. old(v, k) \in 1..Len(jobs[w]) /\ old(v, k) # i
      BY <1>1, <2>1, <3>1
    <3>3. jobs'[w][k] = jobs[w][old(w, k)]
      BY <1>2, <1>3, <3>1
    <3> QED BY <1>1, <2>1, <3>2, <3>3
  <2>2. CASE v # w
    BY <1>3, <2>2 DEF TypeOK
  <2> QED BY <2>1, <2>2
<1>5. ASSUME NEW v \in Workers, NEW k \in 1..Len(jobs'[v]), NEW l \in 1..Len(jobs'[v]),
             old(v, k) = old(v, l)
      PROVE  k = l
  BY <1>1, <1>5
<1> HIDE DEF old
<1>6. ASSUME NEW v \in Workers, NEW k \in 1..Len(jobs'[v]) PROVE Home[jobs'[v][k].of] = v
  BY <1>4 DEF DecodedOnce
<1>7. ASSUME NEW v \in Workers, NEW k \in 1..Len(jobs'[v]), jobs'[v][k].kind = "decode"
      PROVE  req'[jobs'[v][k].of] = "decoding" /\ jobs'[v][k] \notin busy'
  <2> DEFINE m == old(v, k)
  <2>1. m \in 1..Len(jobs[v]) /\ jobs'[v][k] = jobs[v][m] /\ jobs[v][m] \in Jobs
        /\ (v = w => m # i)
    BY <1>4
  <2> HIDE DEF m
  <2>2. /\ req[jobs[v][m].of] = "decoding" /\ jobs[v][m] \notin busy
        /\ jobs[v][m].of \in Requests
    BY <1>7, <2>1 DEF DecodedOnce, IsDecode, Jobs
  <2>3. jobs[v][m] # jobs[w][i]
    <3>1. CASE v = w
      BY <1>7, <2>1, <3>1 DEF DecodedOnce, IsDecode
    <3>2. CASE v # w
      BY <2>1, <3>2 DEF DecodedOnce
    <3> QED BY <3>1, <3>2
  <2> QED BY <2>1, <2>2, <2>3
<1>8. ASSUME NEW v \in Workers, NEW k \in 1..Len(jobs'[v]), NEW l \in 1..Len(jobs'[v]),
             jobs'[v][k].kind = "decode", jobs'[v][k] = jobs'[v][l]
      PROVE  k = l
  <2>1. old(v, k) = old(v, l)
    <3> DEFINE m == old(v, k)
               n == old(v, l)
    <3>1. m \in 1..Len(jobs[v]) /\ jobs'[v][k] = jobs[v][m]
      BY <1>4
    <3>2. n \in 1..Len(jobs[v]) /\ jobs'[v][l] = jobs[v][n]
      BY <1>4
    <3> HIDE DEF m, n
    <3>3. jobs[v][m].kind = "decode" /\ jobs[v][m] = jobs[v][n]
      BY <1>8, <3>1, <3>2
    <3>4. m = n
      BY <3>1, <3>2, <3>3 DEF DecodedOnce, IsDecode
    <3> QED BY <3>4 DEF m, n
  <2> QED BY <1>5, <2>1
<1>9. ASSUME NEW r \in Requests, Decode(r) \in busy' PROVE req'[r] = "decoding"
  <2>1. CASE Decode(r) \in busy
    BY <2>1 DEF DecodedOnce
  <2>2. CASE Decode(r) = jobs[w][i]
    BY <2>2 DEF DecodedOnce, IsDecode, Decode
  <2> QED BY <1>9, <2>1, <2>2
<1> QED BY <1>3, <1>6, <1>7, <1>8, <1>9 DEF DecodedOnce, IsDecode

(* Taking the first job is removing it.                                    *)
LEMMA FirstRemoved ==
    ASSUME NEW S, NEW s \in Seq(S), s # <<>>
    PROVE  1 \in 1..Len(s) /\ Head(s) = s[1] /\ Tail(s) = RemoveAt(s, 1)
<1>1. Len(s) \in Nat /\ 1 \in 1..Len(s) /\ Head(s) = s[1]
  OBVIOUS
<1>2. /\ Tail(s) \in Seq(S) /\ Len(Tail(s)) = Len(s) - 1
      /\ \A k \in 1..Len(s) - 1 : Tail(s)[k] = s[k + 1]
  OBVIOUS
<1>3. /\ RemoveAt(s, 1) \in Seq(S) /\ Len(RemoveAt(s, 1)) = Len(s) - 1
      /\ \A k \in 1..Len(s) - 1 : RemoveAt(s, 1)[k] = s[k + 1]
  BY <1>1, Removed
<1> QED BY <1>1, <1>2, <1>3, SeqEqual

(* A step that queues and starts no job keeps what is said of decoding.    *)
LEMMA DecodingKept ==
    ASSUME DecodedOnce, jobs' = jobs, busy' \subseteq busy,
           \A w \in Workers : \A i \in 1..Len(jobs[w]) : jobs[w][i].of \in Requests,
           \A r \in Requests : req[r] = "decoding" => req'[r] = "decoding"
    PROVE  DecodedOnce'
BY DEF DecodedOnce, IsDecode
-------------------------------------------------------------------------------
LEMMA ArriveInv ==
    ASSUME IInv, NEW r \in Requests, Arrive(r), batch' = batch
    PROVE  IInv'
<1>0. TypeOK /\ DecodedOnce
  BY DEF IInv
<1>1. Decode(r) \in Jobs /\ Decode(r).kind = "decode" /\ Decode(r).of = r
  BY DEF Decode, Jobs
<1>2. /\ req[r] = "none" /\ req' = [req EXCEPT ![r] = "decoding"]
      /\ jobs' = [jobs EXCEPT ![Home[r]] = Append(@, Decode(r))]
      /\ UNCHANGED <<isAsync, outcome, permits, sleepers, busy, hung>>
  BY DEF Arrive
<1>3. /\ jobs' \in [Workers -> Seq(Jobs)] /\ Home[r] \in Workers
      /\ \A w \in Workers \ {Home[r]} : jobs'[w] = jobs[w]
      /\ LET q == jobs[Home[r]]
             new == jobs'[Home[r]]
         IN  /\ Len(q) \in Nat /\ Len(new) = Len(q) + 1 /\ new[Len(q) + 1] = Decode(r)
             /\ \A i \in 1..Len(q) : new[i] = q[i] /\ i \in 1..Len(new)
             /\ \A i \in 1..Len(new) : i \in 1..Len(q) \/ i = Len(q) + 1
  BY <1>0, <1>1, <1>2, Appended
<1>4. TypeOK'
  BY <1>0, <1>2, <1>3 DEF TypeOK
<1>5. SleepersWait' /\ AnsweredWhenDone' /\ Held'
  BY <1>2, QuietStep
<1>6. Decode(r) \notin busy
  BY <1>0, <1>2 DEF DecodedOnce
<1>7. ASSUME NEW w \in Workers, NEW i \in 1..Len(jobs[w])
      PROVE  jobs[w][i] \in Jobs /\ jobs[w][i] # Decode(r)
  BY <1>0, <1>1, <1>2 DEF DecodedOnce, IsDecode, TypeOK
<1>8. ASSUME NEW q \in Requests, req[q] = "decoding" PROVE req'[q] = "decoding"
  BY <1>0, <1>2, <1>8 DEF TypeOK
<1>9. req'[r] = "decoding"
  BY <1>0, <1>2 DEF TypeOK
<1>10. DecodedOnce'
  <2>1. ASSUME NEW w \in Workers, NEW i \in 1..Len(jobs'[w])
        PROVE  /\ Home[jobs'[w][i].of] = w
               /\ jobs'[w][i].kind = "decode" =>
                     req'[jobs'[w][i].of] = "decoding" /\ jobs'[w][i] \notin busy'
    <3>1. CASE i \in 1..Len(jobs[w]) /\ jobs'[w][i] = jobs[w][i]
      <4>1. jobs[w][i].of \in Requests
        BY <1>7, <3>1 DEF Jobs
      <4> QED BY <1>0, <1>2, <1>8, <3>1, <4>1 DEF DecodedOnce, IsDecode
    <3>2. CASE w = Home[r] /\ jobs'[w][i] = Decode(r)
      BY <1>1, <1>2, <1>6, <1>9, <3>2
    <3> QED BY <1>3, <3>1, <3>2
  <2>2. ASSUME NEW w \in Workers, NEW i \in 1..Len(jobs'[w]), NEW k \in 1..Len(jobs'[w]),
               jobs'[w][i].kind = "decode", jobs'[w][i] = jobs'[w][k]
        PROVE  i = k
    <3>1. CASE w = Home[r]
      <4>1. ASSUME NEW l \in 1..Len(jobs'[w])
            PROVE  \/ l \in 1..Len(jobs[w]) /\ jobs'[w][l] = jobs[w][l] /\ jobs'[w][l] # Decode(r)
                   \/ l = Len(jobs[w]) + 1 /\ jobs'[w][l] = Decode(r)
        BY <1>3, <1>7, <3>1
      <4>2. CASE jobs'[w][i] = Decode(r)
        BY <2>2, <4>1, <4>2
      <4>3. CASE jobs'[w][i] # Decode(r)
        <5>1. /\ i \in 1..Len(jobs[w]) /\ jobs'[w][i] = jobs[w][i]
              /\ k \in 1..Len(jobs[w]) /\ jobs'[w][k] = jobs[w][k]
          BY <2>2, <4>1, <4>3
        <5> QED BY <1>0, <2>2, <5>1 DEF DecodedOnce, IsDecode
      <4> QED BY <4>2, <4>3
    <3>2. CASE w # Home[r]
      BY <1>0, <1>3, <2>2, <3>2 DEF DecodedOnce, IsDecode
    <3> QED BY <3>1, <3>2
  <2>3. ASSUME NEW q \in Requests, Decode(q) \in busy' PROVE req'[q] = "decoding"
    BY <1>0, <1>2, <1>8, <2>3 DEF DecodedOnce
  <2> QED BY <2>1, <2>2, <2>3 DEF DecodedOnce, IsDecode
<1> QED BY <1>4, <1>5, <1>10 DEF IInv

LEMMA StartJobInv ==
    ASSUME IInv, NEW w \in Workers, StartJob(w), batch' = batch
    PROVE  IInv'
<1>0. TypeOK /\ SleepersWait /\ DecodedOnce /\ AnsweredWhenDone /\ Held
  BY DEF IInv
<1>1. jobs[w] \in Seq(Jobs) /\ jobs[w] # <<>>
  BY <1>0 DEF TypeOK, StartJob
<1>2. /\ 1 \in 1..Len(jobs[w]) /\ Head(jobs[w]) = jobs[w][1] /\ jobs[w][1] \in Jobs
      /\ Tail(jobs[w]) = RemoveAt(jobs[w], 1)
  <2>1. /\ 1 \in 1..Len(jobs[w]) /\ Head(jobs[w]) = jobs[w][1]
        /\ Tail(jobs[w]) = RemoveAt(jobs[w], 1)
    BY <1>1, FirstRemoved
  <2> QED BY <1>1, <2>1
<1>3. /\ jobs' = [jobs EXCEPT ![w] = RemoveAt(@, 1)]
      /\ busy' = busy \cup {jobs[w][1]}
      /\ hung' \subseteq hung \cup {jobs[w][1]}
      /\ UNCHANGED <<isAsync, req, outcome, permits, sleepers>>
  BY <1>2 DEF StartJob
<1>4. jobs' \in [Workers -> Seq(Jobs)] /\ DecodedOnce'
  BY <1>0, <1>2, <1>3, TakenOut
<1>5. TypeOK'
  BY <1>0, <1>2, <1>3, <1>4 DEF TypeOK
<1>6. SleepersWait' /\ AnsweredWhenDone'
  BY <1>0, <1>3 DEF SleepersWait, AnsweredWhenDone
<1>7. Held'
  <2>1. ASSUME NEW v \in Workers PROVE HoldersAt(v)' = HoldersAt(v)
    BY <1>3 DEF HoldersAt
  <2> QED BY <1>0, <1>3, <2>1, SameHolders
<1> QED BY <1>4, <1>5, <1>6, <1>7 DEF IInv

LEMMA DecodedInv ==
    ASSUME IInv, NEW r \in Requests, Decoded(r) \/ DecodeRaises(r), batch' = batch
    PROVE  IInv'
<1>0. TypeOK /\ DecodedOnce
  BY DEF IInv
<1> DEFINE to == IF Decoded(r) THEN "limited" ELSE "done"
<1>1. /\ Decode(r) \in busy /\ busy' = busy \ {Decode(r)}
      /\ req' = [req EXCEPT ![r] = to] /\ to \in {"limited", "done"}
      /\ outcome' = outcome \/ (to = "done" /\ outcome' = [outcome EXCEPT ![r] = "raised"])
      /\ UNCHANGED <<isAsync, permits, sleepers, jobs, hung>>
  BY DEF Decoded, DecodeRaises
<1> HIDE DEF to
<1>2. req[r] = "decoding"
  BY <1>0, <1>1 DEF DecodedOnce
<1>3. TypeOK'
  BY <1>0, <1>1 DEF TypeOK
<1>4. SleepersWait' /\ AnsweredWhenDone' /\ Held'
  BY <1>1, <1>2, QuietStep
<1>5. ASSUME NEW q \in Requests, q # r PROVE req'[q] = req[q]
  BY <1>0, <1>1, <1>5 DEF TypeOK
<1>6. ASSUME NEW w \in Workers, NEW i \in 1..Len(jobs[w]), IsDecode(w, i)
      PROVE  jobs[w][i].of \in Requests \ {r}
  <2>1. jobs[w][i] \in Jobs
    BY <1>0 DEF TypeOK
  <2>2. jobs[w][i].of = r => jobs[w][i] = Decode(r)
    BY <1>6, <2>1 DEF Jobs, Decode, IsDecode
  <2>3. jobs[w][i] \notin busy
    BY <1>0, <1>6 DEF DecodedOnce
  <2>4. jobs[w][i].of \in Requests
    BY <2>1 DEF Jobs
  <2> QED BY <1>1, <2>2, <2>3, <2>4
<1>7. DecodedOnce'
  <2>1. ASSUME NEW q \in Requests, Decode(q) \in busy' PROVE req'[q] = "decoding"
    <3>1. q # r /\ Decode(q) \in busy
      BY <1>1, <2>1
    <3> QED BY <1>0, <1>5, <3>1 DEF DecodedOnce
  <2>2. ASSUME NEW w \in Workers, NEW i \in 1..Len(jobs[w]), IsDecode(w, i)
        PROVE  req'[jobs[w][i].of] = "decoding" /\ jobs[w][i] \notin busy'
    BY <1>0, <1>1, <1>5, <1>6, <2>2 DEF DecodedOnce
  <2> QED BY <1>0, <1>1, <2>1, <2>2 DEF DecodedOnce, IsDecode
<1> QED BY <1>3, <1>4, <1>7 DEF IInv

LEMMA EnterSemaphoreInv ==
    ASSUME IInv, NEW r \in Requests, EnterSemaphore(r), batch' = batch
    PROVE  IInv'
<1> DEFINE w == Home[r]
<1>0. TypeOK /\ SleepersWait /\ DecodedOnce /\ AnsweredWhenDone /\ Held
  BY DEF IInv
<1>1. w \in Workers /\ sleepers[w] \in Seq(Requests) /\ permits[w] \in 0..MaxConcurrent
      /\ MaxConcurrent \in Nat /\ Len(sleepers[w]) \in Nat
  BY <1>0, LimiterAssumption DEF TypeOK, Workers
<1>2. req[r] = "limited" /\ UNCHANGED <<isAsync, outcome, jobs, busy, hung>>
  BY DEF EnterSemaphore
<1>3. /\ permits[w] + Cardinality(HoldersAt(w)) = MaxConcurrent
      /\ sleepers[w] # <<>> => permits[w] = 0
  BY <1>0, <1>1 DEF Held
<1>4. ASSUME NEW w2 \in Workers, NEW i \in 1..Len(sleepers[w2])
      PROVE  sleepers[w2][i] \in Requests \ {r}
  BY <1>0, <1>2 DEF SleepersWait, TypeOK
<1>5. ASSUME NEW v \in Workers, NEW i \in 1..Len(jobs[v]) PROVE jobs[v][i].of \in Requests
  BY <1>0, QueuedJob
<1>6. CASE Admits(w)
  <2>1. /\ permits' = [permits EXCEPT ![w] = @ - 1]
        /\ req' = [req EXCEPT ![r] = "admitted"]
        /\ sleepers' = sleepers /\ permits[w] > 0 /\ sleepers[w] = <<>>
    BY <1>6 DEF EnterSemaphore, Admits
  <2>2. TypeOK'
    BY <1>0, <1>1, <1>2, <2>1 DEF TypeOK
  <2>3. SleepersWait' /\ AnsweredWhenDone'
    <3>1. SleepersWait'
      <4>1. \A q \in Requests : req[q] = "waiting" <=> req'[q] = "waiting"
        BY <1>0, <1>2, <2>1 DEF TypeOK
      <4> QED BY <1>0, <2>1, <4>1, SleepersKept
    <3>2. AnsweredWhenDone'
      BY <1>0, <1>2, <2>1 DEF AnsweredWhenDone, TypeOK
    <3> QED BY <3>1, <3>2
  <2>4. DecodedOnce'
    <3>1. \A q \in Requests : req[q] = "decoding" => req'[q] = "decoding"
      BY <1>0, <1>2, <2>1 DEF TypeOK
    <3> QED BY <1>0, <1>2, <1>5, <3>1, DecodingKept
  <2>5. ASSUME NEW v \in Workers
        PROVE  /\ permits'[v] + Cardinality(HoldersAt(v))' = MaxConcurrent
               /\ sleepers'[v] # <<>> => permits'[v] = 0
    <3>1. CASE v = w
      <4>1. HoldersAt(w)' = HoldersAt(w) \cup {r} /\ r \notin HoldersAt(w)
        BY <1>0, <1>2, <2>1 DEF HoldersAt, TypeOK
      <4>2. Cardinality(HoldersAt(w))' = Cardinality(HoldersAt(w)) + 1
        BY <4>1, HoldersFinite, FS_AddElement
      <4>3. permits'[w] = permits[w] - 1
        BY <1>0, <1>1, <2>1 DEF TypeOK
      <4> QED BY <1>1, <1>3, <2>1, <3>1, <4>2, <4>3, HoldersFinite
    <3>2. CASE v # w
      <4>1. HoldersAt(v)' = HoldersAt(v) /\ permits'[v] = permits[v]
        BY <1>0, <2>1, <3>2 DEF HoldersAt, TypeOK
      <4> QED BY <1>0, <2>1, <4>1 DEF Held
    <3> QED BY <3>1, <3>2
  <2> QED BY <2>2, <2>3, <2>4, <2>5 DEF IInv, Held
<1>7. CASE ~Admits(w)
  <2>1. /\ sleepers' = [sleepers EXCEPT ![w] = Append(@, r)]
        /\ req' = [req EXCEPT ![r] = "waiting"]
        /\ permits' = permits
    BY <1>7 DEF EnterSemaphore
  <2>2. /\ Append(sleepers[w], r) \in Seq(Requests)
        /\ Len(Append(sleepers[w], r)) = Len(sleepers[w]) + 1
        /\ Append(sleepers[w], r)[Len(sleepers[w]) + 1] = r
        /\ \A i \in 1..Len(sleepers[w]) : Append(sleepers[w], r)[i] = sleepers[w][i]
    BY <1>1
  <2>3. /\ sleepers' \in [Workers -> Seq(Requests)] /\ sleepers'[w] = Append(sleepers[w], r)
        /\ \A v \in Workers \ {w} : sleepers'[v] = sleepers[v]
    BY <1>0, <1>1, <2>1, <2>2 DEF TypeOK
  <2>4. req'[r] = "waiting" /\ \A q \in Requests \ {r} : req'[q] = req[q]
    BY <1>0, <2>1 DEF TypeOK
  <2>5. TypeOK'
    BY <1>0, <1>2, <2>1, <2>3 DEF TypeOK
  <2>6. SleepersWait'
    <3>1. ASSUME NEW v \in Workers, NEW i \in 1..Len(sleepers'[v])
          PROVE  \/ i \in 1..Len(sleepers[v]) /\ sleepers'[v][i] = sleepers[v][i]
                 \/ v = w /\ i = Len(sleepers[w]) + 1 /\ sleepers'[v][i] = r
      <4>1. CASE v = w
        <5>1. Len(sleepers'[w]) = Len(sleepers[w]) + 1 /\ sleepers'[w][Len(sleepers[w]) + 1] = r
              /\ \A k \in 1..Len(sleepers[w]) : sleepers'[w][k] = sleepers[w][k]
          BY <1>1, <2>2, <2>3
        <5> HIDE DEF w
        <5> QED BY <1>1, <4>1, <5>1
      <4>2. CASE v # w
        BY <2>3, <4>2
      <4> QED BY <4>1, <4>2
    <3> HIDE DEF w
    <3>2. ASSUME NEW v \in Workers, NEW i \in 1..Len(sleepers'[v])
          PROVE  Home[sleepers'[v][i]] = v /\ req'[sleepers'[v][i]] = "waiting"
      BY <1>0, <1>4, <2>4, <3>1 DEF SleepersWait, w
    <3>3. ASSUME NEW v \in Workers, NEW i \in 1..Len(sleepers'[v]), NEW k \in 1..Len(sleepers'[v]),
                 sleepers'[v][i] = sleepers'[v][k]
          PROVE  i = k
      BY <1>0, <1>4, <3>1, <3>3 DEF SleepersWait
    <3>4. ASSUME NEW q \in Requests, req'[q] = "waiting"
          PROVE  \E i \in 1..Len(sleepers'[Home[q]]) : sleepers'[Home[q]][i] = q
      <4>1. CASE q = r
        <5>1. Len(sleepers[w]) + 1 \in 1..Len(sleepers'[w]) /\ sleepers'[w][Len(sleepers[w]) + 1] = r
          BY <1>1, <2>2, <2>3
        <5> QED BY <4>1, <5>1 DEF w
      <4>2. CASE q # r
        <5>1. req[q] = "waiting" /\ Home[q] \in Workers
          BY <2>4, <3>4, <4>2, LimiterAssumption DEF Workers
        <5>2. PICK i \in 1..Len(sleepers[Home[q]]) : sleepers[Home[q]][i] = q
          BY <1>0, <5>1 DEF SleepersWait
        <5>3. i \in 1..Len(sleepers'[Home[q]]) /\ sleepers'[Home[q]][i] = q
          <6>1. CASE Home[q] = w
            BY <1>1, <2>2, <2>3, <5>2, <6>1
          <6>2. CASE Home[q] # w
            BY <2>3, <5>1, <5>2, <6>2
          <6> QED BY <6>1, <6>2
        <5> QED BY <5>3
      <4> QED BY <4>1, <4>2
    <3> QED BY <3>2, <3>3, <3>4 DEF SleepersWait
  <2>7. AnsweredWhenDone'
    BY <1>0, <1>2, <2>1 DEF AnsweredWhenDone, TypeOK
  <2>8. DecodedOnce'
    <3>1. \A q \in Requests : req[q] = "decoding" => req'[q] = "decoding"
      BY <1>2, <2>4
    <3> QED BY <1>0, <1>2, <1>5, <3>1, DecodingKept
  <2>9. permits[w] = 0
    BY <1>1, <1>3, <1>7 DEF Admits
  <2>10. ASSUME NEW v \in Workers
         PROVE  /\ permits'[v] + Cardinality(HoldersAt(v))' = MaxConcurrent
                /\ sleepers'[v] # <<>> => permits'[v] = 0
    <3>1. HoldersAt(v)' = HoldersAt(v)
      BY <1>2, <2>4 DEF HoldersAt
    <3> QED BY <1>0, <2>1, <2>3, <2>9, <3>1 DEF Held
  <2> QED BY <2>5, <2>6, <2>7, <2>8, <2>10 DEF IInv, Held
<1> QED BY <1>6, <1>7

LEMMA ComputeInv ==
    ASSUME IInv, NEW r \in Requests, Compute(r), batch' = batch
    PROVE  IInv'
<1>0. TypeOK /\ SleepersWait /\ DecodedOnce /\ AnsweredWhenDone /\ Held
  BY DEF IInv
<1>1. /\ req[r] = "admitted" /\ req' = [req EXCEPT ![r] = "computing"]
      /\ UNCHANGED <<isAsync, outcome, permits, sleepers, busy, hung>>
  BY DEF Compute
<1>2. Score(r) \in Jobs /\ Score(r).kind # "decode" /\ Score(r).of = r
  BY DEF Score, Jobs
<1>3. \A q \in Requests : req[q] = "decoding" => req'[q] = "decoding"
  BY <1>0, <1>1 DEF TypeOK
<1>4. jobs' \in [Workers -> Seq(Jobs)] /\ DecodedOnce'
  <2>1. CASE jobs' = jobs
    <3>1. ASSUME NEW v \in Workers, NEW i \in 1..Len(jobs[v]) PROVE jobs[v][i].of \in Requests
      BY <1>0, QueuedJob
    <3> QED BY <1>0, <1>1, <1>3, <2>1, <3>1, DecodingKept DEF TypeOK
  <2>2. CASE jobs' = [jobs EXCEPT ![Home[r]] = Append(@, Score(r))]
    <3>1. /\ jobs' \in [Workers -> Seq(Jobs)] /\ Home[r] \in Workers
          /\ \A w \in Workers \ {Home[r]} : jobs'[w] = jobs[w]
          /\ LET q == jobs[Home[r]]
                 new == jobs'[Home[r]]
             IN  /\ Len(q) \in Nat /\ Len(new) = Len(q) + 1 /\ new[Len(q) + 1] = Score(r)
                 /\ \A i \in 1..Len(q) : new[i] = q[i] /\ i \in 1..Len(new)
                 /\ \A i \in 1..Len(new) : i \in 1..Len(q) \/ i = Len(q) + 1
      BY <1>0, <1>2, <2>2, Appended
    <3>2. ASSUME NEW w \in Workers, NEW i \in 1..Len(jobs'[w])
          PROVE  \/ i \in 1..Len(jobs[w]) /\ jobs'[w][i] = jobs[w][i] /\ jobs[w][i] \in Jobs
                 \/ w = Home[r] /\ jobs'[w][i] = Score(r)
      <4>1. CASE w = Home[r]
        BY <1>0, <3>1, <4>1 DEF TypeOK
      <4>2. CASE w # Home[r]
        BY <1>0, <3>1, <4>2 DEF TypeOK
      <4> QED BY <4>1, <4>2
    <3>3. ASSUME NEW w \in Workers, NEW i \in 1..Len(jobs'[w])
          PROVE  /\ Home[jobs'[w][i].of] = w
                 /\ jobs'[w][i].kind = "decode" =>
                       req'[jobs'[w][i].of] = "decoding" /\ jobs'[w][i] \notin busy'
      <4>1. CASE i \in 1..Len(jobs[w]) /\ jobs'[w][i] = jobs[w][i] /\ jobs[w][i] \in Jobs
        <5>1. jobs[w][i].of \in Requests
          BY <4>1 DEF Jobs
        <5> QED BY <1>0, <1>1, <1>3, <4>1, <5>1 DEF DecodedOnce, IsDecode
      <4>2. CASE w = Home[r] /\ jobs'[w][i] = Score(r)
        BY <1>2, <4>2
      <4> QED BY <3>2, <4>1, <4>2
    <3>4. ASSUME NEW w \in Workers, NEW i \in 1..Len(jobs'[w]), NEW k \in 1..Len(jobs'[w]),
                 jobs'[w][i].kind = "decode", jobs'[w][i] = jobs'[w][k]
          PROVE  i = k
      BY <1>0, <1>2, <3>2, <3>4 DEF DecodedOnce, IsDecode
    <3>5. \A q \in Requests : Decode(q) \in busy' => req'[q] = "decoding"
      BY <1>0, <1>1, <1>3 DEF DecodedOnce
    <3> QED BY <3>1, <3>3, <3>4, <3>5 DEF DecodedOnce, IsDecode
  <2> QED BY <2>1, <2>2 DEF Compute
<1>5. TypeOK'
  BY <1>0, <1>1, <1>4 DEF TypeOK
<1>6. SleepersWait'
  <2>1. \A q \in Requests : req[q] = "waiting" <=> req'[q] = "waiting"
    BY <1>0, <1>1 DEF TypeOK
  <2> QED BY <1>0, <1>1, <2>1, SleepersKept
<1>7. AnsweredWhenDone'
  BY <1>0, <1>1 DEF AnsweredWhenDone, TypeOK
<1>8. Held'
  <2>1. ASSUME NEW v \in Workers PROVE HoldersAt(v)' = HoldersAt(v)
    BY <1>0, <1>1 DEF HoldersAt, TypeOK
  <2> QED BY <1>0, <1>1, <2>1, SameHolders
<1> QED BY <1>4, <1>5, <1>6, <1>7, <1>8 DEF IInv

(* A request that computed leaves, and at most its job ends.               *)
LEMMA AnswerInv ==
    ASSUME IInv, NEW r \in Requests, req[r] = "computing",
           NEW result \in {"score", "timeout", "error"}, Leave(r, result),
           busy' \subseteq busy, jobs' = jobs, UNCHANGED <<isAsync, hung>>, batch' = batch
    PROVE  IInv'
<1>0. TypeOK /\ DecodedOnce
  BY DEF IInv
<1>1. /\ req' \in [Requests ->
            {"none", "decoding", "limited", "waiting", "admitted", "computing", "done"}]
      /\ outcome' \in [Requests -> {"none", "score", "timeout", "error", "raised"}]
      /\ permits' \in [Workers -> 0..MaxConcurrent]
      /\ sleepers' \in [Workers -> Seq(Requests)]
      /\ SleepersWait' /\ AnsweredWhenDone' /\ Held'
      /\ \A q \in Requests : req[q] = "decoding" <=> req'[q] = "decoding"
  BY LeaveInv
<1>2. TypeOK'
  BY <1>0, <1>1 DEF TypeOK
<1>3. ASSUME NEW w \in Workers, NEW i \in 1..Len(jobs[w]) PROVE jobs[w][i].of \in Requests
  BY <1>0, QueuedJob
<1>4. DecodedOnce'
  BY <1>0, <1>1, <1>3, DecodingKept
<1> QED BY <1>1, <1>2, <1>4 DEF IInv

LEMMA TimesOutInv ==
    ASSUME IInv, NEW r \in Requests, TimesOut(r), batch' = batch
    PROVE  IInv'
<1>0. TypeOK /\ DecodedOnce
  BY DEF IInv
<1>1. req[r] = "computing" /\ Leave(r, "timeout") /\ UNCHANGED <<isAsync, busy, hung>>
  BY DEF TimesOut
<1>2. CASE jobs' = jobs
  BY <1>1, <1>2, AnswerInv
<1>3. ASSUME NEW i \in DOMAIN jobs[Home[r]],
             jobs' = [jobs EXCEPT ![Home[r]] = RemoveAt(@, i)]
      PROVE  IInv'
  <2>1. Home[r] \in Workers
    BY LimiterAssumption DEF Workers
  <2>2. i \in 1..Len(jobs[Home[r]])
    BY <1>0, <1>3, <2>1 DEF TypeOK
  <2>3. /\ req' \in [Requests ->
              {"none", "decoding", "limited", "waiting", "admitted", "computing", "done"}]
        /\ outcome' \in [Requests -> {"none", "score", "timeout", "error", "raised"}]
        /\ permits' \in [Workers -> 0..MaxConcurrent]
        /\ sleepers' \in [Workers -> Seq(Requests)]
        /\ SleepersWait' /\ AnsweredWhenDone' /\ Held'
        /\ \A q \in Requests : req[q] = "decoding" <=> req'[q] = "decoding"
    BY <1>1, LeaveInv
  <2>4. jobs' \in [Workers -> Seq(Jobs)] /\ DecodedOnce'
    BY <1>0, <1>1, <1>3, <2>1, <2>2, <2>3, TakenOut
  <2>5. TypeOK'
    BY <1>0, <1>1, <2>3, <2>4 DEF TypeOK
  <2> QED BY <2>3, <2>4, <2>5 DEF IInv
<1> QED BY <1>2, <1>3 DEF TimesOut

LEMMA ThreadEndsInv ==
    ASSUME IInv, NEW r \in Requests, ThreadEnds(r), batch' = batch
    PROVE  IInv'
<1>0. TypeOK /\ SleepersWait /\ DecodedOnce /\ AnsweredWhenDone /\ Held
  BY DEF IInv
<1>1. busy' \subseteq busy /\ UNCHANGED <<isAsync, jobs, hung>>
  BY DEF ThreadEnds
<1>2. CASE Awaited(r)
  <2>1. PICK result \in Results : Leave(r, result)
    BY <1>2 DEF ThreadEnds
  <2>2. req[r] = "computing" /\ result \in {"score", "timeout", "error"}
    BY <1>2 DEF Awaited, Results
  <2> QED BY <1>1, <2>1, <2>2, AnswerInv
<1>3. CASE ~Awaited(r)
  <2>1. UNCHANGED <<req, outcome, permits, sleepers>>
    BY <1>3 DEF ThreadEnds
  <2>2. TypeOK'
    BY <1>0, <1>1, <2>1 DEF TypeOK
  <2>3. SleepersWait' /\ AnsweredWhenDone'
    BY <1>0, <2>1 DEF SleepersWait, AnsweredWhenDone
  <2>4. DecodedOnce'
    <3>1. ASSUME NEW w \in Workers, NEW i \in 1..Len(jobs[w]) PROVE jobs[w][i].of \in Requests
      BY <1>0, QueuedJob
    <3> QED BY <1>0, <1>1, <2>1, <3>1, DecodingKept
  <2>5. Held'
    <3>1. ASSUME NEW v \in Workers PROVE HoldersAt(v)' = HoldersAt(v)
      BY <2>1 DEF HoldersAt
    <3> QED BY <1>0, <2>1, <3>1, SameHolders
  <2> QED BY <2>2, <2>3, <2>4, <2>5 DEF IInv
<1> QED BY <1>2, <1>3

(* What the manager does touches no limiter.                               *)
LEMMA ManagerInv ==
    ASSUME IInv, UNCHANGED limiterVars, batch' \in {"running", "scored", "raised"}
    PROVE  IInv'
<1>0. TypeOK /\ SleepersWait /\ DecodedOnce /\ AnsweredWhenDone /\ Held
  BY DEF IInv
<1>1. TypeOK' /\ SleepersWait' /\ AnsweredWhenDone'
  BY <1>0 DEF limiterVars, TypeOK, SleepersWait, AnsweredWhenDone
<1>2. DecodedOnce'
  BY <1>0 DEF limiterVars, DecodedOnce, IsDecode
<1>3. Held'
  <2>1. ASSUME NEW v \in Workers PROVE HoldersAt(v)' = HoldersAt(v)
    BY DEF limiterVars, HoldersAt
  <2> QED BY <1>0, <2>1, SameHolders DEF limiterVars
<1> QED BY <1>1, <1>2, <1>3 DEF IInv

LEMMA NextInv == IInv /\ [Next]_vars => IInv'
<1> SUFFICES ASSUME IInv, [Next]_vars PROVE IInv'
  OBVIOUS
<1>1. ASSUME NEW r \in Requests, batch' = batch, Arrive(r) \/ Run(r) PROVE IInv'
  <2>1. CASE CoroutineEnds(r)
    <3>1. PICK result \in Results : Leave(r, result)
      BY <2>1 DEF CoroutineEnds
    <3>2. req[r] = "computing" /\ result \in {"score", "timeout", "error"}
          /\ UNCHANGED <<isAsync, jobs, busy, hung>>
      BY <2>1 DEF CoroutineEnds, Results
    <3> QED BY <1>1, <3>1, <3>2, AnswerInv
  <2> QED BY <1>1, <2>1, ArriveInv, DecodedInv, EnterSemaphoreInv, ComputeInv,
             ThreadEndsInv, TimesOutInv DEF Run
<1>2. ASSUME NEW w \in Workers, batch' = batch, StartJob(w) PROVE IInv'
  BY <1>2, StartJobInv
<1>3. CASE Assemble \/ PassOnException
  BY <1>3, ManagerInv DEF Assemble, PassOnException
<1>4. CASE UNCHANGED vars
  BY <1>4, ManagerInv DEF vars, IInv, TypeOK
<1> QED BY <1>1, <1>2, <1>3, <1>4 DEF Next, LimiterNext, Finished
-------------------------------------------------------------------------------
LEMMA Invariant == Spec => []IInv
BY InitInv, NextInv, PTL DEF Spec

(* RateLimitedRewardManager keeps every variable in its type: the          *)
(* semaphore never has more permits than it began with, nor fewer than 0.  *)
THEOREM TypeCorrect == Spec => []TypeOK
BY Invariant, PTL DEF IInv

(* Every permit is free or held by one request, and none is free while a   *)
(* request waits at that semaphore (RewardBatch!PermitsAccounted).         *)
THEOREM PermitsAccountedHolds == Spec => []PermitsAccounted
<1>1. IInv => PermitsAccounted
  <2> SUFFICES ASSUME IInv PROVE PermitsAccounted
    OBVIOUS
  <2>1. TypeOK /\ SleepersWait /\ Held
    BY DEF IInv
  <2>2. ASSUME NEW r \in Requests
        PROVE  req[r] = "waiting" <=>
                  \E i \in 1..Len(sleepers[Home[r]]) : sleepers[Home[r]][i] = r
    <3>1. Home[r] \in Workers
      BY LimiterAssumption DEF Workers
    <3> QED BY <2>1, <3>1 DEF SleepersWait
  <2> QED BY <2>1, <2>2 DEF PermitsAccounted, Held
<1> QED BY <1>1, Invariant, PTL

(* An answer, once given, is never replaced: a thread that ends after its  *)
(* request timed out changes nothing (RewardBatch!AnsweredOnce).           *)
THEOREM AnsweredOnceHolds == Spec => AnsweredOnce
<1> DEFINE Kept == \A r \in Requests : outcome[r] # "none" => outcome'[r] = outcome[r]
<1>1. IInv /\ [Next]_vars => [Kept]_vars
  <2> SUFFICES ASSUME IInv, Next PROVE Kept
    BY DEF Next
  <2>1. ASSUME NEW r \in Requests, NEW result \in {"score", "timeout", "error"},
               req[r] = "computing", Leave(r, result)
        PROVE  Kept
    BY <2>1, LeaveInv
  <2>2. ASSUME NEW r \in Requests, CoroutineEnds(r) PROVE Kept
    BY <2>1, <2>2 DEF CoroutineEnds, Results
  <2>3. ASSUME NEW r \in Requests, ThreadEnds(r) PROVE Kept
    BY <2>1, <2>3 DEF ThreadEnds, Awaited, Results
  <2>4. ASSUME NEW r \in Requests, TimesOut(r) PROVE Kept
    BY <2>1, <2>4 DEF TimesOut
  <2>5. CASE outcome' = outcome
    BY <2>5
  <2>6. ASSUME NEW r \in Requests, DecodeRaises(r) PROVE Kept
    <3>1. req[r] = "decoding" /\ outcome[r] = "none"
      BY <2>6 DEF DecodeRaises, IInv, DecodedOnce, AnsweredWhenDone
    <3> QED BY <2>6, <3>1 DEF DecodeRaises, IInv, TypeOK
  <2>7. ASSUME NEW r \in Requests, Arrive(r) \/ Run(r) PROVE Kept
    BY <2>2, <2>3, <2>4, <2>5, <2>7, <2>6
       DEF Arrive, Run, Decoded, EnterSemaphore, Compute
  <2> HIDE DEF Kept
  <2> QED BY <2>5, <2>7 DEF Next, LimiterNext, StartJob, Assemble, PassOnException, Finished, limiterVars, vars
<1> QED BY <1>1, Invariant, PTL DEF Spec, AnsweredOnce

(***************************************************************************)
(* The two-stage rollout. Its invariant has four parts, each stated below  *)
(* and kept by every step:                                                 *)
(*   - RowsInv: the rows in every phase, what they were made from, and     *)
(*     that nothing which goes on bears the trace of what has ended;       *)
(*   - LookupsInv: what is kept by the trace of a row is of that row;      *)
(*   - GroupsInv: the train points fall into groups, of rounds gone by;    *)
(*   - HistoryInv: the histories of the rows, by their traces.             *)
(* The steps are first put in terms of the sets of rows they move          *)
(* (BackboneMoves, PolicyMoves, FinalMoves, RestMoves), so that each part  *)
(* is proved about those and never about the sequences of the code.        *)
(***************************************************************************)

(* Sequences. FlattenSeq joins one sequence after the other; every place   *)
(* of the result is one place of one of them.                              *)
Joins(joined, ss, n) ==
    joined = [i \in 1..n |-> IF i = 1 THEN ss[i] ELSE joined[i - 1] \o ss[i]]

Cells(ss, n) == {c \in Nat \X Nat : c[1] \in 1..n /\ c[2] \in 1..Len(ss[c[1]])}

(* f says which place of ss each place of t is.                            *)
Places(t, ss, n, f) ==
    /\ f \in [1..Len(t) -> Cells(ss, n)]
    /\ \A k \in 1..Len(t) : t[k] = ss[f[k][1]][f[k][2]]
    /\ \A k, m \in 1..Len(t) : f[k] = f[m] => k = m
    /\ \A c \in Cells(ss, n) : \E k \in 1..Len(t) : f[k] = c

(* A set of naturals has a least element.                                  *)
LEMMA LeastOf ==
    ASSUME NEW T, T \subseteq Nat, T # {}
    PROVE  \E x \in T : \A y \in T : x <= y
<1>1. PICK x \in T : \A y \in T : <<y, x>> \notin OpToRel(<, Nat)
  BY WFMin, NatLessThanWellFounded, Zenon
<1>2. ASSUME NEW y \in T PROVE ~(y < x)
  BY <1>1, <1>2, Zenon DEF OpToRel
<1> QED BY <1>2

LEMMA JoinsExist ==
    ASSUME NEW ss, NEW n \in Nat \ {0}
    PROVE  \E joined : Joins(joined, ss, n)
<1> DEFINE T == {m \in Nat \ {0} : ~\E joined : Joins(joined, ss, m)}
<1>1. ASSUME T # {} PROVE FALSE
  <2>1. PICK m \in T : \A k \in T : m <= k
    BY <1>1, LeastOf
  <2>2. m # 1
    <3> DEFINE first == [i \in 1..1 |-> ss[1]]
    <3>1. first = [i \in 1..1 |-> IF i = 1 THEN ss[i] ELSE first[i - 1] \o ss[i]]
      OBVIOUS
    <3>2. Joins(first, ss, 1)
      <4> HIDE DEF first
      <4> QED BY <3>1 DEF Joins
    <3> QED BY <2>1, <3>2
  <2>3. PICK before : Joins(before, ss, m - 1)
    <3>1. m - 1 \in Nat \ {0} /\ m - 1 \notin T
      BY <2>1, <2>2
    <3> QED BY <3>1
  <2>4. before = [i \in 1..(m - 1) |-> IF i = 1 THEN ss[i] ELSE before[i - 1] \o ss[i]]
    BY <2>3 DEF Joins
  <2> DEFINE joined == [i \in 1..m |-> IF i = m THEN before[m - 1] \o ss[m] ELSE before[i]]
  <2>5. ASSUME NEW i \in 1..m
        PROVE  joined[i] = IF i = 1 THEN ss[i] ELSE joined[i - 1] \o ss[i]
    <3>1. m \in Nat \ {0, 1}
      BY <2>1, <2>2
    <3>2. CASE i = m
      <4>1. i # 1 /\ i \in 1..m /\ i - 1 \in 1..m /\ i - 1 # m
        BY <3>1, <3>2
      <4>2. joined[i] = before[m - 1] \o ss[m] /\ joined[i - 1] = before[i - 1]
        BY <3>2, <4>1
      <4> QED BY <3>2, <4>1, <4>2
    <3>3. CASE i # m
      <4>1. i \in 1..(m - 1) /\ joined[i] = before[i] /\ (i # 1 => i - 1 \in 1..m /\ i - 1 # m)
        BY <3>1, <3>3
      <4>2. before[i] = IF i = 1 THEN ss[i] ELSE before[i - 1] \o ss[i]
        BY <2>4, <4>1
      <4> QED BY <4>1, <4>2
    <3> QED BY <3>2, <3>3
  <2>6. joined = [i \in 1..m |-> joined[i]]
    OBVIOUS
  <2> HIDE DEF joined
  <2>7. joined = [i \in 1..m |-> IF i = 1 THEN ss[i] ELSE joined[i - 1] \o ss[i]]
    BY <2>5, <2>6
  <2>8. Joins(joined, ss, m)
    BY <2>7 DEF Joins
  <2> QED BY <2>1, <2>8
<1> QED BY <1>1

LEMMA JoinedPlaces ==
    ASSUME NEW S, NEW ss, NEW n \in Nat, \A i \in 1..n : ss[i] \in Seq(S),
           NEW joined, Joins(joined, ss, n), NEW m \in 1..n
    PROVE  joined[m] \in Seq(S) /\ \E f : Places(joined[m], ss, m, f)
<1> DEFINE Placed(i) == joined[i] \in Seq(S) /\ \E f : Places(joined[i], ss, i, f)
           T == {i \in 1..n : ~Placed(i)}
<1>1. ASSUME T # {} PROVE FALSE
  <2>1. PICK i \in T : \A k \in T : i <= k
    <3> HIDE DEF Placed
    <3>1. T \subseteq Nat
      OBVIOUS
    <3> QED BY <1>1, <3>1, LeastOf
  <2>2. i \in 1..n /\ ~Placed(i)
    BY <2>1
  <2>3. joined[i] = IF i = 1 THEN ss[i] ELSE joined[i - 1] \o ss[i]
    BY <2>2, Zenon DEF Joins
  <2>4. ss[i] \in Seq(S) /\ Len(ss[i]) \in Nat
    BY <2>2, LenProperties
  <2>5. CASE i = 1
    <3> DEFINE t == joined[1]
               f == [k \in 1..Len(t) |-> <<1, k>>]
    <3>1. t = ss[1] /\ t \in Seq(S) /\ Len(t) \in Nat
      BY <2>3, <2>4, <2>5
    <3>2. f \in [1..Len(t) -> Cells(ss, 1)]
      BY <3>1 DEF Cells
    <3>3. \A c \in Cells(ss, 1) : c = <<1, c[2]>> /\ c[2] \in 1..Len(t)
      BY <3>1 DEF Cells
    <3>4. \A k \in 1..Len(t) : f[k] = <<1, k>>
      OBVIOUS
    <3> HIDE DEF f
    <3>5. \A k \in 1..Len(t) : f[k][1] = 1 /\ f[k][2] = k
      BY <3>4
    <3>6. \A k, m2 \in 1..Len(t) : f[k] = f[m2] => k = m2
      BY <3>5
    <3>7. \A c \in Cells(ss, 1) : \E k \in 1..Len(t) : f[k] = c
      BY <3>3, <3>4
    <3>8. Places(t, ss, 1, f)
      BY <3>1, <3>2, <3>5, <3>6, <3>7 DEF Places
    <3> QED BY <2>2, <2>5, <3>1, <3>8
  <2>6. CASE i # 1
    <3> DEFINE s == joined[i - 1]
               u == ss[i]
               t == joined[i]
    <3>1. i - 1 \in 1..n /\ i - 1 \in Nat /\ i \in Nat /\ Placed(i - 1)
      BY <2>1, <2>2, <2>6
    <3>2. PICK g : Places(s, ss, i - 1, g)
      BY <3>1
    <3>3. s \in Seq(S) /\ u \in Seq(S) /\ t = s \o u
      BY <2>3, <2>4, <2>6, <3>1
    <3> DEFINE p == Len(s)
               q == Len(u)
    <3>4. /\ p \in Nat /\ q \in Nat /\ t \in Seq(S) /\ Len(t) = p + q
          /\ \A k \in 1..p : t[k] = s[k]
          /\ \A k \in 1..(p + q) : k > p => t[k] = u[k - p]
      <4> HIDE DEF s, u, t
      <4>1. p \in Nat /\ q \in Nat
        BY <3>3, LenProperties
      <4> QED BY <3>3, <4>1, ConcatProperties
    <3> HIDE DEF Placed, T, s, u, t, p, q
    <3> DEFINE f == [k \in 1..(p + q) |-> IF k <= p THEN g[k] ELSE <<i, k - p>>]
    <3>5. \A k \in 1..p : g[k] \in Cells(ss, i - 1) /\ s[k] = ss[g[k][1]][g[k][2]]
      BY <3>2 DEF Places, p
    <3>6. \A c \in Cells(ss, i - 1) : c \in Cells(ss, i) /\ c[1] < i
      BY <3>1 DEF Cells
    <3>7. \A k \in 1..(p + q) : IF k <= p THEN f[k] = g[k] /\ k \in 1..p
                                ELSE f[k] = <<i, k - p>> /\ k - p \in 1..q
      BY <3>4
    <3> HIDE DEF f
    <3>8. \A k \in 1..(p + q) : ~(k <= p) => f[k][1] = i /\ f[k][2] = k - p /\ f[k] \in Cells(ss, i)
      <4> TAKE k \in 1..(p + q)
      <4> HAVE ~(k <= p)
      <4>1. f[k] = <<i, k - p>> /\ k - p \in 1..q
        BY <3>7
      <4>2. i \in 1..i /\ k - p \in Nat
        BY <3>1, <4>1
      <4> QED BY <3>1, <4>1, <4>2 DEF Cells, u, q
    <3>9. \A k \in 1..(p + q) : f[k] \in Cells(ss, i) /\ t[k] = ss[f[k][1]][f[k][2]]
      <4> TAKE k \in 1..(p + q)
      <4>1. CASE k <= p
        BY <3>4, <3>5, <3>6, <3>7, <4>1
      <4>2. CASE ~(k <= p)
        <5>1. t[k] = u[k - p] /\ f[k][1] = i /\ f[k][2] = k - p /\ f[k] \in Cells(ss, i)
          BY <3>4, <3>8, <4>2
        <5> QED BY <5>1 DEF u
      <4> QED BY <4>1, <4>2
    <3>10. f \in [1..(p + q) -> Cells(ss, i)]
      BY <3>9 DEF f
    <3>11. \A k, m2 \in 1..(p + q) : f[k] = f[m2] => k = m2
      <4> TAKE k, m2 \in 1..(p + q)
      <4> HAVE f[k] = f[m2]
      <4>1. (k <= p) <=> (m2 <= p)
        BY <3>5, <3>6, <3>7, <3>8, <3>1 DEF Cells
      <4>2. CASE k <= p
        BY <3>2, <3>7, <4>1, <4>2 DEF Places, p
      <4>3. CASE ~(k <= p)
        BY <3>4, <3>8, <4>1, <4>3
      <4> QED BY <4>2, <4>3
    <3>12. \A c \in Cells(ss, i) : \E k \in 1..(p + q) : f[k] = c
      <4> TAKE c \in Cells(ss, i)
      <4>1. c \in Nat \X Nat /\ c[1] \in 1..i /\ c[2] \in 1..Len(ss[c[1]]) /\ c = <<c[1], c[2]>>
        BY DEF Cells
      <4>2. CASE c[1] = i
        <5>1. c[2] \in 1..q /\ p + c[2] \in 1..(p + q) /\ ~(p + c[2] <= p) /\ (p + c[2]) - p = c[2]
          <6>1. c[2] \in 1..q
            BY <4>1, <4>2 DEF u, q
          <6>2. c[2] \in Nat
            BY <4>1
          <6> HIDE <4>2
          <6> QED BY <3>4, <6>1, <6>2
        <5>2. f[p + c[2]] = <<i, c[2]>>
          BY <3>7, <5>1
        <5> QED BY <4>1, <4>2, <5>1, <5>2
      <4>3. CASE c[1] # i
        <5>1. c \in Cells(ss, i - 1)
          BY <3>1, <4>1, <4>3 DEF Cells
        <5>2. PICK k \in 1..p : g[k] = c
          BY <3>2, <5>1 DEF Places, p
        <5>3. k \in 1..(p + q) /\ k <= p
          BY <3>4
        <5> QED BY <3>7, <5>2, <5>3
      <4> QED BY <4>2, <4>3
    <3>13. Places(t, ss, i, f)
      BY <3>4, <3>9, <3>10, <3>11, <3>12 DEF Places
    <3>14. Placed(i)
      BY <3>4, <3>13 DEF Placed, t
    <3> QED BY <2>2, <3>14
  <2> QED BY <2>5, <2>6
<1> QED BY <1>1

(* What FlattenSeq returns.                                                *)
LEMMA FlattenPlaces ==
    ASSUME NEW S, NEW n \in Nat, NEW ss, ss \in [1..n -> Seq(S)]
    PROVE  FlattenSeq(ss) \in Seq(S) /\ \E f : Places(FlattenSeq(ss), ss, n, f)
<1>1. Len(ss) = n /\ DOMAIN ss = 1..n
  BY SeqDef, LenProperties
<1>2. CASE n = 0
  <2>1. FlattenSeq(ss) = ss
    BY <1>1, <1>2 DEF FlattenSeq
  <2>2. ss = <<>> /\ ss \in Seq(S) /\ 1..Len(ss) = {} /\ Cells(ss, n) = {}
    BY <1>1, <1>2 DEF Cells
  <2>3. Places(ss, ss, n, <<>>)
    <3>1. <<>> \in [1..Len(ss) -> Cells(ss, n)]
      BY <2>2
    <3> QED BY <2>2, <3>1 DEF Places
  <2> QED BY <2>1, <2>2, <2>3
<1>3. CASE n # 0
  <2> DEFINE joined == CHOOSE x : Joins(x, ss, n)
  <2>1. FlattenSeq(ss) = joined[n]
    BY <1>1, <1>3 DEF FlattenSeq, Joins
  <2>2. Joins(joined, ss, n)
    BY <1>3, JoinsExist
  <2> HIDE DEF joined
  <2>3. n \in 1..n /\ \A i \in 1..n : ss[i] \in Seq(S)
    BY <1>3
  <2> QED BY <2>1, <2>2, <2>3, JoinedPlaces
<1> QED BY <1>2, <1>3

-----------------------------------------------------------------------------
(* What joining, picking and appending keep.                               *)
Distinct(s) == \A i, k \in 1..Len(s) : s[i].trace = s[k].trace => i = k

TracesOf(rows) == {r.trace : r \in rows}

(* t is what s has at the places I, f says at which.                       *)
Picks(t, s, I, f) ==
    /\ f \in [1..Len(t) -> I]
    /\ \A k \in 1..Len(t) : t[k] = s[f[k]]
    /\ \A k, m \in 1..Len(t) : f[k] = f[m] => k = m
    /\ \A i \in I : \E k \in 1..Len(t) : f[k] = i

LEMMA FlattenRows ==
    ASSUME NEW S, NEW n \in Nat, NEW ss, ss \in [1..n -> Seq(S)]
    PROVE  /\ \A x : x \in Rows(FlattenSeq(ss)) <=> \E i \in 1..n : x \in Rows(ss[i])
           /\ (/\ \A i \in 1..n : Distinct(ss[i])
               /\ \A i, j \in 1..n : \A x \in Rows(ss[i]), y \in Rows(ss[j]) : x.trace = y.trace => i = j)
              => Distinct(FlattenSeq(ss))
<1> DEFINE t == FlattenSeq(ss)
<1>1. PICK f : Places(t, ss, n, f)
  BY FlattenPlaces
<1> HIDE DEF t
<1>2. \A k \in 1..Len(t) :
          /\ f[k] \in Nat \X Nat /\ f[k] = <<f[k][1], f[k][2]>>
          /\ f[k][1] \in 1..n /\ f[k][2] \in 1..Len(ss[f[k][1]])
          /\ t[k] = ss[f[k][1]][f[k][2]] /\ t[k] \in Rows(ss[f[k][1]])
  <2> TAKE k \in 1..Len(t)
  <2>1. f[k] \in Cells(ss, n) /\ t[k] = ss[f[k][1]][f[k][2]]
    BY <1>1 DEF Places
  <2>2. f[k] \in Nat \X Nat /\ f[k][1] \in 1..n /\ f[k][2] \in 1..Len(ss[f[k][1]])
    BY <2>1 DEF Cells
  <2> QED BY <2>1, <2>2 DEF Rows
<1>3. \A x \in Rows(t) : \E i \in 1..n : x \in Rows(ss[i])
  BY <1>2 DEF Rows
<1>4. ASSUME NEW i \in 1..n, NEW x \in Rows(ss[i]) PROVE x \in Rows(t)
  <2>1. PICK j \in 1..Len(ss[i]) : x = ss[i][j]
    BY DEF Rows
  <2>2. ss[i] \in Seq(S) /\ Len(ss[i]) \in Nat
    BY LenProperties
  <2>3. <<i, j>> \in Cells(ss, n)
    BY <2>2 DEF Cells
  <2>4. PICK k \in 1..Len(t) : f[k] = <<i, j>>
    BY <1>1, <2>3 DEF Places
  <2>5. t[k] = ss[i][j]
    BY <1>2, <2>4
  <2> QED BY <2>1, <2>5 DEF Rows
<1>5. ASSUME \A i \in 1..n : Distinct(ss[i]),
             \A i, j \in 1..n : \A x \in Rows(ss[i]), y \in Rows(ss[j]) : x.trace = y.trace => i = j,
             NEW k \in 1..Len(t), NEW m \in 1..Len(t), t[k].trace = t[m].trace
      PROVE  k = m
  <2>1. f[k][1] = f[m][1]
    <3>1. /\ f[k][1] \in 1..n /\ t[k] \in Rows(ss[f[k][1]])
          /\ f[m][1] \in 1..n /\ t[m] \in Rows(ss[f[m][1]])
      BY <1>2
    <3> QED BY <1>5, <3>1
  <2>2. f[k][2] = f[m][2]
    <3> DEFINE i == f[k][1]
    <3>1. /\ f[k][2] \in 1..Len(ss[i]) /\ t[k] = ss[i][f[k][2]] /\ i \in 1..n
          /\ f[m][2] \in 1..Len(ss[i]) /\ t[m] = ss[i][f[m][2]]
      BY <1>2, <2>1
    <3>2. Distinct(ss[i])
      BY <1>5, <3>1
    <3> HIDE DEF i
    <3> QED BY <1>5, <3>1, <3>2 DEF Distinct
  <2>3. f[k] = f[m]
    BY <1>2, <2>1, <2>2
  <2> QED BY <1>1, <2>3 DEF Places
<1>6. (/\ \A i \in 1..n : Distinct(ss[i])
       /\ \A i, j \in 1..n : \A x \in Rows(ss[i]), y \in Rows(ss[j]) : x.trace = y.trace => i = j)
      => Distinct(t)
  BY <1>5 DEF Distinct
<1> QED BY <1>3, <1>4, <1>6 DEF t

LEMMA Picked ==
    ASSUME NEW S, NEW s \in Seq(S), NEW I \in SUBSET (1..Len(s)), NEW ss,
           ss = [i \in 1..Len(s) |-> IF i \in I THEN <<s[i]>> ELSE <<>>]
    PROVE  FlattenSeq(ss) \in Seq(S) /\ \E f : Picks(FlattenSeq(ss), s, I, f)
<1> DEFINE n == Len(s)
           t == FlattenSeq(ss)
<1>1. n \in Nat /\ \A i \in 1..n : s[i] \in S
  BY LenProperties, ElementOfSeq
<1>2. /\ ss \in [1..n -> Seq(S)]
      /\ \A i \in 1..n : IF i \in I THEN ss[i] = <<s[i]>> ELSE ss[i] = <<>>
  BY <1>1
<1>3. t \in Seq(S) /\ \E f : Places(t, ss, n, f)
  BY <1>1, <1>2, FlattenPlaces
<1>4. PICK f : Places(t, ss, n, f)
  BY <1>3
<1> HIDE DEF t, n
<1>5. \A c \in Cells(ss, n) : c[1] \in I /\ c = <<c[1], 1>> /\ ss[c[1]][c[2]] = s[c[1]]
  <2> TAKE c \in Cells(ss, n)
  <2>1. c \in Nat \X Nat /\ c[1] \in 1..n /\ c[2] \in 1..Len(ss[c[1]])
    BY DEF Cells
  <2>2. ss[c[1]] = <<s[c[1]]>> /\ c[1] \in I
    BY <1>2, <2>1
  <2>3. c[2] = 1
    BY <2>1, <2>2
  <2> QED BY <2>1, <2>2, <2>3
<1>6. \A i \in I : <<i, 1>> \in Cells(ss, n)
  <2> TAKE i \in I
  <2>1. i \in 1..n /\ ss[i] = <<s[i]>>
    BY <1>2 DEF n
  <2> QED BY <1>1, <2>1 DEF Cells
<1> DEFINE g == [k \in 1..Len(t) |-> f[k][1]]
<1>7. \A k \in 1..Len(t) : f[k] \in Cells(ss, n) /\ t[k] = ss[f[k][1]][f[k][2]]
  BY <1>4 DEF Places
<1>8. g \in [1..Len(t) -> I]
  BY <1>5, <1>7
<1>9. \A k \in 1..Len(t) : g[k] = f[k][1]
  OBVIOUS
<1> HIDE DEF g
<1>10. \A k \in 1..Len(t) : t[k] = s[g[k]] /\ f[k] = <<g[k], 1>>
  BY <1>5, <1>7, <1>9
<1>11. \A k, m \in 1..Len(t) : g[k] = g[m] => k = m
  <2> TAKE k, m \in 1..Len(t)
  <2> HAVE g[k] = g[m]
  <2>1. f[k] = f[m]
    BY <1>10
  <2> QED BY <1>4, <2>1 DEF Places
<1>12. \A i \in I : \E k \in 1..Len(t) : g[k] = i
  <2> TAKE i \in I
  <2>1. PICK k \in 1..Len(t) : f[k] = <<i, 1>>
    BY <1>4, <1>6 DEF Places
  <2> QED BY <1>9, <2>1
<1>13. Picks(t, s, I, g)
  BY <1>8, <1>10, <1>11, <1>12 DEF Picks
<1> QED BY <1>3, <1>13 DEF t

LEMMA PickedRows ==
    ASSUME NEW t, NEW s, NEW I \in SUBSET (1..Len(s)), \E f : Picks(t, s, I, f)
    PROVE  /\ Rows(t) = {s[i] : i \in I}
           /\ Distinct(s) => Distinct(t)
<1>1. PICK f : Picks(t, s, I, f)
  OBVIOUS
<1>2. \A k \in 1..Len(t) : f[k] \in I /\ f[k] \in 1..Len(s) /\ t[k] = s[f[k]]
  BY <1>1 DEF Picks
<1>3. \A i \in I : \E k \in 1..Len(t) : t[k] = s[i]
  BY <1>1 DEF Picks
<1>4. Rows(t) = {s[i] : i \in I}
  BY <1>2, <1>3 DEF Rows
<1>5. ASSUME Distinct(s), NEW k \in 1..Len(t), NEW m \in 1..Len(t), t[k].trace = t[m].trace PROVE k = m
  <2>1. f[k] = f[m]
    BY <1>2, <1>5 DEF Distinct
  <2> QED BY <1>1, <2>1 DEF Picks
<1> QED BY <1>4, <1>5 DEF Distinct

(* What the rows in P of s are, and how many.                              *)
LEMMA ThoseFacts ==
    ASSUME NEW S, NEW s \in Seq(S), NEW P
    PROVE  /\ Those(s, P) \in Seq(S)
           /\ Rows(Those(s, P)) = Rows(s) \cap P
           /\ Distinct(s) => Distinct(Those(s, P))
           /\ IsFiniteSet({i \in 1..Len(s) : s[i] \in P})
           /\ Len(Those(s, P)) = Cardinality({i \in 1..Len(s) : s[i] \in P})
<1> DEFINE I == {i \in 1..Len(s) : s[i] \in P}
           ss == [i \in 1..Len(s) |-> IF s[i] \in P THEN <<s[i]>> ELSE <<>>]
           t == FlattenSeq(ss)
<1>1. ss = [i \in 1..Len(s) |-> IF i \in I THEN <<s[i]>> ELSE <<>>]
  OBVIOUS
<1>2. Those(s, P) = t
  BY DEF Those
<1>3. I \in SUBSET (1..Len(s))
  OBVIOUS
<1>4. t \in Seq(S) /\ \E f : Picks(t, s, I, f)
  <2> HIDE DEF I, ss
  <2> QED BY <1>1, <1>3, Picked
<1>5. Rows(t) = {s[i] : i \in I} /\ (Distinct(s) => Distinct(t))
  <2> HIDE DEF I, t
  <2> QED BY <1>3, <1>4, PickedRows
<1>6. {s[i] : i \in I} = Rows(s) \cap P
  BY DEF Rows
<1>7. PICK f : Picks(t, s, I, f)
  BY <1>4
<1>8. Len(t) \in Nat /\ Len(s) \in Nat
  <2> HIDE DEF t
  <2> QED BY <1>4, LenProperties
<1> HIDE DEF t, I
<1>9. f \in Bijection(1..Len(t), I)
  BY <1>7 DEF Picks, Bijection, Injection, Surjection, IsInjective
<1>10. IsFiniteSet(1..Len(t)) /\ Cardinality(1..Len(t)) = Len(t)
  <2>1. 1 \in Int /\ Len(t) \in Int
    BY <1>8
  <2>2. IsFiniteSet(1..Len(t)) /\ Cardinality(1..Len(t)) = IF 1 > Len(t) THEN 0 ELSE Len(t) - 1 + 1
    BY <2>1, FS_Interval, Zenon
  <2> QED BY <1>8, <2>2
<1>11. IsFiniteSet(I) /\ Cardinality(I) = Len(t)
  BY <1>9, <1>10, FS_Bijection DEF ExistsBijection
<1> QED BY <1>2, <1>4, <1>5, <1>6, <1>11 DEF I

LEMMA ConcatRows ==
    ASSUME NEW S, NEW s \in Seq(S), NEW t \in Seq(S)
    PROVE  /\ s \o t \in Seq(S)
           /\ Rows(s \o t) = Rows(s) \cup Rows(t)
           /\ Distinct(s) /\ Distinct(t) /\ TracesOf(Rows(s)) \cap TracesOf(Rows(t)) = {} => Distinct(s \o t)
<1> DEFINE u == s \o t
<1>1. Len(s) \in Nat /\ Len(t) \in Nat /\ u \in Seq(S) /\ Len(u) = Len(s) + Len(t)
  BY LenProperties, ConcatProperties
<1>2. \A k \in 1..Len(u) : IF k <= Len(s) THEN u[k] = s[k] /\ k \in 1..Len(s)
                                          ELSE u[k] = t[k - Len(s)] /\ k - Len(s) \in 1..Len(t)
  BY <1>1, ConcatProperties
<1>3. /\ \A k \in 1..Len(s) : k \in 1..Len(u) /\ u[k] = s[k]
      /\ \A k \in 1..Len(t) : k + Len(s) \in 1..Len(u) /\ u[k + Len(s)] = t[k]
  BY <1>1, ConcatProperties
<1> HIDE DEF u
<1>4. Rows(u) = Rows(s) \cup Rows(t)
  <2>1. \A x \in Rows(u) : x \in Rows(s) \cup Rows(t)
    BY <1>2 DEF Rows
  <2>2. \A x \in Rows(s) \cup Rows(t) : x \in Rows(u)
    BY <1>3 DEF Rows
  <2> QED BY <2>1, <2>2
<1>5. ASSUME Distinct(s), Distinct(t), TracesOf(Rows(s)) \cap TracesOf(Rows(t)) = {},
             NEW k \in 1..Len(u), NEW m \in 1..Len(u), u[k].trace = u[m].trace
      PROVE  k = m
  <2>1. \A x \in Rows(s), y \in Rows(t) : x.trace # y.trace
    BY <1>5 DEF TracesOf
  <2>2. \A i \in 1..Len(s), j \in 1..Len(t) : s[i].trace # t[j].trace
    BY <2>1 DEF Rows
  <2>3. (k <= Len(s)) <=> (m <= Len(s))
    BY <1>2, <1>5, <2>2
  <2>4. CASE k <= Len(s)
    BY <1>2, <1>5, <2>3, <2>4 DEF Distinct
  <2>5. CASE ~(k <= Len(s))
    <3>1. k - Len(s) = m - Len(s)
      BY <1>2, <1>5, <2>3, <2>5 DEF Distinct
    <3> QED BY <1>1, <3>1
  <2> QED BY <2>4, <2>5
<1> QED BY <1>1, <1>4, <1>5 DEF u, Distinct

-----------------------------------------------------------------------------
(* Traces. A chain is the trace of an input or of a branch; the trace of a *)
(* query is a chain with the query at its end.                             *)
Parts == {"root", "branch", "query", "round"} \X Nat \X Nat

Traces == Seq(Parts) \ {<<>>}

Chains == {t \in Traces : t[Len(t)][1] \in {"root", "branch"}}

Of(t, g) == t = g \/ \E q \in Nat : t = Append(g, <<"query", q, 0>>)

(* All branches of the trace are of rounds before k.                       *)
Before(t, k) ==
    \A i \in 1..Len(t) : t[i][1] # "round" /\ (t[i][1] = "branch" => t[i][2] < k)

LEMMA Extended ==
    ASSUME NEW t \in Traces, NEW p \in Parts
    PROVE  /\ Append(t, p) \in Traces /\ Append(t, p) # t
           /\ Len(Append(t, p)) = Len(t) + 1 /\ Len(t) \in Nat
           /\ Append(t, p)[Len(t) + 1] = p
           /\ \A i \in 1..Len(t) : Append(t, p)[i] = t[i]
<1>1. t \in Seq(Parts) /\ Len(t) \in Nat
  BY LenProperties DEF Traces
<1>2. /\ Append(t, p) \in Seq(Parts) /\ Append(t, p) # <<>> /\ Len(Append(t, p)) = Len(t) + 1
      /\ \A i \in 1..Len(t) : Append(t, p)[i] = t[i]
      /\ Append(t, p)[Len(t) + 1] = p
  BY <1>1, AppendProperties
<1>3. Append(t, p) # t
  BY <1>1, <1>2
<1> QED BY <1>1, <1>2, <1>3 DEF Traces

LEMMA SameExtension ==
    ASSUME NEW t \in Traces, NEW u \in Traces, NEW p \in Parts, NEW q \in Parts,
           Append(t, p) = Append(u, q)
    PROVE  t = u /\ p = q
<1>1. t \in Seq(Parts) /\ u \in Seq(Parts)
  BY DEF Traces
<1> QED BY <1>1, AppendInjective

LEMMA RootFacts ==
    ASSUME NEW i \in Nat
    PROVE  /\ Root(i) \in Chains
           /\ \A k \in Nat : Before(Root(i), k)
           /\ \A j \in Nat : Root(i) = Root(j) => i = j
<1>1. Root(i) \in Seq(Parts) /\ Len(Root(i)) = 1 /\ Root(i)[1] = <<"root", i, 0>>
  BY DEF Root, Parts
<1>2. \A j \in Nat : Root(j)[1] = <<"root", j, 0>>
  BY DEF Root
<1> QED BY <1>1, <1>2 DEF Chains, Traces, Before

LEMMA QueryFacts ==
    ASSUME NEW g \in Chains, NEW q \in Nat
    PROVE  /\ <<"query", q, 0>> \in Parts
           /\ Append(g, <<"query", q, 0>>) \in Traces \ Chains
<1>1. g \in Traces /\ <<"query", q, 0>> \in Parts
  BY DEF Chains, Parts
<1>2. /\ Append(g, <<"query", q, 0>>) \in Traces
      /\ Append(g, <<"query", q, 0>>)[Len(Append(g, <<"query", q, 0>>))] = <<"query", q, 0>>
  BY <1>1, Extended
<1>3. <<"query", q, 0>>[1] \notin {"root", "branch"}
  OBVIOUS
<1> QED BY <1>1, <1>2, <1>3 DEF Chains

LEMMA OfUnique ==
    ASSUME NEW g \in Chains, NEW h \in Chains, NEW t, Of(t, g), Of(t, h)
    PROVE  g = h
<1>1. g \in Traces /\ h \in Traces
  BY DEF Chains
<1>2. CASE t = g
  BY <1>2, QueryFacts DEF Of
<1>3. ASSUME NEW q \in Nat, t = Append(g, <<"query", q, 0>>) PROVE g = h
  <2>1. t # h
    BY <1>3, QueryFacts
  <2>2. PICK r \in Nat : t = Append(h, <<"query", r, 0>>)
    BY <2>1 DEF Of
  <2> QED BY <1>1, <1>3, <2>2, QueryFacts, SameExtension
<1> QED BY <1>2, <1>3 DEF Of

LEMMA OfChain ==
    ASSUME NEW g \in Chains, NEW t \in Chains, Of(t, g)
    PROVE  t = g
  BY QueryFacts DEF Of

LEMMA CompositeFacts ==
    ASSUME config.rolloutN \in Nat \ {0}, round \in Nat, NEW p \in Chains, NEW b \in 1..config.rolloutN
    PROVE  /\ Composite(p, b) \in Chains
           /\ config.rolloutN = 1 => Composite(p, b) = p /\ b = 1
           /\ config.rolloutN > 1 => Composite(p, b) = Append(p, <<"branch", round, b>>)
           /\ <<"branch", round, b>> \in Parts
<1>1. p \in Traces /\ <<"branch", round, b>> \in Parts
  BY DEF Chains, Parts
<1>2. /\ Append(p, <<"branch", round, b>>) \in Traces
      /\ Append(p, <<"branch", round, b>>)[Len(Append(p, <<"branch", round, b>>))] = <<"branch", round, b>>
  BY <1>1, Extended
<1>3. Append(p, <<"branch", round, b>>) \in Chains
  <2>1. <<"branch", round, b>>[1] \in {"root", "branch"}
    OBVIOUS
  <2> QED BY <1>2, <2>1 DEF Chains
<1> QED BY <1>1, <1>3 DEF Composite

LEMMA CompositeInjective ==
    ASSUME config.rolloutN \in Nat \ {0}, round \in Nat,
           NEW p \in Chains, NEW b \in 1..config.rolloutN,
           NEW q \in Chains, NEW c \in 1..config.rolloutN, Composite(p, b) = Composite(q, c)
    PROVE  p = q /\ b = c
<1>1. CASE config.rolloutN = 1
  BY <1>1, CompositeFacts
<1>2. CASE config.rolloutN # 1
  <2>1. Append(p, <<"branch", round, b>>) = Append(q, <<"branch", round, c>>)
    <3>1. config.rolloutN > 1
      BY <1>2
    <3>2. Composite(p, b) = Append(p, <<"branch", round, b>>)
      BY <3>1, CompositeFacts
    <3>3. Composite(q, c) = Append(q, <<"branch", round, c>>)
      BY <3>1, CompositeFacts
    <3> QED BY <3>2, <3>3
  <2>2. p \in Traces /\ q \in Traces /\ <<"branch", round, b>> \in Parts /\ <<"branch", round, c>> \in Parts
    BY CompositeFacts DEF Chains
  <2>3. p = q /\ <<"branch", round, b>> = <<"branch", round, c>>
    BY <2>1, <2>2, SameExtension
  <2> QED BY <2>3
<1> QED BY <1>1, <1>2

(* A branch that is new in this round has a trace of its own, as do its    *)
(* queries.                                                                *)
LEMMA NewBranch ==
    ASSUME config.rolloutN \in Nat, config.rolloutN > 1, round \in Nat,
           NEW p \in Chains, NEW b \in 1..config.rolloutN,
           NEW t, Of(t, Composite(p, b))
    PROVE  ~Before(t, round)
<1> DEFINE g == Append(p, <<"branch", round, b>>)
<1>1. Composite(p, b) = g /\ g \in Chains /\ p \in Traces /\ <<"branch", round, b>> \in Parts
  <2>1. config.rolloutN \in Nat \ {0}
    OBVIOUS
  <2>2. Composite(p, b) = g /\ Composite(p, b) \in Chains /\ <<"branch", round, b>> \in Parts
    BY <2>1, CompositeFacts
  <2> QED BY <2>2 DEF Chains
<1>2. Len(p) \in Nat /\ Len(g) = Len(p) + 1 /\ g[Len(p) + 1] = <<"branch", round, b>> /\ g \in Traces
  BY <1>1, Extended
<1> HIDE DEF g
<1>3. Len(p) + 1 \in 1..Len(t) /\ t[Len(p) + 1] = <<"branch", round, b>>
  <2>1. CASE t = g
    BY <1>2, <2>1
  <2>2. ASSUME NEW q \in Nat, t = Append(g, <<"query", q, 0>>)
        PROVE  Len(p) + 1 \in 1..Len(t) /\ t[Len(p) + 1] = <<"branch", round, b>>
    <3>1. <<"query", q, 0>> \in Parts
      BY <1>1, QueryFacts
    <3>2. Len(t) = Len(g) + 1 /\ \A i \in 1..Len(g) : t[i] = g[i]
      BY <1>2, <2>2, <3>1, Extended
    <3> QED BY <1>2, <3>2
  <2> QED BY <1>1, <2>1, <2>2 DEF Of
<1>4. t[Len(p) + 1][1] = "branch" /\ ~(t[Len(p) + 1][2] < round)
  BY <1>3
<1> QED BY <1>3, <1>4 DEF Before

LEMMA BeforeLater ==
    ASSUME NEW t \in Traces, NEW k \in Nat, NEW m \in Nat, k <= m, Before(t, k)
    PROVE  Before(t, m)
<1>1. \A i \in 1..Len(t) : t[i] \in Parts
  BY DEF Traces
<1> QED BY <1>1 DEF Before, Parts

LEMMA BeforeExtended ==
    ASSUME NEW t \in Traces, NEW p \in Parts, NEW k \in Nat, Before(t, k),
           p[1] # "round", p[1] = "branch" => p[2] < k
    PROVE  Before(Append(t, p), k)
<1>1. \A i \in 1..Len(Append(t, p)) : i \in 1..Len(t) \/ i = Len(t) + 1
  BY Extended
<1> QED BY <1>1, Extended DEF Before

LEMMA PolicyTraceFacts ==
    ASSUME NEW g \in Chains, NEW c \in Nat, NEW q \in 1..c
    PROVE  /\ PolicyTrace(g, q, c) \in Traces
           /\ Of(PolicyTrace(g, q, c), g)
           /\ \A k \in Nat : Before(g, k) => Before(PolicyTrace(g, q, c), k)
<1>1. q \in Nat /\ g \in Traces /\ <<"query", q, 0>> \in Parts /\ Append(g, <<"query", q, 0>>) \in Traces
  BY QueryFacts DEF Chains
<1>2. ASSUME NEW k \in Nat, Before(g, k) PROVE Before(Append(g, <<"query", q, 0>>), k)
  <2>1. <<"query", q, 0>>[1] = "query"
    OBVIOUS
  <2> QED BY <1>1, <1>2, <2>1, BeforeExtended
<1> QED BY <1>1, <1>2 DEF PolicyTrace, Of

LEMMA PolicyTraceInjective ==
    ASSUME NEW g \in Chains, NEW c \in Nat \ {0}, NEW q \in 1..c,
           NEW h \in Chains, NEW d \in Nat \ {0}, NEW r \in 1..d,
           PolicyTrace(g, q, c) = PolicyTrace(h, r, d)
    PROVE  g = h /\ q = r
<1>1. g = h
  BY PolicyTraceFacts, OfUnique
<1>2. g \in Traces /\ <<"query", q, 0>> \in Parts /\ <<"query", r, 0>> \in Parts
  BY QueryFacts DEF Chains
<1>3. CASE c > 1 /\ d > 1
  BY <1>1, <1>2, <1>3, SameExtension DEF PolicyTrace
<1>4. CASE c > 1 /\ ~(d > 1)
  BY <1>1, <1>2, <1>4, Extended DEF PolicyTrace
<1>5. CASE ~(c > 1) /\ d > 1
  BY <1>1, <1>2, <1>5, Extended DEF PolicyTrace
<1>6. CASE ~(c > 1) /\ ~(d > 1)
  BY <1>1, <1>6
<1> QED BY <1>1, <1>3, <1>4, <1>5, <1>6

-----------------------------------------------------------------------------
(* The invariant: what rows and dictionaries look like in every phase.     *)
Inputs == 1..config.inputs

Branches == 1..config.rolloutN

PolicyRequests == Nat \X Traces

RowType == [trace : Chains, input : Inputs, past : SUBSET PolicyRequests]

PolicyRowType ==
    [trace : Traces, group : Chains, parent : Chains, input : Inputs,
     past : SUBSET PolicyRequests, query : Nat \ {0}, count : Nat \ {0}]

FinishedType ==
    [trace : Traces, input : Inputs, past : SUBSET PolicyRequests,
     by : {"backbone", "policy"}, at : Nat]

PointType == [input : Inputs, group : Traces, asked : Chains \X Nat \X Nat]

RowsTyped ==
    /\ config \in Configurations
    /\ round \in Rounds
    /\ phase \in {"backbone", "policy", "final", "restore", "done"}
    /\ remaining \in Seq(RowType)
    /\ running \in Seq(PolicyRowType)
    /\ finished \in Seq(FinishedType)

(* The policy has rows in its own phase only, the backbone in the others   *)
(* before the end.                                                         *)
InTurn ==
    /\ phase # "policy" => running = <<>>
    /\ phase \in {"policy", "restore", "done"} => remaining = <<>>

(* The dictionaries hold every trace there is, and none of a later round.  *)
NextRound == IF phase = "backbone" THEN round ELSE round + 1

TracesKnown ==
    /\ DOMAIN requests = DOMAIN chain
    /\ \A t \in DOMAIN requests : t \in Traces /\ Before(t, NextRound)
    /\ \A r \in Rows(remaining) : r.trace \in DOMAIN requests
    /\ \A r \in Rows(running) : r.trace \in DOMAIN requests /\ r.group \in DOMAIN requests
    /\ \A r \in Rows(finished) : r.trace \in DOMAIN requests

(* What a row of the policy was made from; its siblings run too.           *)
Parent(r) == [trace |-> r.parent, input |-> r.input, past |-> r.past]

RunsWhole ==
    \A r \in Rows(running) :
        /\ r.query \in 1..r.count
        /\ \E b \in Branches : r = PolicyRow(Parent(r), r.count, b, r.query)
        /\ \A b \in Branches, q \in 1..r.count : PolicyRow(Parent(r), r.count, b, q) \in Rows(running)

OfOneParent ==
    \A r, s \in Rows(running) : r.parent = s.parent => Parent(r) = Parent(s) /\ r.count = s.count

(* Nothing that goes on is what has ended, or a query of it.               *)
Live == {r.trace : r \in Rows(remaining)} \cup {r.group : r \in Rows(running)}

EndedApart ==
    /\ Distinct(remaining) /\ Distinct(running) /\ Distinct(finished)
    /\ \A r \in Rows(finished), g \in Live : ~Of(r.trace, g)

InputsKept ==
    Inputs = {r.input : r \in Rows(remaining) \cup Rows(running) \cup Rows(finished)}

(* A validation prunes nothing, and with one branch a chain is an input.   *)
Unpruned ==
    /\ config.validation => \A r \in Rows(finished) : r.by = "backbone"
    /\ config.rolloutN = 1 =>
          /\ \A r \in Rows(remaining) : r.trace = Root(r.input)
          /\ \A r \in Rows(running) : r.parent = Root(r.input)
          /\ \A r \in Rows(finished) : r.by = "backbone" => r.trace = Root(r.input)

RowsInv ==
    /\ RowsTyped /\ InTurn /\ TracesKnown /\ RunsWhole /\ OfOneParent
    /\ EndedApart /\ InputsKept /\ Unpruned

(* What the dictionaries say of a row.                                     *)
Found(r) ==
    /\ r.trace \in DOMAIN finalSource /\ finalSource[r.trace] = r.by
    /\ r.by = "policy" =>
          r.trace \in DOMAIN pairGroup /\ <<"round", r.at, 0>> \in Rows(pairGroup[r.trace])

LookupsInv ==
    /\ \A t \in DOMAIN finalSource : finalSource[t] \in {"backbone", "policy"}
    /\ \A r \in Rows(finished) : Found(r)
    /\ \A r \in Rows(running) :
          r.trace \in DOMAIN pairGroup /\ pairGroup[r.trace] = PairGroup(r.parent, r.query, r.count)

(* The groups of train points are of rounds gone by.                       *)
GroupsInv ==
    /\ points \in Seq(PointType)
    /\ GroupsComplete
    /\ phase \in {"backbone", "policy"} =>
          \A p \in Rows(points) : \A i \in 1..Len(p.group) :
              p.group[i][1] = "round" => p.group[i][2] < round

(* The history of what goes on, by its trace.                              *)
HistoryTyped ==
    \A t \in DOMAIN requests :
        requests[t] \in Seq(PolicyRequests) /\ chain[t] \in Seq({"backbone", "policy"} \X Nat)

Heeds(t, past) ==
    /\ Rows(requests[t]) = past
    /\ \A k \in 0..(NextRound - 1) : <<"backbone", k>> \in Rows(chain[t])

HistoryKept ==
    /\ \A r \in Rows(remaining) : Heeds(r.trace, r.past)
    /\ \A r \in Rows(running) : Heeds(r.trace, r.past) /\ Heeds(r.group, r.past)
    /\ \A r \in Rows(finished) : HasOwnHistory(r)

HistoryInv == HistoryTyped /\ (config.rolloutN > 1 => HistoryKept)

-----------------------------------------------------------------------------
(* What the backbone's output makes of the rows.                           *)
LEMMA ConfigTypes ==
    ASSUME RowsTyped
    PROVE  /\ config.inputs \in Nat /\ config.rolloutN \in Nat \ {0} /\ config.maxRounds \in Nat \ {0}
           /\ config.maxQueries \in Nat /\ config.validation \in BOOLEAN /\ config.emit \in BOOLEAN
           /\ round \in Nat /\ 1 \in Branches
<1>1. config \in [inputs : Nat, rolloutN : Nat \ {0}, maxRounds : Nat \ {0},
                  maxQueries : Nat, validation : BOOLEAN, emit : BOOLEAN]
  BY TwoStageAssumption DEF RowsTyped
<1>2. round \in Rounds
  BY DEF RowsTyped
<1> QED BY <1>1, <1>2 DEF Rounds, Branches

LEMMA RowsElements ==
    ASSUME NEW S, NEW s \in Seq(S)
    PROVE  /\ Rows(s) \subseteq S
           /\ \A i \in 1..Len(s) : s[i] \in S /\ s[i] \in Rows(s)
           /\ s = <<>> <=> Rows(s) = {}
<1>1. Len(s) \in Nat
  BY LenProperties
<1>2. \A i \in 1..Len(s) : s[i] \in S
  BY ElementOfSeq
<1>3. s # <<>> => 1 \in 1..Len(s)
  BY <1>1, EmptySeq
<1>4. s = <<>> => 1..Len(s) = {}
  OBVIOUS
<1> QED BY <1>2, <1>3, <1>4 DEF Rows

LEMMA PolicyRowFacts ==
    ASSUME RowsTyped, NEW p, p.trace \in Chains, p.input \in Inputs, p.past \in SUBSET PolicyRequests,
           NEW c \in Nat \ {0}, NEW b \in Branches, NEW q \in 1..c
    PROVE  /\ PolicyRow(p, c, b, q) \in PolicyRowType
           /\ PolicyRow(p, c, b, q).group = Composite(p.trace, b)
           /\ PolicyRow(p, c, b, q).trace = PolicyTrace(Composite(p.trace, b), q, c)
           /\ PolicyRow(p, c, b, q).parent = p.trace /\ PolicyRow(p, c, b, q).input = p.input
           /\ PolicyRow(p, c, b, q).past = p.past
           /\ PolicyRow(p, c, b, q).query = q /\ PolicyRow(p, c, b, q).count = c
           /\ Of(PolicyRow(p, c, b, q).trace, PolicyRow(p, c, b, q).group)
<1>1. config.rolloutN \in Nat \ {0} /\ round \in Nat
  BY ConfigTypes
<1>2. Composite(p.trace, b) \in Chains
  BY <1>1, CompositeFacts DEF Branches
<1>3. /\ PolicyTrace(Composite(p.trace, b), q, c) \in Traces
      /\ Of(PolicyTrace(Composite(p.trace, b), q, c), Composite(p.trace, b))
  BY <1>2, PolicyTraceFacts
<1>4. q \in Nat \ {0}
  OBVIOUS
<1> QED BY <1>2, <1>3, <1>4 DEF PolicyRow, PolicyRowType

LEMMA PolicyRowsDiffer ==
    ASSUME RowsTyped,
           NEW p, p.trace \in Chains, NEW c \in Nat \ {0}, NEW b \in Branches, NEW q \in 1..c,
           NEW u, u.trace \in Chains, NEW d \in Nat \ {0}, NEW e \in Branches, NEW r \in 1..d,
           PolicyRow(p, c, b, q).trace = PolicyRow(u, d, e, r).trace
    PROVE  p.trace = u.trace /\ b = e /\ q = r
<1>1. config.rolloutN \in Nat \ {0} /\ round \in Nat
  BY ConfigTypes
<1>2. Composite(p.trace, b) \in Chains /\ Composite(u.trace, e) \in Chains
  BY <1>1, CompositeFacts DEF Branches
<1>3. PolicyTrace(Composite(p.trace, b), q, c) = PolicyTrace(Composite(u.trace, e), r, d)
  BY DEF PolicyRow
<1>4. Composite(p.trace, b) = Composite(u.trace, e) /\ q = r
  BY <1>2, <1>3, PolicyTraceInjective
<1> QED BY <1>1, <1>4, CompositeInjective DEF Branches

LEMMA RowsOfFacts ==
    ASSUME RowsTyped, NEW p, p.trace \in Chains, p.input \in Inputs, p.past \in SUBSET PolicyRequests,
           NEW c \in Nat \ {0}
    PROVE  /\ RowsOf(p, c) \in Seq(PolicyRowType)
           /\ \A x : x \in Rows(RowsOf(p, c)) <=> \E b \in Branches, q \in 1..c : x = PolicyRow(p, c, b, q)
           /\ Distinct(RowsOf(p, c))
<1> DEFINE n == config.rolloutN
           ss == [b \in 1..n |-> [q \in 1..c |-> PolicyRow(p, c, b, q)]]
           S == PolicyRowType
<1>1. n \in Nat /\ 1..n = Branches
  BY ConfigTypes DEF Branches
<1>2. RowsOf(p, c) = FlattenSeq(ss)
  BY DEF RowsOf
<1>3. ASSUME NEW b \in Branches
      PROVE  /\ ss[b] \in Seq(S)
             /\ \A x : x \in Rows(ss[b]) <=> \E q \in 1..c : x = PolicyRow(p, c, b, q)
             /\ Distinct(ss[b])
  <2> DEFINE s == [q \in 1..c |-> PolicyRow(p, c, b, q)]
  <2>1. ss[b] = s
    BY <1>1
  <2>2. \A q \in 1..c : PolicyRow(p, c, b, q) \in S
    BY PolicyRowFacts
  <2>3. s \in Seq(S) /\ Len(s) = c
    BY <2>2, IsASeq
  <2>4. \A q \in 1..c : s[q] = PolicyRow(p, c, b, q)
    OBVIOUS
  <2> HIDE DEF s
  <2>5. \A x : x \in Rows(s) <=> \E q \in 1..c : x = PolicyRow(p, c, b, q)
    BY <2>3, <2>4 DEF Rows
  <2>6. Distinct(s)
    <3> SUFFICES ASSUME NEW q \in 1..c, NEW r \in 1..c, s[q].trace = s[r].trace PROVE q = r
      BY <2>3 DEF Distinct
    <3> QED BY <2>4, PolicyRowsDiffer
  <2> QED BY <2>1, <2>3, <2>5, <2>6
<1>4. ss \in [1..n -> Seq(S)]
  BY <1>1, <1>3
<1> HIDE DEF ss, n, S
<1>5. \A b, e \in 1..n : \A x \in Rows(ss[b]), y \in Rows(ss[e]) : x.trace = y.trace => b = e
  <2> SUFFICES ASSUME NEW b \in Branches, NEW e \in Branches,
                      NEW x \in Rows(ss[b]), NEW y \in Rows(ss[e]), x.trace = y.trace
               PROVE  b = e
    BY <1>1
  <2>1. PICK q \in 1..c : x = PolicyRow(p, c, b, q)
    BY <1>3
  <2>2. PICK r \in 1..c : y = PolicyRow(p, c, e, r)
    BY <1>3
  <2> QED BY <2>1, <2>2, PolicyRowsDiffer
<1>6. FlattenSeq(ss) \in Seq(S)
  BY <1>1, <1>4, FlattenPlaces
<1>7. /\ \A x : x \in Rows(FlattenSeq(ss)) <=> \E b \in 1..n : x \in Rows(ss[b])
      /\ Distinct(FlattenSeq(ss))
  <2>1. \A b \in 1..n : Distinct(ss[b])
    BY <1>1, <1>3
  <2> QED BY <1>1, <1>4, <1>5, <2>1, FlattenRows, Zenon
<1>8. \A x : x \in Rows(FlattenSeq(ss)) <=> \E b \in Branches, q \in 1..c : x = PolicyRow(p, c, b, q)
  <2> TAKE x
  <2>1. x \in Rows(FlattenSeq(ss)) <=> \E b \in Branches : x \in Rows(ss[b])
    BY <1>1, <1>7
  <2>2. \A b \in Branches : x \in Rows(ss[b]) <=> \E q \in 1..c : x = PolicyRow(p, c, b, q)
    BY <1>3
  <2> QED BY <2>1, <2>2
<1> QED BY <1>2, <1>6, <1>7, <1>8 DEF S

LEMMA CountType == ASSUME RowsTyped, MaxFound \in Nat, NEW f \in 0..MaxFound PROVE QueryCount(f) \in Nat \ {0}
<1>1. config.maxQueries \in Nat
  BY ConfigTypes
<1> QED BY <1>1 DEF QueryCount, Least

Outputs == [1..Len(remaining) -> {Answer} \cup 0..MaxFound]

LEMMA AskedFacts ==
    ASSUME RowsTyped, Distinct(remaining), NEW found \in Outputs
    PROVE  /\ AskedBy(found) \in Seq(PolicyRowType)
           /\ \A x : x \in Rows(AskedBy(found)) <=>
                 \E i \in 1..Len(remaining) :
                     /\ found[i] # Answer
                     /\ \E b \in Branches, q \in 1..QueryCount(found[i]) :
                            x = PolicyRow(remaining[i], QueryCount(found[i]), b, q)
           /\ Distinct(AskedBy(found))
           /\ \A i \in 1..Len(remaining) : found[i] # Answer => QueryCount(found[i]) \in Nat \ {0}
<1> DEFINE n == Len(remaining)
           c(i) == QueryCount(found[i])
           ss == [i \in 1..n |-> IF found[i] = Answer THEN <<>> ELSE RowsOf(remaining[i], c(i))]
           S == PolicyRowType
<1>1. n \in Nat /\ \A i \in 1..n : remaining[i] \in RowType
  BY LenProperties, ElementOfSeq DEF RowsTyped
<1>2. AskedBy(found) = FlattenSeq(ss)
  BY DEF AskedBy
<1>3. \A i \in 1..n : found[i] # Answer => c(i) \in Nat \ {0}
  BY CountType, TwoStageAssumption DEF Outputs
<1>4. \A i \in 1..n : /\ remaining[i].trace \in Chains /\ remaining[i].input \in Inputs
                      /\ remaining[i].past \in SUBSET PolicyRequests
  BY <1>1 DEF RowType
<1>5. \A i \in 1..n : found[i] # Answer => c(i) # 0 /\ ss[i] = RowsOf(remaining[i], c(i))
  BY <1>3
<1>6. \A i \in 1..n : found[i] = Answer => ss[i] = <<>>
  OBVIOUS
<1>7. DOMAIN ss = 1..n /\ ss = [i \in 1..n |-> ss[i]]
  OBVIOUS
<1> HIDE DEF c, ss, n, S
<1>8. ASSUME NEW i \in 1..n
      PROVE  /\ ss[i] \in Seq(S) /\ Distinct(ss[i])
             /\ \A x : x \in Rows(ss[i]) <=>
                   /\ found[i] # Answer
                   /\ \E b \in Branches, q \in 1..c(i) : x = PolicyRow(remaining[i], c(i), b, q)
  <2>1. CASE found[i] = Answer
    <3>1. ss[i] = <<>> /\ 1..Len(ss[i]) = {}
      BY <1>6, <2>1
    <3> QED BY <2>1, <3>1 DEF Rows, Distinct
  <2>2. CASE found[i] # Answer
    <3>1. c(i) \in Nat \ {0} /\ ss[i] = RowsOf(remaining[i], c(i))
      BY <1>3, <1>5, <2>2
    <3>2. /\ RowsOf(remaining[i], c(i)) \in Seq(S) /\ Distinct(RowsOf(remaining[i], c(i)))
          /\ \A x : x \in Rows(RowsOf(remaining[i], c(i))) <=>
                \E b \in Branches, q \in 1..c(i) : x = PolicyRow(remaining[i], c(i), b, q)
      BY <1>4, <3>1, RowsOfFacts DEF S
    <3> QED BY <2>2, <3>1, <3>2
  <2> QED BY <2>1, <2>2
<1>9. ss \in [1..n -> Seq(S)]
  BY <1>7, <1>8
<1>10. ASSUME NEW i \in 1..n, NEW j \in 1..n, NEW x \in Rows(ss[i]), NEW y \in Rows(ss[j]), x.trace = y.trace
       PROVE  i = j
  <2>1. PICK b \in Branches, q \in 1..c(i) : found[i] # Answer /\ x = PolicyRow(remaining[i], c(i), b, q)
    BY <1>8
  <2>2. PICK e \in Branches, r \in 1..c(j) : found[j] # Answer /\ y = PolicyRow(remaining[j], c(j), e, r)
    BY <1>8
  <2>3. c(i) \in Nat \ {0} /\ c(j) \in Nat \ {0}
    BY <1>3, <2>1, <2>2
  <2>4. remaining[i].trace = remaining[j].trace
    BY <1>4, <1>10, <2>1, <2>2, <2>3, PolicyRowsDiffer
  <2> QED BY <2>4 DEF Distinct, n
<1>11. FlattenSeq(ss) \in Seq(S)
  BY <1>1, <1>9, FlattenPlaces
<1>12. /\ \A x : x \in Rows(FlattenSeq(ss)) <=> \E i \in 1..n : x \in Rows(ss[i])
       /\ Distinct(FlattenSeq(ss))
  BY <1>1, <1>8, <1>9, <1>10, FlattenRows
<1>13. \A x : x \in Rows(FlattenSeq(ss)) <=>
           \E i \in 1..n :
               /\ found[i] # Answer
               /\ \E b \in Branches, q \in 1..c(i) : x = PolicyRow(remaining[i], c(i), b, q)
  <2> TAKE x
  <2>1. \A i \in 1..n : x \in Rows(ss[i]) <=>
            /\ found[i] # Answer
            /\ \E b \in Branches, q \in 1..c(i) : x = PolicyRow(remaining[i], c(i), b, q)
    BY <1>8
  <2>2. x \in Rows(FlattenSeq(ss)) <=> \E i \in 1..n : x \in Rows(ss[i])
    BY <1>12
  <2> HIDE DEF c
  <2> QED BY <2>1, <2>2, Zenon
<1> QED BY <1>2, <1>3, <1>11, <1>12, <1>13 DEF S, n, c

LEMMA AnsweredFacts ==
    ASSUME RowsTyped, Distinct(remaining), NEW found \in Outputs
    PROVE  /\ AnsweredBy(found) \in Seq(RowType)
           /\ Rows(AnsweredBy(found)) = {remaining[i] : i \in {j \in 1..Len(remaining) : found[j] = Answer}}
           /\ Distinct(AnsweredBy(found))
<1> DEFINE I == {j \in 1..Len(remaining) : found[j] = Answer}
           ss == [i \in 1..Len(remaining) |-> IF i \in I THEN <<remaining[i]>> ELSE <<>>]
<1>1. AnsweredBy(found) = FlattenSeq(ss)
  <2>1. ss = [i \in 1..Len(remaining) |-> IF found[i] = Answer THEN <<remaining[i]>> ELSE <<>>]
    OBVIOUS
  <2> HIDE DEF ss
  <2> QED BY <2>1 DEF AnsweredBy
<1>2. I \in SUBSET (1..Len(remaining)) /\ remaining \in Seq(RowType)
  BY DEF RowsTyped
<1>3. FlattenSeq(ss) \in Seq(RowType) /\ \E f : Picks(FlattenSeq(ss), remaining, I, f)
  <2> HIDE DEF I
  <2> QED BY <1>2, Picked
<1> HIDE DEF I, ss
<1>4. Rows(FlattenSeq(ss)) = {remaining[i] : i \in I} /\ Distinct(FlattenSeq(ss))
  <2> DEFINE t == FlattenSeq(ss)
  <2>1. \E f : Picks(t, remaining, I, f)
    BY <1>3
  <2> HIDE DEF t
  <2>2. Rows(t) = {remaining[i] : i \in I} /\ (Distinct(remaining) => Distinct(t))
    BY <1>2, <2>1, PickedRows
  <2> QED BY <2>2 DEF t
<1> QED BY <1>1, <1>3, <1>4 DEF I

-----------------------------------------------------------------------------
(* The steps, in terms of the rows they move.                              *)
LEMMA FinishFacts ==
    ASSUME RowsTyped, NEW s \in Seq(RowType), NEW t, t = [k \in 1..Len(s) |-> Finish(s[k], "backbone")]
    PROVE  /\ t \in Seq(FinishedType)
           /\ Rows(t) = {Finish(r, "backbone") : r \in Rows(s)}
           /\ Distinct(s) => Distinct(t)
<1>1. Len(s) \in Nat /\ \A k \in 1..Len(s) : s[k] \in RowType
  BY LenProperties, ElementOfSeq
<1>2. \A r \in RowType : Finish(r, "backbone") \in FinishedType /\ Finish(r, "backbone").trace = r.trace
  BY ConfigTypes DEF Finish, FinishedType, RowType, Chains
<1>3. t \in Seq(FinishedType) /\ Len(t) = Len(s)
  BY <1>1, <1>2, IsASeq
<1>4. \A k \in 1..Len(s) : t[k] = Finish(s[k], "backbone") /\ t[k].trace = s[k].trace
  BY <1>1, <1>2
<1>5. Rows(t) = {Finish(r, "backbone") : r \in Rows(s)}
  BY <1>3, <1>4 DEF Rows
<1>6. Distinct(s) => Distinct(t)
  BY <1>3, <1>4 DEF Distinct
<1> QED BY <1>3, <1>5, <1>6

(* The backbone has answered some rows, and asks so many queries for the   *)
(* others.                                                                 *)
BackboneMoves(answered, asked, count) ==
    /\ answered \in SUBSET Rows(remaining) /\ asked \in SUBSET Rows(remaining)
    /\ answered \cup asked = Rows(remaining)
    /\ \A r \in answered, s \in asked : r.trace # s.trace
    /\ count \in [asked -> Nat \ {0}]
    /\ finished' \in Seq(FinishedType) /\ Distinct(finished')
    /\ Rows(finished') = Rows(finished) \cup {Finish(r, "backbone") : r \in answered}
    /\ running' \in Seq(PolicyRowType) /\ Distinct(running')
    /\ \A x : x \in Rows(running') <=>
           \E p \in asked, b \in Branches : \E q \in 1..count[p] : x = PolicyRow(p, count[p], b, q)
    /\ finalSource' = Updated(finalSource, [t \in TracesOf(answered) |-> "backbone"])
    /\ pairGroup' = NewPairGroups(Rows(running'))
    /\ requests' = Inherited(requests, Rows(running'))
    /\ chain' = Inherited(Heard("backbone", TracesOf(Rows(remaining))), Rows(running'))
    /\ phase = "backbone" /\ phase' = IF running' = <<>> THEN "restore" ELSE "policy"
    /\ remaining' = <<>> /\ UNCHANGED <<config, round, points>>

LEMMA BackboneMovesRows ==
    ASSUME RowsInv, Backbone
    PROVE  \E answered, asked, count : BackboneMoves(answered, asked, count)
<1>1. PICK found \in Outputs :
          /\ finished' = finished \o [k \in 1..Len(AnsweredBy(found)) |-> Finish(AnsweredBy(found)[k], "backbone")]
          /\ finalSource' = Updated(finalSource, [t \in {r.trace : r \in Rows(AnsweredBy(found))} |-> "backbone"])
          /\ running' = AskedBy(found)
          /\ pairGroup' = NewPairGroups(Rows(AskedBy(found)))
          /\ requests' = Inherited(requests, Rows(AskedBy(found)))
          /\ chain' = Inherited(Heard("backbone", {r.trace : r \in Rows(remaining)}), Rows(AskedBy(found)))
          /\ remaining' = <<>>
          /\ phase' = IF AskedBy(found) = <<>> THEN "restore" ELSE "policy"
  BY Zenon DEF Backbone, Outputs
<1>2. /\ RowsTyped /\ Distinct(remaining) /\ Distinct(finished) /\ remaining \in Seq(RowType)
      /\ finished \in Seq(FinishedType)
      /\ \A r \in Rows(finished), g \in Live : ~Of(r.trace, g)
  BY DEF RowsInv, EndedApart, RowsTyped
<1> DEFINE n == Len(remaining)
           I == {i \in 1..n : found[i] = Answer}
           J == {i \in 1..n : found[i] # Answer}
           answered == {remaining[i] : i \in I}
           asked == {remaining[i] : i \in J}
           place(p) == CHOOSE i \in J : remaining[i] = p
           count == [p \in asked |-> QueryCount(found[place(p)])]
           A == AnsweredBy(found)
           new == [k \in 1..Len(A) |-> Finish(A[k], "backbone")]
<1>3. /\ A \in Seq(RowType) /\ Rows(A) = answered /\ Distinct(A)
  BY <1>2, AnsweredFacts
<1>4. /\ AskedBy(found) \in Seq(PolicyRowType) /\ Distinct(AskedBy(found))
      /\ \A i \in J : QueryCount(found[i]) \in Nat \ {0}
      /\ \A x : x \in Rows(AskedBy(found)) <=>
            \E i \in J : \E b \in Branches, q \in 1..QueryCount(found[i]) :
                x = PolicyRow(remaining[i], QueryCount(found[i]), b, q)
  <2>1. /\ AskedBy(found) \in Seq(PolicyRowType) /\ Distinct(AskedBy(found))
        /\ \A i \in J : QueryCount(found[i]) \in Nat \ {0}
    BY <1>2, AskedFacts
  <2>2. \A x : x \in Rows(AskedBy(found)) <=>
            \E i \in 1..n :
                /\ found[i] # Answer
                /\ \E b \in Branches, q \in 1..QueryCount(found[i]) :
                       x = PolicyRow(remaining[i], QueryCount(found[i]), b, q)
    BY <1>2, AskedFacts
  <2> QED BY <2>1, <2>2, Zenon
<1>5. /\ answered \in SUBSET Rows(remaining) /\ asked \in SUBSET Rows(remaining)
      /\ answered \cup asked = Rows(remaining)
  BY DEF Rows
<1>6. ASSUME NEW i \in 1..n, NEW j \in 1..n, remaining[i].trace = remaining[j].trace PROVE i = j
  BY <1>2, <1>6 DEF Distinct
<1>7. \A r \in answered, s \in asked : r.trace # s.trace
  BY <1>6
<1>8. \A i \in J : remaining[i] \in asked /\ count[remaining[i]] = QueryCount(found[i])
  <2> TAKE i \in J
  <2>1. remaining[i] \in asked
    OBVIOUS
  <2>2. place(remaining[i]) \in J /\ remaining[place(remaining[i])] = remaining[i]
    OBVIOUS
  <2>3. place(remaining[i]) = i
    BY <1>6, <2>2
  <2> QED BY <2>1, <2>3
<1>9. \A p \in asked : \E i \in J : p = remaining[i] /\ count[p] = QueryCount(found[i])
  <2> TAKE p \in asked
  <2>1. PICK i \in J : p = remaining[i]
    OBVIOUS
  <2> HIDE DEF count, asked
  <2> QED BY <1>8, <2>1
<1>10. count \in [asked -> Nat \ {0}]
  <2>1. \A p \in asked : count[p] \in Nat \ {0}
    BY <1>4, <1>9
  <2>2. count = [p \in asked |-> count[p]]
    OBVIOUS
  <2> HIDE DEF count, asked
  <2> QED BY <2>1, <2>2
<1> HIDE DEF count, place
<1>11. ASSUME NEW x
       PROVE  x \in Rows(AskedBy(found)) <=>
                \E p \in asked, b \in Branches : \E q \in 1..count[p] : x = PolicyRow(p, count[p], b, q)
  <2>1. ASSUME NEW i \in J, NEW b \in Branches, NEW q \in 1..QueryCount(found[i]),
               x = PolicyRow(remaining[i], QueryCount(found[i]), b, q)
        PROVE  \E p \in asked, e \in Branches : \E r \in 1..count[p] : x = PolicyRow(p, count[p], e, r)
    <3>1. remaining[i] \in asked /\ q \in 1..count[remaining[i]]
          /\ x = PolicyRow(remaining[i], count[remaining[i]], b, q)
      BY <1>8, <2>1
    <3> QED BY <3>1, Zenon
  <2>2. ASSUME NEW p \in asked, NEW b \in Branches, NEW q \in 1..count[p], x = PolicyRow(p, count[p], b, q)
        PROVE  \E i \in J : \E e \in Branches, r \in 1..QueryCount(found[i]) :
                   x = PolicyRow(remaining[i], QueryCount(found[i]), e, r)
    <3>1. PICK i \in J : p = remaining[i] /\ count[p] = QueryCount(found[i])
      BY <1>9
    <3>2. q \in 1..QueryCount(found[i]) /\ x = PolicyRow(remaining[i], QueryCount(found[i]), b, q)
      BY <2>2, <3>1
    <3> QED BY <3>2, Zenon
  <2> HIDE DEF asked, J
  <2> QED BY <1>4, <2>1, <2>2
<1>12. new \in Seq(FinishedType) /\ Rows(new) = {Finish(r, "backbone") : r \in answered} /\ Distinct(new)
  <2> HIDE DEF A, answered
  <2> QED BY <1>2, <1>3, FinishFacts
<1>13. TracesOf(Rows(finished)) \cap TracesOf(Rows(new)) = {}
  <2>1. \A r \in Rows(remaining) : r.trace \in Live /\ Finish(r, "backbone").trace = r.trace
    BY DEF Live, Finish
  <2>2. \A x \in Rows(new) : x.trace \in Live
    <3> HIDE DEF new, answered
    <3> QED BY <1>5, <1>12, <2>1
  <2> HIDE DEF new
  <2> QED BY <1>2, <2>2 DEF TracesOf, Of
<1>14. /\ finished \o new \in Seq(FinishedType) /\ Distinct(finished \o new)
       /\ Rows(finished \o new) = Rows(finished) \cup {Finish(r, "backbone") : r \in answered}
  <2> HIDE DEF new
  <2> QED BY <1>2, <1>12, <1>13, ConcatRows
<1>15. finished' = finished \o new /\ running' = AskedBy(found)
  BY <1>1
<1>16. phase = "backbone" /\ UNCHANGED <<config, round, points>>
  BY DEF Backbone
<1>17. finalSource' = Updated(finalSource, [t \in TracesOf(answered) |-> "backbone"])
  <2> HIDE DEF answered
  <2> QED BY <1>1, <1>3 DEF TracesOf
<1>18. /\ pairGroup' = NewPairGroups(Rows(running'))
       /\ requests' = Inherited(requests, Rows(running'))
       /\ chain' = Inherited(Heard("backbone", TracesOf(Rows(remaining))), Rows(running'))
       /\ remaining' = <<>>
       /\ phase' = IF running' = <<>> THEN "restore" ELSE "policy"
  BY <1>1 DEF TracesOf
<1> HIDE DEF answered, asked, new
<1>19. BackboneMoves(answered, asked, count)
  BY <1>4, <1>5, <1>7, <1>10, <1>11, <1>14, <1>15, <1>16, <1>17, <1>18 DEF BackboneMoves
<1> QED BY <1>19

(* Rows of the policy with one group have one parent.                      *)
LEMMA OfOneGroup ==
    ASSUME RowsInv, NEW r \in Rows(running), NEW s \in Rows(running), r.group = s.group
    PROVE  /\ r.parent = s.parent /\ Parent(r) = Parent(s) /\ r.count = s.count
           /\ r.query = s.query => r = s
<1>1. /\ RowsTyped /\ RunsWhole /\ OfOneParent /\ Rows(running) \subseteq PolicyRowType
      /\ config.rolloutN \in Nat \ {0} /\ round \in Nat
  BY RowsElements, ConfigTypes DEF RowsInv, RowsTyped
<1>2. PICK b \in Branches : r = PolicyRow(Parent(r), r.count, b, r.query)
  BY <1>1 DEF RunsWhole
<1>3. PICK c \in Branches : s = PolicyRow(Parent(s), s.count, c, s.query)
  BY <1>1 DEF RunsWhole
<1>4. r.parent \in Chains /\ s.parent \in Chains
  BY <1>1 DEF PolicyRowType
<1>5. r.group = Composite(r.parent, b) /\ s.group = Composite(s.parent, c)
  <2>1. /\ PolicyRow(Parent(r), r.count, b, r.query).group = Composite(r.parent, b)
        /\ PolicyRow(Parent(s), s.count, c, s.query).group = Composite(s.parent, c)
    BY DEF PolicyRow, Parent
  <2> QED BY <1>2, <1>3, <2>1
<1>6. r.parent = s.parent /\ b = c
  <2>1. Composite(r.parent, b) = Composite(s.parent, c)
    BY <1>5
  <2>2. b \in 1..config.rolloutN /\ c \in 1..config.rolloutN
    BY DEF Branches
  <2> HIDE <1>5
  <2> QED BY <1>1, <1>4, <2>1, <2>2, CompositeInjective
<1>7. Parent(r) = Parent(s) /\ r.count = s.count
  BY <1>1, <1>6 DEF OfOneParent
<1>8. ASSUME r.query = s.query PROVE r = s
  <2>1. PolicyRow(Parent(r), r.count, b, r.query) = PolicyRow(Parent(s), s.count, c, s.query)
    BY <1>6, <1>7, <1>8, Zenon
  <2> HIDE DEF Parent
  <2> QED BY <1>2, <1>3, <2>1, Zenon
<1> QED BY <1>6, <1>7, <1>8

Own ==
    Updated(requests, [t \in {r.trace : r \in Rows(running)} |->
        LET r == CHOOSE x \in Rows(running) : x.trace = t IN Append(requests[t], Request(r))])

PointOf(r) ==
    [input |-> r.input, group |-> Get(pairGroup, r.trace, NoTrace), asked |-> <<r.parent, round, r.query>>]

Ended(r) == Finish([r EXCEPT !.past = @ \cup {Request(r)}], "policy")

GoesOn(r) ==
    [trace |-> r.group, input |-> r.input,
     past |-> r.past \cup {Request(s) : s \in Rows(Members(r.group))}]

EndHere(goes) == {r \in Rows(running) : r.group \notin goes}

(* The branches in goes have gone on, the others have ended.               *)
PolicyMoves(goes) ==
    /\ goes \in SUBSET Groups /\ (config.validation => goes = Groups)
    /\ finished' \in Seq(FinishedType) /\ Distinct(finished')
    /\ Rows(finished') = Rows(finished) \cup {Ended(r) : r \in EndHere(goes)}
    /\ remaining' \in Seq(RowType) /\ Distinct(remaining')
    /\ Rows(remaining') = {GoesOn(r) : r \in {s \in Rows(running) : s.group \in goes /\ s.query = 1}}
    /\ requests' = MergedRequests(Own)
    /\ chain' = Heard("policy", TracesOf(Rows(running)) \cup Groups)
    /\ finalSource' = Updated(finalSource, [t \in TracesOf(EndHere(goes)) |-> "policy"])
    /\ points' = IF config.emit /\ ~config.validation
                 THEN points \o [k \in 1..Len(running) |-> PointOf(running[k])] ELSE points
    /\ phase = "policy"
    /\ IF remaining' = <<>> THEN phase' = "restore" /\ UNCHANGED round
       ELSE IF round = config.maxRounds - 1 THEN phase' = "final" /\ UNCHANGED round
       ELSE phase' = "backbone" /\ round' = round + 1
    /\ running' = <<>> /\ UNCHANGED <<config, pairGroup>>

LEMMA PolicyMovesRows ==
    ASSUME RowsInv, Policy
    PROVE  \E goes : PolicyMoves(goes)
<1>1. PICK good \in SUBSET Groups :
          LET gone == Terminated(Continues(good))
              on == Survivors(Continues(good))
          IN /\ requests' = MergedRequests(Own)
             /\ chain' = Heard("policy", {r.trace : r \in Rows(running)} \cup Groups)
             /\ points' = IF config.emit /\ ~config.validation
                          THEN points \o [k \in 1..Len(running) |->
                                   [input |-> running[k].input, group |-> Get(pairGroup, running[k].trace, NoTrace),
                                    asked |-> <<running[k].parent, round, running[k].query>>]]
                          ELSE points
             /\ finished' = finished \o [k \in 1..Len(gone) |->
                    Finish([gone[k] EXCEPT !.past = @ \cup {Request(gone[k])}], "policy")]
             /\ finalSource' = Updated(finalSource, [t \in {r.trace : r \in Rows(gone)} |-> "policy"])
             /\ remaining' = [k \in 1..Len(on) |->
                    [trace |-> on[k].group, input |-> on[k].input,
                     past |-> on[k].past \cup {Request(r) : r \in Rows(Members(on[k].group))}]]
             /\ IF on = <<>> THEN phase' = "restore" /\ UNCHANGED round
                ELSE IF round = config.maxRounds - 1 THEN phase' = "final" /\ UNCHANGED round
                ELSE phase' = "backbone" /\ round' = round + 1
  BY Zenon DEF Policy, Own
<1> DEFINE goes == Continues(good)
           gone == Terminated(goes)
           on == Survivors(goes)
           ended == [k \in 1..Len(gone) |-> Ended(gone[k])]
           next == [k \in 1..Len(on) |-> GoesOn(on[k])]
<1>2. goes \in SUBSET Groups /\ (config.validation => goes = Groups)
  BY DEF Continues
<1>3. /\ requests' = MergedRequests(Own)
      /\ chain' = Heard("policy", TracesOf(Rows(running)) \cup Groups)
      /\ points' = IF config.emit /\ ~config.validation
                   THEN points \o [k \in 1..Len(running) |-> PointOf(running[k])] ELSE points
      /\ finished' = finished \o ended
      /\ finalSource' = Updated(finalSource, [t \in TracesOf(Rows(gone)) |-> "policy"])
      /\ remaining' = next
      /\ IF on = <<>> THEN phase' = "restore" /\ UNCHANGED round
         ELSE IF round = config.maxRounds - 1 THEN phase' = "final" /\ UNCHANGED round
         ELSE phase' = "backbone" /\ round' = round + 1
  BY <1>1, Zenon DEF TracesOf, PointOf, Ended, GoesOn
<1>4. phase = "policy" /\ running' = <<>> /\ UNCHANGED <<config, pairGroup>>
  BY DEF Policy
<1>5. /\ RowsTyped /\ Distinct(running) /\ Distinct(finished) /\ running \in Seq(PolicyRowType)
      /\ finished \in Seq(FinishedType) /\ RunsWhole
      /\ \A r \in Rows(finished), g \in Live : ~Of(r.trace, g)
      /\ round \in Nat
  BY ConfigTypes DEF RowsInv, EndedApart, RowsTyped
<1> HIDE DEF goes
<1>6. /\ gone \in Seq(PolicyRowType) /\ Distinct(gone) /\ Rows(gone) = EndHere(goes)
  <2>1. Rows(running) \cap {r \in Rows(running) : r.group \notin goes} = EndHere(goes)
    BY DEF EndHere
  <2> QED BY <1>5, <2>1, ThoseFacts DEF Terminated
<1>7. /\ on \in Seq(PolicyRowType)
      /\ Distinct(on)
      /\ Rows(on) = {s \in Rows(running) : s.group \in goes /\ s.query = 1}
  <2>1. Rows(running) \cap {r \in Rows(running) : r.group \in goes /\ r.query = 1}
        = {s \in Rows(running) : s.group \in goes /\ s.query = 1}
    OBVIOUS
  <2> QED BY <1>5, <2>1, ThoseFacts DEF Survivors
<1> HIDE DEF gone, on
<1>8. Rows(running) \subseteq PolicyRowType
  BY <1>5, RowsElements
<1>9. \A r \in PolicyRowType : Ended(r) \in FinishedType /\ Ended(r).trace = r.trace
  BY <1>5 DEF Ended, Finish, Request, FinishedType, PolicyRowType, PolicyRequests
<1>10. /\ ended \in Seq(FinishedType) /\ Distinct(ended) /\ Rows(ended) = {Ended(r) : r \in EndHere(goes)}
  <2>1. Len(gone) \in Nat /\ \A k \in 1..Len(gone) : gone[k] \in PolicyRowType
    BY <1>6, LenProperties, ElementOfSeq
  <2>2. ended \in Seq(FinishedType) /\ Len(ended) = Len(gone)
    BY <1>9, <2>1, IsASeq
  <2>3. \A k \in 1..Len(gone) : ended[k] = Ended(gone[k]) /\ ended[k].trace = gone[k].trace
    BY <1>9, <2>1
  <2> HIDE DEF ended
  <2>4. Distinct(ended)
    BY <1>6, <2>2, <2>3 DEF Distinct
  <2>5. Rows(ended) = {Ended(r) : r \in Rows(gone)}
    BY <2>2, <2>3 DEF Rows
  <2> QED BY <1>6, <2>2, <2>4, <2>5
<1>11. \A r \in Rows(running) : r.group \in Live /\ Of(r.trace, r.group)
  <2> TAKE r \in Rows(running)
  <2>1. PICK b \in Branches : r = PolicyRow(Parent(r), r.count, b, r.query) /\ r.query \in 1..r.count
    BY <1>5 DEF RunsWhole
  <2>2. /\ Parent(r).trace \in Chains /\ Parent(r).input \in Inputs
        /\ Parent(r).past \in SUBSET PolicyRequests /\ r.count \in Nat \ {0}
    BY <1>8 DEF Parent, PolicyRowType
  <2> HIDE DEF Parent
  <2>3. Of(r.trace, r.group)
    BY <1>5, <2>1, <2>2, PolicyRowFacts
  <2> QED BY <2>3 DEF Live
<1>12. TracesOf(Rows(finished)) \cap TracesOf(Rows(ended)) = {}
  <2>1. \A x \in Rows(ended) : \E g \in Live : Of(x.trace, g)
    <3> HIDE DEF ended
    <3>1. \A r \in EndHere(goes) : Ended(r).trace = r.trace /\ r.group \in Live /\ Of(r.trace, r.group)
      BY <1>8, <1>9, <1>11 DEF EndHere
    <3>2. \A r \in EndHere(goes) : r.group \in Live /\ Of(Ended(r).trace, r.group)
      BY <3>1
    <3> QED BY <1>10, <3>2
  <2> HIDE DEF ended
  <2> QED BY <1>5, <2>1 DEF TracesOf
<1>13. /\ finished' \in Seq(FinishedType) /\ Distinct(finished')
       /\ Rows(finished') = Rows(finished) \cup {Ended(r) : r \in EndHere(goes)}
  <2>1. finished' = finished \o ended
    BY <1>3
  <2> HIDE DEF ended
  <2> QED BY <1>5, <1>10, <1>12, <2>1, ConcatRows
<1>14. \A r \in PolicyRowType : GoesOn(r) \in RowType /\ GoesOn(r).trace = r.group
  <2> TAKE r \in PolicyRowType
  <2>1. Rows(Members(r.group)) \subseteq PolicyRowType
    <3>1. Rows(Members(r.group)) = Rows(running) \cap {s \in Rows(running) : s.group = r.group}
      BY <1>5, ThoseFacts DEF Members
    <3> QED BY <1>8, <3>1
  <2>2. {Request(s) : s \in Rows(Members(r.group))} \subseteq PolicyRequests
    BY <1>5, <2>1 DEF Request, PolicyRequests, PolicyRowType
  <2> QED BY <2>2 DEF GoesOn, RowType, PolicyRowType
<1>15. /\ remaining' \in Seq(RowType) /\ Distinct(remaining')
       /\ Rows(remaining') = {GoesOn(r) : r \in {s \in Rows(running) : s.group \in goes /\ s.query = 1}}
       /\ remaining' = <<>> <=> on = <<>>
  <2>1. Len(on) \in Nat /\ \A k \in 1..Len(on) : on[k] \in PolicyRowType /\ on[k] \in Rows(on)
    BY <1>7, LenProperties, RowsElements
  <2>2. next \in Seq(RowType) /\ Len(next) = Len(on)
    BY <1>14, <2>1, IsASeq
  <2>3. \A k \in 1..Len(on) : next[k] = GoesOn(on[k]) /\ next[k].trace = on[k].group
    BY <1>14, <2>1
  <2>4. remaining' = next
    BY <1>3
  <2> HIDE DEF next
  <2>5. Rows(next) = {GoesOn(r) : r \in Rows(on)}
    BY <2>2, <2>3 DEF Rows
  <2>6. ASSUME NEW k \in 1..Len(on), NEW m \in 1..Len(on), next[k].trace = next[m].trace PROVE k = m
    <3>1. on[k].group = on[m].group
      BY <2>3, <2>6
    <3>2. /\ on[k] \in Rows(running) /\ on[k].query = 1
          /\ on[m] \in Rows(running) /\ on[m].query = 1
      BY <1>7, <2>1
    <3>3. on[k] = on[m]
      BY <3>1, <3>2, OfOneGroup
    <3> QED BY <1>7, <3>3 DEF Distinct
  <2>7. Distinct(next)
    BY <2>2, <2>6 DEF Distinct
  <2>8. next = <<>> <=> on = <<>>
    BY <1>7, <2>1, <2>2, EmptySeq
  <2> QED BY <1>7, <2>2, <2>4, <2>5, <2>7, <2>8
<1>16. /\ IF remaining' = <<>> THEN phase' = "restore" /\ UNCHANGED round
          ELSE IF round = config.maxRounds - 1 THEN phase' = "final" /\ UNCHANGED round
          ELSE phase' = "backbone" /\ round' = round + 1
       /\ requests' = MergedRequests(Own)
       /\ chain' = Heard("policy", TracesOf(Rows(running)) \cup Groups)
       /\ points' = IF config.emit /\ ~config.validation
                    THEN points \o [k \in 1..Len(running) |-> PointOf(running[k])] ELSE points
       /\ finalSource' = Updated(finalSource, [t \in TracesOf(EndHere(goes)) |-> "policy"])
  BY <1>3, <1>6, <1>15
<1>17. PolicyMoves(goes)
  BY <1>2, <1>4, <1>13, <1>15, <1>16, Zenon DEF PolicyMoves
<1> QED BY <1>17

-----------------------------------------------------------------------------
(* The rows keep their invariant.                                          *)
LEMMA SameTypes ==
    ASSUME config' = config
    PROVE  /\ Inputs' = Inputs /\ Branches' = Branches /\ Rounds' = Rounds
           /\ RowType' = RowType /\ PolicyRowType' = PolicyRowType
           /\ FinishedType' = FinishedType /\ PointType' = PointType
  BY DEF Inputs, Branches, Rounds, RowType, PolicyRowType, FinishedType, PointType

LEMMA SamePolicyRow ==
    ASSUME config' = config, round' = round
    PROVE  /\ \A p, c, b, q : PolicyRow(p, c, b, q)' = PolicyRow(p, c, b, q)
           /\ \A r : Parent(r)' = Parent(r)
  BY DEF PolicyRow, PolicyTrace, Composite, Parent

LEMMA NoRows == Rows(<<>>) = {} /\ Distinct(<<>>)
<1>1. 1..Len(<<>>) = {}
  OBVIOUS
<1> QED BY <1>1 DEF Rows, Distinct

LEMMA InheritedDomain ==
    ASSUME NEW dict, NEW rows
    PROVE  DOMAIN Inherited(dict, rows) = DOMAIN dict \cup TracesOf(rows) \cup {r.group : r \in rows}
  BY DEF Inherited, WithDefaults, Updated, TracesOf

LEMMA HeardDomain ==
    ASSUME NEW w, NEW traces
    PROVE  DOMAIN Heard(w, traces) = DOMAIN chain \cup traces
  BY DEF Heard, Updated

LEMMA RowsInitially == ASSUME TwoStageInit PROVE RowsInv
<1>1. /\ config.inputs \in Nat /\ config.rolloutN \in Nat \ {0} /\ config.maxRounds \in Nat \ {0}
  BY TwoStageAssumption DEF TwoStageInit
<1>2. /\ running = <<>> /\ finished = <<>> /\ points = <<>> /\ round = 0 /\ phase = "backbone"
      /\ config \in Configurations
      /\ remaining = [i \in 1..config.inputs |-> InputRow(i)]
      /\ requests = [t \in {Root(i) : i \in 1..config.inputs} |-> <<>>]
      /\ chain = [t \in {Root(i) : i \in 1..config.inputs} |-> <<>>]
  BY DEF TwoStageInit
<1>3. /\ Rows(running) = {} /\ Rows(finished) = {} /\ Rows(points) = {}
      /\ Distinct(running) /\ Distinct(finished)
  BY <1>2, NoRows
<1>4. \A i \in 1..config.inputs : InputRow(i) \in RowType /\ InputRow(i).trace = Root(i) /\ InputRow(i).input = i
  BY <1>1, RootFacts DEF InputRow, RowType, Inputs
<1>5. remaining \in Seq(RowType) /\ Len(remaining) = config.inputs
  <2>1. remaining \in [1..config.inputs -> RowType]
    BY <1>2, <1>4
  <2> QED BY <1>1, <2>1, SeqDef, LenProperties
<1>6. /\ \A i \in 1..config.inputs : /\ remaining[i].trace = Root(i) /\ remaining[i].input = i
                                      /\ remaining[i] \in Rows(remaining)
      /\ \A r \in Rows(remaining) : r.input \in 1..config.inputs /\ r.trace = Root(r.input)
  <2>1. \A i \in 1..config.inputs : remaining[i].trace = Root(i) /\ remaining[i].input = i
    BY <1>2, <1>4
  <2> QED BY <1>5, <2>1 DEF Rows
<1>7. RowsTyped
  BY <1>1, <1>2, <1>5 DEF RowsTyped, Rounds
<1>8. InTurn
  BY <1>2 DEF InTurn
<1>9. TracesKnown
  <2>1. \A t \in DOMAIN requests : t \in Traces /\ Before(t, 0)
    <3> TAKE t \in DOMAIN requests
    <3>1. PICK i \in 1..config.inputs : t = Root(i)
      BY <1>2
    <3>2. i \in Nat /\ 0 \in Nat
      BY <1>1
    <3>3. Root(i) \in Chains /\ Before(Root(i), 0)
      BY <3>2, RootFacts
    <3> QED BY <3>1, <3>3 DEF Chains
  <2>2. \A r \in Rows(remaining) : r.trace \in DOMAIN requests
    BY <1>2, <1>6
  <2> QED BY <1>2, <1>3, <2>1, <2>2 DEF TracesKnown, NextRound
<1>10. RunsWhole /\ OfOneParent
  BY <1>3 DEF RunsWhole, OfOneParent
<1>11. EndedApart
  <2>1. Distinct(remaining)
    BY <1>1, <1>5, <1>6, RootFacts DEF Distinct
  <2> QED BY <1>3, <2>1 DEF EndedApart
<1>12. InputsKept
  BY <1>3, <1>6 DEF InputsKept, Inputs
<1>13. Unpruned
  BY <1>3, <1>6 DEF Unpruned
<1> QED BY <1>7, <1>8, <1>9, <1>10, <1>11, <1>12, <1>13 DEF RowsInv

LEMMA AskedRows ==
    ASSUME RowsInv, NEW answered, NEW asked, NEW count, BackboneMoves(answered, asked, count)
    PROVE  /\ Rows(remaining) \subseteq RowType
           /\ \A p \in asked : /\ p.trace \in Chains /\ p.input \in Inputs /\ p.past \in SUBSET PolicyRequests
                               /\ count[p] \in Nat \ {0} /\ p \in Rows(remaining)
           /\ \A x \in Rows(running') :
                 \E p \in asked, b \in Branches : \E q \in 1..count[p] :
                     /\ x = PolicyRow(p, count[p], b, q) /\ x.group = Composite(p.trace, b)
                     /\ x.trace = PolicyTrace(Composite(p.trace, b), q, count[p])
                     /\ x.parent = p.trace /\ x.input = p.input /\ x.past = p.past
                     /\ x.query = q /\ x.count = count[p]
           /\ \A p \in asked, q \in Rows(remaining) : p.trace = q.trace => p = q
<1>1. RowsTyped /\ Distinct(remaining) /\ remaining \in Seq(RowType)
  BY DEF RowsInv, RowsTyped, EndedApart
<1>2. Rows(remaining) \subseteq RowType
  BY <1>1, RowsElements
<1>3. \A p \in asked : /\ p.trace \in Chains /\ p.input \in Inputs /\ p.past \in SUBSET PolicyRequests
                       /\ count[p] \in Nat \ {0} /\ p \in Rows(remaining)
  BY <1>2 DEF BackboneMoves, RowType
<1>4. ASSUME NEW x \in Rows(running')
      PROVE  \E p \in asked, b \in Branches : \E q \in 1..count[p] :
                     /\ x = PolicyRow(p, count[p], b, q) /\ x.group = Composite(p.trace, b)
                     /\ x.trace = PolicyTrace(Composite(p.trace, b), q, count[p])
                     /\ x.parent = p.trace /\ x.input = p.input /\ x.past = p.past
                     /\ x.query = q /\ x.count = count[p]
  <2>1. PICK p \in asked, b \in Branches : \E q \in 1..count[p] : x = PolicyRow(p, count[p], b, q)
    BY DEF BackboneMoves
  <2>2. PICK q \in 1..count[p] : x = PolicyRow(p, count[p], b, q)
    BY <2>1
  <2>3. /\ x.group = Composite(p.trace, b)
        /\ x.trace = PolicyTrace(Composite(p.trace, b), q, count[p])
        /\ x.parent = p.trace /\ x.input = p.input /\ x.past = p.past
        /\ x.query = q /\ x.count = count[p]
    BY <2>2 DEF PolicyRow
  <2> QED BY <2>2, <2>3
<1>5. \A p \in asked, q \in Rows(remaining) : p.trace = q.trace => p = q
  BY <1>1, <1>3 DEF Distinct, Rows
<1> QED BY <1>2, <1>3, <1>4, <1>5

LEMMA BackboneKeepsRows ==
    ASSUME RowsInv, NEW answered, NEW asked, NEW count, BackboneMoves(answered, asked, count)
    PROVE  RowsInv'
<1>1. /\ RowsTyped /\ TracesKnown /\ EndedApart /\ InputsKept /\ Unpruned /\ InTurn
      /\ config.rolloutN \in Nat \ {0} /\ round \in Nat /\ 1 \in Branches
  BY ConfigTypes DEF RowsInv
<1>2. /\ answered \subseteq Rows(remaining) /\ answered \cup asked = Rows(remaining)
      /\ finished' \in Seq(FinishedType) /\ Distinct(finished')
      /\ Rows(finished') = Rows(finished) \cup {Finish(r, "backbone") : r \in answered}
      /\ running' \in Seq(PolicyRowType) /\ Distinct(running')
      /\ phase = "backbone" /\ phase' = IF running' = <<>> THEN "restore" ELSE "policy"
      /\ remaining' = <<>> /\ config' = config /\ round' = round /\ points' = points
      /\ \A r \in answered, s \in asked : r.trace # s.trace
  BY DEF BackboneMoves
<1>3. /\ Rows(remaining) \subseteq RowType
      /\ \A p \in asked : /\ p.trace \in Chains /\ p.input \in Inputs /\ p.past \in SUBSET PolicyRequests
                          /\ count[p] \in Nat \ {0} /\ p \in Rows(remaining)
      /\ \A x \in Rows(running') :
            \E p \in asked, b \in Branches : \E q \in 1..count[p] :
                /\ x = PolicyRow(p, count[p], b, q) /\ x.group = Composite(p.trace, b)
                /\ x.trace = PolicyTrace(Composite(p.trace, b), q, count[p])
                /\ x.parent = p.trace /\ x.input = p.input /\ x.past = p.past
                /\ x.query = q /\ x.count = count[p]
      /\ \A p \in asked, q \in Rows(remaining) : p.trace = q.trace => p = q
  BY AskedRows
<1>4. /\ Inputs' = Inputs /\ Branches' = Branches /\ Rounds' = Rounds
      /\ RowType' = RowType /\ PolicyRowType' = PolicyRowType
      /\ FinishedType' = FinishedType /\ PointType' = PointType
  BY <1>2, SameTypes
<1>5. Rows(remaining') = {} /\ Distinct(remaining') /\ remaining' \in Seq(RowType)
  BY <1>2, NoRows
<1>6. \A r \in Rows(finished') :
          \/ r \in Rows(finished)
          \/ \E a \in answered : r = Finish(a, "backbone") /\ r.trace = a.trace /\ r.input = a.input
                                 /\ r.by = "backbone"
  BY <1>2 DEF Finish
<1>7. RowsTyped'
  BY <1>1, <1>2, <1>4, <1>5, Zenon DEF RowsTyped
<1>8. InTurn'
  BY <1>2, <1>5 DEF InTurn
<1>9. TracesKnown'
  <2>1. /\ DOMAIN requests' = DOMAIN requests \cup TracesOf(Rows(running')) \cup {r.group : r \in Rows(running')}
        /\ DOMAIN chain' = DOMAIN chain \cup TracesOf(Rows(remaining)) \cup TracesOf(Rows(running'))
                           \cup {r.group : r \in Rows(running')}
    <3>1. /\ requests' = Inherited(requests, Rows(running'))
          /\ chain' = Inherited(Heard("backbone", TracesOf(Rows(remaining))), Rows(running'))
      BY DEF BackboneMoves
    <3>2. DOMAIN Heard("backbone", TracesOf(Rows(remaining))) = DOMAIN chain \cup TracesOf(Rows(remaining))
      BY HeardDomain
    <3> QED BY <3>1, <3>2, InheritedDomain
  <2>2. TracesOf(Rows(remaining)) \subseteq DOMAIN chain
    BY <1>1 DEF TracesKnown, TracesOf
  <2>3. DOMAIN requests' = DOMAIN chain'
    BY <1>1, <2>1, <2>2 DEF TracesKnown
  <2>4. ASSUME NEW p \in asked, NEW b \in Branches, NEW q \in 1..count[p]
        PROVE  /\ Composite(p.trace, b) \in Traces /\ Before(Composite(p.trace, b), round + 1)
               /\ PolicyTrace(Composite(p.trace, b), q, count[p]) \in Traces
               /\ Before(PolicyTrace(Composite(p.trace, b), q, count[p]), round + 1)
    <3>1. p.trace \in Chains /\ p.trace \in Traces /\ Before(p.trace, round) /\ count[p] \in Nat
      BY <1>1, <1>2, <1>3 DEF TracesKnown, NextRound
    <3>2. /\ Composite(p.trace, b) \in Chains /\ <<"branch", round, b>> \in Parts
          /\ (config.rolloutN = 1 => Composite(p.trace, b) = p.trace)
          /\ (config.rolloutN > 1 => Composite(p.trace, b) = Append(p.trace, <<"branch", round, b>>))
      BY <1>1, <3>1, CompositeFacts DEF Branches
    <3>3. Before(p.trace, round + 1)
      BY <1>1, <3>1, BeforeLater
    <3>4. Before(Append(p.trace, <<"branch", round, b>>), round + 1)
      <4>1. <<"branch", round, b>>[1] # "round" /\ <<"branch", round, b>>[2] < round + 1
        BY <1>1
      <4> QED BY <1>1, <3>1, <3>2, <3>3, <4>1, BeforeExtended
    <3>5. Before(Composite(p.trace, b), round + 1)
      <4>1. config.rolloutN = 1 \/ config.rolloutN > 1
        BY <1>1
      <4> HIDE <1>1
      <4> QED BY <3>2, <3>3, <3>4, <4>1
    <3> QED BY <1>1, <3>1, <3>2, <3>5, PolicyTraceFacts DEF Chains
  <2>5. NextRound = round /\ NextRound' = round + 1
    BY <1>2 DEF NextRound
  <2>6. \A t \in DOMAIN requests : t \in Traces /\ Before(t, round + 1)
    BY <1>1, <2>5, BeforeLater DEF TracesKnown
  <2>7. \A r \in Rows(running') : /\ r.trace \in Traces /\ Before(r.trace, round + 1)
                                  /\ r.group \in Traces /\ Before(r.group, round + 1)
    BY <1>3, <2>4
  <2>8. \A t \in DOMAIN requests' : t \in Traces /\ Before(t, round + 1)
    BY <2>1, <2>6, <2>7 DEF TracesOf
  <2>9. \A r \in Rows(finished') : r.trace \in DOMAIN requests
    BY <1>1, <1>2, <1>6 DEF TracesKnown
  <2>10. \A r \in Rows(running') : r.trace \in DOMAIN requests' /\ r.group \in DOMAIN requests'
    BY <2>1 DEF TracesOf
  <2>11. \A r \in Rows(finished') : r.trace \in DOMAIN requests'
    BY <2>1, <2>9
  <2> QED BY <1>5, <2>3, <2>5, <2>8, <2>10, <2>11 DEF TracesKnown, Before
<1>10. RunsWhole'
  <2>1. ASSUME NEW x \in Rows(running')
        PROVE  /\ x.query \in 1..x.count
               /\ \E b \in Branches : x = PolicyRow(Parent(x), x.count, b, x.query)
               /\ \A b \in Branches, q \in 1..x.count : PolicyRow(Parent(x), x.count, b, q) \in Rows(running')
    <3>1. PICK p \in asked, b \in Branches : \E q \in 1..count[p] :
                /\ x = PolicyRow(p, count[p], b, q)
                /\ x.parent = p.trace /\ x.input = p.input /\ x.past = p.past
                /\ x.query = q /\ x.count = count[p]
      BY <1>3
    <3>2. \A e, q : PolicyRow(Parent(x), x.count, e, q) = PolicyRow(p, count[p], e, q)
      BY <3>1 DEF PolicyRow, Parent
    <3>3. \A e \in Branches, q \in 1..count[p] : PolicyRow(p, count[p], e, q) \in Rows(running')
      BY DEF BackboneMoves
    <3> QED BY <3>1, <3>2, <3>3
  <2>2. config' = config /\ round' = round
    BY <1>2
  <2>3. ASSUME NEW x \in Rows(running')
        PROVE  /\ (\E b \in Branches : x = PolicyRow(Parent(x), x.count, b, x.query))'
               /\ (\A b \in Branches, q \in 1..x.count : PolicyRow(Parent(x), x.count, b, q) \in Rows(running))'
    <3>1. \A b, q : PolicyRow(Parent(x), x.count, b, q)' = PolicyRow(Parent(x), x.count, b, q)
      BY <2>2 DEF PolicyRow, PolicyTrace, Composite
    <3>2. Branches' = Branches
      BY <2>2 DEF Branches
    <3> HIDE DEF Parent
    <3> QED BY <2>1, <3>1, <3>2
  <2>4. \A x \in Rows(running') : x.query \in 1..x.count
    BY <2>1
  <2> QED BY <2>3, <2>4, Zenon DEF RunsWhole
<1>11. OfOneParent'
  <2> SUFFICES ASSUME NEW x \in Rows(running'), NEW y \in Rows(running'), x.parent = y.parent
               PROVE  Parent(x) = Parent(y) /\ x.count = y.count
    BY DEF OfOneParent, Parent
  <2>1. PICK p \in asked : x.parent = p.trace /\ x.input = p.input /\ x.past = p.past /\ x.count = count[p]
    BY <1>3
  <2>2. PICK s \in asked : y.parent = s.trace /\ y.input = s.input /\ y.past = s.past /\ y.count = count[s]
    BY <1>3
  <2>3. p = s
    BY <1>3, <2>1, <2>2
  <2> QED BY <2>1, <2>2, <2>3 DEF Parent
<1>12. EndedApart'
  <2>1. ASSUME NEW r \in Rows(finished'), NEW p \in asked, NEW b \in Branches, Of(r.trace, Composite(p.trace, b))
        PROVE  FALSE
    <3>1. p.trace \in Chains /\ p \in Rows(remaining) /\ p.trace \in Live
      BY <1>3 DEF Live
    <3>2. CASE config.rolloutN = 1
      <4>1. Of(r.trace, p.trace)
        BY <1>1, <2>1, <3>1, <3>2, CompositeFacts DEF Branches
      <4>2. CASE r \in Rows(finished)
        BY <1>1, <3>1, <4>1, <4>2 DEF EndedApart
      <4>3. ASSUME NEW a \in answered, r.trace = a.trace PROVE FALSE
        <5>1. a.trace \in Chains
          BY <1>2, <1>3 DEF RowType
        <5>2. a.trace = p.trace
          BY <3>1, <4>1, <4>3, <5>1, OfChain
        <5> QED BY <1>2, <5>2
      <4> QED BY <1>6, <4>2, <4>3
    <3>3. CASE config.rolloutN # 1
      <4>1. ~Before(r.trace, round)
        <5>1. config.rolloutN \in Nat /\ config.rolloutN > 1
          BY <1>1, <3>3
        <5> QED BY <1>1, <2>1, <3>1, <5>1, NewBranch DEF Branches
      <4>2. r.trace \in DOMAIN requests
        BY <1>1, <1>2, <1>6 DEF TracesKnown
      <4> QED BY <1>1, <1>2, <4>1, <4>2 DEF TracesKnown, NextRound
    <3> QED BY <3>2, <3>3
  <2>2. ASSUME NEW r \in Rows(finished'), NEW g \in {x.group : x \in Rows(running')} PROVE ~Of(r.trace, g)
    <3>1. PICK p \in asked, b \in Branches : g = Composite(p.trace, b)
      BY <1>3
    <3> QED BY <2>1, <3>1
  <2>3. Live' = {x.group : x \in Rows(running')}
    BY <1>5 DEF Live
  <2> QED BY <1>2, <1>5, <2>2, <2>3 DEF EndedApart, Distinct, Of
<1>13. InputsKept'
  <2>1. \A x \in Rows(running') : \E p \in asked : x.input = p.input
    BY <1>3
  <2>2. \A p \in asked : \E x \in Rows(running') : x.input = p.input
    <3> TAKE p \in asked
    <3>1. 1 \in 1..count[p]
      BY <1>3
    <3>2. PolicyRow(p, count[p], 1, 1) \in Rows(running')
      BY <1>1, <3>1 DEF BackboneMoves
    <3>3. PolicyRow(p, count[p], 1, 1).input = p.input
      BY DEF PolicyRow
    <3> QED BY <3>2, <3>3
  <2>3. \A a \in answered : \E r \in Rows(finished') : r.input = a.input
    <3> TAKE a \in answered
    <3>1. Finish(a, "backbone") \in Rows(finished')
      BY <1>2
    <3>2. Finish(a, "backbone").input = a.input
      BY DEF Finish
    <3> QED BY <3>1, <3>2
  <2>4. {r.input : r \in Rows(remaining')} = {}
    BY <1>5
  <2>5. Rows(running) = {}
    BY <1>1, <1>2, NoRows DEF InTurn
  <2>6. Inputs = {r.input : r \in Rows(remaining) \cup Rows(finished)}
    BY <1>1, <2>5 DEF InputsKept
  <2>7. ASSUME NEW i \in Inputs PROVE \E r \in Rows(running') \cup Rows(finished') : r.input = i
    <3>1. PICK s \in Rows(remaining) \cup Rows(finished) : s.input = i
      BY <2>6
    <3> QED BY <1>2, <2>2, <2>3, <3>1
  <2>8. ASSUME NEW r \in Rows(running') \cup Rows(finished') PROVE r.input \in Inputs
    <3>1. \E s \in Rows(remaining) \cup Rows(finished) : s.input = r.input
      BY <1>2, <1>3, <1>6, <2>1
    <3> QED BY <2>6, <3>1
  <2>9. Inputs = {r.input : r \in Rows(running') \cup Rows(finished')}
    BY <2>7, <2>8
  <2> QED BY <1>4, <1>5, <2>9 DEF InputsKept
<1>14. Unpruned'
  <2>1. config.validation => \A r \in Rows(finished') : r.by = "backbone"
    BY <1>1, <1>6 DEF Unpruned
  <2>2. ASSUME config.rolloutN = 1
        PROVE  /\ \A r \in Rows(running') : r.parent = Root(r.input)
               /\ \A r \in Rows(finished') : r.by = "backbone" => r.trace = Root(r.input)
    <3>1. \A r \in Rows(remaining) : r.trace = Root(r.input)
      BY <1>1, <2>2 DEF Unpruned
    <3>2. ASSUME NEW x \in Rows(running') PROVE x.parent = Root(x.input)
      <4>1. PICK p \in asked : x.parent = p.trace /\ x.input = p.input
        BY <1>3
      <4> QED BY <1>3, <3>1, <4>1
    <3>3. ASSUME NEW r \in Rows(finished'), r.by = "backbone" PROVE r.trace = Root(r.input)
      BY <1>1, <1>2, <1>6, <2>2, <3>1, <3>3 DEF Unpruned
    <3> QED BY <3>2, <3>3
  <2> QED BY <1>2, <1>5, <2>1, <2>2 DEF Unpruned, Root
<1> QED BY <1>7, <1>8, <1>9, <1>10, <1>11, <1>12, <1>13, <1>14 DEF RowsInv

LEMMA PolicyRows ==
    ASSUME RowsInv, NEW r \in Rows(running)
    PROVE  /\ r \in PolicyRowType /\ r.group \in Chains /\ r.group \in Groups /\ r.group \in Live
           /\ Of(r.trace, r.group) /\ r.query \in 1..r.count /\ r.count \in Nat \ {0}
           /\ \E s \in Rows(running) : s.group = r.group /\ s.query = 1 /\ s.input = r.input
<1>1. /\ RowsTyped /\ RunsWhole /\ running \in Seq(PolicyRowType)
  BY DEF RowsInv, RowsTyped
<1>2. r \in PolicyRowType
  BY <1>1, RowsElements
<1>3. PICK b \in Branches : r = PolicyRow(Parent(r), r.count, b, r.query)
  BY <1>1 DEF RunsWhole
<1>4. r.query \in 1..r.count /\ r.group \in Chains /\ r.count \in Nat \ {0}
  BY <1>1, <1>2 DEF RunsWhole, PolicyRowType
<1>5. /\ Parent(r).trace \in Chains /\ Parent(r).input \in Inputs /\ Parent(r).past \in SUBSET PolicyRequests
      /\ Parent(r).input = r.input
  BY <1>2 DEF Parent, PolicyRowType
<1> DEFINE s == PolicyRow(Parent(r), r.count, b, 1)
<1>6. 1 \in 1..r.count
  BY <1>4
<1>7. s \in Rows(running)
  BY <1>1, <1>6 DEF RunsWhole
<1> HIDE DEF Parent
<1>8. /\ s.group = Composite(Parent(r).trace, b) /\ s.query = 1 /\ s.input = r.input
  BY <1>5 DEF PolicyRow
<1>9. r.group = Composite(Parent(r).trace, b) /\ Of(r.trace, r.group)
  BY <1>1, <1>3, <1>4, <1>5, PolicyRowFacts
<1> QED BY <1>2, <1>4, <1>7, <1>8, <1>9 DEF Groups, Live

LEMMA PolicyKeepsRows ==
    ASSUME RowsInv, NEW goes, PolicyMoves(goes)
    PROVE  RowsInv'
<1>1. /\ RowsTyped /\ TracesKnown /\ EndedApart /\ InputsKept /\ Unpruned /\ InTurn
      /\ config.rolloutN \in Nat \ {0} /\ round \in Nat /\ config.maxRounds \in Nat \ {0}
  BY ConfigTypes DEF RowsInv
<1>2. /\ goes \in SUBSET Groups /\ (config.validation => goes = Groups)
      /\ finished' \in Seq(FinishedType) /\ Distinct(finished')
      /\ Rows(finished') = Rows(finished) \cup {Ended(r) : r \in EndHere(goes)}
      /\ remaining' \in Seq(RowType) /\ Distinct(remaining')
      /\ Rows(remaining') = {GoesOn(r) : r \in {s \in Rows(running) : s.group \in goes /\ s.query = 1}}
      /\ phase = "policy"
      /\ IF remaining' = <<>> THEN phase' = "restore" /\ UNCHANGED round
         ELSE IF round = config.maxRounds - 1 THEN phase' = "final" /\ UNCHANGED round
         ELSE phase' = "backbone" /\ round' = round + 1
      /\ running' = <<>> /\ config' = config
  BY DEF PolicyMoves
<1>3. /\ Inputs' = Inputs /\ Branches' = Branches /\ Rounds' = Rounds
      /\ RowType' = RowType /\ PolicyRowType' = PolicyRowType
      /\ FinishedType' = FinishedType /\ PointType' = PointType
  BY <1>2, SameTypes
<1>4. Rows(running') = {} /\ Distinct(running') /\ running' \in Seq(PolicyRowType)
  BY <1>2, NoRows
<1>5. \A r \in Rows(running) :
          /\ Ended(r).trace = r.trace /\ Ended(r).input = r.input /\ Ended(r).by = "policy"
          /\ GoesOn(r).trace = r.group /\ GoesOn(r).input = r.input
          /\ r \in PolicyRowType /\ r.group \in Chains /\ r.group \in Groups /\ r.group \in Live
          /\ Of(r.trace, r.group)
          /\ \E s \in Rows(running) : s.group = r.group /\ s.query = 1 /\ s.input = r.input
  <2> TAKE r \in Rows(running)
  <2>1. r \in PolicyRowType
    BY PolicyRows
  <2>2. Ended(r).trace = r.trace /\ Ended(r).input = r.input /\ Ended(r).by = "policy"
    BY <2>1 DEF Ended, Finish, PolicyRowType
  <2>3. GoesOn(r).trace = r.group /\ GoesOn(r).input = r.input
    BY DEF GoesOn
  <2> QED BY <2>2, <2>3, PolicyRows
<1>6. \A x \in Rows(finished') :
          \/ x \in Rows(finished)
          \/ \E r \in Rows(running) : /\ r.group \notin goes /\ x = Ended(r) /\ x.trace = r.trace
                                      /\ x.input = r.input /\ x.by = "policy"
  BY <1>2, <1>5 DEF EndHere
<1>7. \A x \in Rows(remaining') :
          \E r \in Rows(running) : /\ r.group \in goes /\ x = GoesOn(r) /\ x.trace = r.group
                                   /\ x.input = r.input
  BY <1>2, <1>5
<1>8. RowsTyped'
  <2>1. round' \in Rounds /\ phase' \in {"restore", "final", "backbone"}
    <3>1. round \in 0..(config.maxRounds - 1)
      BY <1>1 DEF RowsTyped, Rounds
    <3>2. round' = round \/ (round # config.maxRounds - 1 /\ round' = round + 1)
      BY <1>2
    <3> QED BY <1>1, <1>2, <3>1, <3>2 DEF Rounds
  <2>2. config \in Configurations
    BY <1>1 DEF RowsTyped
  <2> QED BY <1>2, <1>3, <1>4, <2>1, <2>2 DEF RowsTyped
<1>9. InTurn'
  BY <1>2, <1>4 DEF InTurn
<1>10. TracesKnown'
  <2>1. /\ \A r \in Rows(running) : r.trace \in DOMAIN requests /\ r.group \in DOMAIN requests
        /\ DOMAIN requests = DOMAIN chain
    BY <1>1 DEF TracesKnown
  <2>2. TracesOf(Rows(running)) \subseteq DOMAIN requests /\ Groups \subseteq DOMAIN requests
    BY <2>1 DEF TracesOf, Groups
  <2>3. DOMAIN Own = DOMAIN requests \cup TracesOf(Rows(running))
    BY DEF Own, Updated, TracesOf
  <2>4. DOMAIN MergedRequests(Own) = DOMAIN Own \cup Groups
    BY DEF MergedRequests, Updated
  <2>5. requests' = MergedRequests(Own) /\ chain' = Heard("policy", TracesOf(Rows(running)) \cup Groups)
    BY DEF PolicyMoves
  <2>6. DOMAIN requests' = DOMAIN requests
    BY <2>2, <2>3, <2>4, <2>5
  <2>7. DOMAIN chain' = DOMAIN chain
    BY <2>1, <2>2, <2>5, HeardDomain
  <2>8. NextRound = round + 1 /\ NextRound' = round + 1
    BY <1>1, <1>2 DEF NextRound
  <2>9. \A t \in DOMAIN requests : t \in Traces /\ Before(t, round + 1)
    BY <1>1, <2>8 DEF TracesKnown
  <2>10. \A x \in Rows(remaining') : x.trace \in DOMAIN requests
    BY <1>7, <2>1
  <2>11. \A x \in Rows(finished') : x.trace \in DOMAIN requests
    BY <1>1, <1>6, <2>1 DEF TracesKnown
  <2> QED BY <1>4, <2>1, <2>6, <2>7, <2>8, <2>9, <2>10, <2>11 DEF TracesKnown, Before
<1>11. RunsWhole' /\ OfOneParent'
  BY <1>4 DEF RunsWhole, OfOneParent
<1>12. EndedApart'
  <2>1. ASSUME NEW x \in Rows(finished'), NEW g \in {y.trace : y \in Rows(remaining')}, Of(x.trace, g)
        PROVE  FALSE
    <3>1. PICK s \in Rows(running) : s.group \in goes /\ g = s.group
      BY <1>7
    <3>2. g \in Live /\ g \in Chains
      BY <1>5, <3>1
    <3>3. CASE x \in Rows(finished)
      BY <1>1, <2>1, <3>2, <3>3 DEF EndedApart
    <3>4. ASSUME NEW r \in Rows(running), r.group \notin goes, x.trace = r.trace PROVE FALSE
      <4>1. Of(x.trace, r.group) /\ r.group \in Chains
        BY <1>5, <3>4
      <4>2. g = r.group
        BY <2>1, <3>2, <4>1, OfUnique
      <4> QED BY <3>1, <3>4, <4>2
    <3> QED BY <1>6, <3>3, <3>4
  <2>2. Live' = {y.trace : y \in Rows(remaining')}
    BY <1>4 DEF Live
  <2> QED BY <1>2, <1>4, <2>1, <2>2 DEF EndedApart, Distinct, Of
<1>13. InputsKept'
  <2>1. Rows(remaining) = {}
    BY <1>1, <1>2, NoRows DEF InTurn
  <2>2. Inputs = {r.input : r \in Rows(running) \cup Rows(finished)}
    BY <1>1, <2>1 DEF InputsKept
  <2>3. ASSUME NEW r \in Rows(running)
        PROVE  \E x \in Rows(remaining') \cup Rows(finished') : x.input = r.input
    <3>1. CASE r.group \in goes
      <4>1. PICK s \in Rows(running) : s.group = r.group /\ s.query = 1 /\ s.input = r.input
        BY <1>5
      <4>2. GoesOn(s) \in Rows(remaining') /\ GoesOn(s).input = s.input
        BY <1>2, <1>5, <3>1, <4>1
      <4> QED BY <4>1, <4>2
    <3>2. CASE r.group \notin goes
      <4>1. Ended(r) \in Rows(finished') /\ Ended(r).input = r.input
        BY <1>2, <1>5, <3>2 DEF EndHere
      <4> QED BY <4>1
    <3> QED BY <3>1, <3>2
  <2>4. \A i \in Inputs : \E x \in Rows(remaining') \cup Rows(finished') : x.input = i
    <3> TAKE i \in Inputs
    <3>1. PICK s \in Rows(running) \cup Rows(finished) : s.input = i
      BY <2>2
    <3> QED BY <1>2, <2>3, <3>1
  <2>5. \A x \in Rows(remaining') \cup Rows(finished') : x.input \in Inputs
    BY <1>6, <1>7, <2>2
  <2>6. Inputs = {x.input : x \in Rows(remaining') \cup Rows(finished')}
    BY <2>4, <2>5
  <2> QED BY <1>3, <1>4, <2>6 DEF InputsKept
<1>14. Unpruned'
  <2>1. ASSUME config.validation PROVE \A x \in Rows(finished') : x.by = "backbone"
    <3>1. \A r \in Rows(running) : r.group \in goes
      BY <1>2, <1>5, <2>1
    <3> QED BY <1>1, <1>6, <2>1, <3>1 DEF Unpruned
  <2>2. ASSUME config.rolloutN = 1
        PROVE  /\ \A x \in Rows(remaining') : x.trace = Root(x.input)
               /\ \A x \in Rows(finished') : x.by = "backbone" => x.trace = Root(x.input)
    <3>1. ASSUME NEW r \in Rows(running) PROVE r.group = Root(r.input)
      <4>1. PICK b \in Branches : r = PolicyRow(Parent(r), r.count, b, r.query)
        BY <1>1 DEF RowsInv, RunsWhole
      <4>2. r.parent \in Chains
        BY <1>5 DEF PolicyRowType
      <4>3. r.group = Composite(r.parent, b)
        <5>1. PolicyRow(Parent(r), r.count, b, r.query).group = Composite(r.parent, b)
          BY DEF PolicyRow, Parent
        <5> QED BY <4>1, <5>1
      <4>4. r.group = r.parent
        BY <1>1, <2>2, <4>2, <4>3, CompositeFacts DEF Branches
      <4> QED BY <1>1, <2>2, <4>4 DEF Unpruned
    <3>2. \A x \in Rows(remaining') : x.trace = Root(x.input)
      BY <1>7, <3>1
    <3> QED BY <1>1, <1>6, <2>2, <3>2 DEF Unpruned
  <2> QED BY <1>2, <1>4, <2>1, <2>2 DEF Unpruned, Root
<1> QED BY <1>8, <1>9, <1>10, <1>11, <1>12, <1>13, <1>14 DEF RowsInv

(* The rows that are left are answered by the backbone.                    *)
FinalMoves ==
    /\ finished' \in Seq(FinishedType) /\ Distinct(finished')
    /\ Rows(finished') = Rows(finished) \cup {Finish(r, "backbone") : r \in Rows(remaining)}
    /\ finalSource' = Updated(finalSource, [t \in TracesOf(Rows(remaining)) |-> "backbone"])
    /\ chain' = Heard("backbone", TracesOf(Rows(remaining)))
    /\ phase = "final" /\ phase' = "restore" /\ remaining' = <<>>
    /\ UNCHANGED <<config, round, running, points, pairGroup, requests>>

LEMMA FinalMovesRows == ASSUME RowsInv, Final PROVE FinalMoves
<1> DEFINE new == [k \in 1..Len(remaining) |-> Finish(remaining[k], "backbone")]
<1>1. /\ RowsTyped /\ Distinct(remaining) /\ Distinct(finished) /\ remaining \in Seq(RowType)
      /\ finished \in Seq(FinishedType)
      /\ \A r \in Rows(finished), g \in Live : ~Of(r.trace, g)
  BY DEF RowsInv, EndedApart, RowsTyped
<1>2. /\ finished' = finished \o new /\ phase = "final" /\ phase' = "restore" /\ remaining' = <<>>
      /\ finalSource' = Updated(finalSource, [t \in TracesOf(Rows(remaining)) |-> "backbone"])
      /\ chain' = Heard("backbone", TracesOf(Rows(remaining)))
      /\ UNCHANGED <<config, round, running, points, pairGroup, requests>>
  BY Zenon DEF Final, TracesOf
<1>3. new \in Seq(FinishedType) /\ Rows(new) = {Finish(r, "backbone") : r \in Rows(remaining)} /\ Distinct(new)
  BY <1>1, FinishFacts
<1> HIDE DEF new
<1>4. TracesOf(Rows(finished)) \cap TracesOf(Rows(new)) = {}
  <2>1. \A r \in Rows(remaining) : r.trace \in Live /\ Finish(r, "backbone").trace = r.trace
    BY DEF Live, Finish
  <2>2. \A x \in Rows(new) : x.trace \in Live
    BY <1>3, <2>1
  <2> QED BY <1>1, <2>2 DEF TracesOf, Of
<1>5. /\ finished \o new \in Seq(FinishedType) /\ Distinct(finished \o new)
      /\ Rows(finished \o new) = Rows(finished) \cup {Finish(r, "backbone") : r \in Rows(remaining)}
  BY <1>1, <1>3, <1>4, ConcatRows
<1> QED BY <1>2, <1>5 DEF FinalMoves

LEMMA FinalKeepsRows == ASSUME RowsInv, FinalMoves PROVE RowsInv'
<1>1. /\ RowsTyped /\ TracesKnown /\ EndedApart /\ InputsKept /\ Unpruned /\ InTurn /\ round \in Nat
  BY ConfigTypes DEF RowsInv
<1>2. /\ finished' \in Seq(FinishedType) /\ Distinct(finished')
      /\ Rows(finished') = Rows(finished) \cup {Finish(r, "backbone") : r \in Rows(remaining)}
      /\ phase = "final" /\ phase' = "restore" /\ remaining' = <<>>
      /\ config' = config /\ round' = round /\ requests' = requests
      /\ running = <<>> /\ running' = <<>>
  BY <1>1 DEF FinalMoves, InTurn
<1>3. /\ Inputs' = Inputs /\ Branches' = Branches /\ Rounds' = Rounds
      /\ RowType' = RowType /\ PolicyRowType' = PolicyRowType /\ FinishedType' = FinishedType
  BY <1>2, SameTypes
<1>4. /\ Rows(running) = {} /\ Rows(running') = {} /\ Distinct(running') /\ running' \in Seq(PolicyRowType)
      /\ Rows(remaining') = {} /\ Distinct(remaining') /\ remaining' \in Seq(RowType)
  BY <1>2, NoRows
<1>5. \A x \in Rows(finished') :
          \/ x \in Rows(finished)
          \/ \E r \in Rows(remaining) : x.trace = r.trace /\ x.input = r.input /\ x.by = "backbone"
  BY <1>2 DEF Finish
<1>6. RowsTyped'
  BY <1>1, <1>2, <1>3, <1>4 DEF RowsTyped
<1>7. InTurn'
  BY <1>2, <1>4 DEF InTurn
<1>8. TracesKnown'
  <2>1. DOMAIN chain' = DOMAIN chain \cup TracesOf(Rows(remaining))
    BY HeardDomain DEF FinalMoves
  <2>2. TracesOf(Rows(remaining)) \subseteq DOMAIN chain
    BY <1>1 DEF TracesKnown, TracesOf
  <2>3. DOMAIN requests = DOMAIN chain'
    BY <1>1, <2>1, <2>2 DEF TracesKnown
  <2>4. NextRound' = NextRound
    BY <1>2 DEF NextRound
  <2>5. \A x \in Rows(finished') : x.trace \in DOMAIN requests
    BY <1>1, <1>5 DEF TracesKnown
  <2>6. \A t \in DOMAIN requests : t \in Traces /\ Before(t, NextRound)
    BY <1>1 DEF TracesKnown
  <2> QED BY <1>2, <1>4, <2>3, <2>4, <2>5, <2>6 DEF TracesKnown, Before
<1>9. RunsWhole' /\ OfOneParent'
  BY <1>4 DEF RunsWhole, OfOneParent
<1>10. EndedApart'
  <2>1. Live' = {}
    BY <1>4 DEF Live
  <2> QED BY <1>2, <1>4, <2>1 DEF EndedApart, Distinct
<1>11. InputsKept'
  <2>1. Inputs = {r.input : r \in Rows(remaining) \cup Rows(finished)}
    BY <1>1, <1>4 DEF InputsKept
  <2>2. \A r \in Rows(remaining) : \E x \in Rows(finished') : x.input = r.input
    <3> TAKE r \in Rows(remaining)
    <3>1. Finish(r, "backbone") \in Rows(finished') /\ Finish(r, "backbone").input = r.input
      BY <1>2 DEF Finish
    <3> QED BY <3>1
  <2>3. \A i \in Inputs : \E x \in Rows(finished') : x.input = i
    <3> TAKE i \in Inputs
    <3>1. PICK s \in Rows(remaining) \cup Rows(finished) : s.input = i
      BY <2>1
    <3> QED BY <1>2, <2>2, <3>1
  <2>4. \A x \in Rows(finished') : x.input \in Inputs
    BY <1>5, <2>1
  <2>5. Inputs = {x.input : x \in Rows(finished')}
    BY <2>3, <2>4
  <2> QED BY <1>3, <1>4, <2>5 DEF InputsKept
<1>12. Unpruned'
  <2>1. config.validation => \A x \in Rows(finished') : x.by = "backbone"
    BY <1>1, <1>5 DEF Unpruned
  <2>2. config.rolloutN = 1 => \A x \in Rows(finished') : x.by = "backbone" => x.trace = Root(x.input)
    BY <1>1, <1>5 DEF Unpruned
  <2> QED BY <1>2, <1>4, <2>1, <2>2 DEF Unpruned, Root
<1> QED BY <1>6, <1>7, <1>8, <1>9, <1>10, <1>11, <1>12 DEF RowsInv

RestMoves ==
    /\ phase = "restore" \/ (phase = "backbone" /\ remaining = <<>>)
    /\ phase' = "done"
    /\ UNCHANGED <<config, round, remaining, running, finished, points, finalSource, pairGroup, requests, chain>>

LEMMA RestKeepsRows ==
    ASSUME RowsInv, RestMoves PROVE RowsInv'
<1>1. /\ RowsTyped /\ TracesKnown /\ EndedApart /\ InputsKept /\ Unpruned /\ InTurn
      /\ RunsWhole /\ OfOneParent /\ round \in Nat
  BY ConfigTypes DEF RowsInv
<1>2. /\ config' = config /\ round' = round /\ requests' = requests /\ chain' = chain
      /\ running' = running /\ remaining' = remaining /\ finished' = finished
      /\ phase' = "done"
  BY DEF RestMoves
<1>3. running = <<>> /\ remaining = <<>> /\ Rows(running) = {} /\ Rows(remaining) = {}
  BY <1>1, NoRows DEF RestMoves, InTurn
<1>4. RowsTyped'
  BY <1>1, <1>2, SameTypes DEF RowsTyped
<1>5. InTurn'
  BY <1>2, <1>3 DEF InTurn
<1>6. TracesKnown'
  <2>1. NextRound' = round + 1 /\ NextRound \in Nat /\ NextRound <= round + 1
    BY <1>1, <1>2 DEF NextRound
  <2>2. \A t \in DOMAIN requests : t \in Traces /\ Before(t, round + 1)
    BY <1>1, <2>1, BeforeLater DEF TracesKnown
  <2> QED BY <1>1, <1>2, <2>1, <2>2 DEF TracesKnown, Before
<1>7. RunsWhole' /\ OfOneParent'
  BY <1>2, <1>3 DEF RunsWhole, OfOneParent
<1>8. EndedApart' /\ InputsKept' /\ Unpruned'
  BY <1>1, <1>2, SameTypes DEF EndedApart, InputsKept, Unpruned, Live, Distinct, Of, Root
<1> QED BY <1>4, <1>5, <1>6, <1>7, <1>8 DEF RowsInv

-----------------------------------------------------------------------------
(* Every step is one of these moves, and the rows keep their invariant.    *)
LEMMA StepMoves ==
    ASSUME RowsInv, TwoStageNext
    PROVE  \/ \E answered, asked, count : BackboneMoves(answered, asked, count)
           \/ \E goes : PolicyMoves(goes)
           \/ FinalMoves
           \/ RestMoves
<1>1. CASE Backbone
  BY <1>1, BackboneMovesRows
<1>2. CASE Policy
  BY <1>2, PolicyMovesRows
<1>3. CASE Final
  BY <1>3, FinalMovesRows
<1>4. CASE Restore
  BY <1>4 DEF Restore, RestMoves, byTrace
<1> QED BY <1>1, <1>2, <1>3, <1>4 DEF TwoStageNext

LEMMA StutterKeepsRows == ASSUME RowsInv, UNCHANGED twoStageVars PROVE RowsInv'
<1>1. /\ RowsTyped /\ InTurn /\ TracesKnown /\ RunsWhole /\ OfOneParent
      /\ EndedApart /\ InputsKept /\ Unpruned
  BY DEF RowsInv
<1>2. /\ config' = config /\ round' = round /\ requests' = requests /\ chain' = chain
      /\ running' = running /\ remaining' = remaining /\ finished' = finished /\ phase' = phase
  BY DEF twoStageVars, byTrace
<1>3. RowsTyped'
  BY <1>1, <1>2, SameTypes DEF RowsTyped
<1>4. InTurn' /\ TracesKnown' /\ OfOneParent'
  BY <1>1, <1>2 DEF InTurn, TracesKnown, OfOneParent, Parent, NextRound, Before
<1>5. RunsWhole'
  <2>1. Branches' = Branches /\ \A p, c, b, q : PolicyRow(p, c, b, q)' = PolicyRow(p, c, b, q)
    BY <1>2, SameTypes, SamePolicyRow
  <2>2. ASSUME NEW x \in Rows(running)
        PROVE  /\ (\E b \in Branches : x = PolicyRow(Parent(x), x.count, b, x.query))'
               /\ (\A b \in Branches, q \in 1..x.count : PolicyRow(Parent(x), x.count, b, q) \in Rows(running))'
    <3>1. Rows(running') = Rows(running)
      BY <1>2
    <3>2. /\ \E b \in Branches : x = PolicyRow(Parent(x), x.count, b, x.query)
          /\ \A b \in Branches, q \in 1..x.count : PolicyRow(Parent(x), x.count, b, q) \in Rows(running)
      BY <1>1 DEF RunsWhole
    <3>3. /\ \E b \in Branches' : x = PolicyRow(Parent(x), x.count, b, x.query)'
          /\ \A b \in Branches', q \in 1..x.count : PolicyRow(Parent(x), x.count, b, q)' \in Rows(running')
      <4> HIDE DEF Parent
      <4> QED BY <2>1, <3>1, <3>2
    <3> QED BY <3>3
  <2>3. Rows(running') = Rows(running)
    BY <1>2
  <2> QED BY <1>1, <2>2, <2>3, Zenon DEF RunsWhole
<1>6. EndedApart' /\ InputsKept' /\ Unpruned'
  BY <1>1, <1>2, SameTypes DEF EndedApart, InputsKept, Unpruned, Live, Distinct, Of, Root
<1> QED BY <1>3, <1>4, <1>5, <1>6 DEF RowsInv

LEMMA StepKeepsRows == ASSUME RowsInv, [TwoStageNext]_twoStageVars PROVE RowsInv'
<1>1. CASE TwoStageNext
  BY <1>1, StepMoves, BackboneKeepsRows, PolicyKeepsRows, FinalKeepsRows, RestKeepsRows
<1>2. CASE UNCHANGED twoStageVars
  BY <1>2, StutterKeepsRows
<1> QED BY <1>1, <1>2

(* The rows are always as the invariant says, whatever the backbone and    *)
(* the judgements of the policy's rows are.                                *)
THEOREM RowsInvHolds == TwoStageSpec => []RowsInv
<1> QED BY RowsInitially, StepKeepsRows, PTL DEF TwoStageSpec

(* The row of an input in a validation with one branch.                    *)
LEMMA SortedIsIdentity ==
    ASSUME NEW n \in Nat, NEW g \in [1..n -> 1..n],
           \A i, j \in 1..n : g[i] = g[j] => i = j,
           \A i \in 1..n : \E j \in 1..n : g[j] = i,
           \A i, j \in 1..n : i < j => g[i] <= g[j]
    PROVE  g = [i \in 1..n |-> i]
<1> DEFINE T == {i \in 1..n : g[i] # i}
<1>1. ASSUME T # {} PROVE FALSE
  <2>1. PICK k \in T : \A i \in T : k <= i
    <3>1. T \subseteq Nat
      OBVIOUS
    <3> HIDE DEF T
    <3> QED BY <1>1, <3>1, LeastOf
  <2>2. k \in 1..n /\ g[k] # k /\ g[k] \in 1..n
    BY <2>1
  <2>3. \A i \in 1..n : i < k => g[i] = i
    BY <2>1, <2>2
  <2>4. g[k] > k
    BY <2>2, <2>3
  <2>5. PICK m \in 1..n : g[m] = k
    BY <2>2
  <2>6. m > k
    BY <2>2, <2>3, <2>5
  <2> QED BY <2>2, <2>4, <2>5, <2>6
<1>2. \A i \in 1..n : g[i] = i
  BY <1>1
<1> QED BY <1>2

LEMMA RestoredInOrder ==
    ASSUME RowsInv, phase = "done", config.validation, config.rolloutN = 1
    PROVE  [i \in 1..Len(restored) |-> restored[i].input] = [i \in 1..config.inputs |-> i]
<1> DEFINE n == Len(finished)
           m == config.inputs
           f == [i \in 1..n |-> finished[i].input]
<1>1. /\ RowsTyped /\ InTurn /\ EndedApart /\ InputsKept /\ Unpruned
      /\ finished \in Seq(FinishedType) /\ n \in Nat /\ m \in Nat
  <2>1. RowsTyped /\ InTurn /\ EndedApart /\ InputsKept /\ Unpruned
    BY DEF RowsInv
  <2>2. finished \in Seq(FinishedType)
    BY <2>1 DEF RowsTyped
  <2> QED BY <2>1, <2>2, ConfigTypes, LenProperties
<1>2. Rows(remaining) = {} /\ Rows(running) = {}
  BY <1>1, NoRows DEF InTurn
<1>3. Inputs = {r.input : r \in Rows(finished)}
  BY <1>1, <1>2 DEF InputsKept
<1>4. \A i \in 1..n : finished[i] \in FinishedType /\ finished[i] \in Rows(finished)
  BY <1>1, RowsElements
<1>5. \A i \in 1..n : finished[i].trace = Root(finished[i].input) /\ finished[i].input \in 1..m
  <2> TAKE i \in 1..n
  <2>1. finished[i].by = "backbone"
    BY <1>1, <1>4 DEF Unpruned
  <2> QED BY <1>1, <1>4, <2>1 DEF Unpruned, FinishedType, Inputs
<1>6. \A i, j \in 1..n : f[i] = f[j] => i = j
  <2> SUFFICES ASSUME NEW i \in 1..n, NEW j \in 1..n, finished[i].input = finished[j].input PROVE i = j
    OBVIOUS
  <2>1. finished[i].trace = finished[j].trace
    BY <1>5
  <2> QED BY <1>1, <2>1 DEF EndedApart, Distinct
<1>7. \A k \in 1..m : \E i \in 1..n : f[i] = k
  BY <1>1, <1>3 DEF Rows, Inputs
<1>8. f \in [1..n -> 1..m]
  BY <1>5
<1>9. n = m
  <2>1. f \in Bijection(1..n, 1..m)
    <3> HIDE DEF f
    <3> QED BY <1>6, <1>7, <1>8 DEF Bijection, Injection, Surjection, IsInjective
  <2>2. ExistsBijection(1..n, 1..m)
    <3> HIDE DEF f
    <3> QED BY <2>1 DEF ExistsBijection
  <2> HIDE DEF n, m
  <2>3. IsFiniteSet(1..n) /\ Cardinality(1..n) = n
    <3>1. 1 \in Int /\ n \in Int /\ (IF 1 > n THEN 0 ELSE n - 1 + 1) = n
      BY <1>1
    <3> QED BY <3>1, FS_Interval, Zenon
  <2>4. Cardinality(1..m) = m
    <3>1. 1 \in Int /\ m \in Int /\ (IF 1 > m THEN 0 ELSE m - 1 + 1) = m
      BY <1>1
    <3> QED BY <3>1, FS_Interval, Zenon
  <2>5. Cardinality(1..m) = Cardinality(1..n)
    BY <2>2, <2>3, FS_Bijection
  <2> QED BY <2>3, <2>4, <2>5
<1> DEFINE Sorts(p) == \A i, j \in 1..n : i < j => finished[p[i]].input <= finished[p[j]].input
           place == [k \in 1..n |-> CHOOSE i \in 1..n : f[i] = k]
<1>10. place \in Bijection(1..n, 1..n) /\ Sorts(place)
  <2>1. \A k \in 1..n : place[k] \in 1..n /\ f[place[k]] = k
    BY <1>7, <1>9
  <2>2. place \in [1..n -> 1..n]
    BY <2>1
  <2>3. \A i \in 1..n : place[f[i]] = i /\ f[i] \in 1..n
    BY <1>6, <1>8, <1>9, <2>1
  <2>4. \A k \in 1..n : finished[place[k]].input = k
    BY <2>1
  <2> HIDE DEF place, f
  <2>5. place \in Bijection(1..n, 1..n)
    <3>1. \A k, j \in 1..n : place[k] = place[j] => k = j
      BY <2>1
    <3>2. \A i \in 1..n : \E k \in 1..n : place[k] = i
      BY <2>3
    <3> QED BY <2>2, <3>1, <3>2 DEF Bijection, Injection, Surjection, IsInjective
  <2>6. Sorts(place)
    BY <2>4
  <2> QED BY <2>5, <2>6
<1> DEFINE argsort == CHOOSE p \in Bijection(1..n, 1..n) : Sorts(p)
<1>11. restored = [i \in 1..n |-> finished[argsort[i]]]
  BY DEF restored
<1>12. argsort \in Bijection(1..n, 1..n) /\ Sorts(argsort)
  <2> HIDE DEF Sorts, place
  <2> QED BY <1>10
<1> HIDE DEF argsort, place
<1> DEFINE g == [i \in 1..n |-> finished[argsort[i]].input]
<1>13. /\ argsort \in [1..n -> 1..n]
       /\ \A i, j \in 1..n : argsort[i] = argsort[j] => i = j
       /\ \A k \in 1..n : \E i \in 1..n : argsort[i] = k
  BY <1>12 DEF Bijection, Injection, Surjection, IsInjective
<1>14. g \in [1..n -> 1..n] /\ \A i \in 1..n : g[i] = f[argsort[i]] /\ argsort[i] \in 1..n
  BY <1>8, <1>9, <1>13
<1>15. \A i, j \in 1..n : i < j => g[i] <= g[j]
  BY <1>12
<1> HIDE DEF f, g
<1>16. \A i, j \in 1..n : g[i] = g[j] => i = j
  <2> SUFFICES ASSUME NEW i \in 1..n, NEW j \in 1..n, g[i] = g[j] PROVE i = j
    OBVIOUS
  <2>1. f[argsort[i]] = f[argsort[j]] /\ argsort[i] \in 1..n /\ argsort[j] \in 1..n
    BY <1>14
  <2> HIDE DEF n
  <2>2. argsort[i] = argsort[j]
    BY <1>6, <2>1
  <2> QED BY <1>13, <2>2
<1>17. \A k \in 1..n : \E i \in 1..n : g[i] = k
  <2> TAKE k \in 1..n
  <2>1. PICK j \in 1..n : f[j] = k
    BY <1>7, <1>9
  <2>2. PICK i \in 1..n : argsort[i] = j
    BY <1>13
  <2> QED BY <1>14, <2>1, <2>2
<1>18. g = [i \in 1..n |-> i]
  <2> HIDE DEF n
  <2>1. n \in Nat /\ g \in [1..n -> 1..n]
    BY <1>1, <1>14
  <2> QED BY <1>15, <1>16, <1>17, <2>1, SortedIsIdentity, Zenon
<1>19. Len(restored) = n /\ \A i \in 1..n : restored[i].input = g[i]
  <2>1. restored = [i \in 1..n |-> finished[argsort[i]]]
    BY <1>11
  <2>2. \A i \in 1..n : finished[argsort[i]] \in FinishedType
    BY <1>4, <1>14
  <2>3. Len(restored) = n
    BY <1>1, <2>1, <2>2, IsASeq
  <2>4. \A i \in 1..n : restored[i].input = finished[argsort[i]].input
    BY <2>1
  <2> QED BY <2>3, <2>4 DEF g
<1> QED BY <1>9, <1>18, <1>19

LEMMA AllAnswered == RowsInv => EveryInputAnswered
<1> SUFFICES ASSUME RowsInv PROVE EveryInputAnswered
  OBVIOUS
<1>1. EndedApart /\ InputsKept /\ Unpruned
  BY DEF RowsInv
<1>2. \A r \in Rows(running) : Of(r.trace, r.group) /\ r.group \in Live
  BY PolicyRows
<1>3. ASSUME NEW r \in Rows(finished), NEW s \in Rows(remaining) \cup Rows(running), r.trace = s.trace
      PROVE  FALSE
  <2>1. CASE s \in Rows(remaining)
    BY <1>1, <1>3, <2>1 DEF EndedApart, Live, Of
  <2>2. CASE s \in Rows(running)
    <3>1. Of(r.trace, s.group) /\ s.group \in Live
      BY <1>2, <1>3, <2>2
    <3> QED BY <1>1, <3>1 DEF EndedApart
  <2> QED BY <2>1, <2>2
<1>4. {r.trace : r \in Rows(finished)} \cap {r.trace : r \in Rows(remaining) \cup Rows(running)} = {}
  BY <1>3
<1>5. phase = "done" /\ config.validation /\ config.rolloutN = 1 =>
          [i \in 1..Len(restored) |-> restored[i].input] = [i \in 1..config.inputs |-> i]
  BY RestoredInOrder
<1> QED BY <1>1, <1>4, <1>5 DEF EveryInputAnswered, EndedApart, InputsKept, Inputs, Distinct, Unpruned

(* EveryInputAnswered holds in every run, for any number of inputs,        *)
(* branches, rounds and queries: no input is lost, no branch ends twice or *)
(* goes on after its end, and a validation in one branch returns every     *)
(* input once, in order, answered by the backbone.                         *)
THEOREM EveryInputAnsweredHolds == TwoStageSpec => []EveryInputAnswered
<1> QED BY RowsInvHolds, AllAnswered, PTL

-----------------------------------------------------------------------------
(* The dictionaries of writers and groups.                                 *)
LEMMA RowOfTrace ==
    ASSUME NEW s, Distinct(s), NEW x \in Rows(s), NEW y \in Rows(s), x.trace = y.trace
    PROVE  x = y
  BY DEF Distinct, Rows

LEMMA PairGroupFacts ==
    ASSUME round \in Nat, NEW p \in Chains, NEW c \in Nat, NEW q \in Nat
    PROVE  /\ PairGroup(p, q, c) \in Traces
           /\ <<"round", round, 0>> \in Rows(PairGroup(p, q, c))
<1> DEFINE k == <<"round", round, 0>>
           g == Append(p, k)
           h == Append(g, <<"query", q, 0>>)
<1>1. p \in Traces /\ k \in Parts /\ <<"query", q, 0>> \in Parts
  BY DEF Chains, Parts
<1>2. /\ g \in Traces /\ Len(g) = Len(p) + 1 /\ Len(p) \in Nat /\ g[Len(p) + 1] = k
  BY <1>1, Extended
<1>3. h \in Traces /\ Len(h) = Len(g) + 1 /\ \A i \in 1..Len(g) : h[i] = g[i]
  BY <1>1, <1>2, Extended
<1> HIDE DEF k, g, h
<1>4. k \in Rows(g) /\ k \in Rows(h)
  <2>1. Len(p) + 1 \in 1..Len(g) /\ Len(p) + 1 \in 1..Len(h)
    BY <1>2, <1>3
  <2>2. h[Len(p) + 1] = k
    BY <1>2, <1>3, <2>1
  <2> QED BY <1>2, <2>1, <2>2 DEF Rows
<1>5. PairGroup(p, q, c) = IF c > 1 THEN h ELSE g
  BY DEF PairGroup, k, g, h
<1> QED BY <1>2, <1>3, <1>4, <1>5 DEF k

LEMMA NewPairGroupsFacts ==
    ASSUME NEW s, Distinct(s)
    PROVE  /\ \A r \in Rows(s) : /\ r.trace \in DOMAIN NewPairGroups(Rows(s))
                                 /\ NewPairGroups(Rows(s))[r.trace] = PairGroup(r.parent, r.query, r.count)
           /\ \A t \in DOMAIN pairGroup :
                 t \notin TracesOf(Rows(s)) =>
                     t \in DOMAIN NewPairGroups(Rows(s)) /\ NewPairGroups(Rows(s))[t] = pairGroup[t]
<1> DEFINE row(t) == CHOOSE x \in Rows(s) : x.trace = t
           new == [t \in {r.trace : r \in Rows(s)} |-> PairGroup(row(t).parent, row(t).query, row(t).count)]
<1>1. NewPairGroups(Rows(s)) = Updated(pairGroup, new)
  BY DEF NewPairGroups
<1>2. \A r \in Rows(s) : row(r.trace) = r
  <2> TAKE r \in Rows(s)
  <2>1. row(r.trace) \in Rows(s) /\ row(r.trace).trace = r.trace
    OBVIOUS
  <2> HIDE DEF row
  <2> QED BY <2>1, RowOfTrace
<1>3. \A r \in Rows(s) : r.trace \in DOMAIN new /\ new[r.trace] = PairGroup(r.parent, r.query, r.count)
  BY <1>2
<1>4. DOMAIN new = TracesOf(Rows(s))
  BY DEF TracesOf
<1> HIDE DEF new
<1> QED BY <1>1, <1>3, <1>4 DEF Updated

LEMMA BackboneKeepsLookups ==
    ASSUME RowsInv, RowsInv', LookupsInv, NEW answered, NEW asked, NEW count, BackboneMoves(answered, asked, count)
    PROVE  LookupsInv'
<1>1. /\ answered \subseteq Rows(remaining) /\ Distinct(running') /\ round' = round
      /\ Rows(finished') = Rows(finished) \cup {Finish(r, "backbone") : r \in answered}
      /\ finalSource' = Updated(finalSource, [t \in TracesOf(answered) |-> "backbone"])
      /\ pairGroup' = NewPairGroups(Rows(running'))
  BY DEF BackboneMoves
<1>2. {r.trace : r \in Rows(finished)} \cap {r.trace : r \in Rows(remaining) \cup Rows(running)} = {}
  BY AllAnswered DEF EveryInputAnswered
<1>3. {r.trace : r \in Rows(finished')} \cap {r.trace : r \in Rows(remaining') \cup Rows(running')} = {}
  <2>1. EveryInputAnswered'
    BY AllAnswered, PTL
  <2> QED BY <2>1 DEF EveryInputAnswered
<1>4. /\ \A r \in Rows(running') : /\ r.trace \in DOMAIN pairGroup'
                                   /\ pairGroup'[r.trace] = PairGroup(r.parent, r.query, r.count)
      /\ \A t \in DOMAIN pairGroup : t \notin TracesOf(Rows(running')) =>
             t \in DOMAIN pairGroup' /\ pairGroup'[t] = pairGroup[t]
  BY <1>1, NewPairGroupsFacts
<1>5. \A r \in Rows(finished) : r.trace \notin TracesOf(answered) /\ r.trace \notin TracesOf(Rows(running'))
  BY <1>1, <1>2, <1>3 DEF TracesOf
<1>6. ASSUME NEW x \in Rows(finished')
      PROVE  /\ x.trace \in DOMAIN finalSource' /\ finalSource'[x.trace] = x.by
             /\ x.by = "policy" =>
                   x.trace \in DOMAIN pairGroup' /\ <<"round", x.at, 0>> \in Rows(pairGroup'[x.trace])
  <2>1. CASE x \in Rows(finished)
    <3>1. /\ x.trace \in DOMAIN finalSource /\ finalSource[x.trace] = x.by
          /\ x.by = "policy" =>
                x.trace \in DOMAIN pairGroup /\ <<"round", x.at, 0>> \in Rows(pairGroup[x.trace])
      BY <2>1 DEF LookupsInv, Found
    <3>2. x.trace \in DOMAIN finalSource' /\ finalSource'[x.trace] = x.by
      BY <1>1, <1>5, <2>1, <3>1 DEF Updated
    <3>3. x.by = "policy" => x.trace \in DOMAIN pairGroup' /\ pairGroup'[x.trace] = pairGroup[x.trace]
      BY <1>4, <1>5, <2>1, <3>1
    <3> QED BY <3>1, <3>2, <3>3
  <2>2. ASSUME NEW a \in answered, x = Finish(a, "backbone")
        PROVE  x.trace \in DOMAIN finalSource' /\ finalSource'[x.trace] = x.by /\ x.by # "policy"
    <3>1. x.trace = a.trace /\ x.by = "backbone"
      BY <2>2 DEF Finish
    <3>2. a.trace \in TracesOf(answered)
      BY DEF TracesOf
    <3> QED BY <1>1, <3>1, <3>2 DEF Updated
  <2> QED BY <1>1, <2>1, <2>2
<1>7. \A t \in DOMAIN finalSource' : finalSource'[t] \in {"backbone", "policy"}
  BY <1>1 DEF Updated, LookupsInv
<1> QED BY <1>1, <1>4, <1>6, <1>7 DEF LookupsInv, Found, PairGroup

LEMMA PolicyKeepsLookups ==
    ASSUME RowsInv, LookupsInv, NEW goes, PolicyMoves(goes)
    PROVE  LookupsInv'
<1>1. /\ Rows(finished') = Rows(finished) \cup {Ended(r) : r \in EndHere(goes)}
      /\ finalSource' = Updated(finalSource, [t \in TracesOf(EndHere(goes)) |-> "policy"])
      /\ running' = <<>> /\ Rows(running') = {} /\ pairGroup' = pairGroup
  BY NoRows DEF PolicyMoves
<1>2. {r.trace : r \in Rows(finished)} \cap {r.trace : r \in Rows(remaining) \cup Rows(running)} = {}
  BY AllAnswered DEF EveryInputAnswered
<1>3. EndHere(goes) \subseteq Rows(running) /\ TracesOf(EndHere(goes)) = {r.trace : r \in EndHere(goes)}
  BY DEF EndHere, TracesOf
<1>4. \A r \in Rows(finished) : r.trace \notin TracesOf(EndHere(goes))
  BY <1>2, <1>3
<1>5. ASSUME NEW x \in Rows(finished')
      PROVE  /\ x.trace \in DOMAIN finalSource' /\ finalSource'[x.trace] = x.by
             /\ x.by = "policy" =>
                   x.trace \in DOMAIN pairGroup' /\ <<"round", x.at, 0>> \in Rows(pairGroup'[x.trace])
  <2>1. CASE x \in Rows(finished)
    <3>1. /\ x.trace \in DOMAIN finalSource /\ finalSource[x.trace] = x.by
          /\ x.by = "policy" =>
                x.trace \in DOMAIN pairGroup /\ <<"round", x.at, 0>> \in Rows(pairGroup[x.trace])
      BY <2>1 DEF LookupsInv, Found
    <3>2. x.trace \in DOMAIN finalSource' /\ finalSource'[x.trace] = x.by
      BY <1>1, <1>4, <2>1, <3>1 DEF Updated
    <3> QED BY <1>1, <3>1, <3>2
  <2>2. ASSUME NEW r \in EndHere(goes), x = Ended(r)
        PROVE  /\ x.trace \in DOMAIN finalSource' /\ finalSource'[x.trace] = x.by
               /\ x.trace \in DOMAIN pairGroup' /\ <<"round", x.at, 0>> \in Rows(pairGroup'[x.trace])
    <3>1. r \in Rows(running) /\ r \in PolicyRowType /\ round \in Nat
      BY <1>3, PolicyRows, ConfigTypes DEF RowsInv
    <3>2. x.trace = r.trace /\ x.by = "policy" /\ x.at = round
      BY <2>2, <3>1 DEF Ended, Finish, PolicyRowType
    <3>3. r.trace \in TracesOf(EndHere(goes))
      BY <1>3
    <3>4. finalSource'[x.trace] = x.by /\ x.trace \in DOMAIN finalSource'
      BY <1>1, <3>2, <3>3 DEF Updated
    <3>5. r.trace \in DOMAIN pairGroup /\ pairGroup[r.trace] = PairGroup(r.parent, r.query, r.count)
      BY <3>1 DEF LookupsInv
    <3>6. <<"round", round, 0>> \in Rows(PairGroup(r.parent, r.query, r.count))
      BY <3>1, PairGroupFacts DEF PolicyRowType
    <3> QED BY <1>1, <3>2, <3>4, <3>5, <3>6
  <2> QED BY <1>1, <2>1, <2>2
<1>6. \A t \in DOMAIN finalSource' : finalSource'[t] \in {"backbone", "policy"}
  BY <1>1 DEF Updated, LookupsInv
<1> QED BY <1>1, <1>5, <1>6 DEF LookupsInv, Found

LEMMA FinalKeepsLookups ==
    ASSUME RowsInv, LookupsInv, FinalMoves
    PROVE  LookupsInv'
<1>1. /\ Rows(finished') = Rows(finished) \cup {Finish(r, "backbone") : r \in Rows(remaining)}
      /\ finalSource' = Updated(finalSource, [t \in TracesOf(Rows(remaining)) |-> "backbone"])
      /\ pairGroup' = pairGroup /\ Rows(running') = {}
  BY NoRows DEF FinalMoves, RowsInv, InTurn
<1>2. {r.trace : r \in Rows(finished)} \cap {r.trace : r \in Rows(remaining) \cup Rows(running)} = {}
  BY AllAnswered DEF EveryInputAnswered
<1>3. ASSUME NEW x \in Rows(finished')
      PROVE  /\ x.trace \in DOMAIN finalSource' /\ finalSource'[x.trace] = x.by
             /\ x.by = "policy" =>
                   x.trace \in DOMAIN pairGroup' /\ <<"round", x.at, 0>> \in Rows(pairGroup'[x.trace])
  <2>1. CASE x \in Rows(finished)
    <3>1. /\ x.trace \in DOMAIN finalSource /\ finalSource[x.trace] = x.by
          /\ x.by = "policy" =>
                x.trace \in DOMAIN pairGroup /\ <<"round", x.at, 0>> \in Rows(pairGroup[x.trace])
      BY <2>1 DEF LookupsInv, Found
    <3>2. x.trace \notin TracesOf(Rows(remaining))
      BY <1>2, <2>1 DEF TracesOf
    <3>3. x.trace \in DOMAIN finalSource' /\ finalSource'[x.trace] = x.by
      BY <1>1, <3>1, <3>2 DEF Updated
    <3> QED BY <1>1, <3>1, <3>3
  <2>2. ASSUME NEW a \in Rows(remaining), x = Finish(a, "backbone")
        PROVE  x.trace \in DOMAIN finalSource' /\ finalSource'[x.trace] = x.by /\ x.by # "policy"
    <3>1. x.trace = a.trace /\ x.by = "backbone"
      BY <2>2 DEF Finish
    <3>2. a.trace \in TracesOf(Rows(remaining))
      BY DEF TracesOf
    <3> QED BY <1>1, <3>1, <3>2 DEF Updated
  <2> QED BY <1>1, <2>1, <2>2
<1>4. \A t \in DOMAIN finalSource' : finalSource'[t] \in {"backbone", "policy"}
  BY <1>1 DEF Updated, LookupsInv
<1> QED BY <1>1, <1>3, <1>4 DEF LookupsInv, Found

LEMMA LookupsInitially == ASSUME TwoStageInit PROVE LookupsInv
<1>1. finished = <<>> /\ running = <<>> /\ finalSource = <<>>
  BY DEF TwoStageInit
<1>2. DOMAIN finalSource = {}
  BY <1>1
<1> QED BY <1>1, <1>2, NoRows DEF LookupsInv

LEMMA StepKeepsLookups ==
    ASSUME RowsInv, RowsInv', LookupsInv, [TwoStageNext]_twoStageVars
    PROVE  LookupsInv'
<1>1. CASE TwoStageNext
  <2>1. ASSUME RestMoves PROVE LookupsInv'
    <3>1. running' = <<>> /\ finished' = finished /\ finalSource' = finalSource /\ pairGroup' = pairGroup
      BY <2>1 DEF RestMoves, RowsInv, InTurn
    <3> QED BY <3>1, NoRows DEF LookupsInv, Found
  <2> QED BY <1>1, <2>1, StepMoves, BackboneKeepsLookups, PolicyKeepsLookups, FinalKeepsLookups
<1>2. CASE UNCHANGED twoStageVars
  BY <1>2 DEF twoStageVars, byTrace, LookupsInv, Found, PairGroup
<1> QED BY <1>1, <1>2

LEMMA LookupsInvHolds == TwoStageSpec => []LookupsInv
<1> QED BY RowsInvHolds, LookupsInitially, StepKeepsLookups, PTL DEF TwoStageSpec

(* LookupsTrue holds in every run: what is looked up by trace at the end   *)
(* is true of the row, the writer of its answer and the group of its round *)
(* (backbone_final_source, pair_group_id).                                 *)
THEOREM LookupsTrueHolds == TwoStageSpec => []LookupsTrue
<1>1. LookupsInv => LookupsTrue
  BY DEF LookupsInv, LookupsTrue, Found, Get
<1> QED BY <1>1, LookupsInvHolds, PTL

(* Every variable keeps its type, and the two histories of rows are kept   *)
(* for the same traces.                                                    *)
THEOREM TwoStageTypeCorrect == TwoStageSpec => []TwoStageTypeOK
<1>1. RowsInv /\ LookupsInv => TwoStageTypeOK
  <2> SUFFICES ASSUME RowsInv, LookupsInv PROVE TwoStageTypeOK
    OBVIOUS
  <2>1. \A r \in Rows(remaining) \cup Rows(running) \cup Rows(finished) : r.input \in 1..config.inputs
    BY DEF RowsInv, InputsKept, Inputs
  <2> QED BY <2>1 DEF RowsInv, RowsTyped, TracesKnown, LookupsInv, TwoStageTypeOK
<1> QED BY <1>1, RowsInvHolds, LookupsInvHolds, PTL

-----------------------------------------------------------------------------
(* The groups of the train points.                                         *)
LEMMA PairGroupInjective ==
    ASSUME round \in Nat, NEW p \in Chains, NEW c \in Nat \ {0}, NEW q \in 1..c,
           NEW u \in Chains, NEW d \in Nat \ {0}, NEW r \in 1..d, PairGroup(p, q, c) = PairGroup(u, r, d)
    PROVE  p = u /\ q = r
<1> DEFINE k == <<"round", round, 0>>
<1>1. /\ p \in Traces /\ u \in Traces /\ k \in Parts /\ q \in Nat /\ r \in Nat
      /\ <<"query", q, 0>> \in Parts /\ <<"query", r, 0>> \in Parts
  BY DEF Chains, Parts
<1>2. k # <<"query", q, 0>> /\ k # <<"query", r, 0>>
  OBVIOUS
<1>3. PairGroup(p, q, c) = IF c > 1 THEN Append(Append(p, k), <<"query", q, 0>>) ELSE Append(p, k)
  BY DEF PairGroup
<1>4. PairGroup(u, r, d) = IF d > 1 THEN Append(Append(u, k), <<"query", r, 0>>) ELSE Append(u, k)
  BY DEF PairGroup
<1> HIDE DEF k
<1>5. Append(p, k) \in Traces /\ Append(u, k) \in Traces
  BY <1>1, Extended
<1>6. CASE c > 1 /\ d > 1
  <2>1. Append(Append(p, k), <<"query", q, 0>>) = Append(Append(u, k), <<"query", r, 0>>)
    BY <1>3, <1>4, <1>6
  <2>2. Append(p, k) = Append(u, k) /\ <<"query", q, 0>> = <<"query", r, 0>>
    <3> DEFINE g == Append(p, k)
               h == Append(u, k)
               s == <<"query", q, 0>>
               t == <<"query", r, 0>>
    <3>1. g \in Traces /\ h \in Traces /\ s \in Parts /\ t \in Parts /\ Append(g, s) = Append(h, t)
      BY <1>1, <1>5, <2>1
    <3> HIDE DEF g, h, s, t
    <3>2. g = h /\ s = t
      BY <3>1, SameExtension
    <3> QED BY <3>2 DEF g, h, s, t
  <2>3. p = u
    BY <1>1, <2>2, SameExtension
  <2> QED BY <2>2, <2>3
<1>7. CASE c > 1 /\ ~(d > 1)
  <2>1. Append(Append(p, k), <<"query", q, 0>>) = Append(u, k)
    BY <1>3, <1>4, <1>7
  <2> QED BY <1>1, <1>2, <1>5, <2>1, SameExtension
<1>8. CASE ~(c > 1) /\ d > 1
  <2>1. Append(p, k) = Append(Append(u, k), <<"query", r, 0>>)
    BY <1>3, <1>4, <1>8
  <2> QED BY <1>1, <1>2, <1>5, <2>1, SameExtension
<1>9. CASE ~(c > 1) /\ ~(d > 1)
  <2>1. Append(p, k) = Append(u, k)
    BY <1>3, <1>4, <1>9
  <2>2. p = u
    BY <1>1, <2>1, SameExtension
  <2>3. q = 1 /\ r = 1
    BY <1>9
  <2> QED BY <2>2, <2>3
<1> QED BY <1>6, <1>7, <1>8, <1>9

(* A trace of the policy has no part of a round, so its group has one.     *)
LEMMA RoundsOfGroup ==
    ASSUME round \in Nat, NEW p \in Chains, NEW c \in Nat, NEW q \in Nat,
           \A i \in 1..Len(p) : p[i][1] # "round",
           NEW i \in 1..Len(PairGroup(p, q, c)), PairGroup(p, q, c)[i][1] = "round"
    PROVE  PairGroup(p, q, c)[i][2] < round + 1
<1> DEFINE k == <<"round", round, 0>>
           m == <<"query", q, 0>>
           g == Append(p, k)
           h == Append(g, m)
<1>1. p \in Traces /\ k \in Parts /\ m \in Parts /\ k[2] < round + 1 /\ m[1] # "round"
  BY DEF Chains, Parts
<1> HIDE DEF k, m
<1>2. /\ g \in Traces /\ Len(g) = Len(p) + 1 /\ Len(p) \in Nat /\ g[Len(p) + 1] = k
      /\ \A j \in 1..Len(p) : g[j] = p[j]
  BY <1>1, Extended
<1>3. h \in Traces /\ Len(h) = Len(g) + 1 /\ h[Len(g) + 1] = m /\ \A j \in 1..Len(g) : h[j] = g[j]
  BY <1>1, <1>2, Extended
<1> HIDE DEF g, h
<1>4. \A j \in 1..Len(g) : g[j][1] = "round" => g[j][2] < round + 1
  <2> TAKE j \in 1..Len(g)
  <2>1. j \in 1..Len(p) \/ j = Len(p) + 1
    BY <1>2
  <2> QED BY <1>1, <1>2, <2>1
<1>5. \A j \in 1..Len(h) : h[j][1] = "round" => h[j][2] < round + 1
  <2> TAKE j \in 1..Len(h)
  <2>1. j \in 1..Len(g) \/ j = Len(g) + 1
    BY <1>2, <1>3
  <2> QED BY <1>1, <1>3, <1>4, <2>1
<1>6. PairGroup(p, q, c) = IF c > 1 THEN h ELSE g
  BY DEF PairGroup, k, m, g, h
<1> QED BY <1>4, <1>5, <1>6

LEMMA PointFacts ==
    ASSUME RowsInv, LookupsInv, NEW r \in Rows(running)
    PROVE  /\ PointOf(r) \in PointType
           /\ PointOf(r).group = PairGroup(r.parent, r.query, r.count)
           /\ PointOf(r).input = r.input /\ PointOf(r).asked = <<r.parent, round, r.query>>
           /\ <<"round", round, 0>> \in Rows(PointOf(r).group)
           /\ \A i \in 1..Len(PointOf(r).group) :
                 PointOf(r).group[i][1] = "round" => PointOf(r).group[i][2] < round + 1
<1>1. /\ RowsTyped /\ RunsWhole /\ TracesKnown /\ round \in Nat /\ config.rolloutN \in Nat \ {0}
  BY ConfigTypes DEF RowsInv
<1>2. /\ r \in PolicyRowType /\ r.query \in 1..r.count /\ r.parent \in Chains /\ r.input \in Inputs
      /\ r.query \in Nat /\ r.count \in Nat
  BY PolicyRows DEF PolicyRowType
<1>3. PointOf(r).group = PairGroup(r.parent, r.query, r.count)
  BY DEF LookupsInv, PointOf, Get
<1>4. PointOf(r).input = r.input /\ PointOf(r).asked = <<r.parent, round, r.query>>
  BY DEF PointOf
<1>5. /\ PairGroup(r.parent, r.query, r.count) \in Traces
      /\ <<"round", round, 0>> \in Rows(PairGroup(r.parent, r.query, r.count))
  BY <1>1, <1>2, PairGroupFacts
<1>6. \A i \in 1..Len(r.parent) : r.parent[i][1] # "round"
  <2>1. PICK b \in Branches : r = PolicyRow(Parent(r), r.count, b, r.query)
    BY <1>1 DEF RunsWhole
  <2>2. r.group = Composite(r.parent, b)
    <3>1. PolicyRow(Parent(r), r.count, b, r.query).group = Composite(r.parent, b)
      BY DEF PolicyRow, Parent
    <3> QED BY <2>1, <3>1
  <2>3. /\ <<"branch", round, b>> \in Parts /\ r.parent \in Traces
        /\ (config.rolloutN = 1 => r.group = r.parent)
        /\ (config.rolloutN > 1 => r.group = Append(r.parent, <<"branch", round, b>>))
    BY <1>1, <1>2, <2>2, CompositeFacts DEF Branches, Chains
  <2>4. \A i \in 1..Len(r.group) : r.group[i][1] # "round"
    BY <1>1 DEF TracesKnown, Before
  <2>5. CASE config.rolloutN = 1
    BY <2>3, <2>4, <2>5
  <2>6. CASE config.rolloutN > 1
    <3>1. /\ Len(r.group) = Len(r.parent) + 1 /\ Len(r.parent) \in Nat
          /\ \A i \in 1..Len(r.parent) : r.group[i] = r.parent[i]
      BY <2>3, <2>6, Extended
    <3> QED BY <2>4, <3>1
  <2> QED BY <1>1, <2>5, <2>6
<1>7. \A i \in 1..Len(PointOf(r).group) :
          PointOf(r).group[i][1] = "round" => PointOf(r).group[i][2] < round + 1
  BY <1>1, <1>2, <1>3, <1>6, RoundsOfGroup
<1>8. PointOf(r) \in PointType
  <2>1. PointOf(r) = [input |-> r.input, group |-> PointOf(r).group, asked |-> <<r.parent, round, r.query>>]
    BY DEF PointOf
  <2>2. <<r.parent, round, r.query>> \in Chains \X Nat \X Nat /\ PointOf(r).group \in Traces
    BY <1>1, <1>2, <1>3, <1>5
  <2> HIDE DEF PointOf
  <2> QED BY <1>2, <2>1, <2>2 DEF PointType
<1> QED BY <1>3, <1>4, <1>5, <1>7, <1>8

(* The rows of one group are those of the branches, asked one query.       *)
LEMMA PeersOfRow ==
    ASSUME RowsInv, LookupsInv, NEW r \in Rows(running), NEW J,
           J = {j \in 1..Len(running) : PointOf(running[j]).group = PointOf(r).group}
    PROVE  /\ IsFiniteSet(J) /\ Cardinality(J) = config.rolloutN
           /\ \A j \in J : /\ PointOf(running[j]).asked = PointOf(r).asked
                           /\ PointOf(running[j]).input = PointOf(r).input
<1> DEFINE N == config.rolloutN
           row(b) == PolicyRow(Parent(r), r.count, b, r.query)
           place == [b \in 1..N |-> CHOOSE j \in 1..Len(running) : running[j] = row(b)]
<1>1. /\ RowsTyped /\ RunsWhole /\ OfOneParent /\ Distinct(running) /\ running \in Seq(PolicyRowType)
      /\ N \in Nat \ {0} /\ round \in Nat /\ Branches = 1..N
  BY ConfigTypes DEF RowsInv, EndedApart, RowsTyped, Branches
<1>2. \A j \in 1..Len(running) : running[j] \in Rows(running)
  BY DEF Rows
<1>3. \A s \in Rows(running) : /\ s.query \in 1..s.count /\ s.parent \in Chains /\ s.count \in Nat \ {0}
                               /\ s.input \in Inputs /\ s.past \in SUBSET PolicyRequests
  BY PolicyRows DEF PolicyRowType
<1>4. \A s \in Rows(running) :
          /\ PointOf(s).group = PairGroup(s.parent, s.query, s.count)
          /\ PointOf(s).input = s.input /\ PointOf(s).asked = <<s.parent, round, s.query>>
  BY PointFacts
<1>5. ASSUME NEW s \in Rows(running), PointOf(s).group = PointOf(r).group
      PROVE  s.parent = r.parent /\ s.query = r.query /\ Parent(s) = Parent(r) /\ s.count = r.count
  <2>1. PairGroup(s.parent, s.query, s.count) = PairGroup(r.parent, r.query, r.count)
    BY <1>4, <1>5
  <2>2. s.parent = r.parent /\ s.query = r.query
    BY <1>1, <1>3, <2>1, PairGroupInjective
  <2> QED BY <1>1, <2>2 DEF OfOneParent
<1>6. \A j \in J : /\ PointOf(running[j]).asked = PointOf(r).asked
                   /\ PointOf(running[j]).input = PointOf(r).input
  <2> TAKE j \in J
  <2>1. running[j] \in Rows(running) /\ PointOf(running[j]).group = PointOf(r).group
    BY <1>2
  <2>2. /\ running[j].parent = r.parent /\ running[j].query = r.query
        /\ Parent(running[j]).input = Parent(r).input
    BY <1>5, <2>1
  <2>3. running[j].input = r.input
    BY <2>2 DEF Parent
  <2> QED BY <1>4, <2>1, <2>2, <2>3
<1>7. /\ Parent(r).trace = r.parent /\ Parent(r).input = r.input /\ Parent(r).past = r.past
  BY DEF Parent
<1>8. ASSUME NEW b \in 1..N
      PROVE  /\ row(b) \in Rows(running)
             /\ row(b).trace = PolicyTrace(Composite(r.parent, b), r.query, r.count)
             /\ row(b).parent = r.parent /\ row(b).query = r.query /\ row(b).count = r.count
  <2>1. row(b) \in Rows(running)
    BY <1>1, <1>3 DEF RunsWhole
  <2> QED BY <1>7, <2>1 DEF PolicyRow
<1>9. \A b \in 1..N : /\ place[b] \in 1..Len(running) /\ running[place[b]] = row(b)
  <2> TAKE b \in 1..N
  <2>1. \E j \in 1..Len(running) : running[j] = row(b)
    <3>1. row(b) \in Rows(running)
      BY <1>8
    <3> HIDE DEF row
    <3> QED BY <3>1 DEF Rows
  <2> HIDE DEF row
  <2> QED BY <2>1
<1> HIDE DEF place
<1>10. \A b \in 1..N : place[b] \in J
  <2> TAKE b \in 1..N
  <2>1. /\ row(b) \in Rows(running)
        /\ row(b).parent = r.parent /\ row(b).query = r.query /\ row(b).count = r.count
    BY <1>8
  <2> HIDE DEF row
  <2>2. PointOf(row(b)).group = PairGroup(r.parent, r.query, r.count)
    BY <1>4, <2>1
  <2>3. PointOf(row(b)).group = PointOf(r).group
    BY <1>4, <2>2
  <2> QED BY <1>9, <2>3
<1>11. ASSUME NEW b \in 1..N, NEW e \in 1..N, place[b] = place[e] PROVE b = e
  <2>1. row(b) = row(e)
    BY <1>9, <1>11
  <2>2. row(b).trace = row(e).trace
    BY <2>1
  <2>3. b \in Branches /\ e \in Branches
    BY <1>1
  <2> QED BY <1>1, <1>3, <1>7, <2>2, <2>3, PolicyRowsDiffer
<1>12. \A j \in J : \E b \in 1..N : place[b] = j
  <2> TAKE j \in J
  <2>1. j \in 1..Len(running) /\ running[j] \in Rows(running) /\ PointOf(running[j]).group = PointOf(r).group
    BY <1>2
  <2>2. PICK b \in Branches : running[j] = PolicyRow(Parent(running[j]), running[j].count, b, running[j].query)
    BY <1>1, <2>1 DEF RunsWhole
  <2>3. running[j] = row(b)
    BY <1>5, <2>1, <2>2
  <2>4. b \in 1..N
    BY <1>1
  <2>5. running[place[b]].trace = running[j].trace /\ place[b] \in 1..Len(running)
    BY <1>9, <2>3, <2>4
  <2> HIDE DEF row
  <2> QED BY <1>1, <2>1, <2>4, <2>5 DEF Distinct
<1>13. place \in Bijection(1..N, J)
  <2>1. place \in [1..N -> J]
    BY <1>10 DEF place
  <2> QED BY <1>11, <1>12, <2>1 DEF Bijection, Injection, Surjection, IsInjective
<1>14. IsFiniteSet(1..N) /\ Cardinality(1..N) = N
  <2>1. 1 \in Int /\ N \in Int /\ (IF 1 > N THEN 0 ELSE N - 1 + 1) = N
    BY <1>1
  <2> HIDE DEF N
  <2> QED BY <2>1, FS_Interval, Zenon
<1>15. IsFiniteSet(J) /\ Cardinality(J) = N
  <2> HIDE DEF N
  <2> QED BY <1>13, <1>14, FS_Bijection DEF ExistsBijection
<1> QED BY <1>6, <1>15

(* What GroupsComplete says of a sequence of train points.                 *)
Complete(s) ==
    \A p \in Rows(s) :
        /\ Cardinality({i \in 1..Len(s) : s[i].group = p.group}) = config.rolloutN
        /\ \A x \in Rows(s) : x.group = p.group => x.asked = p.asked /\ x.input = p.input

InGroups(s) ==
    \A p \in Rows(s) :
        LET peers == Those(s, {x \in Rows(s) : x.group = p.group})
        IN Len(peers) = config.rolloutN /\ \A x \in Rows(peers) : x.asked = p.asked /\ x.input = p.input

LEMMA CompleteFacts ==
    ASSUME NEW S, NEW s \in Seq(S)
    PROVE  InGroups(s) <=> Complete(s)
<1>1. ASSUME NEW p \in Rows(s)
      PROVE  /\ Len(Those(s, {x \in Rows(s) : x.group = p.group}))
                = Cardinality({i \in 1..Len(s) : s[i].group = p.group})
             /\ Rows(Those(s, {x \in Rows(s) : x.group = p.group}))
                = {x \in Rows(s) : x.group = p.group}
  <2> DEFINE P == {x \in Rows(s) : x.group = p.group}
  <2>1. /\ Rows(Those(s, P)) = Rows(s) \cap P
        /\ Len(Those(s, P)) = Cardinality({i \in 1..Len(s) : s[i] \in P})
    <3> HIDE DEF P
    <3>1. \A Q : Len(Those(s, Q)) = Cardinality({i \in 1..Len(s) : s[i] \in Q})
      <4> SUFFICES ASSUME NEW Q, NEW I, I = {i \in 1..Len(s) : s[i] \in Q} PROVE Len(Those(s, Q)) = Cardinality(I)
        OBVIOUS
      <4> QED BY ThoseFacts
    <3>2. \A Q : Rows(Those(s, Q)) = Rows(s) \cap Q
      BY ThoseFacts
    <3> QED BY <3>1, <3>2
  <2>2. \A i \in 1..Len(s) : s[i] \in P <=> s[i].group = p.group
    BY DEF Rows
  <2>3. {i \in 1..Len(s) : s[i] \in P} = {i \in 1..Len(s) : s[i].group = p.group}
    <3> HIDE DEF P
    <3> QED BY <2>2
  <2>4. Rows(s) \cap P = P
    OBVIOUS
  <2> HIDE DEF P
  <2>5. Len(Those(s, P)) = Cardinality({i \in 1..Len(s) : s[i].group = p.group})
        /\ Rows(Those(s, P)) = P
    BY <2>1, <2>3, <2>4, Zenon
  <2> QED BY <2>5 DEF P
<1> DEFINE L(p) == Len(Those(s, {x \in Rows(s) : x.group = p.group}))
           R(p) == Rows(Those(s, {x \in Rows(s) : x.group = p.group}))
           C(p) == Cardinality({i \in 1..Len(s) : s[i].group = p.group})
<1>2. InGroups(s) <=> \A p \in Rows(s) :
          L(p) = config.rolloutN /\ \A x \in R(p) : x.asked = p.asked /\ x.input = p.input
  BY Zenon DEF InGroups
<1>3. Complete(s) <=> \A p \in Rows(s) :
          C(p) = config.rolloutN /\ \A x \in Rows(s) : x.group = p.group => x.asked = p.asked /\ x.input = p.input
  BY Zenon DEF Complete
<1>4. \A p \in Rows(s) : L(p) = C(p) /\ R(p) = {x \in Rows(s) : x.group = p.group}
  BY <1>1
<1> HIDE DEF L, R, C
<1> QED BY <1>2, <1>3, <1>4

LEMMA MorePoints ==
    ASSUME RowsInv, LookupsInv, GroupsInv, phase = "policy",
           NEW t, t = points \o [k \in 1..Len(running) |-> PointOf(running[k])]
    PROVE  /\ t \in Seq(PointType) /\ Complete(t)
           /\ \A p \in Rows(t) : \A i \in 1..Len(p.group) : p.group[i][1] = "round" => p.group[i][2] < round + 1
<1> DEFINE n == Len(points)
           m == Len(running)
           new == [k \in 1..m |-> PointOf(running[k])]
           Place(s, g) == {i \in 1..Len(s) : s[i].group = g}
<1>1. /\ points \in Seq(PointType) /\ n \in Nat /\ m \in Nat /\ round \in Nat /\ Complete(points)
      /\ \A p \in Rows(points) : \A i \in 1..Len(p.group) : p.group[i][1] = "round" => p.group[i][2] < round
  <2>1. points \in Seq(PointType) /\ GroupsComplete
    BY DEF GroupsInv
  <2>2. running \in Seq(PolicyRowType) /\ RowsTyped
    BY DEF RowsInv, RowsTyped
  <2>3. Complete(points)
    BY <2>1, CompleteFacts DEF GroupsComplete, InGroups
  <2> QED BY <2>1, <2>2, <2>3, ConfigTypes, LenProperties DEF GroupsInv
<1>2. \A k \in 1..m : running[k] \in Rows(running)
  BY DEF Rows
<1>3. \A r \in Rows(running) :
          /\ PointOf(r) \in PointType /\ <<"round", round, 0>> \in Rows(PointOf(r).group)
          /\ \A i \in 1..Len(PointOf(r).group) :
                PointOf(r).group[i][1] = "round" => PointOf(r).group[i][2] < round + 1
  BY PointFacts
<1>4. new \in Seq(PointType) /\ Len(new) = m
  <2>1. \A k \in 1..m : PointOf(running[k]) \in PointType
    BY <1>2, <1>3
  <2> QED BY <1>1, <2>1, IsASeq
<1>5. \A k \in 1..m : new[k] = PointOf(running[k])
  OBVIOUS
<1>6. t = points \o new
  OBVIOUS
<1> HIDE DEF new
<1>7. t \in Seq(PointType) /\ Rows(t) = Rows(points) \cup Rows(new)
  <2>1. points \in Seq(PointType)
    BY <1>1
  <2>2. \A u \in Seq(PointType), v \in Seq(PointType) :
            u \o v \in Seq(PointType) /\ Rows(u \o v) = Rows(u) \cup Rows(v)
    BY ConcatRows
  <2>3. points \o new \in Seq(PointType) /\ Rows(points \o new) = Rows(points) \cup Rows(new)
    BY <1>4, <2>1, <2>2
  <2> QED BY <1>6, <2>3
<1>8. /\ Len(t) = n + m
      /\ \A i \in 1..n : t[i] = points[i]
      /\ \A k \in 1..m : t[n + k] = new[k]
      /\ \A i \in 1..(n + m) : i > n => t[i] = new[i - n] /\ i - n \in 1..m
  <2>1. points \in Seq(PointType) /\ Len(points) \in Nat /\ Len(new) \in Nat
    BY <1>1, <1>4
  <2>2. /\ Len(points \o new) = Len(points) + Len(new)
        /\ \A i \in 1..(Len(points) + Len(new)) :
              (points \o new)[i] = IF i <= Len(points) THEN points[i] ELSE new[i - Len(points)]
    BY <1>4, <2>1, ConcatProperties, Zenon
  <2> HIDE <1>5
  <2> QED BY <1>4, <1>6, <2>1, <2>2
<1>9. \A p \in Rows(new) : \E k \in 1..m : p = PointOf(running[k]) /\ p = new[k]
  BY <1>4, <1>5 DEF Rows
<1>10. \A p \in Rows(points), q \in Rows(new) : p.group # q.group
  <2> SUFFICES ASSUME NEW p \in Rows(points), NEW q \in Rows(new), p.group = q.group PROVE FALSE
    OBVIOUS
  <2>1. <<"round", round, 0>> \in Rows(q.group)
    BY <1>2, <1>3, <1>9
  <2>2. PICK i \in 1..Len(q.group) : q.group[i] = <<"round", round, 0>>
    BY <2>1 DEF Rows
  <2>3. p.group[i][1] = "round" /\ p.group[i][2] = round /\ i \in 1..Len(p.group)
    BY <2>2
  <2> QED BY <1>1, <2>3
<1>11. ASSUME NEW p \in Rows(points)
       PROVE  /\ Cardinality(Place(t, p.group)) = config.rolloutN
              /\ \A x \in Rows(t) : x.group = p.group => x.asked = p.asked /\ x.input = p.input
  <2>1. \A i \in 1..Len(t) : t[i].group = p.group <=> i \in 1..n /\ points[i].group = p.group
    <3> TAKE i \in 1..Len(t)
    <3>1. CASE i <= n
      BY <1>1, <1>8, <3>1
    <3>2. CASE i > n
      <4>1. t[i] = new[i - n] /\ i - n \in 1..m
        BY <1>8, <3>2
      <4>2. t[i] \in Rows(new)
        BY <1>4, <4>1 DEF Rows
      <4> QED BY <1>1, <1>10, <3>2, <4>2
    <3> QED BY <1>1, <1>8, <3>1, <3>2
  <2>2. 1..n \subseteq 1..Len(t)
    BY <1>1, <1>8
  <2>3. Place(t, p.group) = Place(points, p.group)
    BY <2>1, <2>2
  <2>4. Cardinality(Place(points, p.group)) = config.rolloutN
    BY <1>1 DEF Complete
  <2>5. \A x \in Rows(t) : x.group = p.group => x.asked = p.asked /\ x.input = p.input
    BY <1>1, <1>7, <1>10 DEF Complete
  <2> HIDE DEF Place
  <2> QED BY <2>3, <2>4, <2>5
<1>12. ASSUME NEW p \in Rows(new)
       PROVE  /\ Cardinality(Place(t, p.group)) = config.rolloutN
              /\ \A x \in Rows(t) : x.group = p.group => x.asked = p.asked /\ x.input = p.input
  <2>1. PICK k \in 1..m : p = PointOf(running[k])
    BY <1>9
  <2> DEFINE J == {j \in 1..m : PointOf(running[j]).group = p.group}
             shift == [j \in J |-> n + j]
  <2>2. /\ IsFiniteSet(J) /\ Cardinality(J) = config.rolloutN
        /\ \A j \in J : PointOf(running[j]).asked = p.asked /\ PointOf(running[j]).input = p.input
    <3>1. running[k] \in Rows(running) /\ J = {j \in 1..Len(running) : PointOf(running[j]).group = PointOf(running[k]).group}
      BY <1>2, <2>1
    <3> HIDE DEF J
    <3> QED BY <2>1, <3>1, PeersOfRow
  <2>3. \A i \in 1..Len(t) : t[i].group = p.group => \E j \in J : i = n + j
    <3> SUFFICES ASSUME NEW i \in 1..Len(t), t[i].group = p.group PROVE \E j \in J : i = n + j
      OBVIOUS
    <3>1. CASE i <= n
      <4>1. t[i] \in Rows(points)
        BY <1>1, <1>8, <3>1 DEF Rows
      <4> QED BY <1>10, <4>1
    <3>2. CASE i > n
      <4>1. t[i] = new[i - n] /\ i - n \in 1..m
        BY <1>8, <3>2
      <4>2. i - n \in J
        BY <1>5, <4>1
      <4>3. i = n + (i - n)
        BY <1>1
      <4> QED BY <4>2, <4>3
    <3> QED BY <1>1, <3>1, <3>2
  <2>4. \A j \in J : n + j \in 1..Len(t) /\ t[n + j].group = p.group
    BY <1>1, <1>5, <1>8
  <2>5. shift \in Bijection(J, Place(t, p.group))
    <3>1. shift \in [J -> Place(t, p.group)]
      BY <2>4
    <3>2. \A i, j \in J : shift[i] = shift[j] => i = j
      BY <1>1
    <3>3. \A i \in Place(t, p.group) : \E j \in J : shift[j] = i
      BY <2>3
    <3> HIDE DEF J, shift, Place
    <3> QED BY <3>1, <3>2, <3>3 DEF Bijection, Injection, Surjection, IsInjective
  <2>6. Cardinality(Place(t, p.group)) = config.rolloutN
    <3> HIDE DEF J, shift, Place
    <3> QED BY <2>2, <2>5, FS_Bijection DEF ExistsBijection
  <2>7. ASSUME NEW x \in Rows(t), x.group = p.group PROVE x.asked = p.asked /\ x.input = p.input
    <3>1. x \in Rows(new)
      BY <1>7, <1>10, <2>7
    <3>2. PICK j \in 1..m : x = PointOf(running[j])
      BY <1>9, <3>1
    <3>3. j \in J
      BY <2>7, <3>2
    <3> QED BY <2>2, <3>2, <3>3
  <2> QED BY <2>6, <2>7
<1>13. Complete(t)
  BY <1>7, <1>11, <1>12 DEF Complete
<1>14. \A p \in Rows(t) : \A i \in 1..Len(p.group) : p.group[i][1] = "round" => p.group[i][2] < round + 1
  <2>1. \A p \in Rows(points) : p \in PointType
    BY <1>1, RowsElements
  <2>2. ASSUME NEW p \in Rows(points), NEW i \in 1..Len(p.group), p.group[i][1] = "round"
        PROVE  p.group[i][2] < round + 1
    <3>1. p.group[i] \in Parts
      <4>1. p.group \in Seq(Parts)
        BY <2>1 DEF PointType, Traces
      <4> QED BY <4>1, ElementOfSeq
    <3>2. p.group[i][2] \in Nat /\ p.group[i][2] < round
      BY <1>1, <2>2, <3>1 DEF Parts
    <3> QED BY <1>1, <3>2
  <2>3. \A p \in Rows(new) : \A i \in 1..Len(p.group) : p.group[i][1] = "round" => p.group[i][2] < round + 1
    BY <1>2, <1>3, <1>9
  <2> QED BY <1>7, <2>2, <2>3
<1> QED BY <1>7, <1>13, <1>14

LEMMA SamePoints ==
    ASSUME GroupsInv, config' = config, points' = points,
           phase' \in {"backbone", "policy"} => phase \in {"backbone", "policy"} /\ round' = round
    PROVE  GroupsInv'
<1>1. points' \in Seq(PointType') /\ GroupsComplete'
  <2>1. PointType' = PointType
    BY SameTypes
  <2>2. points \in Seq(PointType) /\ GroupsComplete
    BY DEF GroupsInv
  <2> QED BY <2>1, <2>2 DEF GroupsComplete
<1> QED BY <1>1 DEF GroupsInv

LEMMA StepKeepsGroups ==
    ASSUME RowsInv, LookupsInv, GroupsInv, [TwoStageNext]_twoStageVars
    PROVE  GroupsInv'
<1>1. ASSUME NEW goes, PolicyMoves(goes) PROVE GroupsInv'
  <2>1. /\ phase = "policy" /\ config' = config
        /\ points' = IF config.emit /\ ~config.validation
                     THEN points \o [k \in 1..Len(running) |-> PointOf(running[k])] ELSE points
        /\ phase' \in {"backbone", "policy"} => round' = round + 1
    BY <1>1 DEF PolicyMoves
  <2>2. round \in Nat
    BY ConfigTypes DEF RowsInv
  <2>3. /\ points' \in Seq(PointType) /\ Complete(points')
        /\ \A p \in Rows(points') : \A i \in 1..Len(p.group) : p.group[i][1] = "round" => p.group[i][2] < round + 1
    <3>1. CASE config.emit /\ ~config.validation
      <4>1. points' = points \o [k \in 1..Len(running) |-> PointOf(running[k])]
        BY <2>1, <3>1
      <4> QED BY <2>1, <4>1, MorePoints
    <3>2. CASE ~(config.emit /\ ~config.validation)
      <4>1. points' = points /\ points \in Seq(PointType) /\ Complete(points)
        <5>1. points \in Seq(PointType) /\ InGroups(points)
          BY DEF GroupsInv, GroupsComplete, InGroups
        <5> QED BY <2>1, <3>2, <5>1, CompleteFacts
      <4>2. \A p \in Rows(points) : \A i \in 1..Len(p.group) : p.group[i][1] = "round" => p.group[i][2] < round
        BY <2>1 DEF GroupsInv
      <4>3. ASSUME NEW p \in Rows(points), NEW i \in 1..Len(p.group), p.group[i][1] = "round"
            PROVE  p.group[i][2] < round + 1
        <5>1. p \in PointType
          BY <4>1, RowsElements
        <5>2. p.group \in Seq(Parts)
          BY <5>1 DEF PointType, Traces
        <5>3. p.group[i] \in Parts
          BY <5>2, ElementOfSeq
        <5>4. p.group[i][2] \in Nat /\ p.group[i][2] < round
          BY <4>2, <4>3, <5>3 DEF Parts
        <5> QED BY <2>2, <5>4
      <4> QED BY <4>1, <4>3
    <3> QED BY <3>1, <3>2
  <2>4. GroupsComplete'
    <3>1. InGroups(points')
      BY <2>3, CompleteFacts
    <3> QED BY <2>1, <3>1 DEF InGroups, GroupsComplete
  <2>5. points' \in Seq(PointType')
    BY <2>1, <2>3, SameTypes
  <2> QED BY <2>1, <2>3, <2>4, <2>5 DEF GroupsInv
<1>2. ASSUME NEW answered, NEW asked, NEW count, BackboneMoves(answered, asked, count) PROVE GroupsInv'
  BY <1>2, SamePoints DEF BackboneMoves
<1>3. ASSUME FinalMoves PROVE GroupsInv'
  BY <1>3, SamePoints DEF FinalMoves
<1>4. ASSUME RestMoves PROVE GroupsInv'
  BY <1>4, SamePoints DEF RestMoves
<1>5. CASE TwoStageNext
  BY <1>1, <1>2, <1>3, <1>4, <1>5, StepMoves
<1>6. CASE UNCHANGED twoStageVars
  BY <1>6, SamePoints DEF twoStageVars
<1> QED BY <1>5, <1>6

LEMMA GroupsInitially == ASSUME TwoStageInit PROVE GroupsInv
<1>1. points = <<>> /\ Rows(points) = {}
  BY NoRows DEF TwoStageInit
<1> QED BY <1>1 DEF GroupsInv, GroupsComplete

(* GroupsComplete holds in every run: the train points fall into groups of *)
(* as many as there are branches, of one input and one query.              *)
THEOREM GroupsCompleteHolds == TwoStageSpec => []GroupsComplete
<1>1. GroupsInv => GroupsComplete
  BY DEF GroupsInv
<1> QED BY <1>1, RowsInvHolds, LookupsInvHolds, GroupsInitially, StepKeepsGroups, PTL DEF TwoStageSpec

-----------------------------------------------------------------------------
(* The histories of the rows.                                              *)
ChainEvents == {"backbone", "policy"} \X Nat

LEMMA AppendRows ==
    ASSUME NEW S, NEW s \in Seq(S), NEW e \in S
    PROVE  Append(s, e) \in Seq(S) /\ Rows(Append(s, e)) = Rows(s) \cup {e}
<1> DEFINE t == Append(s, e)
<1>1. /\ t \in Seq(S) /\ Len(t) = Len(s) + 1 /\ Len(s) \in Nat
      /\ \A i \in 1..Len(s) : t[i] = s[i]
      /\ t[Len(s) + 1] = e
  BY AppendProperties, LenProperties
<1> HIDE DEF t
<1>2. \A x \in Rows(t) : x \in Rows(s) \cup {e}
  <2> TAKE x \in Rows(t)
  <2>1. PICK i \in 1..Len(t) : x = t[i]
    BY DEF Rows
  <2>2. i \in 1..Len(s) \/ i = Len(s) + 1
    BY <1>1
  <2> QED BY <1>1, <2>1, <2>2 DEF Rows
<1>3. \A x \in Rows(s) \cup {e} : x \in Rows(t)
  <2> TAKE x \in Rows(s) \cup {e}
  <2>1. CASE x = e
    <3>1. Len(s) + 1 \in 1..Len(t)
      BY <1>1
    <3> QED BY <1>1, <2>1, <3>1 DEF Rows
  <2>2. CASE x \in Rows(s)
    <3>1. PICK i \in 1..Len(s) : x = s[i]
      BY <2>2 DEF Rows
    <3>2. i \in 1..Len(t)
      BY <1>1
    <3> QED BY <1>1, <3>1, <3>2 DEF Rows
  <2> QED BY <2>1, <2>2
<1> QED BY <1>1, <1>2, <1>3 DEF t

LEMMA InheritedFacts ==
    ASSUME NEW dict, NEW rows
    PROVE  /\ \A t \in DOMAIN dict : t \in DOMAIN Inherited(dict, rows) /\ Inherited(dict, rows)[t] = dict[t]
           /\ \A t \in DOMAIN Inherited(dict, rows) \ DOMAIN dict :
                 \E x \in rows : t \in {x.trace, x.group} /\ Inherited(dict, rows)[t] = dict[x.parent]
           /\ \A x \in rows : x.trace \in DOMAIN Inherited(dict, rows) /\ x.group \in DOMAIN Inherited(dict, rows)
<1> DEFINE T == {r.trace : r \in rows} \cup {r.group : r \in rows}
           row(t) == CHOOSE x \in rows : t \in {x.trace, x.group}
           new == [t \in T |-> dict[row(t).parent]]
           all == [t \in DOMAIN new \cup DOMAIN dict |-> IF t \in DOMAIN dict THEN dict[t] ELSE new[t]]
<1>1. Inherited(dict, rows) = all
  BY DEF Inherited, WithDefaults, Updated
<1>2. DOMAIN new = T /\ \A x \in rows : x.trace \in T /\ x.group \in T
  OBVIOUS
<1>3. \A t \in T : row(t) \in rows /\ t \in {row(t).trace, row(t).group} /\ new[t] = dict[row(t).parent]
  <2> TAKE t \in T
  <2>1. \E x \in rows : t \in {x.trace, x.group}
    OBVIOUS
  <2> QED BY <2>1
<1> HIDE DEF new, row, T
<1>4. /\ DOMAIN all = T \cup DOMAIN dict
      /\ \A t \in DOMAIN dict : all[t] = dict[t]
      /\ \A t \in T \ DOMAIN dict : all[t] = new[t]
  BY <1>2
<1> HIDE DEF all
<1>5. ASSUME NEW t \in DOMAIN all \ DOMAIN dict
      PROVE  \E x \in rows : t \in {x.trace, x.group} /\ all[t] = dict[x.parent]
  <2>1. t \in T
    BY <1>4
  <2> QED BY <1>3, <1>4, <2>1
<1>6. \A t \in DOMAIN dict : t \in DOMAIN all /\ all[t] = dict[t]
  BY <1>4
<1>7. \A x \in rows : x.trace \in DOMAIN all /\ x.group \in DOMAIN all
  BY <1>2, <1>4
<1> QED BY <1>1, <1>5, <1>6, <1>7

LEMMA HeardFacts ==
    ASSUME RowsInv, HistoryTyped, NEW w \in {"backbone", "policy"}, NEW traces \in SUBSET DOMAIN chain
    PROVE  /\ DOMAIN Heard(w, traces) = DOMAIN chain
           /\ \A t \in DOMAIN chain : Heard(w, traces)[t] \in Seq(ChainEvents)
                                      /\ Rows(chain[t]) \subseteq Rows(Heard(w, traces)[t])
           /\ \A t \in traces : <<w, round>> \in Rows(Heard(w, traces)[t])
<1>1. \A t \in DOMAIN chain : chain[t] \in Seq(ChainEvents)
  BY DEF HistoryTyped, RowsInv, TracesKnown, ChainEvents
<1>2. <<w, round>> \in ChainEvents
  BY ConfigTypes DEF RowsInv, ChainEvents
<1>3. DOMAIN Heard(w, traces) = DOMAIN chain
  BY HeardDomain
<1>4. \A t \in traces : Heard(w, traces)[t] = Append(chain[t], <<w, round>>)
  BY DEF Heard, Updated, Get
<1>5. \A t \in DOMAIN chain \ traces : Heard(w, traces)[t] = chain[t]
  BY DEF Heard, Updated
<1>6. \A t \in DOMAIN chain : /\ Append(chain[t], <<w, round>>) \in Seq(ChainEvents)
                              /\ Rows(Append(chain[t], <<w, round>>)) = Rows(chain[t]) \cup {<<w, round>>}
  BY <1>1, <1>2, AppendRows
<1> QED BY <1>1, <1>3, <1>4, <1>5, <1>6

LEMMA HistoryInitially == ASSUME TwoStageInit PROVE HistoryInv
<1>1. /\ Rows(<<>>) = {}
      /\ \A t \in DOMAIN requests : requests[t] = <<>> /\ chain[t] = <<>>
      /\ \A r \in Rows(remaining) : r.past = {} /\ r.trace \in DOMAIN requests
      /\ Rows(running) = {} /\ Rows(finished) = {} /\ NextRound = 0
  <2>1. /\ running = <<>> /\ finished = <<>> /\ round = 0 /\ phase = "backbone"
        /\ remaining = [i \in 1..config.inputs |-> InputRow(i)]
        /\ requests = [t \in {Root(i) : i \in 1..config.inputs} |-> <<>>]
        /\ chain = [t \in {Root(i) : i \in 1..config.inputs} |-> <<>>]
    BY DEF TwoStageInit
  <2>2. config.inputs \in Nat
    BY RowsInitially, ConfigTypes DEF RowsInv
  <2>3. Len(remaining) = config.inputs
    <3>1. \A i \in 1..config.inputs : InputRow(i) \in {InputRow(j) : j \in 1..config.inputs}
      OBVIOUS
    <3> QED BY <2>1, <2>2, <3>1, IsASeq
  <2>4. \A r \in Rows(remaining) : \E i \in 1..config.inputs : r = InputRow(i)
    BY <2>1, <2>3 DEF Rows
  <2>5. \A i \in 1..config.inputs : InputRow(i).past = {} /\ InputRow(i).trace = Root(i)
    BY DEF InputRow
  <2>6. \A r \in Rows(remaining) : r.past = {} /\ r.trace \in DOMAIN requests
    BY <2>1, <2>4, <2>5
  <2>7. \A t \in DOMAIN requests : requests[t] = <<>> /\ chain[t] = <<>>
    BY <2>1
  <2> QED BY <2>1, <2>6, <2>7, NoRows DEF NextRound
<1>2. HistoryTyped
  <2>1. <<>> \in Seq(PolicyRequests) /\ <<>> \in Seq({"backbone", "policy"} \X Nat)
    BY EmptySeq
  <2> QED BY <1>1, <2>1 DEF HistoryTyped
<1>3. HistoryKept
  <2>1. 0..(0 - 1) = {}
    OBVIOUS
  <2>2. \A r \in Rows(remaining) : Heeds(r.trace, r.past)
    BY <1>1, <2>1 DEF Heeds
  <2> QED BY <1>1, <2>2 DEF HistoryKept
<1> QED BY <1>2, <1>3 DEF HistoryInv

LEMMA SameHistoryTypes == PolicyRequests' = PolicyRequests /\ ChainEvents' = ChainEvents
  BY DEF PolicyRequests, ChainEvents

LEMMA BackboneKeepsHistory ==
    ASSUME RowsInv, RowsInv', HistoryInv, NEW answered, NEW asked, NEW count, BackboneMoves(answered, asked, count)
    PROVE  HistoryInv'
<1> DEFINE heard == Heard("backbone", TracesOf(Rows(remaining)))
<1>1. /\ RowsTyped /\ TracesKnown /\ HistoryTyped /\ DOMAIN requests = DOMAIN chain
      /\ config.rolloutN \in Nat \ {0} /\ round \in Nat /\ DOMAIN requests' = DOMAIN chain'
  BY ConfigTypes DEF RowsInv, HistoryInv, TracesKnown
<1>2. /\ answered \subseteq Rows(remaining) /\ asked \subseteq Rows(remaining)
      /\ Rows(finished') = Rows(finished) \cup {Finish(r, "backbone") : r \in answered}
      /\ requests' = Inherited(requests, Rows(running')) /\ chain' = Inherited(heard, Rows(running'))
      /\ phase = "backbone" /\ phase' # "backbone"
      /\ remaining' = <<>> /\ config' = config /\ round' = round
  BY DEF BackboneMoves
<1>3. /\ \A p \in asked : p.trace \in Chains /\ count[p] \in Nat \ {0} /\ p \in Rows(remaining)
      /\ \A x \in Rows(running') :
            \E p \in asked, b \in Branches : \E q \in 1..count[p] :
                /\ x.group = Composite(p.trace, b)
                /\ x.trace = PolicyTrace(Composite(p.trace, b), q, count[p])
                /\ x.parent = p.trace /\ x.past = p.past
  <2>1. /\ \A p \in asked : p.trace \in Chains /\ count[p] \in Nat \ {0} /\ p \in Rows(remaining)
        /\ \A x \in Rows(running') :
              \E p \in asked, b \in Branches : \E q \in 1..count[p] :
                  /\ x = PolicyRow(p, count[p], b, q) /\ x.group = Composite(p.trace, b)
                  /\ x.trace = PolicyTrace(Composite(p.trace, b), q, count[p])
                  /\ x.parent = p.trace /\ x.input = p.input /\ x.past = p.past
                  /\ x.query = q /\ x.count = count[p]
    BY AskedRows
  <2> QED BY <2>1, Zenon
<1>4. TracesOf(Rows(remaining)) \in SUBSET DOMAIN chain
  BY <1>1 DEF TracesKnown, TracesOf
<1>5. /\ DOMAIN heard = DOMAIN chain
      /\ \A t \in DOMAIN chain : heard[t] \in Seq(ChainEvents) /\ Rows(chain[t]) \subseteq Rows(heard[t])
      /\ \A t \in TracesOf(Rows(remaining)) : <<"backbone", round>> \in Rows(heard[t])
  BY <1>1, <1>4, HeardFacts
<1> HIDE DEF heard
<1>6. /\ \A t \in DOMAIN requests : t \in DOMAIN requests' /\ requests'[t] = requests[t] /\ chain'[t] = heard[t]
      /\ \A t \in DOMAIN requests' \ DOMAIN requests :
            /\ \E x \in Rows(running') : t \in {x.trace, x.group} /\ requests'[t] = requests[x.parent]
            /\ \E x \in Rows(running') : t \in {x.trace, x.group} /\ chain'[t] = heard[x.parent]
      /\ \A x \in Rows(running') : x.trace \in DOMAIN requests' /\ x.group \in DOMAIN requests'
  BY <1>1, <1>2, <1>5, InheritedFacts
<1>7. \A x \in Rows(running') : x.parent \in DOMAIN requests
  BY <1>1, <1>3 DEF TracesKnown
<1>8. HistoryTyped'
  <2>1. \A t \in DOMAIN requests : requests[t] \in Seq(PolicyRequests)
    BY <1>1 DEF HistoryTyped
  <2>2. \A t \in DOMAIN requests' : requests'[t] \in Seq(PolicyRequests)
    BY <1>6, <1>7, <2>1
  <2>3. \A t \in DOMAIN requests' : chain'[t] \in Seq(ChainEvents)
    BY <1>1, <1>5, <1>6, <1>7
  <2> QED BY <2>2, <2>3, SameHistoryTypes DEF HistoryTyped, ChainEvents
<1>9. ASSUME config.rolloutN > 1 PROVE HistoryKept'
  <2>1. /\ \A r \in Rows(remaining) : Heeds(r.trace, r.past)
        /\ \A r \in Rows(finished) : HasOwnHistory(r)
        /\ NextRound = round /\ NextRound' = round + 1
    BY <1>2, <1>9 DEF HistoryInv, HistoryKept, NextRound
  <2>2. ASSUME NEW p \in Rows(remaining)
        PROVE  /\ p.trace \in DOMAIN requests /\ Rows(requests[p.trace]) = p.past
               /\ \A k \in 0..round : <<"backbone", k>> \in Rows(heard[p.trace])
    <3>1. p.trace \in DOMAIN requests /\ p.trace \in TracesOf(Rows(remaining))
      BY <1>1 DEF TracesKnown, TracesOf
    <3>2. Rows(requests[p.trace]) = p.past /\ \A k \in 0..(round - 1) : <<"backbone", k>> \in Rows(chain[p.trace])
      BY <2>1 DEF Heeds
    <3>3. \A k \in 0..(round - 1) : <<"backbone", k>> \in Rows(heard[p.trace])
      BY <1>1, <1>5, <3>1, <3>2
    <3>4. <<"backbone", round>> \in Rows(heard[p.trace])
      BY <1>5, <3>1
    <3>5. \A k \in 0..round : k \in 0..(round - 1) \/ k = round
      BY <1>1
    <3> QED BY <3>1, <3>2, <3>3, <3>4, <3>5
  <2>3. ASSUME NEW x \in Rows(running'), NEW t \in {x.trace, x.group}
        PROVE  Rows(requests'[t]) = x.past /\ \A k \in 0..round : <<"backbone", k>> \in Rows(chain'[t])
    <3>1. PICK p \in asked, b \in Branches : \E q \in 1..count[p] :
              /\ x.group = Composite(p.trace, b)
              /\ x.trace = PolicyTrace(Composite(p.trace, b), q, count[p])
              /\ x.parent = p.trace /\ x.past = p.past
      BY <1>3
    <3>2. p.trace \in Chains /\ count[p] \in Nat
      BY <1>3
    <3>3. x.group \in Chains /\ Of(x.trace, x.group) /\ Of(t, x.group)
      <4>1. x.group \in Chains
        BY <1>1, <3>1, <3>2, CompositeFacts DEF Branches
      <4>2. Of(x.trace, x.group)
        BY <3>1, <3>2, <4>1, PolicyTraceFacts
      <4> QED BY <4>1, <4>2 DEF Of
    <3>4. t \notin DOMAIN requests
      <4>1. ~Before(t, round)
        BY <1>1, <1>9, <3>1, <3>2, <3>3, NewBranch DEF Branches
      <4> QED BY <1>1, <1>2, <4>1 DEF TracesKnown, NextRound
    <3>5. ASSUME NEW y \in Rows(running'), t \in {y.trace, y.group} PROVE y.parent = x.parent
      <4>1. PICK u \in asked, e \in Branches : \E q \in 1..count[u] :
                /\ y.group = Composite(u.trace, e)
                /\ y.trace = PolicyTrace(Composite(u.trace, e), q, count[u])
                /\ y.parent = u.trace /\ y.past = u.past
        BY <1>3
      <4>2. u.trace \in Chains /\ count[u] \in Nat
        BY <1>3
      <4>3. y.group \in Chains
        BY <1>1, <4>1, <4>2, CompositeFacts DEF Branches
      <4>4. Of(y.trace, y.group)
        BY <4>1, <4>2, <4>3, PolicyTraceFacts
      <4>5. Of(t, y.group)
        BY <3>5, <4>4 DEF Of
      <4>6. y.group = x.group
        BY <3>3, <4>3, <4>5, OfUnique
      <4>7. Composite(u.trace, e) = Composite(p.trace, b)
        BY <3>1, <4>1, <4>6
      <4>8. u.trace = p.trace
        BY <1>1, <3>2, <4>2, <4>7, CompositeInjective DEF Branches
      <4> QED BY <3>1, <4>1, <4>8
    <3>6. requests'[t] = requests[x.parent] /\ chain'[t] = heard[x.parent]
      <4>1. t \in DOMAIN requests' \ DOMAIN requests
        BY <1>6, <3>4
      <4>2. PICK y \in Rows(running') : t \in {y.trace, y.group} /\ requests'[t] = requests[y.parent]
        BY <1>6, <4>1
      <4>3. PICK z \in Rows(running') : t \in {z.trace, z.group} /\ chain'[t] = heard[z.parent]
        BY <1>6, <4>1
      <4> QED BY <3>5, <4>2, <4>3
    <3>7. p \in Rows(remaining) /\ x.parent = p.trace /\ x.past = p.past
      BY <1>3, <3>1
    <3> QED BY <2>2, <3>6, <3>7
  <2>4. ASSUME NEW x \in Rows(finished')
        PROVE  /\ Rows(requests'[x.trace]) = x.past
               /\ \A k \in 0..x.at : <<"backbone", k>> \in Rows(chain'[x.trace])
    <3>1. CASE x \in Rows(finished)
      <4>1. x.trace \in DOMAIN requests
        BY <1>1, <3>1 DEF TracesKnown
      <4>2. /\ Rows(requests[x.trace]) = x.past
            /\ \A k \in 0..x.at : <<"backbone", k>> \in Rows(chain[x.trace])
        BY <2>1, <3>1 DEF HasOwnHistory
      <4>3. requests'[x.trace] = requests[x.trace] /\ Rows(chain[x.trace]) \subseteq Rows(chain'[x.trace])
        BY <1>1, <1>5, <1>6, <4>1
      <4> QED BY <4>2, <4>3
    <3>2. ASSUME NEW a \in answered, x = Finish(a, "backbone")
          PROVE  /\ Rows(requests'[x.trace]) = x.past
                 /\ \A k \in 0..x.at : <<"backbone", k>> \in Rows(chain'[x.trace])
      <4>1. x.trace = a.trace /\ x.past = a.past /\ x.at = round /\ a \in Rows(remaining)
        BY <1>2, <3>2 DEF Finish
      <4>2. /\ a.trace \in DOMAIN requests /\ Rows(requests[a.trace]) = a.past
            /\ \A k \in 0..round : <<"backbone", k>> \in Rows(heard[a.trace])
        BY <2>2, <4>1
      <4>3. requests'[a.trace] = requests[a.trace] /\ chain'[a.trace] = heard[a.trace]
        BY <1>6, <4>2
      <4> QED BY <4>1, <4>2, <4>3
    <3> QED BY <1>2, <3>1, <3>2
  <2>5. Rows(remaining') = {}
    BY <1>2, NoRows
  <2>6. 0..(NextRound' - 1) = 0..round
    BY <1>1, <2>1
  <2>7. \A x \in Rows(running') :
            /\ Rows(requests'[x.trace]) = x.past /\ Rows(requests'[x.group]) = x.past
            /\ \A k \in 0..(NextRound' - 1) : <<"backbone", k>> \in Rows(chain'[x.trace])
            /\ \A k \in 0..(NextRound' - 1) : <<"backbone", k>> \in Rows(chain'[x.group])
    BY <2>3, <2>6
  <2>8. (\A r \in Rows(remaining) : Heeds(r.trace, r.past))'
    BY <2>5
  <2>9. (\A r \in Rows(running) : Heeds(r.trace, r.past) /\ Heeds(r.group, r.past))'
    BY <2>7 DEF Heeds
  <2>10. (\A r \in Rows(finished) : HasOwnHistory(r))'
    BY <2>4 DEF HasOwnHistory
  <2> QED BY <2>8, <2>9, <2>10 DEF HistoryKept
<1> QED BY <1>2, <1>8, <1>9 DEF HistoryInv

LEMMA MembersFacts ==
    ASSUME RowsInv, NEW g
    PROVE  /\ Members(g) \in Seq(PolicyRowType)
           /\ \A r : r \in Rows(Members(g)) <=> r \in Rows(running) /\ r.group = g
<1> DEFINE P == {r \in Rows(running) : r.group = g}
<1>1. running \in Seq(PolicyRowType)
  BY DEF RowsInv, RowsTyped
<1>2. Members(g) = Those(running, P)
  BY DEF Members
<1>3. Rows(running) \cap P = P
  OBVIOUS
<1> HIDE DEF P
<1>4. Members(g) \in Seq(PolicyRowType) /\ Rows(Members(g)) = P
  <2>1. \A Q : Those(running, Q) \in Seq(PolicyRowType) /\ Rows(Those(running, Q)) = Rows(running) \cap Q
    BY <1>1, ThoseFacts
  <2> QED BY <1>2, <1>3, <2>1
<1> QED BY <1>4 DEF P

(* The requests of each row of the policy are added to the row's own.      *)
LEMMA OwnFacts ==
    ASSUME RowsInv, HistoryTyped
    PROVE  /\ DOMAIN Own = DOMAIN requests
           /\ \A t \in DOMAIN requests : Own[t] \in Seq(PolicyRequests)
           /\ \A t \in DOMAIN requests \ TracesOf(Rows(running)) : Own[t] = requests[t]
           /\ \A r \in Rows(running) : Rows(Own[r.trace]) = Rows(requests[r.trace]) \cup {Request(r)}
           /\ \A r \in Rows(running) : Request(r) \in PolicyRequests
<1> DEFINE row(t) == CHOOSE x \in Rows(running) : x.trace = t
           new == [t \in {r.trace : r \in Rows(running)} |-> Append(requests[t], Request(row(t)))]
<1>1. /\ Distinct(running) /\ TracesKnown /\ round \in Nat
      /\ \A r \in Rows(running) : r.trace \in DOMAIN requests /\ r.trace \in Traces
  <2>1. \A r \in Rows(running) : r \in PolicyRowType
    BY PolicyRows
  <2> QED BY <2>1, ConfigTypes DEF RowsInv, EndedApart, TracesKnown, PolicyRowType
<1>2. Own = Updated(requests, new)
  BY DEF Own
<1>3. \A r \in Rows(running) : row(r.trace) = r
  <2> TAKE r \in Rows(running)
  <2>1. row(r.trace) \in Rows(running) /\ row(r.trace).trace = r.trace
    OBVIOUS
  <2> HIDE DEF row
  <2> QED BY <1>1, <2>1, RowOfTrace
<1>4. DOMAIN new = TracesOf(Rows(running))
  BY DEF TracesOf
<1>5. \A r \in Rows(running) : r.trace \in DOMAIN new /\ new[r.trace] = Append(requests[r.trace], Request(r))
  BY <1>3
<1> HIDE DEF new, row
<1>6. /\ DOMAIN Own = DOMAIN requests
      /\ \A t \in DOMAIN requests \ TracesOf(Rows(running)) : Own[t] = requests[t]
      /\ \A r \in Rows(running) : Own[r.trace] = Append(requests[r.trace], Request(r))
  <2>1. TracesOf(Rows(running)) \subseteq DOMAIN requests
    BY <1>1 DEF TracesOf
  <2> QED BY <1>1, <1>2, <1>4, <1>5, <2>1 DEF Updated
<1>7. \A t \in DOMAIN requests : requests[t] \in Seq(PolicyRequests)
  BY DEF HistoryTyped
<1>8. \A r \in Rows(running) : Request(r) \in PolicyRequests
  BY <1>1 DEF Request, PolicyRequests
<1>9. \A r \in Rows(running) : /\ Own[r.trace] \in Seq(PolicyRequests)
                               /\ Rows(Own[r.trace]) = Rows(requests[r.trace]) \cup {Request(r)}
  <2> TAKE r \in Rows(running)
  <2>1. requests[r.trace] \in Seq(PolicyRequests) /\ Request(r) \in PolicyRequests
    BY <1>1, <1>7, <1>8
  <2>2. Own[r.trace] = Append(requests[r.trace], Request(r))
    BY <1>6
  <2> QED BY <2>1, <2>2, AppendRows
<1>10. \A t \in DOMAIN requests : Own[t] \in Seq(PolicyRequests)
  BY <1>6, <1>7, <1>9 DEF TracesOf
<1> QED BY <1>6, <1>8, <1>9, <1>10

(* A branch gets the requests of all its rows.                             *)
LEMMA MergedFacts ==
    ASSUME RowsInv, HistoryTyped
    PROVE  /\ DOMAIN MergedRequests(Own) = DOMAIN requests
           /\ \A t \in DOMAIN requests : MergedRequests(Own)[t] \in Seq(PolicyRequests)
           /\ \A t \in DOMAIN requests \ Groups : MergedRequests(Own)[t] = Own[t]
           /\ \A g \in Groups : Rows(MergedRequests(Own)[g])
                                = Rows(Own[g]) \cup {Request(r) : r \in {s \in Rows(running) : s.group = g}}
<1> DEFINE current(g) == [k \in 1..Len(Members(g)) |-> Request(Members(g)[k])]
           more(g) == Own[g] \o Those(current(g), Rows(current(g)) \ Rows(Own[g]))
           new == [g \in Groups |-> more(g)]
<1>1. MergedRequests(Own) = Updated(Own, new)
  BY DEF MergedRequests
<1>2. Groups \subseteq DOMAIN requests
  BY DEF RowsInv, TracesKnown, Groups
<1>3. /\ DOMAIN Own = DOMAIN requests
      /\ \A t \in DOMAIN requests : Own[t] \in Seq(PolicyRequests)
      /\ \A r \in Rows(running) : Request(r) \in PolicyRequests
  BY OwnFacts
<1>4. ASSUME NEW g \in Groups
      PROVE  /\ more(g) \in Seq(PolicyRequests)
             /\ Rows(more(g)) = Rows(Own[g]) \cup {Request(r) : r \in {s \in Rows(running) : s.group = g}}
  <2> DEFINE m == Members(g)
             c == current(g)
             P == Rows(c) \ Rows(Own[g])
  <2>1. /\ m \in Seq(PolicyRowType) /\ Len(m) \in Nat
        /\ \A r : r \in Rows(m) <=> r \in Rows(running) /\ r.group = g
    BY MembersFacts, LenProperties
  <2>2. \A k \in 1..Len(m) : m[k] \in Rows(m) /\ Request(m[k]) \in PolicyRequests
    <3> HIDE DEF m
    <3>1. \A k \in 1..Len(m) : m[k] \in Rows(m)
      BY DEF Rows
    <3> QED BY <1>3, <2>1, <3>1
  <2>3. c = [k \in 1..Len(m) |-> Request(m[k])]
    OBVIOUS
  <2> HIDE DEF m, c, current
  <2>4. c \in Seq(PolicyRequests) /\ Len(c) = Len(m) /\ \A k \in 1..Len(m) : c[k] = Request(m[k])
    BY <2>1, <2>2, <2>3, IsASeq
  <2>5. Rows(c) = {Request(r) : r \in {s \in Rows(running) : s.group = g}}
    <3>1. Rows(c) = {Request(r) : r \in Rows(m)}
      BY <2>4 DEF Rows
    <3>2. Rows(m) = {s \in Rows(running) : s.group = g}
      BY <2>1
    <3> QED BY <3>1, <3>2
  <2> HIDE DEF P
  <2>6. Those(c, P) \in Seq(PolicyRequests) /\ Rows(Those(c, P)) = Rows(c) \cap P
    BY <2>4, ThoseFacts
  <2>7. Own[g] \in Seq(PolicyRequests)
    BY <1>2, <1>3
  <2>8. /\ Own[g] \o Those(c, P) \in Seq(PolicyRequests)
        /\ Rows(Own[g] \o Those(c, P)) = Rows(Own[g]) \cup Rows(Those(c, P))
    <3>1. \A u \in Seq(PolicyRequests), v \in Seq(PolicyRequests) :
              u \o v \in Seq(PolicyRequests) /\ Rows(u \o v) = Rows(u) \cup Rows(v)
      BY ConcatRows
    <3> QED BY <2>6, <2>7, <3>1
  <2>9. more(g) = Own[g] \o Those(c, P)
    BY DEF c, P
  <2>10. Rows(Own[g]) \cup (Rows(c) \cap P) = Rows(Own[g]) \cup Rows(c)
    BY DEF P
  <2> HIDE DEF more
  <2> QED BY <2>5, <2>6, <2>8, <2>9, <2>10
<1>5. DOMAIN new = Groups /\ \A g \in Groups : new[g] = more(g)
  OBVIOUS
<1> HIDE DEF new, more
<1>6. /\ DOMAIN MergedRequests(Own) = DOMAIN requests
      /\ \A t \in DOMAIN requests \ Groups : MergedRequests(Own)[t] = Own[t]
      /\ \A g \in Groups : MergedRequests(Own)[g] = more(g)
  BY <1>1, <1>2, <1>3, <1>5 DEF Updated
<1>7. \A t \in DOMAIN requests : MergedRequests(Own)[t] \in Seq(PolicyRequests)
  BY <1>3, <1>4, <1>6
<1>8. \A g \in Groups : Rows(MergedRequests(Own)[g])
                        = Rows(Own[g]) \cup {Request(r) : r \in {s \in Rows(running) : s.group = g}}
  BY <1>4, <1>6
<1> QED BY <1>6, <1>7, <1>8

(* A row whose trace is a branch's is the only row of that branch.         *)
LEMMA OnlyRow ==
    ASSUME RowsInv, NEW r \in Rows(running), r.trace \in Groups
    PROVE  r.trace = r.group /\ \A s \in Rows(running) : s.group = r.group => s = r
<1>1. /\ r.group \in Chains /\ Of(r.trace, r.group) /\ r.query \in 1..r.count /\ r \in PolicyRowType
      /\ r.count \in Nat \ {0}
  BY PolicyRows
<1>2. r.trace \in Chains
  BY PolicyRows DEF Groups
<1>3. r.trace = r.group
  BY <1>1, <1>2, OfChain
<1>4. r.count = 1
  <2>1. PICK b \in Branches : r = PolicyRow(Parent(r), r.count, b, r.query)
    BY DEF RowsInv, RunsWhole
  <2>2. r.trace = PolicyTrace(r.group, r.query, r.count)
    <3>1. PolicyRow(Parent(r), r.count, b, r.query).trace
          = PolicyTrace(PolicyRow(Parent(r), r.count, b, r.query).group, r.query, r.count)
      BY DEF PolicyRow
    <3> HIDE DEF Parent
    <3> QED BY <2>1, <3>1, Zenon
  <2>3. ASSUME r.count > 1 PROVE FALSE
    <3>1. r.trace = Append(r.group, <<"query", r.query, 0>>)
      BY <2>2, <2>3 DEF PolicyTrace
    <3>2. Append(r.group, <<"query", r.query, 0>>) \notin Chains
      BY <1>1, QueryFacts DEF PolicyRowType
    <3> QED BY <1>2, <3>1, <3>2
  <2> QED BY <1>1, <2>3
<1>5. ASSUME NEW s \in Rows(running), s.group = r.group PROVE s = r
  <2>1. s.count = r.count /\ (s.query = r.query => s = r)
    BY <1>5, OfOneGroup
  <2>2. s.query \in 1..s.count
    BY PolicyRows
  <2>3. s.query = 1 /\ r.query = 1
    BY <1>1, <1>4, <2>1, <2>2
  <2> QED BY <2>1, <2>3
<1> QED BY <1>3, <1>5

LEMMA PolicyKeepsHistory ==
    ASSUME RowsInv, HistoryInv, NEW goes, PolicyMoves(goes)
    PROVE  HistoryInv'
<1>1. /\ RowsTyped /\ TracesKnown /\ InTurn /\ EndedApart /\ HistoryTyped /\ DOMAIN requests = DOMAIN chain
      /\ config.rolloutN \in Nat \ {0} /\ round \in Nat
  BY ConfigTypes DEF RowsInv, HistoryInv, TracesKnown
<1>2. /\ goes \in SUBSET Groups
      /\ Rows(finished') = Rows(finished) \cup {Ended(r) : r \in EndHere(goes)}
      /\ Rows(remaining') = {GoesOn(r) : r \in {s \in Rows(running) : s.group \in goes /\ s.query = 1}}
      /\ requests' = MergedRequests(Own)
      /\ chain' = Heard("policy", TracesOf(Rows(running)) \cup Groups)
      /\ phase = "policy" /\ running' = <<>> /\ config' = config
      /\ NextRound = round + 1 /\ NextRound' = round + 1
  BY DEF PolicyMoves, NextRound
<1>3. /\ \A r \in Rows(running) : r.trace \in DOMAIN requests /\ r.group \in Groups /\ r \in PolicyRowType
                                  /\ Of(r.trace, r.group) /\ r.trace \in TracesOf(Rows(running))
      /\ Groups \subseteq DOMAIN requests
  <2>1. \A r \in Rows(running) : r \in PolicyRowType /\ Of(r.trace, r.group)
    BY PolicyRows
  <2> QED BY <1>1, <2>1 DEF TracesKnown, Groups, TracesOf
<1>4. /\ \A t \in DOMAIN requests : chain'[t] \in Seq(ChainEvents) /\ Rows(chain[t]) \subseteq Rows(chain'[t])
      /\ DOMAIN chain' = DOMAIN requests
  <2>1. TracesOf(Rows(running)) \cup Groups \in SUBSET DOMAIN chain
    BY <1>1, <1>3 DEF TracesOf
  <2> QED BY <1>1, <1>2, <2>1, HeardFacts
<1>5. /\ DOMAIN requests' = DOMAIN requests
      /\ \A t \in DOMAIN requests : requests'[t] \in Seq(PolicyRequests)
      /\ \A t \in DOMAIN requests \ Groups : requests'[t] = Own[t]
      /\ \A g \in Groups : Rows(requests'[g])
                           = Rows(Own[g]) \cup {Request(r) : r \in {s \in Rows(running) : s.group = g}}
  BY <1>1, <1>2, MergedFacts
<1>6. /\ \A t \in DOMAIN requests \ TracesOf(Rows(running)) : Own[t] = requests[t]
      /\ \A r \in Rows(running) : Rows(Own[r.trace]) = Rows(requests[r.trace]) \cup {Request(r)}
  BY <1>1, OwnFacts
<1>7. HistoryTyped'
  BY <1>4, <1>5, SameHistoryTypes DEF HistoryTyped, ChainEvents
<1>8. ASSUME config.rolloutN > 1 PROVE HistoryKept'
  <2>1. /\ \A r \in Rows(running) :
              /\ Rows(requests[r.trace]) = r.past /\ Rows(requests[r.group]) = r.past
              /\ \A k \in 0..round : <<"backbone", k>> \in Rows(chain[r.trace])
              /\ \A k \in 0..round : <<"backbone", k>> \in Rows(chain[r.group])
        /\ \A r \in Rows(finished) :
              /\ Rows(requests[r.trace]) = r.past
              /\ \A k \in 0..r.at : <<"backbone", k>> \in Rows(chain[r.trace])
        /\ 0..(NextRound' - 1) = 0..round
    <3>1. 0..(NextRound - 1) = 0..round /\ 0..(NextRound' - 1) = 0..round
      BY <1>1, <1>2
    <3> QED BY <1>8, <3>1 DEF HistoryInv, HistoryKept, Heeds, HasOwnHistory
  <2>2. ASSUME NEW s \in Rows(running)
        PROVE  Rows(requests'[s.group]) = s.past \cup {Request(r) : r \in {u \in Rows(running) : u.group = s.group}}
    <3> DEFINE mine == {u \in Rows(running) : u.group = s.group}
               new == {Request(r) : r \in mine}
    <3>1. Rows(requests'[s.group]) = Rows(Own[s.group]) \cup new
      BY <1>3, <1>5
    <3>2. CASE s.group \in TracesOf(Rows(running))
      <4>1. PICK r \in Rows(running) : r.trace = s.group
        BY <3>2 DEF TracesOf
      <4>2. r.trace \in Groups
        BY <1>3, <4>1
      <4>3. r.group = s.group
        BY <4>1, <4>2, OnlyRow
      <4>4. Request(r) \in new
        BY <4>3
      <4>5. Rows(Own[s.group]) = s.past \cup {Request(r)}
        BY <1>6, <2>1, <4>1
      <4> HIDE DEF new
      <4>6. Rows(requests'[s.group]) = s.past \cup new
        BY <3>1, <4>4, <4>5
      <4> QED BY <4>6 DEF new
    <3>3. CASE s.group \notin TracesOf(Rows(running))
      <4>1. Own[s.group] = requests[s.group]
        BY <1>3, <1>6, <3>3
      <4>2. Rows(Own[s.group]) = s.past
        BY <2>1, <4>1
      <4> HIDE DEF new
      <4>3. Rows(requests'[s.group]) = s.past \cup new
        BY <3>1, <4>2
      <4> QED BY <4>3 DEF new
    <3> QED BY <3>2, <3>3
  <2>3. ASSUME NEW x \in Rows(remaining')
        PROVE  /\ Rows(requests'[x.trace]) = x.past
               /\ \A k \in 0..(NextRound' - 1) : <<"backbone", k>> \in Rows(chain'[x.trace])
    <3>1. PICK s \in Rows(running) : x = GoesOn(s)
      BY <1>2
    <3>2. x.trace = s.group /\ x.past = s.past \cup {Request(r) : r \in Rows(Members(s.group))}
      BY <3>1 DEF GoesOn
    <3>3. Rows(Members(s.group)) = {u \in Rows(running) : u.group = s.group}
      BY MembersFacts
    <3>4. Rows(requests'[x.trace]) = x.past
      BY <2>2, <3>2, <3>3
    <3>5. s.group \in DOMAIN requests
      BY <1>3
    <3>6. \A k \in 0..round : <<"backbone", k>> \in Rows(chain'[s.group])
      BY <1>4, <2>1, <3>5
    <3> QED BY <2>1, <3>2, <3>4, <3>6
  <2>4. ASSUME NEW x \in Rows(finished')
        PROVE  /\ Rows(requests'[x.trace]) = x.past
               /\ \A k \in 0..x.at : <<"backbone", k>> \in Rows(chain'[x.trace])
    <3>1. CASE x \in Rows(finished)
      <4>1. x.trace \in DOMAIN requests
        BY <1>1, <3>1 DEF TracesKnown
      <4>2. x.trace \notin TracesOf(Rows(running))
        <5>1. {r.trace : r \in Rows(finished)} \cap {r.trace : r \in Rows(remaining) \cup Rows(running)} = {}
          BY AllAnswered DEF EveryInputAnswered
        <5> QED BY <3>1, <5>1 DEF TracesOf
      <4>3. x.trace \notin Groups
        BY <1>1, <3>1 DEF EndedApart, Live, Groups, Of
      <4>4. requests'[x.trace] = requests[x.trace]
        BY <1>5, <1>6, <4>1, <4>2, <4>3
      <4> QED BY <1>4, <2>1, <3>1, <4>1, <4>4
    <3>2. ASSUME NEW r \in EndHere(goes), x = Ended(r)
          PROVE  /\ Rows(requests'[x.trace]) = x.past
                 /\ \A k \in 0..x.at : <<"backbone", k>> \in Rows(chain'[x.trace])
      <4>1. r \in Rows(running) /\ r \in PolicyRowType /\ r.trace \in DOMAIN requests
        BY <1>3 DEF EndHere
      <4>2. x.trace = r.trace /\ x.past = r.past \cup {Request(r)} /\ x.at = round
        BY <3>2, <4>1 DEF Ended, Finish, PolicyRowType
      <4>3. Rows(Own[r.trace]) = r.past \cup {Request(r)}
        BY <1>6, <2>1, <4>1
      <4>4. Rows(requests'[r.trace]) = r.past \cup {Request(r)}
        <5>1. CASE r.trace \in Groups
          <6>1. r.trace = r.group /\ \A s \in Rows(running) : s.group = r.group => s = r
            BY <4>1, <5>1, OnlyRow
          <6>2. {s \in Rows(running) : s.group = r.trace} = {r}
            BY <4>1, <6>1
          <6>3. {Request(s) : s \in {u \in Rows(running) : u.group = r.trace}} = {Request(r)}
            BY <6>2
          <6>4. Rows(requests'[r.trace])
                = Rows(Own[r.trace]) \cup {Request(s) : s \in {u \in Rows(running) : u.group = r.trace}}
            BY <1>5, <5>1
          <6> QED BY <4>3, <6>3, <6>4
        <5>2. CASE r.trace \notin Groups
          BY <1>5, <4>1, <4>3, <5>2
        <5> QED BY <5>1, <5>2
      <4>5. \A k \in 0..round : <<"backbone", k>> \in Rows(chain'[r.trace])
        BY <1>4, <2>1, <4>1
      <4> QED BY <4>2, <4>4, <4>5
    <3> QED BY <1>2, <3>1, <3>2
  <2>5. Rows(running') = {}
    BY <1>2, NoRows
  <2>6. (\A r \in Rows(remaining) : Heeds(r.trace, r.past))'
    BY <2>3 DEF Heeds
  <2>7. (\A r \in Rows(running) : Heeds(r.trace, r.past) /\ Heeds(r.group, r.past))'
    BY <2>5
  <2>8. (\A r \in Rows(finished) : HasOwnHistory(r))'
    BY <2>4 DEF HasOwnHistory
  <2> QED BY <2>6, <2>7, <2>8 DEF HistoryKept
<1> QED BY <1>2, <1>7, <1>8 DEF HistoryInv

LEMMA FinalKeepsHistory ==
    ASSUME RowsInv, HistoryInv, FinalMoves
    PROVE  HistoryInv'
<1>1. /\ TracesKnown /\ HistoryTyped /\ DOMAIN requests = DOMAIN chain /\ round \in Nat
  BY ConfigTypes DEF RowsInv, HistoryInv, TracesKnown
<1>2. /\ Rows(finished') = Rows(finished) \cup {Finish(r, "backbone") : r \in Rows(remaining)}
      /\ chain' = Heard("backbone", TracesOf(Rows(remaining)))
      /\ requests' = requests /\ config' = config /\ phase = "final"
      /\ Rows(remaining') = {} /\ Rows(running') = {}
  BY NoRows DEF FinalMoves, RowsInv, InTurn
<1>3. /\ \A t \in DOMAIN requests : chain'[t] \in Seq(ChainEvents) /\ Rows(chain[t]) \subseteq Rows(chain'[t])
      /\ DOMAIN chain' = DOMAIN requests
  <2>1. TracesOf(Rows(remaining)) \in SUBSET DOMAIN chain
    BY <1>1 DEF TracesKnown, TracesOf
  <2> QED BY <1>1, <1>2, <2>1, HeardFacts
<1>4. HistoryTyped'
  BY <1>1, <1>2, <1>3, SameHistoryTypes DEF HistoryTyped, ChainEvents
<1>5. ASSUME config.rolloutN > 1 PROVE HistoryKept'
  <2>1. /\ \A r \in Rows(remaining) :
              /\ Rows(requests[r.trace]) = r.past
              /\ \A k \in 0..round : <<"backbone", k>> \in Rows(chain[r.trace])
        /\ \A r \in Rows(finished) :
              /\ Rows(requests[r.trace]) = r.past
              /\ \A k \in 0..r.at : <<"backbone", k>> \in Rows(chain[r.trace])
    <3>1. NextRound - 1 = round
      BY <1>1, <1>2 DEF NextRound
    <3> QED BY <1>5, <3>1 DEF HistoryInv, HistoryKept, Heeds, HasOwnHistory
  <2>2. ASSUME NEW x \in Rows(finished')
        PROVE  /\ Rows(requests'[x.trace]) = x.past
               /\ \A k \in 0..x.at : <<"backbone", k>> \in Rows(chain'[x.trace])
    <3>1. CASE x \in Rows(finished)
      <4>1. x.trace \in DOMAIN requests
        BY <1>1, <3>1 DEF TracesKnown
      <4> QED BY <1>2, <1>3, <2>1, <3>1, <4>1
    <3>2. ASSUME NEW r \in Rows(remaining), x = Finish(r, "backbone")
          PROVE  /\ Rows(requests'[x.trace]) = x.past
                 /\ \A k \in 0..x.at : <<"backbone", k>> \in Rows(chain'[x.trace])
      <4>1. x.trace = r.trace /\ x.past = r.past /\ x.at = round
        BY <3>2 DEF Finish
      <4>2. r.trace \in DOMAIN requests
        BY <1>1 DEF TracesKnown
      <4> QED BY <1>2, <1>3, <2>1, <4>1, <4>2
    <3> QED BY <1>2, <3>1, <3>2
  <2>3. (\A r \in Rows(finished) : HasOwnHistory(r))'
    BY <2>2 DEF HasOwnHistory
  <2> QED BY <1>2, <2>3 DEF HistoryKept
<1> QED BY <1>2, <1>4, <1>5 DEF HistoryInv

LEMMA StepKeepsHistory ==
    ASSUME RowsInv, RowsInv', HistoryInv, [TwoStageNext]_twoStageVars
    PROVE  HistoryInv'
<1>1. ASSUME RestMoves PROVE HistoryInv'
  <2>1. /\ requests' = requests /\ chain' = chain /\ config' = config /\ finished' = finished
        /\ Rows(remaining') = {} /\ Rows(running') = {}
    BY <1>1, NoRows DEF RestMoves, RowsInv, InTurn
  <2>2. HistoryTyped'
    BY <2>1, SameHistoryTypes DEF HistoryInv, HistoryTyped
  <2>3. config.rolloutN > 1 => HistoryKept'
    BY <2>1 DEF HistoryInv, HistoryKept, HasOwnHistory
  <2> QED BY <2>1, <2>2, <2>3 DEF HistoryInv
<1>2. CASE TwoStageNext
  BY <1>1, <1>2, StepMoves, BackboneKeepsHistory, PolicyKeepsHistory, FinalKeepsHistory
<1>3. CASE UNCHANGED twoStageVars
  <2>1. /\ requests' = requests /\ chain' = chain /\ config' = config /\ finished' = finished
        /\ remaining' = remaining /\ running' = running /\ round' = round /\ phase' = phase
    BY <1>3 DEF twoStageVars, byTrace
  <2>2. HistoryTyped'
    BY <2>1, SameHistoryTypes DEF HistoryInv, HistoryTyped
  <2>3. config.rolloutN > 1 => HistoryKept'
    BY <2>1 DEF HistoryInv, HistoryKept, HasOwnHistory, Heeds, NextRound
  <2> QED BY <2>1, <2>2, <2>3 DEF HistoryInv
<1> QED BY <1>2, <1>3

(* HistoryOfBranches holds in every run: with several branches every row   *)
(* returned has its own history, the policy's requests it rests on and the *)
(* backbone's output of every round it went through.                       *)
THEOREM HistoryOfBranchesHolds == TwoStageSpec => []HistoryOfBranches
<1>1. HistoryInv => HistoryOfBranches
  BY DEF HistoryInv, HistoryKept, HistoryOfBranches
<1> QED BY <1>1, RowsInvHolds, HistoryInitially, StepKeepsHistory, PTL DEF TwoStageSpec

================================================================================
