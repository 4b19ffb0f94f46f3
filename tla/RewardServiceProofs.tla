-------------------------- MODULE RewardServiceProofs --------------------------
(***************************************************************************)
(* Two parts of the reward service that know nothing of each other.  The   *)
(* token bucket: its bounds, for any rate, capacity, calls and sizes, and  *)
(* however late the event loop wakes a sleeper.  The router in front of    *)
(* the reward models: its counts, for any number of workers and attempts   *)
(* and any finite set of requests.                                         *)
(***************************************************************************)
EXTENDS TokenBucket, NaiveRouter, FiniteSetTheorems, WellFoundedInduction, TLAPS

-------------------------------------------------------------------------------
(* The token bucket                                                        *)


(* The last time the bucket was filled up.                                 *)
Filled == IF lastUpdate = Never THEN 0 ELSE lastUpdate

(* A call has taken its tokens once it returned, or, if it is large, once  *)
(* it sleeps.                                                              *)
TakenWhen ==
    \A c \in Calls :
        Charged(c) <=> call[c] = "returned" \/ (Large(c) /\ call[c] = "asleep")

(* What was taken after c's tokens, plus what the bucket holds, came from  *)
(* a full bucket and the rate.                                             *)
Books ==
    /\ tokens + charged <= MaxTokens + Rate * Filled
    /\ \A c \in Calls :
          Charged(c) => tokens + charged - stamp[c] <= MaxTokens + Rate * (Filled - at[c])

(* A large call that sleeps for need tokens keeps the bound when it wakes. *)
Owing ==
    \A d \in Calls :
        Large(d) /\ call[d] = "asleep" =>
            /\ stamp[d] <= MaxTokens + Rate * since[d] + need[d]
            /\ \A c \in Calls :
                  Charged(c) /\ stamp[c] <= stamp[d] =>
                      stamp[d] - stamp[c] <= MaxTokens + Rate * (since[d] - at[c]) + need[d]

(* A debt is paid by the time some large call that sleeps is due.          *)
Debt ==
    \/ tokens + Rate * (now - Filled) >= 0
    \/ \E c \in Calls :
          /\ Large(c) /\ call[c] = "asleep"
          /\ tokens + need[c] >= Rate * (Filled - since[c])

(* No stamp runs ahead of the total.                                       *)
Stamps == \A c \in Calls : Charged(c) => stamp[c] <= charged

(* A bucket that was never used is full.                                   *)
Fresh == lastUpdate = Never => tokens = MaxTokens

IInv ==
    /\ TypeOK /\ Fresh /\ TakenWhen /\ Stamps /\ Books
    /\ Owing /\ WindowBound /\ TotalBound /\ Debt
-------------------------------------------------------------------------------
LEMMA Sizes ==
    ASSUME NEW c \in Calls
    PROVE  Size[c] \in Nat /\ Size[c] > 0
  BY BucketAssumption

LEMMA Cancel ==
    ASSUME NEW a \in Int, NEW b \in Int
    PROVE  a + b - b = a
  OBVIOUS

(* A product with the rate distributes over a difference of times.         *)
LEMMA DistributeInt ==
    ASSUME NEW a \in Int, NEW b \in Int
    PROVE  Rate * (a - b) = Rate * a - Rate * b /\ Rate * a \in Int /\ Rate * b \in Int
  BY BucketAssumption

LEMMA Distribute ==
    ASSUME NEW a \in Nat, NEW b \in Nat
    PROVE  Rate * (a - b) = Rate * a - Rate * b /\ Rate * a \in Int /\ Rate * b \in Int
  BY DistributeInt

LEMMA NoTime ==
    ASSUME NEW a \in Nat
    PROVE  Rate * (a - a) = 0
  BY BucketAssumption

LEMMA Monotone ==
    ASSUME NEW a \in Int, NEW b \in Int, a <= b
    PROVE  Rate * a <= Rate * b
<1>1. Rate * (b - a) >= 0
  BY BucketAssumption
<1>2. Rate * (b - a) = Rate * b - Rate * a /\ Rate * a \in Int /\ Rate * b \in Int
  BY DistributeInt
<1> QED BY <1>1, <1>2

LEMMA FilledType ==
    ASSUME TypeOK
    PROVE  /\ Filled \in Nat /\ Filled <= now
           /\ Elapsed \in Nat /\ Elapsed <= now - Filled
           /\ (lastUpdate # Never => Elapsed = now - Filled)
  BY DEF TypeOK, Filled, Elapsed, Never

(* Filling up the bucket keeps the books.                                  *)
LEMMA FillingUp ==
    ASSUME IInv
    PROVE  /\ Refilled \in Int /\ Refilled <= MaxTokens
           /\ Refilled <= tokens + Rate * (now - Filled)
           /\ Refilled + charged <= MaxTokens + Rate * now
           /\ \A c \in Calls :
                 Charged(c) => Refilled + charged - stamp[c] <= MaxTokens + Rate * (now - at[c])
<1>1. /\ tokens \in Int /\ charged \in Nat /\ now \in Nat /\ tokens <= MaxTokens
      /\ MaxTokens \in Nat
  BY BucketAssumption DEF IInv, TypeOK
<1>2. /\ Filled \in Nat /\ Filled <= now /\ Elapsed \in Nat /\ Elapsed <= now - Filled
  BY FilledType DEF IInv
<1>3. Rate * Elapsed \in Int /\ Rate * Elapsed <= Rate * (now - Filled)
  BY <1>1, <1>2, Monotone, Distribute
<1>4. Rate * (now - Filled) = Rate * now - Rate * Filled /\ Rate * now \in Int /\ Rate * Filled \in Int
  BY <1>1, <1>2, Distribute
<1>5. Refilled \in Int /\ Refilled <= MaxTokens /\ Refilled <= tokens + Rate * Elapsed
  <2>1. CASE tokens + Rate * Elapsed > MaxTokens
    <3>1. Refilled = MaxTokens
      BY <2>1 DEF Refilled
    <3> QED BY <1>1, <1>3, <2>1, <3>1
  <2>2. CASE ~(tokens + Rate * Elapsed > MaxTokens)
    <3>1. Refilled = tokens + Rate * Elapsed
      BY <2>2 DEF Refilled
    <3> QED BY <1>1, <1>3, <2>2, <3>1
  <2> QED BY <2>1, <2>2
<1>6. Refilled <= tokens + Rate * (now - Filled)
  BY <1>1, <1>3, <1>4, <1>5
<1>7. Refilled + charged <= MaxTokens + Rate * now
  <2>1. tokens + charged <= MaxTokens + Rate * Filled
    BY DEF IInv, Books
  <2> QED BY <1>1, <1>4, <1>5, <1>6, <2>1
<1>8. ASSUME NEW c \in Calls, Charged(c)
      PROVE  Refilled + charged - stamp[c] <= MaxTokens + Rate * (now - at[c])
  <2>1. stamp[c] \in Int /\ at[c] \in Nat
    BY DEF IInv, TypeOK, Never
  <2>2. tokens + charged - stamp[c] <= MaxTokens + Rate * (Filled - at[c])
    BY <1>8 DEF IInv, Books
  <2>3. Rate * (now - at[c]) = Rate * now - Rate * at[c] /\ Rate * at[c] \in Int
    BY <1>1, <2>1, Distribute
  <2>4. Rate * (Filled - at[c]) = Rate * Filled - Rate * at[c]
    <3>1. Filled \in Nat /\ at[c] \in Nat
      BY <1>2, <2>1
    <3> QED BY <3>1, Distribute
  <2> QED BY <1>1, <1>4, <1>5, <1>6, <2>1, <2>2, <2>3, <2>4
<1> QED BY <1>5, <1>6, <1>7, <1>8
-------------------------------------------------------------------------------
LEMMA InitIInv == Init => IInv
<1> SUFFICES ASSUME Init PROVE IInv
  OBVIOUS
<1>1. MaxTokens \in Nat /\ Rate \in Nat /\ Rate * 0 = 0 /\ Rate * (0 - 0) = 0
  BY BucketAssumption
<1>2. \A c \in Calls : ~Charged(c) /\ call[c] = "none"
  BY DEF Init, Charged
<1>3. TypeOK /\ Fresh
  BY <1>1 DEF Init, TypeOK, Never, Fresh
<1>4. Filled = 0
  BY DEF Init, Filled
<1>5. TakenWhen /\ Stamps /\ Owing /\ WindowBound /\ TotalBound
  BY <1>2 DEF TakenWhen, Stamps, Owing, WindowBound, TotalBound, Returned
<1>6. Books /\ Debt
  BY <1>1, <1>2, <1>4 DEF Init, Books, Debt
<1> QED BY <1>3, <1>5, <1>6 DEF IInv
-------------------------------------------------------------------------------
(* Taking tokens: the new stamp is above all others, and the books hold.   *)
LEMMA Charging ==
    ASSUME IInv, NEW k \in Calls, ~Charged(k), Charge(k), lastUpdate' = now
    PROVE  /\ tokens' \in Int /\ tokens' <= MaxTokens /\ charged' \in Nat
           /\ stamp' \in [Calls -> Nat \cup {Never}] /\ at' \in [Calls -> Nat]
           /\ stamp'[k] = charged' /\ at'[k] = now /\ Charged(k)'
           /\ \A c \in Calls : c # k => stamp'[c] = stamp[c] /\ at'[c] = at[c] /\ (Charged(c)' <=> Charged(c))
           /\ \A c \in Calls : c # k /\ Charged(c) => stamp[c] < stamp'[k]
           /\ Filled' = now
           /\ Stamps' /\ Books'
<1>1. /\ now \in Nat /\ charged \in Nat /\ MaxTokens \in Nat /\ Size[k] \in Nat /\ Size[k] > 0
      /\ stamp \in [Calls -> Nat \cup {Never}] /\ at \in [Calls -> Nat]
  BY Sizes, BucketAssumption DEF IInv, TypeOK
<1>2. /\ Refilled \in Int /\ Refilled <= MaxTokens
      /\ Refilled + charged <= MaxTokens + Rate * now
  BY FillingUp
<1>3. tokens' = Refilled - Size[k] /\ charged' = charged + Size[k]
  BY DEF Charge
<1>4. tokens' \in Int /\ tokens' <= MaxTokens /\ charged' \in Nat
  BY <1>1, <1>2, <1>3
<1>5. /\ stamp' \in [Calls -> Nat \cup {Never}] /\ at' \in [Calls -> Nat]
      /\ stamp'[k] = charged' /\ at'[k] = now
      /\ \A c \in Calls : c # k => stamp'[c] = stamp[c] /\ at'[c] = at[c]
  BY <1>1, <1>3, <1>4 DEF Charge
<1>6. /\ Charged(k)'
      /\ \A c \in Calls : c # k => (Charged(c)' <=> Charged(c))
  BY <1>4, <1>5 DEF Charged, Never
<1>7. \A c \in Calls : Charged(c) => stamp[c] \in Nat /\ stamp[c] <= charged
  BY <1>1 DEF IInv, Stamps, Charged
<1>8. \A c \in Calls : c # k /\ Charged(c) => stamp[c] < stamp'[k]
  BY <1>1, <1>3, <1>5, <1>7
<1>9. Filled' = now
  BY <1>1 DEF Filled, Never
<1>10. Stamps'
  <2> SUFFICES ASSUME NEW c \in Calls, Charged(c)' PROVE stamp'[c] <= charged'
    BY DEF Stamps
  <2>1. CASE c = k
    BY <2>1, <1>4, <1>5
  <2>2. CASE c # k
    BY <2>2, <1>1, <1>3, <1>5, <1>6, <1>7
  <2> QED BY <2>1, <2>2
<1>11. Books'
  <2>1. tokens' + charged' <= MaxTokens + Rate * Filled'
    <3>1. Rate * now \in Int
      BY <1>1, Distribute
    <3> QED BY <3>1, <1>1, <1>2, <1>3, <1>9
  <2>2. ASSUME NEW c \in Calls, Charged(c)'
        PROVE  tokens' + charged' - stamp'[c] <= MaxTokens + Rate * (Filled' - at'[c])
    <3>1. CASE c = k
      <4>1. Rate * (now - now) = 0
        BY <1>1, NoTime
      <4>2. tokens' + charged' - stamp'[k] = tokens'
        <5>1. stamp'[k] = charged'
          BY <1>5
        <5>2. tokens' \in Int /\ charged' \in Int
          BY <1>4
        <5>3. tokens' + charged' - charged' = tokens'
          BY <5>2, Cancel
        <5> QED BY <5>1, <5>3
      <4> QED BY <4>1, <4>2, <3>1, <1>1, <1>4, <1>5, <1>9
    <3>2. CASE c # k
      <4>1. Refilled + charged - stamp[c] <= MaxTokens + Rate * (now - at[c])
        BY <3>2, <2>2, <1>6, FillingUp
      <4>2. stamp[c] \in Nat /\ stamp'[c] = stamp[c] /\ at'[c] = at[c]
        BY <3>2, <2>2, <1>5, <1>6, <1>7
      <4>3. tokens' + charged' - stamp'[c] = Refilled + charged - stamp[c]
        BY <4>2, <1>1, <1>2, <1>3
      <4> QED BY <4>1, <4>2, <4>3, <1>9
    <3> QED BY <3>1, <3>2
  <2> QED BY <2>1, <2>2 DEF Books
<1> QED BY <1>4, <1>5, <1>6, <1>8, <1>9, <1>10, <1>11

(* A large call takes its tokens and goes to sleep for the rest.           *)
LEMMA Acquiring ==
    ASSUME IInv, NEW k \in Calls, AcquireLarge(k)
    PROVE  IInv'
<1>1. Large(k) /\ call[k] = "none" /\ Charge(k) /\ lastUpdate' = now /\ Sleep(k)
      /\ now' = now /\ freed' = freed
  BY DEF AcquireLarge, Calling
<1>2. ~Charged(k)
  BY <1>1 DEF IInv, TakenWhen
<1>3. /\ tokens' \in Int /\ tokens' <= MaxTokens /\ charged' \in Nat
      /\ stamp' \in [Calls -> Nat \cup {Never}] /\ at' \in [Calls -> Nat]
      /\ stamp'[k] = charged' /\ at'[k] = now /\ Charged(k)'
      /\ \A c \in Calls : c # k => stamp'[c] = stamp[c] /\ at'[c] = at[c] /\ (Charged(c)' <=> Charged(c))
      /\ \A c \in Calls : c # k /\ Charged(c) => stamp[c] < stamp'[k]
      /\ Filled' = now /\ Stamps' /\ Books'
  BY <1>1, <1>2, Charging
<1>4. /\ now \in Nat /\ charged \in Nat /\ Size[k] \in Nat /\ MaxTokens \in Nat /\ Size[k] > MaxTokens
      /\ Refilled \in Int /\ Refilled <= MaxTokens /\ Refilled + charged <= MaxTokens + Rate * now
  BY <1>1, Sizes, BucketAssumption, FillingUp DEF IInv, TypeOK, Large
<1>5. Missing(k) \in Nat /\ Missing(k) = Size[k] - Refilled
  BY <1>4 DEF Missing
<1>6. TypeOK' /\ Fresh'
  <2>1. call' \in [Calls -> {"none", "asleep", "returned"}]
    BY <1>1 DEF IInv, TypeOK, Sleep
  <2>2. since' \in [Calls -> Nat] /\ need' \in [Calls -> Nat]
    BY <1>1, <1>4, <1>5 DEF IInv, TypeOK, Sleep
  <2>3. Fresh'
    BY <1>1, <1>4 DEF Fresh, Never
  <2> QED BY <1>1, <1>3, <1>4, <2>1, <2>2, <2>3 DEF IInv, TypeOK
<1>7. /\ call'[k] = "asleep" /\ since'[k] = now /\ need'[k] = Size[k] - Refilled
      /\ \A c \in Calls : c # k => call'[c] = call[c] /\ since'[c] = since[c] /\ need'[c] = need[c]
  BY <1>1, <1>5 DEF IInv, TypeOK, Sleep
<1>8. TakenWhen'
  BY <1>1, <1>3, <1>7 DEF IInv, TakenWhen, Large
<1>9. Owing'
  <2> SUFFICES ASSUME NEW d \in Calls, Large(d), call'[d] = "asleep"
               PROVE  /\ stamp'[d] <= MaxTokens + Rate * since'[d] + need'[d]
                      /\ \A c \in Calls :
                            Charged(c)' /\ stamp'[c] <= stamp'[d] =>
                              stamp'[d] - stamp'[c] <= MaxTokens + Rate * (since'[d] - at'[c]) + need'[d]
    BY DEF Owing, Large
  <2>1. CASE d = k
    <3>1. stamp'[k] = charged + Size[k]
      BY <1>1, <1>3 DEF Charge
    <3>2. Rate * now \in Int
      BY <1>4, Distribute
    <3>3. stamp'[d] <= MaxTokens + Rate * since'[d] + need'[d]
      BY <2>1, <3>1, <3>2, <1>4, <1>7
    <3>4. ASSUME NEW c \in Calls, Charged(c)', stamp'[c] <= stamp'[d]
          PROVE  stamp'[d] - stamp'[c] <= MaxTokens + Rate * (since'[d] - at'[c]) + need'[d]
      <4>1. CASE c = k
        <5>1. Rate * (now - now) = 0
          BY <1>4, NoTime
        <5>2. stamp'[k] \in Int
          BY <3>1, <1>4
        <5> QED BY <2>1, <4>1, <5>1, <5>2, <1>3, <1>4, <1>7
      <4>2. CASE c # k
        <5>1. Charged(c) /\ stamp'[c] = stamp[c] /\ at'[c] = at[c]
          BY <3>4, <4>2, <1>3
        <5>2. Refilled + charged - stamp[c] <= MaxTokens + Rate * (now - at[c])
          BY <5>1, FillingUp
        <5>3. stamp[c] \in Int /\ at[c] \in Nat
          BY DEF IInv, TypeOK, Never
        <5>4. Rate * (now - at[c]) \in Int
          <6>1. now - at[c] \in Int
            BY <5>3, <1>4
          <6> QED BY <6>1, BucketAssumption
        <5> QED BY <2>1, <5>1, <5>2, <5>3, <5>4, <3>1, <1>4, <1>7
      <4> QED BY <4>1, <4>2
    <3> QED BY <3>3, <3>4
  <2>2. CASE d # k
    <3>1. /\ stamp'[d] = stamp[d] /\ since'[d] = since[d] /\ need'[d] = need[d]
          /\ call[d] = "asleep" /\ Charged(d)
      BY <2>2, <1>3, <1>7 DEF IInv, TakenWhen
    <3>2. ASSUME NEW c \in Calls, Charged(c)', stamp'[c] <= stamp'[d]
          PROVE  stamp'[d] - stamp'[c] <= MaxTokens + Rate * (since'[d] - at'[c]) + need'[d]
      <4>1. c # k
        <5>1. stamp[d] < stamp'[k] /\ stamp[d] \in Int /\ stamp'[k] \in Int
          BY <2>2, <3>1, <1>3 DEF IInv, TypeOK, Never
        <5> QED BY <3>1, <3>2, <5>1
      <4> QED BY <3>1, <3>2, <4>1, <1>3 DEF IInv, Owing
    <3> QED BY <3>1, <3>2 DEF IInv, Owing
  <2> QED BY <2>1, <2>2
<1>10. WindowBound'
  <2> SUFFICES ASSUME NEW c \in Calls, NEW d \in Calls, Charged(c)', Returned(d)', stamp'[c] <= stamp'[d]
               PROVE  stamp'[d] - stamp'[c] <= MaxTokens + Rate * (freed'[d] - at'[c])
    BY DEF WindowBound
  <2>1. d # k /\ Returned(d) /\ Charged(d) /\ stamp'[d] = stamp[d] /\ freed'[d] = freed[d]
    BY <1>1, <1>3, <1>7 DEF Returned, IInv, TakenWhen
  <2>2. c # k
    <3>1. stamp[d] < stamp'[k] /\ stamp[d] \in Int /\ stamp'[k] \in Int
      BY <2>1, <1>3 DEF IInv, TypeOK, Never
    <3> QED BY <2>1, <3>1
  <2> QED BY <2>1, <2>2, <1>3 DEF IInv, WindowBound
<1>11. TotalBound'
  BY <1>1, <1>3, <1>7 DEF IInv, TotalBound, Returned
<1>12. Debt'
  <2>1. tokens' = Refilled - Size[k]
    BY <1>1 DEF Charge
  <2>2. Rate * (now - now) = 0
    BY <1>4, NoTime
  <2>3. tokens' + need'[k] >= Rate * (Filled' - since'[k])
    BY <2>1, <2>2, <1>3, <1>4, <1>7
  <2> QED BY <2>3, <1>1, <1>7 DEF Debt, Large
<1> QED BY <1>3, <1>6, <1>8, <1>9, <1>10, <1>11, <1>12 DEF IInv

(* A large call that is due returns: the debt is paid.                     *)
LEMMA Returning ==
    ASSUME IInv, NEW k \in Calls, LargeReturns(k)
    PROVE  IInv'
<1>1. /\ Large(k) /\ call[k] = "asleep" /\ Rate * (now - since[k]) >= need[k]
      /\ UNCHANGED <<now, tokens, lastUpdate, since, need, charged, stamp, at>>
      /\ call' = [call EXCEPT ![k] = "returned"] /\ freed' = [freed EXCEPT ![k] = now]
  BY DEF LargeReturns, Due, Return
<1>2. /\ call'[k] = "returned" /\ freed'[k] = now
      /\ \A c \in Calls : c # k => call'[c] = call[c] /\ freed'[c] = freed[c]
  BY <1>1 DEF IInv, TypeOK
<1>3. now \in Nat /\ MaxTokens \in Nat /\ tokens \in Int /\ since[k] \in Nat /\ need[k] \in Nat
  BY BucketAssumption DEF IInv, TypeOK
<1>4. TypeOK' /\ Fresh' /\ Stamps' /\ Books'
  BY <1>1 DEF IInv, TypeOK, Fresh, Stamps, Books, Charged, Filled
<1>5. TakenWhen'
  BY <1>1, <1>2 DEF IInv, TakenWhen, Charged, Large
<1>6. Owing'
  BY <1>1, <1>2 DEF IInv, Owing, Charged, Large
<1>7. /\ Rate * (now - since[k]) = Rate * now - Rate * since[k]
      /\ Rate * now \in Int /\ Rate * since[k] \in Int
  BY <1>3, Distribute
<1>8. WindowBound'
  <2> SUFFICES ASSUME NEW c \in Calls, NEW d \in Calls, Charged(c), Returned(d)', stamp[c] <= stamp[d]
               PROVE  stamp[d] - stamp[c] <= MaxTokens + Rate * (freed'[d] - at[c])
    BY <1>1 DEF WindowBound, Charged
  <2>1. CASE d = k
    <3>1. stamp[d] - stamp[c] <= MaxTokens + Rate * (since[d] - at[c]) + need[d]
      BY <1>1, <2>1 DEF IInv, Owing
    <3>2. at[c] \in Nat /\ stamp[c] \in Int /\ stamp[d] \in Int
      BY DEF IInv, TypeOK, Never
    <3>3. Rate * (since[k] - at[c]) = Rate * since[k] - Rate * at[c] /\ Rate * at[c] \in Int
      BY <1>3, <3>2, Distribute
    <3>4. Rate * (now - at[c]) = Rate * now - Rate * at[c]
      BY <1>3, <3>2, Distribute
    <3> QED BY <2>1, <3>1, <3>2, <3>3, <3>4, <1>1, <1>2, <1>3, <1>7
  <2>2. CASE d # k
    BY <2>2, <1>2 DEF IInv, WindowBound, Returned
  <2> QED BY <2>1, <2>2
<1>9. TotalBound'
  <2> SUFFICES ASSUME NEW d \in Calls, Returned(d)' PROVE stamp[d] <= MaxTokens + Rate * freed'[d]
    BY <1>1 DEF TotalBound
  <2>1. CASE d = k
    <3>1. stamp[k] <= MaxTokens + Rate * since[k] + need[k]
      BY <1>1 DEF IInv, Owing
    <3>2. stamp[k] \in Int
      BY DEF IInv, TypeOK, Never
    <3> QED BY <2>1, <3>1, <3>2, <1>1, <1>2, <1>3, <1>7
  <2>2. CASE d # k
    BY <2>2, <1>2 DEF IInv, TotalBound, Returned
  <2> QED BY <2>1, <2>2
<1>10. Debt'
  <2>1. Filled \in Nat
    BY FilledType DEF IInv
  <2>2. Rate * (now - Filled) = Rate * now - Rate * Filled /\ Rate * Filled \in Int
    BY <2>1, <1>3, Distribute
  <2>3. CASE tokens + Rate * (now - Filled) >= 0
    BY <2>3, <1>1 DEF Debt, Filled
  <2>4. ASSUME NEW c \in Calls, Large(c), call[c] = "asleep",
               tokens + need[c] >= Rate * (Filled - since[c])
        PROVE  Debt'
    <3>1. CASE c = k
      <4>1. Rate * (Filled - since[k]) = Rate * Filled - Rate * since[k]
        BY <2>1, <1>3, Distribute
      <4>2. tokens + Rate * (now - Filled) >= 0
        BY <2>2, <2>4, <3>1, <4>1, <1>1, <1>3, <1>7
      <4> QED BY <4>2, <1>1 DEF Debt, Filled
    <3>2. CASE c # k
      <4>1. call'[c] = "asleep"
        BY <2>4, <3>2, <1>2
      <4> QED BY <4>1, <2>4, <1>1 DEF Debt, Filled, Large
    <3> QED BY <3>1, <3>2
  <2> QED BY <2>3, <2>4 DEF IInv, Debt
<1> QED BY <1>4, <1>5, <1>6, <1>8, <1>9, <1>10 DEF IInv

(* A small call finds enough.                                              *)
LEMMA Taking ==
    ASSUME IInv, NEW k \in Calls, AcquireSmall(k), Suffices(k), Charge(k), Return(k)
    PROVE  IInv'
<1>1. ~Large(k) /\ call[k] # "returned" /\ lastUpdate' = now /\ now' = now
  BY DEF AcquireSmall, Calling, Due
<1>2. UNCHANGED <<since, need>>
  <2>1. Refilled >= Size[k]
    BY DEF Suffices
  <2> QED BY <2>1 DEF AcquireSmall, Suffices
<1>3. ~Charged(k)
  BY <1>1 DEF IInv, TakenWhen
<1>4. /\ tokens' \in Int /\ tokens' <= MaxTokens /\ charged' \in Nat
      /\ stamp' \in [Calls -> Nat \cup {Never}] /\ at' \in [Calls -> Nat]
      /\ stamp'[k] = charged' /\ at'[k] = now /\ Charged(k)'
      /\ \A c \in Calls : c # k => stamp'[c] = stamp[c] /\ at'[c] = at[c] /\ (Charged(c)' <=> Charged(c))
      /\ \A c \in Calls : c # k /\ Charged(c) => stamp[c] < stamp'[k]
      /\ Filled' = now /\ Stamps' /\ Books'
  BY <1>1, <1>3, Charging
<1>5. /\ now \in Nat /\ charged \in Nat /\ Size[k] \in Nat /\ MaxTokens \in Nat
      /\ Refilled \in Int /\ Refilled >= Size[k] /\ Refilled + charged <= MaxTokens + Rate * now
  BY Sizes, BucketAssumption, FillingUp DEF IInv, TypeOK, Suffices
<1>6. TypeOK' /\ Fresh'
  <2>1. call' \in [Calls -> {"none", "asleep", "returned"}] /\ freed' \in [Calls -> Nat]
    BY <1>5 DEF IInv, TypeOK, Return
  <2>2. Fresh'
    BY <1>1, <1>5 DEF Fresh, Never
  <2> QED BY <1>1, <1>2, <1>4, <1>5, <2>1, <2>2 DEF IInv, TypeOK
<1>7. /\ call'[k] = "returned" /\ freed'[k] = now
      /\ \A c \in Calls : c # k => call'[c] = call[c] /\ freed'[c] = freed[c]
  BY DEF IInv, TypeOK, Return
<1>8. TakenWhen'
  BY <1>4, <1>7 DEF IInv, TakenWhen, Large
<1>9. stamp'[k] = charged + Size[k] /\ tokens' = Refilled - Size[k]
  BY <1>4 DEF Charge
<1>10. ASSUME NEW c \in Calls, NEW d \in Calls, d # k, Charged(d), Charged(c)', stamp'[c] <= stamp'[d]
       PROVE  c # k
  <2>1. stamp[d] < stamp'[k] /\ stamp[d] \in Int /\ stamp'[k] \in Int /\ stamp'[d] = stamp[d]
    BY <1>10, <1>4 DEF IInv, TypeOK, Never
  <2> QED BY <2>1, <1>10
<1>11. Owing'
  <2> SUFFICES ASSUME NEW d \in Calls, Large(d), call'[d] = "asleep"
               PROVE  /\ stamp'[d] <= MaxTokens + Rate * since'[d] + need'[d]
                      /\ \A c \in Calls :
                            Charged(c)' /\ stamp'[c] <= stamp'[d] =>
                              stamp'[d] - stamp'[c] <= MaxTokens + Rate * (since'[d] - at'[c]) + need'[d]
    BY DEF Owing, Large
  <2>1. /\ d # k /\ stamp'[d] = stamp[d] /\ since'[d] = since[d] /\ need'[d] = need[d]
        /\ call[d] = "asleep" /\ Charged(d)
    BY <1>2, <1>4, <1>7 DEF IInv, TakenWhen
  <2>2. ASSUME NEW c \in Calls, Charged(c)', stamp'[c] <= stamp'[d]
        PROVE  stamp'[d] - stamp'[c] <= MaxTokens + Rate * (since'[d] - at'[c]) + need'[d]
    <3>1. c # k
      BY <2>1, <2>2, <1>10
    <3> QED BY <2>1, <2>2, <3>1, <1>4 DEF IInv, Owing
  <2> QED BY <2>1, <2>2 DEF IInv, Owing
<1>12. WindowBound'
  <2> SUFFICES ASSUME NEW c \in Calls, NEW d \in Calls, Charged(c)', Returned(d)', stamp'[c] <= stamp'[d]
               PROVE  stamp'[d] - stamp'[c] <= MaxTokens + Rate * (freed'[d] - at'[c])
    BY DEF WindowBound
  <2>1. CASE d = k /\ c = k
    <3>1. Rate * (now - now) = 0
      BY <1>5, NoTime
    <3>2. stamp'[k] - stamp'[k] = 0
      BY <1>5, <1>9
    <3> QED BY <2>1, <3>1, <3>2, <1>4, <1>5, <1>7
  <2>2. CASE d = k /\ c # k
    <3>1. Charged(c) /\ stamp'[c] = stamp[c] /\ at'[c] = at[c]
      BY <2>2, <1>4
    <3>2. Refilled + charged - stamp[c] <= MaxTokens + Rate * (now - at[c])
      BY <3>1, FillingUp
    <3>3. stamp[c] \in Int /\ at[c] \in Nat
      BY DEF IInv, TypeOK, Never
    <3>4. Rate * (now - at[c]) \in Int
      <4>1. now - at[c] \in Int
        BY <3>3, <1>5
      <4> QED BY <4>1, BucketAssumption
    <3> QED BY <2>2, <3>1, <3>2, <3>3, <3>4, <1>5, <1>7, <1>9
  <2>3. CASE d # k
    <3>1. Returned(d) /\ Charged(d) /\ stamp'[d] = stamp[d] /\ freed'[d] = freed[d]
      BY <2>3, <1>4, <1>7 DEF Returned, IInv, TakenWhen
    <3>2. c # k
      BY <2>3, <3>1, <1>10
    <3> QED BY <2>3, <3>1, <3>2, <1>4 DEF IInv, WindowBound
  <2> QED BY <2>1, <2>2, <2>3
<1>13. TotalBound'
  <2> SUFFICES ASSUME NEW d \in Calls, Returned(d)' PROVE stamp'[d] <= MaxTokens + Rate * freed'[d]
    BY DEF TotalBound
  <2>1. CASE d = k
    <3>1. Rate * now \in Int
      BY <1>5, Distribute
    <3> QED BY <2>1, <3>1, <1>5, <1>7, <1>9
  <2>2. CASE d # k
    BY <2>2, <1>4, <1>7 DEF IInv, TotalBound, Returned
  <2> QED BY <2>1, <2>2
<1>14. Debt'
  <2>1. Rate * (now - now) = 0
    BY <1>5, NoTime
  <2> QED BY <2>1, <1>1, <1>4, <1>5, <1>9 DEF Debt
<1> QED BY <1>4, <1>6, <1>8, <1>11, <1>12, <1>13, <1>14 DEF IInv

(* A small call does not, and sleeps for what is missing.                  *)
LEMMA Waiting ==
    ASSUME IInv, NEW k \in Calls, AcquireSmall(k), ~Suffices(k)
    PROVE  IInv'
<1>1. /\ ~Large(k) /\ call[k] # "returned" /\ lastUpdate' = now /\ now' = now
      /\ tokens' = Refilled /\ Sleep(k) /\ UNCHANGED <<charged, stamp, at, freed>>
  BY DEF AcquireSmall, Calling, Due
<1>2. /\ now \in Nat /\ Size[k] \in Nat /\ MaxTokens \in Nat
      /\ tokens \in Int /\ charged \in Nat
      /\ Refilled \in Int /\ Refilled <= MaxTokens /\ Refilled < Size[k]
      /\ Refilled + charged <= MaxTokens + Rate * now
  BY Sizes, BucketAssumption, FillingUp DEF IInv, TypeOK, Suffices
<1>3. Missing(k) \in Nat
  BY <1>2 DEF Missing
<1>4. TypeOK' /\ Fresh'
  <2>1. /\ call' \in [Calls -> {"none", "asleep", "returned"}]
        /\ since' \in [Calls -> Nat] /\ need' \in [Calls -> Nat]
    BY <1>1, <1>2, <1>3 DEF IInv, TypeOK, Sleep
  <2>2. Fresh'
    BY <1>1, <1>2 DEF Fresh, Never
  <2> QED BY <1>1, <1>2, <2>1, <2>2 DEF IInv, TypeOK
<1>5. /\ call'[k] = "asleep"
      /\ \A c \in Calls : c # k => call'[c] = call[c] /\ since'[c] = since[c] /\ need'[c] = need[c]
  BY <1>1, <1>3 DEF IInv, TypeOK, Sleep
<1>6. TakenWhen' /\ Stamps' /\ WindowBound' /\ TotalBound'
  BY <1>1, <1>5 DEF IInv, TakenWhen, Stamps, WindowBound, TotalBound, Charged, Returned, Large
<1>7. Owing'
  BY <1>1, <1>5 DEF IInv, Owing, Charged, Large
<1>8. Filled' = now
  BY <1>1, <1>2 DEF Filled, Never
<1>9. Books'
  BY <1>1, <1>8, FillingUp DEF Books, Charged
<1>10. Debt'
  <2>1. Rate * (now - now) = 0
    BY <1>2, NoTime
  <2>2. CASE Refilled >= 0
    BY <2>1, <2>2, <1>1, <1>2, <1>8 DEF Debt
  <2>3. CASE Refilled < 0
    <3>1. Elapsed \in Nat /\ Filled \in Nat /\ Rate * Elapsed \in Int
      <4>1. Elapsed \in Nat /\ Filled \in Nat
        BY FilledType DEF IInv
      <4> QED BY <4>1, BucketAssumption
    <3>2. Refilled = tokens + Rate * Elapsed
      BY <2>3, <3>1, <1>2 DEF Refilled
    <3>3. lastUpdate # Never
      <4>1. Rate * 0 = 0
        BY BucketAssumption
      <4> QED BY <2>3, <3>2, <4>1, <1>2 DEF IInv, Fresh, Elapsed
    <3>4. Refilled = tokens + Rate * (now - Filled)
      BY <3>2, <3>3, FilledType DEF IInv
    <3>5. PICK c \in Calls : Large(c) /\ call[c] = "asleep" /\ tokens + need[c] >= Rate * (Filled - since[c])
      BY <2>3, <3>4, <1>2 DEF IInv, Debt
    <3>6. c # k /\ call'[c] = "asleep" /\ since'[c] = since[c] /\ need'[c] = need[c]
      BY <3>5, <1>1, <1>5
    <3>7. since[c] \in Nat /\ need[c] \in Nat
      BY DEF IInv, TypeOK
    <3>8. Rate * (now - Filled) = Rate * now - Rate * Filled /\ Rate * now \in Int /\ Rate * Filled \in Int
      BY <3>1, <1>2, Distribute
    <3>9. Rate * (Filled - since[c]) = Rate * Filled - Rate * since[c] /\ Rate * since[c] \in Int
      BY <3>1, <3>7, Distribute
    <3>10. Rate * (now - since[c]) = Rate * now - Rate * since[c]
      BY <1>2, <3>7, Distribute
    <3>11. Refilled + need[c] >= Rate * (now - since[c])
      BY <3>4, <3>5, <3>7, <3>8, <3>9, <3>10, <1>2
    <3> QED BY <3>5, <3>6, <3>11, <1>1, <1>8 DEF Debt, Large
  <2> QED BY <2>2, <2>3, <1>2
<1> QED BY <1>4, <1>6, <1>7, <1>9, <1>10 DEF IInv

(* Time only pays debts.                                                   *)
LEMMA Ticking ==
    ASSUME IInv, Tick
    PROVE  IInv'
<1>1. now' = now + 1 /\ UNCHANGED <<tokens, lastUpdate, call, since, need, charged, stamp, at, freed>>
  BY DEF Tick
<1>2. now \in Nat /\ tokens \in Int /\ Filled \in Nat
  BY FilledType DEF IInv, TypeOK
<1>3. TypeOK' /\ Fresh' /\ TakenWhen' /\ Stamps' /\ Books' /\ Owing' /\ WindowBound' /\ TotalBound'
  <2>1. TypeOK'
    BY <1>1, <1>2 DEF IInv, TypeOK, Never
  <2>2. Filled' = Filled
    BY <1>1 DEF Filled
  <2>3. Books' /\ Owing' /\ WindowBound' /\ TotalBound'
    BY <2>2, <1>1 DEF IInv, Books, Owing, WindowBound, TotalBound, Charged, Returned, Large
  <2> QED BY <2>1, <2>3, <1>1 DEF IInv, Fresh, TakenWhen, Stamps, Charged, Large
<1>4. Debt'
  <2>1. CASE tokens + Rate * (now - Filled) >= 0
    <3>1. now - Filled \in Int
      BY <1>2
    <3>2. Rate * (now - Filled) \in Int
      BY <3>1, BucketAssumption
    <3>3. tokens' \in Int /\ now' - Filled' \in Int /\ now - Filled <= now' - Filled'
      <4>1. tokens' = tokens /\ now' = now + 1 /\ Filled' = Filled
        BY <1>1 DEF Filled
      <4> QED BY <4>1, <1>2
    <3>4. Rate * (now - Filled) <= Rate * (now' - Filled')
      BY <3>1, <3>3, Monotone
    <3>5. tokens' + Rate * (now' - Filled') >= 0
      <4>1. Rate * (now' - Filled') \in Int
        BY <3>3, BucketAssumption
      <4>2. tokens' = tokens
        BY <1>1
      <4> QED BY <2>1, <3>2, <3>4, <4>1, <4>2, <1>2
    <3> QED BY <3>5 DEF Debt
  <2>2. CASE \E c \in Calls : /\ Large(c) /\ call[c] = "asleep"
                              /\ tokens + need[c] >= Rate * (Filled - since[c])
    BY <2>2, <1>1 DEF Debt, Filled, Large
  <2> QED BY <2>1, <2>2 DEF IInv, Debt
<1> QED BY <1>3, <1>4 DEF IInv

LEMMA StepIInv == IInv /\ [Next]_vars => IInv'
<1> SUFFICES ASSUME IInv, [Next]_vars PROVE IInv'
  OBVIOUS
<1>1. ASSUME NEW k \in Calls, Step(k) PROVE IInv'
  <2>1. CASE AcquireLarge(k)
    BY <2>1, Acquiring
  <2>2. CASE LargeReturns(k)
    BY <2>2, Returning
  <2>3. CASE AcquireSmall(k)
    <3>1. CASE Suffices(k)
      <4>1. Charge(k) /\ Return(k)
        BY <2>3, <3>1 DEF AcquireSmall
      <4> QED BY <2>3, <3>1, <4>1, Taking
    <3>2. CASE ~Suffices(k)
      BY <2>3, <3>2, Waiting
    <3> QED BY <3>1, <3>2
  <2> QED BY <1>1, <2>1, <2>2, <2>3 DEF Step
<1>2. CASE Tick
  BY <1>2, Ticking
<1>3. ASSUME UNCHANGED vars PROVE IInv'
  <2> USE <1>3 DEF vars
  <2>1. TypeOK' /\ Fresh' /\ TakenWhen' /\ Stamps'
    BY DEF IInv, TypeOK, Fresh, TakenWhen, Stamps, Charged, Large
  <2>2. Filled' = Filled
    BY DEF Filled
  <2>3. Books' /\ Owing' /\ WindowBound' /\ TotalBound' /\ Debt'
    BY <2>2 DEF IInv, Books, Owing, WindowBound, TotalBound, Debt, Charged, Returned, Large
  <2> QED BY <2>1, <2>3 DEF IInv
<1> QED BY <1>1, <1>2, <1>3 DEF Next, TimeIsUp

LEMMA IInvHolds == Spec => []IInv
  BY InitIInv, StepIInv, PTL DEF Spec
-------------------------------------------------------------------------------
(* The bucket's variables keep their types: it never holds more than its   *)
(* capacity.                                                               *)
THEOREM TypeCorrect == Spec => []TypeOK
<1>1. IInv => TypeOK
  BY DEF IInv
<1> QED BY <1>1, IInvHolds, PTL

(* Between any two grants no more than a full bucket and the rate, for any *)
(* sizes, also those larger than the bucket.                               *)
THEOREM WindowBoundHolds == Spec => []WindowBound
<1>1. IInv => WindowBound
  BY DEF IInv
<1> QED BY <1>1, IInvHolds, PTL

(* The same from the start of the bucket.                                  *)
THEOREM TotalBoundHolds == Spec => []TotalBound
<1>1. IInv => TotalBound
  BY DEF IInv
<1> QED BY <1>1, IInvHolds, PTL

(* There is a debt only while a call that is larger than the bucket waits  *)
(* for it to be paid.                                                      *)
THEOREM DebtOnlyWhileWaitedHolds == Spec => []DebtOnlyWhileWaited
<1>1. IInv => DebtOnlyWhileWaited
  <2> SUFFICES ASSUME IInv, tokens + Rate * (now - lastUpdate) < 0
               PROVE  \E c \in Calls : Large(c) /\ call[c] = "asleep"
    BY DEF DebtOnlyWhileWaited
  <2>1. lastUpdate # Never
    <3>1. CASE lastUpdate = Never
      <4>1. tokens \in Nat /\ now - lastUpdate \in Nat
        BY <3>1, BucketAssumption DEF IInv, Fresh, TypeOK, Never
      <4>2. Rate * (now - lastUpdate) \in Nat
        BY <4>1, BucketAssumption
      <4> QED BY <4>1, <4>2
    <3> QED BY <3>1
  <2>2. Filled = lastUpdate
    BY <2>1 DEF Filled
  <2>3. tokens \in Int /\ Rate * (now - lastUpdate) \in Int
    <3>1. now - lastUpdate \in Int
      BY DEF IInv, TypeOK, Never
    <3> QED BY <3>1, BucketAssumption DEF IInv, TypeOK
  <2>4. ~(tokens + Rate * (now - Filled) >= 0)
    BY <2>2, <2>3
  <2> QED BY <2>4 DEF IInv, Debt
<1> QED BY <1>1, IInvHolds, PTL
-------------------------------------------------------------------------------
(* The router                                                              *)

(* A request whose handler has begun has a worker.                         *)
Assigned == \A r \in Requests : worker[r] = NoWorker <=> state[r] = "none"

(* An attempt after a delay is one of max_attempts.                        *)
AttemptsLeft == \A r \in Requests : state[r] = "delayed" => attempt[r] < MaxAttempts

RouterInv == RouterTypeOK /\ Assigned /\ AttemptsLeft /\ CountsRequestsAndFailures

USE DEF UnderWay
-------------------------------------------------------------------------------
(* A set of naturals that is not empty has a least member.                 *)
LEMMA LeastNatural ==
    ASSUME NEW T, T \subseteq Nat, T # {}
    PROVE  \E x \in T : \A y \in T : x <= y
<1>1. PICK x \in T : \A y \in T : <<y, x>> \notin OpToRel(<, Nat)
  BY WFMin, NatLessThanWellFounded, Zenon
<1>2. ASSUME NEW y \in T PROVE ~(y < x)
  BY <1>1, <1>2, Zenon DEF OpToRel
<1> QED BY <1>2

(* min() always finds a worker.                                            *)
LEMMA ChosenIsWorker == RouterTypeOK => Chosen \in Workers
<1> SUFFICES ASSUME RouterTypeOK PROVE Chosen \in Workers
  OBVIOUS
<1> DEFINE lows == {counts[w] : w \in Workers}
<1>1. /\ \A w \in Workers : counts[w] \in Nat /\ w \in Nat
      /\ lows \subseteq Nat /\ lows # {}
  BY RouterAssumption DEF RouterTypeOK, Workers
<1>2. PICK low \in lows : \A x \in lows : low <= x
  <2> HIDE DEF lows
  <2> QED BY <1>1, LeastNatural
<1> DEFINE best == {w \in Workers : counts[w] = low}
<1>3. PICK w \in best : \A v \in best : w <= v
  <2>1. best \subseteq Nat /\ best # {}
    BY <1>1, <1>2
  <2> HIDE DEF best
  <2> QED BY <2>1, LeastNatural
<1>4. ASSUME NEW v \in Workers
      PROVE  counts[w] < counts[v] \/ (counts[w] = counts[v] /\ w <= v)
  <2>1. low <= counts[v] /\ counts[w] = low /\ (counts[v] = low => w <= v)
    BY <1>2, <1>3
  <2>2. counts[v] \in Nat /\ low \in Nat
    BY <1>1, <1>2
  <2> QED BY <2>1, <2>2
<1>5. w \in Workers
  BY <1>3
<1> HIDE DEF best, lows
<1> QED BY <1>4, <1>5 DEF Chosen

(* The requests of a worker are finitely many.                             *)
LEMMA RequestsAreFinite ==
    ASSUME NEW w
    PROVE  /\ IsFiniteSet(Active(w)) /\ IsFiniteSet(Failed(w))
           /\ Cardinality(Active(w)) \in Nat /\ Cardinality(Failed(w)) \in Nat
<1>1. Active(w) \in SUBSET Requests /\ Failed(w) \in SUBSET Requests
  BY DEF Active, Failed
<1>2. IsFiniteSet(Active(w)) /\ IsFiniteSet(Failed(w))
  BY <1>1, RouterAssumption, FS_Subset
<1> QED BY <1>2, FS_CardinalityType

(* A request that leaves the active ones and fails is counted as before.   *)
LEMMA FailureKeepsSum ==
    ASSUME NEW w, NEW r \in Active(w), Active(w)' = Active(w) \ {r}, Failed(w)' = Failed(w) \cup {r}
    PROVE  Cardinality(Active(w))' + Cardinality(Failed(w))' = Cardinality(Active(w)) + Cardinality(Failed(w))
<1>1. r \notin Failed(w)
  BY DEF Active, Failed
<1>2. /\ Cardinality(Active(w) \ {r}) = Cardinality(Active(w)) - 1
      /\ Cardinality(Failed(w) \cup {r}) = Cardinality(Failed(w)) + 1
  BY <1>1, RequestsAreFinite, FS_RemoveElement, FS_AddElement
<1> QED BY <1>2, RequestsAreFinite

(* A request of the worker makes its count positive.                       *)
LEMMA ActiveCounted ==
    ASSUME RouterInv, NEW w \in Workers, NEW r \in Active(w)
    PROVE  counts[w] > 0
<1>1. Cardinality(Active(w)) # 0
  BY RequestsAreFinite, FS_EmptySet
<1> QED BY <1>1, RequestsAreFinite DEF RouterInv, CountsRequestsAndFailures
-------------------------------------------------------------------------------
LEMMA InitRouterInv == RouterInit => RouterInv
<1> SUFFICES ASSUME RouterInit PROVE RouterInv
  OBVIOUS
<1>1. RouterTypeOK /\ Assigned /\ AttemptsLeft
  BY RouterAssumption DEF RouterInit, RouterTypeOK, Assigned, AttemptsLeft
<1>2. ASSUME NEW w \in Workers PROVE Active(w) = {} /\ Failed(w) = {} /\ counts[w] = 0
  BY DEF RouterInit, Active, Failed
<1>3. CountsRequestsAndFailures
  BY <1>2, FS_EmptySet DEF CountsRequestsAndFailures
<1> QED BY <1>1, <1>3 DEF RouterInv

(* A step that moves no request in or out of its worker's sets.            *)
LEMMA SameSum ==
    ASSUME CountsRequestsAndFailures, counts' = counts,
           \A w \in Workers : Active(w)' = Active(w) /\ Failed(w)' = Failed(w)
    PROVE  CountsRequestsAndFailures'
BY DEF CountsRequestsAndFailures

(* A failure gives nothing back.                                           *)
LEMMA FailureInv ==
    ASSUME RouterInv, NEW r \in Requests, state[r] \in UnderWay,
           state' = [state EXCEPT ![r] = "failed"], UNCHANGED <<counts, worker>>
    PROVE  CountsRequestsAndFailures'
<1> SUFFICES ASSUME NEW w \in Workers
             PROVE  counts'[w] = Cardinality(Active(w))' + Cardinality(Failed(w))'
  BY DEF CountsRequestsAndFailures
<1>1. counts[w] = Cardinality(Active(w)) + Cardinality(Failed(w))
  BY DEF RouterInv, CountsRequestsAndFailures
<1>2. CASE worker[r] = w
  <2>1. r \in Active(w) /\ Active(w)' = Active(w) \ {r} /\ Failed(w)' = Failed(w) \cup {r}
    BY <1>2 DEF Active, Failed, RouterInv, RouterTypeOK
  <2> QED BY <1>1, <2>1, FailureKeepsSum
<1>3. CASE worker[r] # w
  <2>1. Active(w)' = Active(w) /\ Failed(w)' = Failed(w)
    BY <1>3 DEF Active, Failed, RouterInv, RouterTypeOK
  <2> QED BY <1>1, <2>1
<1> QED BY <1>2, <1>3

LEMMA NextRouterInv == RouterInv /\ [RouterNext]_routerVars => RouterInv'
<1> SUFFICES ASSUME RouterInv, [RouterNext]_routerVars PROVE RouterInv'
  OBVIOUS
<1>0. RouterTypeOK /\ Assigned /\ AttemptsLeft /\ CountsRequestsAndFailures
  BY DEF RouterInv
<1>1. ASSUME NEW r \in Requests, Select(r) PROVE RouterInv'
  <2>1. Chosen \in Workers /\ Chosen # NoWorker
    BY <1>0, ChosenIsWorker DEF Workers, NoWorker
  <2>2. RouterTypeOK' /\ Assigned' /\ AttemptsLeft'
    BY <1>0, <1>1, <2>1 DEF Select, RouterTypeOK, Assigned, AttemptsLeft
  <2>3. ASSUME NEW w \in Workers
        PROVE  counts'[w] = Cardinality(Active(w))' + Cardinality(Failed(w))'
    <3>1. counts[w] = Cardinality(Active(w)) + Cardinality(Failed(w))
      BY <1>0 DEF CountsRequestsAndFailures
    <3>2. CASE w = Chosen
      <4>1. r \notin Active(w) /\ Active(w)' = Active(w) \cup {r} /\ Failed(w)' = Failed(w)
        BY <1>0, <1>1, <3>2 DEF Select, Active, Failed, RouterTypeOK
      <4>2. Cardinality(Active(w) \cup {r}) = Cardinality(Active(w)) + 1
        BY <4>1, RequestsAreFinite, FS_AddElement
      <4>3. counts'[w] = counts[w] + 1
        BY <1>0, <1>1, <3>2 DEF Select, RouterTypeOK
      <4> QED BY <3>1, <4>1, <4>2, <4>3, RequestsAreFinite
    <3>3. CASE w # Chosen
      <4>1. Active(w)' = Active(w) /\ Failed(w)' = Failed(w)
        BY <1>0, <1>1, <3>3 DEF Select, Active, Failed, RouterTypeOK, Assigned
      <4>2. counts'[w] = counts[w]
        BY <1>0, <1>1, <3>3, <2>1 DEF Select, RouterTypeOK
      <4> QED BY <3>1, <4>1, <4>2
    <3> QED BY <3>2, <3>3
  <2> QED BY <2>2, <2>3 DEF RouterInv, CountsRequestsAndFailures
<1>2. ASSUME NEW r \in Requests, BodyRead(r) PROVE RouterInv'
  <2>1. RouterTypeOK' /\ Assigned' /\ AttemptsLeft'
    BY <1>0, <1>2, RouterAssumption DEF BodyRead, RouterTypeOK, Assigned, AttemptsLeft
  <2>2. counts' = counts /\ \A w \in Workers : Active(w)' = Active(w) /\ Failed(w)' = Failed(w)
    BY <1>0, <1>2 DEF BodyRead, Active, Failed, RouterTypeOK
  <2> QED BY <1>0, <2>1, <2>2, SameSum DEF RouterInv
<1>3. ASSUME NEW r \in Requests, BodyLost(r) PROVE RouterInv'
  <2>1. RouterTypeOK' /\ Assigned' /\ AttemptsLeft'
    BY <1>0, <1>3 DEF BodyLost, RouterTypeOK, Assigned, AttemptsLeft
  <2>2. CountsRequestsAndFailures'
    BY <1>3, FailureInv DEF BodyLost
  <2> QED BY <2>1, <2>2 DEF RouterInv
<1>4. ASSUME NEW r \in Requests, Answered(r) PROVE RouterInv'
  <2>1. worker[r] \in Workers /\ r \in Active(worker[r])
    BY <1>0, <1>4 DEF Answered, Active, RouterTypeOK, Assigned
  <2>2. counts' = [counts EXCEPT ![worker[r]] = @ - 1] /\ counts[worker[r]] > 0
    BY <1>4, <2>1, ActiveCounted DEF Answered, ReleaseWorker
  <2>3. RouterTypeOK' /\ Assigned' /\ AttemptsLeft'
    BY <1>0, <1>4, <2>1, <2>2 DEF Answered, RouterTypeOK, Assigned, AttemptsLeft
  <2>4. ASSUME NEW w \in Workers
        PROVE  counts'[w] = Cardinality(Active(w))' + Cardinality(Failed(w))'
    <3>1. counts[w] = Cardinality(Active(w)) + Cardinality(Failed(w)) /\ Failed(w)' = Failed(w)
      BY <1>0, <1>4 DEF Answered, Failed, CountsRequestsAndFailures, RouterTypeOK
    <3>2. CASE w = worker[r]
      <4>1. r \in Active(w) /\ Active(w)' = Active(w) \ {r}
        BY <1>0, <1>4, <2>1, <3>2 DEF Answered, Active, RouterTypeOK
      <4>2. Cardinality(Active(w) \ {r}) = Cardinality(Active(w)) - 1
        BY <4>1, RequestsAreFinite, FS_RemoveElement
      <4>3. counts'[w] = counts[w] - 1
        BY <1>0, <2>2, <3>2 DEF RouterTypeOK
      <4> QED BY <3>1, <4>1, <4>2, <4>3, RequestsAreFinite
    <3>3. CASE w # worker[r]
      <4>1. Active(w)' = Active(w) /\ counts'[w] = counts[w]
        BY <1>0, <1>4, <2>2, <3>3 DEF Answered, Active, RouterTypeOK
      <4> QED BY <3>1, <4>1
    <3> QED BY <3>2, <3>3
  <2> QED BY <2>3, <2>4 DEF RouterInv, CountsRequestsAndFailures
<1>5. ASSUME NEW r \in Requests, HttpError(r) PROVE RouterInv'
  <2>1. RouterTypeOK' /\ Assigned' /\ AttemptsLeft'
    BY <1>0, <1>5 DEF HttpError, RouterTypeOK, Assigned, AttemptsLeft
  <2>2. CountsRequestsAndFailures'
    BY <1>5, FailureInv DEF HttpError
  <2> QED BY <2>1, <2>2 DEF RouterInv
<1>6. ASSUME NEW r \in Requests, OtherError(r) PROVE RouterInv'
  <2>1. RouterTypeOK' /\ Assigned' /\ AttemptsLeft'
    BY <1>0, <1>6, RouterAssumption DEF OtherError, LastAttempt, RouterTypeOK, Assigned, AttemptsLeft
  <2>2. CASE LastAttempt(r)
    <3>1. CountsRequestsAndFailures'
      BY <1>6, <2>2, FailureInv DEF OtherError
    <3> QED BY <2>1, <3>1 DEF RouterInv
  <2>3. CASE ~LastAttempt(r)
    <3>1. counts' = counts /\ \A w \in Workers : Active(w)' = Active(w) /\ Failed(w)' = Failed(w)
      BY <1>0, <1>6, <2>3 DEF OtherError, Active, Failed, RouterTypeOK
    <3> QED BY <1>0, <2>1, <3>1, SameSum DEF RouterInv
  <2> QED BY <2>2, <2>3
<1>7. ASSUME NEW r \in Requests, Retry(r) PROVE RouterInv'
  <2>1. RouterTypeOK' /\ Assigned' /\ AttemptsLeft'
    BY <1>0, <1>7, RouterAssumption DEF Retry, RouterTypeOK, Assigned, AttemptsLeft
  <2>2. counts' = counts /\ \A w \in Workers : Active(w)' = Active(w) /\ Failed(w)' = Failed(w)
    BY <1>0, <1>7 DEF Retry, Active, Failed, RouterTypeOK
  <2> QED BY <1>0, <2>1, <2>2, SameSum DEF RouterInv
<1>8. ASSUME NEW r \in Requests, Connect(r) \/ Hang(r) PROVE RouterInv'
  <2>1. RouterTypeOK' /\ Assigned' /\ AttemptsLeft'
    BY <1>0, <1>8 DEF Connect, Hang, RouterTypeOK, Assigned, AttemptsLeft
  <2>2. counts' = counts /\ \A w \in Workers : Active(w)' = Active(w) /\ Failed(w)' = Failed(w)
    BY <1>0, <1>8 DEF Connect, Hang, Active, Failed, RouterTypeOK
  <2> QED BY <1>0, <2>1, <2>2, SameSum DEF RouterInv
<1>9. CASE UNCHANGED routerVars
  BY <1>0, <1>9 DEF routerVars, RouterInv, RouterTypeOK, Assigned, AttemptsLeft, CountsRequestsAndFailures, Active, Failed
<1> QED BY <1>1, <1>2, <1>3, <1>4, <1>5, <1>6, <1>7, <1>8, <1>9 DEF RouterNext, Handle, AllServed
-------------------------------------------------------------------------------
(* The strengthening holds in every reachable state.                       *)
THEOREM RouterInvariance == RouterSpec => []RouterInv
BY InitRouterInv, NextRouterInv, PTL DEF RouterSpec

(* The router's variables keep their types; no request is attempted more   *)
(* than max_attempts times (_make_async_request).                          *)
THEOREM RouterTypeCorrect == RouterSpec => []RouterTypeOK
<1>1. RouterInv => RouterTypeOK
  BY DEF RouterInv
<1> QED BY RouterInvariance, <1>1, PTL

(* What fails is never given back: a worker's count is its active requests *)
(* and all that ever failed on it (_select_worker, _release_worker).       *)
THEOREM CountsRequestsAndFailuresHolds == RouterSpec => []CountsRequestsAndFailures
<1>1. RouterInv => CountsRequestsAndFailures
  BY DEF RouterInv
<1> QED BY RouterInvariance, <1>1, PTL
===============================================================================
