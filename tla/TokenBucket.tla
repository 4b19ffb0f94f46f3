------------------------------ MODULE TokenBucket ------------------------------
(***************************************************************************)
(* AsyncTokenBucket under concurrent acquire calls.  The lock is held      *)
(* across no suspension, so one pass through a call is one step; a call    *)
(* suspends only in asyncio.sleep.  Time and tokens are whole numbers; a   *)
(* sleep of need / rate_limit lasts until rate_limit x time reaches need,  *)
(* or longer.                                                              *)
(***************************************************************************)
EXTENDS Integers

CONSTANTS Calls,      \* calls of acquire
          Size,       \* num_tokens of each
          Rate,       \* rate_limit: tokens per unit of time
          MaxTokens,  \* max_tokens
          LastCall,   \* bound: no call begins later
          MaxLate,    \* bound on how long a call that is due is kept waiting
          MaxTime     \* bound on time

ASSUME BucketAssumption ==
    /\ Size \in [Calls -> Nat \ {0}]
    /\ Rate \in Nat \ {0} /\ MaxTokens \in Nat \ {0}
    /\ LastCall \in Nat /\ MaxLate \in Nat /\ MaxTime \in Nat

VARIABLES now,         \* the event loop's time
          tokens,      \* self.tokens: below zero while a debt is being paid
          lastUpdate,  \* self.last_update
          call,        \* per call: "none", "asleep" or "returned"
          since, need, \* when its sleep began and the tokens it sleeps for
          charged,     \* auxiliary: the tokens taken so far
          stamp,       \* auxiliary: charged, once a call had taken its own
          at, freed    \* auxiliary: when it took them and when it returned

vars == <<now, tokens, lastUpdate, call, since, need, charged, stamp, at, freed>>

Never == -1

Init ==
    /\ now = 0
    /\ tokens = MaxTokens
    /\ lastUpdate = Never
    /\ call = [c \in Calls |-> "none"]
    /\ since = [c \in Calls |-> 0]
    /\ need = [c \in Calls |-> 0]
    /\ charged = 0
    /\ stamp = [c \in Calls |-> Never]
    /\ at = [c \in Calls |-> 0]
    /\ freed = [c \in Calls |-> 0]

(* Mutant of Elapsed: last_update is set first.                             *)
ElapsedNothing == 0

Elapsed == IF lastUpdate = Never THEN 0 ELSE now - lastUpdate

Refilled ==
    IF tokens + Rate * Elapsed > MaxTokens THEN MaxTokens ELSE tokens + Rate * Elapsed

Large(c) == Size[c] > MaxTokens

(* c takes its tokens.                                                     *)
Charge(c) ==
    /\ tokens' = Refilled - Size[c]
    /\ charged' = charged + Size[c]
    /\ stamp' = [stamp EXCEPT ![c] = charged + Size[c]]
    /\ at' = [at EXCEPT ![c] = now]

Return(c) ==
    /\ call' = [call EXCEPT ![c] = "returned"]
    /\ freed' = [freed EXCEPT ![c] = now]

(* Mutant of Missing: a large request waits for a full bucket only.         *)
MissingUpToCapacity(c) == IF Large(c) THEN MaxTokens - Refilled ELSE Size[c] - Refilled

Missing(c) == Size[c] - Refilled

Sleep(c) ==
    /\ call' = [call EXCEPT ![c] = "asleep"]
    /\ since' = [since EXCEPT ![c] = now]
    /\ need' = [need EXCEPT ![c] = Missing(c)]

Due(c) == call[c] = "asleep" /\ Rate * (now - since[c]) >= need[c]

Calling(c) == call[c] = "none" /\ now <= LastCall

(* A request larger than the bucket takes its tokens at once, and waits    *)
(* until the debt is paid.                                                 *)
AcquireLarge(c) ==
    /\ Large(c) /\ Calling(c)
    /\ Charge(c)
    /\ lastUpdate' = now
    /\ Sleep(c)
    /\ UNCHANGED <<now, freed>>

LargeReturns(c) ==
    /\ Large(c) /\ Due(c)
    /\ Return(c)
    /\ UNCHANGED <<now, tokens, lastUpdate, since, need, charged, stamp, at>>

Suffices(c) == Refilled >= Size[c]

(* Any other request looks again after every sleep.                        *)
AcquireSmall(c) ==
    /\ ~Large(c)
    /\ Calling(c) \/ Due(c)
    /\ lastUpdate' = now
    /\ \/ /\ Suffices(c)
          /\ Charge(c)
          /\ Return(c)
          /\ UNCHANGED <<since, need>>
       \/ /\ ~Suffices(c)
          /\ tokens' = Refilled
          /\ Sleep(c)
          /\ UNCHANGED <<charged, stamp, at, freed>>
    /\ UNCHANGED now

Step(c) == AcquireLarge(c) \/ LargeReturns(c) \/ AcquireSmall(c)

Tick ==
    /\ now < MaxTime
    /\ now' = now + 1
    /\ UNCHANGED <<tokens, lastUpdate, call, since, need, charged, stamp, at, freed>>

(* The bound on time is reached.                                           *)
TimeIsUp == now = MaxTime /\ UNCHANGED vars

Next == (\E c \in Calls : Step(c)) \/ Tick \/ TimeIsUp

Spec == Init /\ [][Next]_vars

(* An event loop that is busy now and then: a call that is due runs before *)
(* MaxLate is over, and time goes on.                                      *)
Overdue(c) == call[c] = "asleep" /\ Rate * (now - MaxLate - since[c]) >= need[c]

PromptTick == (\A c \in Calls : ~Overdue(c)) /\ Tick

PromptNext == (\E c \in Calls : Step(c)) \/ PromptTick \/ TimeIsUp

PromptSpec ==
    /\ Init /\ [][PromptNext]_vars
    /\ WF_vars(PromptTick)
    /\ \A c \in Calls : WF_vars(Due(c) /\ Step(c))
-------------------------------------------------------------------------------
(* Every variable stays in its type.                                       *)
TypeOK ==
    /\ now \in Nat
    /\ tokens \in Int /\ tokens <= MaxTokens
    /\ lastUpdate \in Nat \cup {Never} /\ lastUpdate <= now
    /\ call \in [Calls -> {"none", "asleep", "returned"}]
    /\ since \in [Calls -> Nat] /\ need \in [Calls -> Nat]
    /\ charged \in Nat
    /\ stamp \in [Calls -> Nat \cup {Never}]
    /\ at \in [Calls -> Nat] /\ freed \in [Calls -> Nat]

Charged(c) == stamp[c] # Never

Returned(c) == call[c] = "returned"

(* "maintaining an average rate limit": of the tokens taken after those of *)
(* any call c, no more than a full bucket and the rate have been returned  *)
(* with by the time a call d returns, however large d is and however long  *)
(* the calls overslept ...                                                 *)
WindowBound ==
    \A c, d \in Calls :
        Charged(c) /\ Returned(d) /\ stamp[c] <= stamp[d] =>
            stamp[d] - stamp[c] <= MaxTokens + Rate * (freed[d] - at[c])

(* ... and the same from the start: the first call finds a full bucket.    *)
TotalBound ==
    \A d \in Calls : Returned(d) => stamp[d] <= MaxTokens + Rate * freed[d]

(* "allowing tokens to temporarily go negative": there is a debt only      *)
(* while the call that made it is waiting.                                 *)
DebtOnlyWhileWaited ==
    tokens + Rate * (now - lastUpdate) < 0 => \E c \in Calls : Large(c) /\ call[c] = "asleep"

(* "will wait indefinitely until tokens become available": and they do.    *)
EveryCallReturns ==
    \A c \in Calls : call[c] = "asleep" ~> call[c] = "returned"
===============================================================================
