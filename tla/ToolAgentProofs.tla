----------------------------- MODULE ToolAgentProofs -----------------------------
(***************************************************************************)
(* A trajectory of the tool agent loop for every budget, turn limit and    *)
(* set of tools: its output is aligned, its budgets are kept, its final    *)
(* turn is announced and its tool instances are released.                  *)
(***************************************************************************)
EXTENDS ToolAgent, FiniteSetTheorems, SequenceTheorems, TLAPS

(* The kinds of tokens, and of marks in the mask.                           *)
Origins == {"prompt", "model", "observation"}

Bits == {0, 1}

Types ==
    /\ config \in Configurations
    /\ prompt_ids \in Seq(Origins)
    /\ response_mask \in Seq(Bits) /\ logprobs \in Seq(Bits)
    /\ assistantTurns \in Nat /\ instructed \in BOOLEAN

(* Nothing has happened before the prompt is read.                         *)
Fresh ==
    state = "pending" =>
        prompt_ids = <<>> /\ response_mask = <<>> /\ logprobs = <<>> /\ assistantTurns = 0 /\ ~instructed

(* The mask covers the end of the conversation and is 1 on the model's     *)
(* tokens; what is before is the prompt.                                   *)
Aligned ==
    /\ Len(response_mask) <= Len(prompt_ids)
    /\ \A i \in 1..(Len(prompt_ids) - Len(response_mask)) : prompt_ids[i] = "prompt"
    /\ \A i \in 1..Len(response_mask) :
          response_mask[i] = 1 <=> prompt_ids[Len(prompt_ids) - Len(response_mask) + i] = "model"

(* The log-probabilities, where there are any, are those of the mask, if   *)
(* the model wrote first.                                                  *)
Logged ==
    /\ ~config.logprobs => logprobs = <<>>
    /\ response_mask = <<>> => logprobs = <<>>
    /\ config.logprobs /\ (response_mask # <<>> => response_mask[1] = 1) => logprobs = response_mask

(* States from which another turn of the model may come.                   *)
Running == {"pending", "generating", "decodeError", "tools", "calling", "interacting"}

(* While the trajectory runs a turn is left.                               *)
TurnLeft == MaxAssistantTurns > 0 /\ state \in Running => assistantTurns < MaxAssistantTurns

(* A tool has an instance exactly if the trajectory has noted it.          *)
Noted ==
    /\ live \in [Tools -> Nat]
    /\ \A t \in Tools : live[t] = IF t \in instances THEN 1 ELSE 0
    /\ Ended => instances = {}

IInv ==
    /\ Types /\ Fresh /\ Aligned /\ Logged /\ BudgetsKept
    /\ TurnLeft /\ FinalTurnInstructed /\ Noted
-----------------------------------------------------------------------------
(* Lemmas about sequences                                                  *)

(* A sequence of n equal elements.                                         *)
LEMMA RepeatProperties ==
    ASSUME NEW S, NEW x \in S, NEW n \in Nat
    PROVE  Repeat(x, n) \in Seq(S) /\ Len(Repeat(x, n)) = n /\ \A i \in 1..n : Repeat(x, n)[i] = x
<1>1. Repeat(x, n) \in [1..n -> S] /\ DOMAIN Repeat(x, n) = 1..n
  BY DEF Repeat
<1>2. Repeat(x, n) \in Seq(S)
  BY <1>1, SeqDef
<1>3. Len(Repeat(x, n)) \in Nat /\ DOMAIN Repeat(x, n) = 1..Len(Repeat(x, n))
  BY <1>2, LenProperties
<1>4. Len(Repeat(x, n)) = n
  BY <1>1, <1>3
<1> QED BY <1>2, <1>4 DEF Repeat

(* t is s and then n times x.                                              *)
Extension(t, s, x, n) ==
    /\ Len(s) \in Nat /\ Len(t) = Len(s) + n
    /\ \A i \in 1..(Len(s) + n) : t[i] = IF i <= Len(s) THEN s[i] ELSE x

LEMMA Extended ==
    ASSUME NEW S, NEW s \in Seq(S), NEW x \in S, NEW n \in Nat
    PROVE  s \o Repeat(x, n) \in Seq(S) /\ Extension(s \o Repeat(x, n), s, x, n)
<1> DEFINE r == Repeat(x, n)
<1>1. r \in Seq(S) /\ Len(r) = n /\ \A i \in 1..n : r[i] = x
  BY RepeatProperties
<1> HIDE DEF r
<1>2. /\ s \o r \in Seq(S) /\ Len(s \o r) = Len(s) + Len(r) /\ Len(s) \in Nat
      /\ \A i \in 1..Len(s) + Len(r) : (s \o r)[i] = IF i <= Len(s) THEN s[i] ELSE r[i - Len(s)]
  BY <1>1, ConcatProperties, LenProperties
<1>3. ASSUME NEW i \in 1..(Len(s) + n) PROVE (s \o r)[i] = IF i <= Len(s) THEN s[i] ELSE x
  <2>1. CASE i <= Len(s)
    BY <1>1, <1>2, <2>1
  <2>2. CASE ~(i <= Len(s))
    <3>1. i - Len(s) \in 1..n
      BY <1>2, <2>2
    <3> QED BY <1>1, <1>2, <2>2, <3>1
  <2> QED BY <2>1, <2>2
<1> QED BY <1>1, <1>2, <1>3 DEF r, Extension

(* The number of ones, and how it grows.                                   *)
LEMMA OnesProperties ==
    ASSUME NEW s \in Seq(Bits), NEW n \in Nat
    PROVE  /\ Ones(s) \in Nat
           /\ Ones(s \o Repeat(1, n)) = Ones(s) + n
           /\ Ones(s \o Repeat(0, n)) = Ones(s)
<1> DEFINE A == {i \in 1..Len(s) : s[i] = 1}
           B == (Len(s) + 1)..(Len(s) + n)
           t1 == s \o Repeat(1, n)
           t0 == s \o Repeat(0, n)
<1>1. Len(s) \in Nat /\ 0 \in Bits /\ 1 \in Bits
  BY LenProperties DEF Bits
<1>2. /\ Len(t1) = Len(s) + n
      /\ \A i \in 1..(Len(s) + n) : t1[i] = IF i <= Len(s) THEN s[i] ELSE 1
  <2>1. Extension(t1, s, 1, n)
    BY <1>1, Extended
  <2> QED BY <2>1 DEF Extension
<1>3. /\ Len(t0) = Len(s) + n
      /\ \A i \in 1..(Len(s) + n) : t0[i] = IF i <= Len(s) THEN s[i] ELSE 0
  <2>1. Extension(t0, s, 0, n)
    BY <1>1, Extended
  <2> QED BY <2>1 DEF Extension
<1>4. IsFiniteSet(A) /\ Cardinality(A) \in Nat
  <2>1. IsFiniteSet(1..Len(s)) /\ A \in SUBSET (1..Len(s))
    BY <1>1, FS_Interval
  <2> HIDE DEF A
  <2> QED BY <2>1, FS_Subset, FS_CardinalityType
<1>5. IsFiniteSet(B) /\ Cardinality(B) = n
  <2>1. Len(s) + 1 \in Int /\ Len(s) + n \in Int
    BY <1>1
  <2>2. IsFiniteSet(B) /\ Cardinality(B) = IF Len(s) + 1 > Len(s) + n THEN 0 ELSE (Len(s) + n) - (Len(s) + 1) + 1
    BY <2>1, FS_Interval
  <2> QED BY <1>1, <2>2
<1> HIDE DEF t1, t0
<1>6. {i \in 1..Len(t1) : t1[i] = 1} = A \cup B /\ A \cap B = {}
  BY <1>1, <1>2
<1>7. {i \in 1..Len(t0) : t0[i] = 1} = A
  BY <1>1, <1>3
<1>8. Cardinality(A \cup B) = Cardinality(A) + n
  <2> HIDE DEF A, B
  <2>1. Cardinality(A \cup B) = Cardinality(A) + Cardinality(B) - Cardinality(A \cap B)
    BY <1>4, <1>5, FS_Union
  <2>2. Cardinality(A \cap B) = 0
    BY <1>6, FS_EmptySet
  <2> QED BY <1>4, <1>5, <2>1, <2>2
<1>9. Ones(s) = Cardinality(A) /\ Ones(t1) = Cardinality(A \cup B) /\ Ones(t0) = Cardinality(A)
  BY <1>6, <1>7 DEF Ones
<1> HIDE DEF A, B
<1> QED BY <1>4, <1>8, <1>9 DEF t1, t0
-----------------------------------------------------------------------------
(* What a step appends                                                     *)

(* The budgets are integers.                                               *)
LEMMA BudgetTypes ==
    ASSUME Types
    PROVE  /\ Len(prompt_ids) \in Nat /\ Len(response_mask) \in Nat /\ Ones(response_mask) \in Nat
           /\ AssistantBudget \in Int /\ AppendBudget \in Int
           /\ AppendBudget <= TotalLength - Len(response_mask)
           /\ AppendBudget <= PromptLength + TotalLength - Len(prompt_ids)
<1>1. Len(prompt_ids) \in Nat /\ Len(response_mask) \in Nat
  BY LenProperties DEF Types
<1>2. Ones(response_mask) \in Nat
  <2>1. 0 \in Nat /\ response_mask \in Seq(Bits)
    BY DEF Types
  <2> QED BY <2>1, OnesProperties
<1> QED BY <1>1, <1>2, AgentAssumption DEF AssistantBudget, AppendBudget, Least

(* Tokens and marks of the same kind keep the mask aligned.                *)
LEMMA AppendedAligned ==
    ASSUME Types, Aligned, NEW o \in Origins, NEW b \in Bits, b = 1 <=> o = "model", NEW n \in Nat,
           prompt_ids' = prompt_ids \o Repeat(o, n), response_mask' = response_mask \o Repeat(b, n)
    PROVE  /\ Aligned' /\ prompt_ids' \in Seq(Origins) /\ response_mask' \in Seq(Bits)
           /\ Len(prompt_ids') = Len(prompt_ids) + n /\ Len(response_mask') = Len(response_mask) + n
<1>1. prompt_ids' \in Seq(Origins) /\ Extension(prompt_ids', prompt_ids, o, n)
  BY Extended DEF Types
<1>2. response_mask' \in Seq(Bits) /\ Extension(response_mask', response_mask, b, n)
  BY Extended DEF Types
<1> DEFINE L == Len(prompt_ids)
           k == Len(response_mask)
<1>3. /\ L \in Nat /\ k \in Nat /\ k <= L
      /\ Len(prompt_ids') = L + n /\ Len(response_mask') = k + n
      /\ \A i \in 1..(L + n) : prompt_ids'[i] = IF i <= L THEN prompt_ids[i] ELSE o
      /\ \A i \in 1..(k + n) : response_mask'[i] = IF i <= k THEN response_mask[i] ELSE b
  BY <1>1, <1>2 DEF Extension, Aligned
<1>4. /\ \A i \in 1..(L - k) : prompt_ids[i] = "prompt"
      /\ \A i \in 1..k : response_mask[i] = 1 <=> prompt_ids[L - k + i] = "model"
  BY DEF Aligned
<1> HIDE DEF L, k
<1>5. ASSUME NEW i \in 1..(L - k) PROVE prompt_ids'[i] = "prompt"
  BY <1>3, <1>4
<1>6. ASSUME NEW i \in 1..(k + n) PROVE response_mask'[i] = 1 <=> prompt_ids'[L - k + i] = "model"
  <2>1. CASE i <= k
    <3>1. L - k + i \in 1..(L + n) /\ L - k + i <= L /\ i \in 1..k
      BY <1>3, <2>1
    <3> QED BY <1>3, <1>4, <2>1, <3>1
  <2>2. CASE ~(i <= k)
    <3>1. L - k + i \in 1..(L + n) /\ ~(L - k + i <= L)
      BY <1>3, <2>2
    <3> QED BY <1>3, <2>2, <3>1
  <2> QED BY <2>1, <2>2
<1>7. Len(prompt_ids') - Len(response_mask') = L - k /\ Len(response_mask') <= Len(prompt_ids')
  BY <1>3
<1>8. Aligned'
  <2>1. \A i \in 1..(Len(prompt_ids') - Len(response_mask')) : prompt_ids'[i] = "prompt"
    BY <1>5, <1>7, Zenon
  <2>2. \A i \in 1..Len(response_mask') :
           response_mask'[i] = 1 <=> prompt_ids'[Len(prompt_ids') - Len(response_mask') + i] = "model"
    BY <1>3, <1>6, <1>7, Zenon
  <2> QED BY <1>7, <2>1, <2>2, Zenon DEF Aligned
<1> QED BY <1>1, <1>2, <1>3, <1>8 DEF L, k

(* n more tokens within the budgets, the model's within its own.           *)
LEMMA AppendedBudget ==
    ASSUME Types, BudgetsKept, NEW b \in Bits, NEW n \in Nat, n <= AppendBudget,
           b = 1 => n <= AssistantBudget,
           Len(prompt_ids') = Len(prompt_ids) + n, Len(response_mask') = Len(response_mask) + n,
           response_mask' = response_mask \o Repeat(b, n)
    PROVE  BudgetsKept'
<1>1. Ones(response_mask)' = Ones(response_mask) + (IF b = 1 THEN n ELSE 0)
  <2>1. CASE b = 1
    BY <2>1, OnesProperties DEF Types
  <2>2. CASE b = 0
    BY <2>2, OnesProperties, BudgetTypes DEF Types
  <2> QED BY <2>1, <2>2 DEF Bits
<1>2. /\ Len(prompt_ids) \in Nat /\ Len(response_mask) \in Nat /\ Ones(response_mask) \in Nat
      /\ PromptLength \in Nat /\ TotalLength \in Nat /\ ResponseLength \in Nat
      /\ n <= TotalLength - Len(response_mask) /\ n <= PromptLength + TotalLength - Len(prompt_ids)
  BY BudgetTypes, AgentAssumption
<1>3. Ones(response_mask)' <= ResponseLength
  BY <1>1, <1>2 DEF BudgetsKept, AssistantBudget
<1>4. Len(response_mask') <= TotalLength /\ Len(prompt_ids') <= PromptLength + TotalLength
  BY <1>2
<1> QED BY <1>3, <1>4 DEF BudgetsKept

(* The marks of log-probabilities grow with the mask.                      *)
LEMMA AppendedLogged ==
    ASSUME Types, Logged, NEW b \in Bits, NEW n \in Nat, UNCHANGED config,
           response_mask' = response_mask \o Repeat(b, n),
           logprobs' = IF (b = 1 /\ config.logprobs) \/ (b = 0 /\ logprobs # <<>>)
                       THEN logprobs \o Repeat(b, n) ELSE logprobs
    PROVE  Logged' /\ logprobs' \in Seq(Bits)
<1>1. /\ response_mask' \in Seq(Bits) /\ Extension(response_mask', response_mask, b, n)
      /\ logprobs \o Repeat(b, n) \in Seq(Bits)
  BY Extended DEF Types
<1>2. logprobs' \in Seq(Bits)
  BY <1>1 DEF Types
<1>3. ~config.logprobs => logprobs' = <<>>
  BY DEF Logged, Bits
<1>4. CASE response_mask = <<>>
  <2>1. logprobs = <<>>
    BY <1>4 DEF Logged
  <2>2. CASE b = 1
    <3>1. config.logprobs => logprobs' = response_mask'
      BY <1>4, <2>1, <2>2
    <3> QED BY <1>2, <1>3, <3>1 DEF Logged, Types, Configurations
  <2>3. CASE b = 0
    <3>1. logprobs' = <<>>
      BY <2>1, <2>3
    <3>2. response_mask' # <<>> => response_mask'[1] = 0
      <4>1. Len(response_mask) = 0
        BY <1>4, EmptySeq
      <4>2. SUFFICES ASSUME response_mask' # <<>> PROVE response_mask'[1] = 0
        OBVIOUS
      <4>3. Len(response_mask') \in Nat \ {0}
        BY <1>1, <4>2, EmptySeq
      <4> QED BY <1>1, <2>3, <4>1, <4>3 DEF Extension
    <3> QED BY <1>2, <3>1, <3>2 DEF Logged
  <2> QED BY <2>2, <2>3 DEF Bits
<1>5. CASE response_mask # <<>>
  <2>1. Len(response_mask) \in Nat \ {0}
    BY <1>5, EmptySeq DEF Types
  <2>2. response_mask' # <<>> /\ response_mask'[1] = response_mask[1]
    <3>1. Len(response_mask') # 0 /\ 1 \in 1..(Len(response_mask) + n) /\ 1 <= Len(response_mask)
      BY <1>1, <2>1 DEF Extension
    <3> QED BY <1>1, <3>1, EmptySeq DEF Extension
  <2>3. config.logprobs /\ response_mask[1] = 1 => logprobs' = response_mask'
    BY <1>5 DEF Logged, Bits
  <2> QED BY <1>2, <1>3, <2>2, <2>3 DEF Logged
<1> QED BY <1>4, <1>5
-----------------------------------------------------------------------------
(* The steps                                                               *)

(* The fields of a configuration have their types.                         *)
LEMMA ConfigTypes ==
    ASSUME Types
    PROVE  MaxAssistantTurns \in Int /\ config.injectFinal \in BOOLEAN /\ config.logprobs \in BOOLEAN
<1>1. MaxAssistantTurns \in TurnLimits /\ config.injectFinal \in BOOLEAN /\ config.logprobs \in BOOLEAN
  BY DEF Types, Configurations, MaxAssistantTurns
<1>2. TurnLimits \subseteq Nat \cup {-1}
  BY AgentAssumption DEF NoLimit
<1>3. \A n \in Nat \cup {-1} : n \in Int
  OBVIOUS
<1> QED BY <1>1, <1>2, <1>3

LEMMA InitInv == Init => IInv
<1> SUFFICES ASSUME Init PROVE IInv
  OBVIOUS
<1>1. <<>> \in Seq(Origins) /\ <<>> \in Seq(Bits) /\ Len(<<>>) = 0
  BY EmptySeq
<1>2. Types
  BY <1>1 DEF Init, Types
<1>3. Fresh /\ Aligned /\ Logged
  BY <1>1 DEF Init, Fresh, Aligned, Logged
<1>4. BudgetsKept
  <2>1. Ones(<<>>) = 0
    <3>1. {i \in 1..Len(<<>>) : <<>>[i] = 1} = {}
      BY <1>1
    <3> QED BY <3>1, FS_EmptySet DEF Ones
  <2> QED BY <1>1, <2>1, AgentAssumption DEF Init, BudgetsKept
<1>5. TurnLeft /\ FinalTurnInstructed
  BY <1>2, ConfigTypes DEF Init, TurnLeft, FinalTurnInstructed
<1>6. Noted
  BY DEF Init, Noted, Ended
<1> QED BY <1>2, <1>3, <1>4, <1>5, <1>6 DEF IInv

(* A step that leaves the tokens and the turns alone.                      *)
LEMMA QuietInv ==
    ASSUME IInv, UNCHANGED <<config, tokens, assistantTurns, instructed>>,
           state' \notin {"pending", "generating"}, state' \in Running => state \in Running, Noted'
    PROVE  IInv'
<1> USE DEF tokens, IInv
<1>1. Types' /\ Fresh' /\ Aligned' /\ Logged'
  BY DEF Types, Fresh, Aligned, Logged
<1>2. BudgetsKept'
  BY DEF BudgetsKept, Ones
<1>3. TurnLeft' /\ FinalTurnInstructed'
  BY DEF TurnLeft, FinalTurnInstructed, MaxAssistantTurns
<1> QED BY <1>1, <1>2, <1>3

(* The instruction is given with the message before the last turn.         *)
LEMMA InstructedInTime ==
    ASSUME Types, UNCHANGED <<config, assistantTurns>>, instructed' = (instructed \/ InstructionDue),
           FinalTurnInstructed, TurnLeft, state \in Running
    PROVE  TurnLeft' /\ FinalTurnInstructed'
BY DEF TurnLeft, FinalTurnInstructed, InstructionDue, IsFinalTurn, MaxAssistantTurns

LEMMA PendingInv == IInv /\ Pending => IInv'
<1> SUFFICES ASSUME IInv, Pending PROVE IInv'
  OBVIOUS
<1> USE DEF IInv, Pending
<1>1. /\ response_mask = <<>> /\ logprobs = <<>> /\ ~instructed /\ state \in Running
      /\ UNCHANGED <<config, response_mask, logprobs, assistantTurns>>
  BY DEF Fresh, Running
<1>2. PICK n \in PromptLengths : prompt_ids' = Repeat("prompt", n)
  OBVIOUS
<1>3. n \in Nat /\ "prompt" \in Origins
  BY AgentAssumption DEF Origins
<1>4. prompt_ids' \in Seq(Origins) /\ Len(prompt_ids') = n /\ \A i \in 1..n : prompt_ids'[i] = "prompt"
  BY <1>2, <1>3, RepeatProperties
<1>5. Len(response_mask) = 0
  BY <1>1, EmptySeq
<1>6. Types'
  <2>1. instructed' \in BOOLEAN
    BY DEF InstructionDue
  <2> QED BY <1>1, <1>4, <2>1 DEF Types
<1>7. Fresh' /\ Aligned' /\ Logged'
  BY <1>1, <1>3, <1>4, <1>5 DEF Fresh, Aligned, Logged
<1>8. BudgetsKept'
  BY <1>1, <1>3, <1>4, <1>5 DEF BudgetsKept, Ones
<1>9. TurnLeft' /\ FinalTurnInstructed'
  <2>1. instructed' = (instructed \/ InstructionDue)
    <3>1. CASE InstructionDue
      BY <1>1, <3>1 DEF InstructionDue
    <3>2. CASE ~InstructionDue
      BY <1>1, <3>2 DEF InstructionDue
    <3> QED BY <3>1, <3>2
  <2> QED BY <1>1, <2>1, InstructedInTime
<1>10. Noted'
  BY DEF Noted, Ended, toolVars
<1> QED BY <1>6, <1>7, <1>8, <1>9, <1>10

(* Another state of the loop needs a turn that is left.                    *)
LEMMA AfterTurnRuns ==
    ASSUME Types, NEW kind, NEW turn \in Nat
    PROVE  /\ AfterTurn(kind, turn) \in {"decodeError", "tools", "interacting", "terminated"}
           /\ AfterTurn(kind, turn) # "terminated" /\ MaxAssistantTurns > 0 => turn < MaxAssistantTurns
<1>1. MaxAssistantTurns \in Int
  BY ConfigTypes
<1> QED BY <1>1 DEF AfterTurn, NoLimit

LEMMA GenerateInv == IInv /\ Generate => IInv'
<1> SUFFICES ASSUME IInv, Generate PROVE IInv'
  OBVIOUS
<1>0. Types /\ Aligned /\ Logged /\ BudgetsKept /\ TurnLeft /\ FinalTurnInstructed /\ Noted
  BY DEF IInv
<1>1. /\ state = "generating" /\ assistantTurns' = assistantTurns + 1
      /\ UNCHANGED <<config, instructed, instances, live>>
  BY DEF Generate
<1>2. PICK n \in 0..MaxTokens :
        /\ prompt_ids' = prompt_ids \o Repeat("model", n)
        /\ response_mask' = response_mask \o Repeat(1, n)
        /\ logprobs' = IF config.logprobs THEN logprobs \o Repeat(1, n) ELSE logprobs
  BY DEF Generate
<1>3. n \in Nat /\ n <= AssistantBudget /\ n <= AppendBudget
  BY <1>0, <1>2, BudgetTypes DEF MaxTokens, Least
<1>4. "model" \in Origins /\ 1 \in Bits
  BY DEF Origins, Bits
<1>5. /\ Aligned' /\ prompt_ids' \in Seq(Origins) /\ response_mask' \in Seq(Bits)
      /\ Len(prompt_ids') = Len(prompt_ids) + n /\ Len(response_mask') = Len(response_mask) + n
  BY <1>0, <1>2, <1>3, <1>4, AppendedAligned
<1>6. Logged' /\ logprobs' \in Seq(Bits)
  BY <1>0, <1>1, <1>2, <1>3, <1>4, AppendedLogged
<1>7. BudgetsKept'
  BY <1>0, <1>2, <1>3, <1>4, <1>5, AppendedBudget
<1>8. Types'
  BY <1>0, <1>1, <1>5, <1>6 DEF Types
<1>9. /\ state' \in {"decodeError", "tools", "interacting", "terminated"}
      /\ state' # "terminated" /\ MaxAssistantTurns > 0 => assistantTurns' < MaxAssistantTurns
  <2>1. state' = "terminated" \/ \E kind \in Kinds : state' = AfterTurn(kind, assistantTurns')
    BY DEF Generate
  <2>2. assistantTurns' \in Nat
    BY <1>8 DEF Types
  <2> QED BY <1>0, <2>1, <2>2, AfterTurnRuns
<1>10. MaxAssistantTurns' = MaxAssistantTurns /\ MaxAssistantTurns \in Int /\ assistantTurns \in Nat
  BY <1>0, <1>1, ConfigTypes DEF MaxAssistantTurns, Types
<1>11. TurnLeft' /\ FinalTurnInstructed'
  BY <1>0, <1>1, <1>9, <1>10 DEF TurnLeft, FinalTurnInstructed, Running
<1>12. Noted' /\ Fresh'
  BY <1>0, <1>1, <1>9 DEF Noted, Ended, Fresh
<1> QED BY <1>5, <1>6, <1>7, <1>8, <1>11, <1>12 DEF IInv

LEMMA ObserveInv ==
    ASSUME IInv, state \in {"decodeError", "interacting", "calling"},
           NEW next \in {"generating", "terminated"}, Observe(next),
           UNCHANGED <<config, assistantTurns, instances, live>>
    PROVE  IInv'
<1>0. Types /\ Aligned /\ Logged /\ BudgetsKept /\ TurnLeft /\ FinalTurnInstructed /\ Noted
  BY DEF IInv
<1>1. Noted' /\ state' \in {"generating", "terminated"} /\ state \in Running
  BY <1>0 DEF Observe, Noted, Ended, Running
<1>2. CASE state' = "terminated" /\ UNCHANGED <<tokens, userTurns, instructed>>
  BY <1>1, <1>2, QuietInv DEF Running
<1>3. CASE \E m \in ObservationLengths :
             LET length == m + (IF InstructionDue THEN InstructionLength ELSE 0)
             IN ~(Keeps(length) <= 0) /\ Observed(Keeps(length))
                /\ instructed' = (instructed \/ InstructionDue)
  <2>1. PICK length \in Nat : /\ ~(Keeps(length) <= 0) /\ Observed(Keeps(length))
                              /\ instructed' = (instructed \/ InstructionDue)
    BY <1>3, AgentAssumption
  <2> DEFINE n == Keeps(length)
  <2>2. n \in Nat /\ n <= AppendBudget
    BY <1>0, <2>1, BudgetTypes DEF Keeps, Least
  <2>3. /\ prompt_ids' = prompt_ids \o Repeat("observation", n)
        /\ response_mask' = response_mask \o Repeat(0, n)
        /\ logprobs' = IF logprobs # <<>> THEN logprobs \o Repeat(0, n) ELSE logprobs
    BY <2>1 DEF Observed
  <2> HIDE DEF n
  <2>4. "observation" \in Origins /\ 0 \in Bits /\ "observation" # "model" /\ 0 # 1
    BY DEF Origins, Bits
  <2>5. /\ Aligned' /\ prompt_ids' \in Seq(Origins) /\ response_mask' \in Seq(Bits)
        /\ Len(prompt_ids') = Len(prompt_ids) + n /\ Len(response_mask') = Len(response_mask) + n
    BY <1>0, <2>2, <2>3, <2>4, AppendedAligned
  <2>6. Logged' /\ logprobs' \in Seq(Bits)
    BY <1>0, <2>2, <2>3, <2>4, AppendedLogged
  <2>7. BudgetsKept'
    BY <1>0, <2>2, <2>3, <2>4, <2>5, AppendedBudget
  <2>8. instructed' \in BOOLEAN
    BY <2>1, Zenon
  <2>9. Types' /\ Fresh'
    BY <1>0, <1>1, <2>5, <2>6, <2>8 DEF Types, Fresh
  <2>10. TurnLeft' /\ FinalTurnInstructed'
    BY <1>0, <1>1, <2>1, InstructedInTime
  <2> QED BY <1>1, <2>5, <2>6, <2>7, <2>9, <2>10 DEF IInv
<1> QED BY <1>2, <1>3 DEF Observe

(* Tool instances are made and noted in one step, and released together.   *)
LEMMA CallInv == IInv /\ Call => IInv'
<1> SUFFICES ASSUME IInv, Call PROVE IInv'
  OBVIOUS
<1>1. PICK i \in 1..Len(progress) : BeginCall(i) \/ RejectCall(i) \/ EndCall(i)
  BY DEF Call
<1>2. state = "calling" /\ UNCHANGED <<state, config, tokens, assistantTurns, instructed>>
  BY <1>1 DEF Call, BeginCall, RejectCall, EndCall, turns
<1>3. Noted'
  <2>1. CASE BeginCall(i)
    BY <1>2, <2>1 DEF BeginCall, Creates, IInv, Noted, Ended
  <2>2. CASE RejectCall(i) \/ EndCall(i)
    BY <1>2, <2>2 DEF RejectCall, EndCall, IInv, Noted, Ended
  <2> QED BY <1>1, <2>1, <2>2
<1> QED BY <1>2, <1>3, QuietInv

LEMMA ReleaseNoted ==
    ASSUME Noted, Release
    PROVE  Noted'
BY DEF Noted, Release

LEMMA NextInv == IInv /\ [Next]_vars => IInv'
<1> SUFFICES ASSUME IInv, [Next]_vars PROVE IInv'
  OBVIOUS
<1>1. CASE Exhausted
  <2>1. Noted'
    BY <1>1 DEF Exhausted, toolVars, IInv, Noted, Ended
  <2> QED BY <1>1, <2>1, QuietInv DEF Exhausted, turns, Running
<1>2. CASE DecodeError
  BY <1>2, ObserveInv DEF DecodeError, toolVars
<1>3. CASE Interact
  <2>1. PICK stop \in BOOLEAN : Observe(IF stop THEN "terminated" ELSE "generating")
    BY <1>3 DEF Interact
  <2> QED BY <1>3, <2>1, ObserveInv DEF Interact, toolVars
<1>4. CASE StartCalls
  <2>1. Noted'
    BY <1>4 DEF StartCalls, IInv, Noted, Ended
  <2> QED BY <1>4, <2>1, QuietInv DEF StartCalls, turns, Running
<1>5. CASE ToolResults
  BY <1>5, ObserveInv DEF ToolResults, AllDone, toolVars
<1>6. CASE Return
  BY <1>6, ReleaseNoted, QuietInv DEF Return, IInv, turns, Running
<1>7. CASE Raise
  BY <1>7, ReleaseNoted, QuietInv DEF Raise, IInv, turns, Running
<1>8. CASE UNCHANGED vars
  BY <1>8 DEF vars, tokens, turns, toolVars, IInv, Types, Fresh, Aligned, Logged, BudgetsKept, TurnLeft,
     FinalTurnInstructed, MaxAssistantTurns, Noted, Ended, Ones
<1> QED
  BY <1>1, <1>2, <1>3, <1>4, <1>5, <1>6, <1>7, <1>8, PendingInv, GenerateInv, CallInv DEF Next, Handle
-----------------------------------------------------------------------------
(* The strengthening holds in every reachable state.                       *)
THEOREM Invariance == Spec => []IInv
BY InitInv, NextInv, PTL DEF Spec

(* Mask, log-probabilities and tokens of what run returns fit together,    *)
(* unless the first turn wrote nothing.                                    *)
THEOREM OutputAlignedHolds == Spec => []OutputAligned
<1>1. IInv => OutputAligned
  <2> SUFFICES ASSUME IInv, state = "returned", response_mask # <<>>, response_mask[1] = 1
               PROVE  /\ Len(response_ids) = Len(outputMask)
                      /\ \A i \in 1..Len(outputMask) : outputMask[i] = 1 <=> response_ids[i] = "model"
                      /\ logprobs # <<>> => outputLogprobs = outputMask
                      /\ \A i \in 1..Len(outputPrompt) : outputPrompt[i] = "prompt"
    BY DEF OutputAligned
  <2> DEFINE L == Len(prompt_ids)
             k == Len(response_mask)
             last == LastOf(prompt_ids, k)
  <2>1. /\ Types /\ Aligned /\ Logged /\ L \in Nat /\ k \in Nat \ {0} /\ k <= L /\ k <= TotalLength
        /\ TotalLength \in Nat
    BY BudgetTypes, EmptySeq, AgentAssumption DEF IInv, Types, Aligned, BudgetsKept
  <2>2. \A i \in 1..L : prompt_ids[i] \in Origins
    BY ElementOfSeq DEF Types, IInv
  <2>3. last \in Seq(Origins) /\ Len(last) = k /\ \A i \in 1..k : last[i] = prompt_ids[L - k + i]
    <3>1. last = SubSeq(prompt_ids, L - k + 1, L)
      BY <2>1 DEF LastOf
    <3>2. \A i \in (L - k + 1)..L : prompt_ids[i] \in Origins
      BY <2>1, <2>2
    <3> HIDE DEF last, L, k
    <3>3. /\ last \in Seq(Origins) /\ Len(last) = IF L - k + 1 <= L THEN L - (L - k + 1) + 1 ELSE 0
          /\ \A i \in 1..(L - (L - k + 1) + 1) : last[i] = prompt_ids[(L - k + 1) + i - 1]
      BY <2>1, <3>1, <3>2, SubSeqProperties
    <3>4. L - (L - k + 1) + 1 = k /\ L - k + 1 <= L /\ \A i \in Int : (L - k + 1) + i - 1 = L - k + i
      BY <2>1
    <3> QED BY <3>3, <3>4
  <2>4. response_ids = last
    <3>1. FirstOf(last, TotalLength) = SubSeq(last, 1, Len(last))
      BY <2>1, <2>3 DEF FirstOf, Least
    <3> QED BY <2>3, <3>1, SubSeqFull DEF response_ids
  <2>5. outputMask = response_mask
    <3>1. FirstOf(response_mask, TotalLength) = SubSeq(response_mask, 1, Len(response_mask))
      BY <2>1 DEF FirstOf, Least
    <3> QED BY <2>1, <3>1, SubSeqFull DEF outputMask, Types
  <2>6. logprobs # <<>> => outputLogprobs = outputMask
    <3>1. logprobs # <<>> => logprobs = response_mask
      BY <2>1 DEF Logged, Types, Configurations
    <3> QED BY <3>1 DEF outputLogprobs, outputMask
  <2>7. \A i \in 1..Len(outputPrompt) : outputPrompt[i] = "prompt"
    <3>1. outputPrompt = SubSeq(prompt_ids, 1, L - k)
      BY <2>1 DEF outputPrompt, FirstOf, Least
    <3>2. \A i \in 1..(L - k) : prompt_ids[i] \in Origins
      BY <2>1, <2>2
    <3>3. \A i \in 1..(L - k) : prompt_ids[i] = "prompt"
      BY <2>1 DEF Aligned
    <3> HIDE DEF L, k
    <3>4. /\ Len(outputPrompt) = IF 1 <= L - k THEN L - k - 1 + 1 ELSE 0
          /\ \A i \in 1..(L - k - 1 + 1) : outputPrompt[i] = prompt_ids[1 + i - 1]
      BY <2>1, <3>1, <3>2, SubSeqProperties
    <3>5. L - k \in Nat /\ L - k - 1 + 1 = L - k /\ \A i \in Int : 1 + i - 1 = i
      BY <2>1
    <3> QED BY <3>3, <3>4, <3>5
  <2>8. \A i \in 1..k : response_mask[i] = 1 <=> prompt_ids[L - k + i] = "model"
    BY <2>1 DEF Aligned
  <2> HIDE DEF last, L
  <2> QED BY <2>3, <2>4, <2>5, <2>6, <2>7, <2>8
<1> QED BY Invariance, <1>1, PTL

(* No budget of tokens is exceeded (_build_turn_sampling_params,           *)
(* _truncate_observation_tokens_to_budget).                                *)
THEOREM BudgetsKeptHolds == Spec => []BudgetsKept
<1>1. IInv => BudgetsKept
  BY DEF IInv
<1> QED BY Invariance, <1>1, PTL

(* No turn exceeds the limit, and the last one is announced                *)
(* (_maybe_add_final_policy_turn_message).                                 *)
THEOREM FinalTurnInstructedHolds == Spec => []FinalTurnInstructed
<1>1. IInv => FinalTurnInstructed
  BY DEF IInv
<1> QED BY Invariance, <1>1, PTL

(* Each tool has one instance at most and none in the end (_call_tool,     *)
(* _release_tool_instances).                                               *)
THEOREM InstancesReleasedHolds == Spec => []InstancesReleased
<1>1. IInv => InstancesReleased
  <2> SUFFICES ASSUME IInv PROVE InstancesReleased
    OBVIOUS
  <2>1. \A t \in Tools : live[t] = (IF t \in instances THEN 1 ELSE 0) /\ (Ended => t \notin instances)
    BY DEF IInv, Noted
  <2> QED BY <2>1 DEF InstancesReleased
<1> QED BY Invariance, <1>1, PTL
=============================================================================
