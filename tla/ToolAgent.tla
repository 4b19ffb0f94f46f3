-------------------------------- MODULE ToolAgent --------------------------------
(***************************************************************************)
(* One trajectory of the tool agent loop: turns of the model, tool calls   *)
(* in parallel, decode errors and user interaction, under the budgets of   *)
(* tokens and turns; and the tokens, mask and log-probabilities it returns. *)
(***************************************************************************)
EXTENDS Integers, Sequences, FiniteSets

CONSTANTS Tools,              \* the registered tools
          PromptLength,       \* prompt_length
          ResponseLength,     \* response_length: what the model may generate
          TotalLength,        \* total_response_length: with the observations
          TurnLimits,         \* values of max_assistant_turns and max_user_turns
          MaxParallelCalls,   \* max_parallel_calls
          PromptLengths,      \* bound: lengths of an initial prompt
          ObservationLengths, \* bound: lengths of a tool, error or user message
          InstructionLength,  \* length of the final-turn instruction
          MaxCalls            \* bound: tool calls in one output

NoLimit == -1  \* null

ASSUME AgentAssumption ==
    /\ IsFiniteSet(Tools)
    /\ {PromptLength, ResponseLength, TotalLength, InstructionLength} \subseteq Nat \ {0}
    /\ ResponseLength <= TotalLength
    /\ MaxCalls \in Nat /\ MaxParallelCalls \in Nat \ {0}
    /\ TurnLimits \subseteq Nat \cup {NoLimit}
    /\ PromptLengths \subseteq Nat \ {0} /\ ObservationLengths \subseteq Nat \ {0}

VARIABLES config,         \* the configuration of the loop, which never changes
          state,          \* AgentState, and the places where a handler awaits
          prompt_ids,     \* the conversation, each token by its origin
          response_mask,
          logprobs,       \* response_logprobs: 1 stands for a value of the model's
          assistantTurns,
          userTurns,
          instructed,     \* final_policy_turn_instruction_appended
          awaiting,       \* awaiting_tool_followup
          textOf,         \* the turn last_assistant_response_text is of
          calls,          \* the tools called in this turn
          progress,       \* per call: "new", "running" or "done"
          instances,      \* tool_instances: the tools with an instance
          live            \* per tool: the instances it holds

tokens == <<prompt_ids, response_mask, logprobs>>
turns == <<assistantTurns, userTurns, instructed, awaiting, textOf>>
toolVars == <<calls, progress, instances, live>>
vars == <<config, state, tokens, turns, toolVars>>

(* Turn limits, the instruction for the final turn, user interaction, and  *)
(* whether the server returns log-probabilities.                           *)
Configurations ==
    [maxAssistantTurns : TurnLimits, maxUserTurns : TurnLimits,
     injectFinal : BOOLEAN, interaction : BOOLEAN, logprobs : BOOLEAN]

MaxAssistantTurns == config.maxAssistantTurns

Init ==
    /\ config \in Configurations
    /\ state = "pending"
    /\ prompt_ids = <<>>
    /\ response_mask = <<>>
    /\ logprobs = <<>>
    /\ assistantTurns = 0
    /\ userTurns = 0
    /\ instructed = FALSE
    /\ awaiting = FALSE
    /\ textOf = 0
    /\ calls = <<>>
    /\ progress = <<>>
    /\ instances = {}
    /\ live = [t \in Tools |-> 0]

Least(a, b) == IF a < b THEN a ELSE b

Repeat(x, n) == [i \in 1..n |-> x]

(* sum(response_mask): the mask is 1 where the model wrote the token.      *)
Ones(mask) == Cardinality({i \in 1..Len(mask) : mask[i] = 1})

AssistantBudget == ResponseLength - Ones(response_mask)

AppendBudget == Least(TotalLength - Len(response_mask), PromptLength + TotalLength - Len(prompt_ids))

(* Mutant of IsFinalTurn: one turn late.                                   *)
IsFinalTurnLate == MaxAssistantTurns > 0 /\ assistantTurns >= MaxAssistantTurns

(* _is_final_policy_turn: the coming turn is the last one.                 *)
IsFinalTurn == MaxAssistantTurns > 0 /\ assistantTurns + 1 >= MaxAssistantTurns

InstructionDue == config.injectFinal /\ ~instructed /\ IsFinalTurn

-----------------------------------------------------------------------------
Pending ==
    /\ state = "pending"
    /\ \E n \in PromptLengths : prompt_ids' = Repeat("prompt", n)
    /\ instructed' = InstructionDue
    /\ userTurns' = IF InstructionDue THEN 1 ELSE 0
    /\ state' = "generating"
    /\ UNCHANGED <<config, response_mask, logprobs, assistantTurns, awaiting, textOf, toolVars>>

Exhausted ==
    /\ state = "generating"
    /\ AssistantBudget <= 0 \/ AppendBudget <= 0
    /\ state' = "terminated"
    /\ UNCHANGED <<config, tokens, turns, toolVars>>

(* Mutant of MaxTokens: the budget of the model's tokens is forgotten.     *)
MaxTokensOfWindow == AppendBudget

MaxTokens == Least(AssistantBudget, AppendBudget)

(* What the model wrote: calls of tools, a call that cannot be decoded, a  *)
(* complete answer with evidence, or none of these.                        *)
Kinds == {"calls", "undecodable", "answer", "plain"}

CallsOf(kind) == IF kind = "calls" THEN UNION {[1..n -> Tools] : n \in 1..MaxCalls} ELSE {<<>>}

(* Where a turn leads when no budget ends it.  A limit of 0 is no limit to *)
(* every test but the one after an undecodable call.                       *)
AfterTurn(kind, turn) ==
    IF kind = "undecodable"
    THEN IF MaxAssistantTurns = NoLimit \/ turn < MaxAssistantTurns THEN "decodeError" ELSE "terminated"
    ELSE IF (awaiting /\ kind = "plain") \/ (MaxAssistantTurns > 0 /\ turn >= MaxAssistantTurns) THEN "terminated"
    ELSE IF kind = "calls" THEN "tools"
    ELSE IF config.interaction THEN "interacting" ELSE "terminated"

(* The budgets end a trajectory before its last text is decoded.           *)
OutOfBudget(mask, ids) ==
    \/ Ones(mask) >= ResponseLength
    \/ Least(TotalLength - Len(mask), PromptLength + TotalLength - Len(ids)) <= 0
    \/ config.maxUserTurns > 0 /\ userTurns >= config.maxUserTurns

Generate ==
    /\ state = "generating"
    /\ AssistantBudget > 0 /\ AppendBudget > 0
    /\ \E n \in 0..MaxTokens, kind \in Kinds :
        /\ n = 0 => kind = "plain"
        /\ prompt_ids' = prompt_ids \o Repeat("model", n)
        /\ response_mask' = response_mask \o Repeat(1, n)
        /\ logprobs' = IF config.logprobs THEN logprobs \o Repeat(1, n) ELSE logprobs
        /\ assistantTurns' = assistantTurns + 1
        /\ IF OutOfBudget(response_mask', prompt_ids')
           THEN /\ state' = "terminated"
                /\ UNCHANGED <<awaiting, textOf, calls, progress>>
           ELSE /\ state' = AfterTurn(kind, assistantTurns')
                /\ textOf' = assistantTurns'
                /\ awaiting' = IF kind = "undecodable" THEN awaiting ELSE FALSE
                /\ calls' \in CallsOf(kind)
                /\ progress' = <<>>
    /\ UNCHANGED <<config, userTurns, instructed, instances, live>>

(* The tokens of an observation that are kept: none if the instruction for *)
(* the final turn does not fit.                                            *)
Keeps(length) == IF InstructionDue /\ AppendBudget < length THEN 0 ELSE Least(length, AppendBudget)

(* Mutant of Observed: log-probabilities are not padded.                   *)
ObservedUnpadded(n) ==
    /\ prompt_ids' = prompt_ids \o Repeat("observation", n)
    /\ response_mask' = response_mask \o Repeat(0, n)
    /\ UNCHANGED logprobs

(* _append_zero_mask_tokens                                                *)
Observed(n) ==
    /\ prompt_ids' = prompt_ids \o Repeat("observation", n)
    /\ response_mask' = response_mask \o Repeat(0, n)
    /\ logprobs' = IF logprobs # <<>> THEN logprobs \o Repeat(0, n) ELSE logprobs

(* A message is appended to the conversation, with the instruction for the *)
(* final turn if that comes next.                                          *)
Observe(next) ==
    \E m \in ObservationLengths :
        LET length == m + (IF InstructionDue THEN InstructionLength ELSE 0)
        IN IF Keeps(length) <= 0
           THEN state' = "terminated" /\ UNCHANGED <<tokens, userTurns, instructed>>
           ELSE /\ Observed(Keeps(length))
                /\ userTurns' = userTurns + (IF InstructionDue THEN 2 ELSE 1)
                /\ instructed' = (instructed \/ InstructionDue)
                /\ state' = next

DecodeError ==
    /\ state = "decodeError"
    /\ Observe("generating")
    /\ UNCHANGED <<config, assistantTurns, awaiting, textOf, toolVars>>

Interact ==
    /\ state = "interacting"
    /\ \E stop \in BOOLEAN : Observe(IF stop THEN "terminated" ELSE "generating")
    /\ UNCHANGED <<config, assistantTurns, awaiting, textOf, toolVars>>

-----------------------------------------------------------------------------
(* Tool calls. No tool of the repository awaits anything while it creates  *)
(* an instance, so looking for one, creating and storing it is one step.   *)

StartCalls ==
    /\ state = "tools"
    /\ progress' = [i \in 1..Least(Len(calls), MaxParallelCalls) |-> "new"]
    /\ state' = "calling"
    /\ UNCHANGED <<config, tokens, turns, calls, instances, live>>

Creates(t) ==
    IF t \in instances
    THEN UNCHANGED <<instances, live>>
    ELSE instances' = instances \cup {t} /\ live' = [live EXCEPT ![t] = @ + 1]

(* The tasks of a gather start in order.                                   *)
IsNext(i) == progress[i] = "new" /\ \A j \in 1..(i - 1) : progress[j] # "new"

BeginCall(i) ==
    /\ IsNext(i)
    /\ progress' = [progress EXCEPT ![i] = "running"]
    /\ Creates(calls[i])
    /\ UNCHANGED <<config, state, tokens, turns, calls>>

(* Arguments that are no JSON, or a tool that is not registered.           *)
RejectCall(i) ==
    /\ IsNext(i)
    /\ progress' = [progress EXCEPT ![i] = "done"]
    /\ UNCHANGED <<config, state, tokens, turns, calls, instances, live>>

(* Mutant of EndCall: one call of a turn is answered.                      *)
EndCallOnce(i) ==
    /\ progress[i] = "running" /\ \A j \in 1..Len(progress) : progress[j] # "done"
    /\ progress' = [progress EXCEPT ![i] = "done"]
    /\ UNCHANGED <<config, state, tokens, turns, calls, instances, live>>

(* An answer or an exception: either becomes a text.                       *)
EndCall(i) ==
    /\ progress[i] = "running"
    /\ progress' = [progress EXCEPT ![i] = "done"]
    /\ UNCHANGED <<config, state, tokens, turns, calls, instances, live>>

Call == state = "calling" /\ \E i \in 1..Len(progress) : BeginCall(i) \/ RejectCall(i) \/ EndCall(i)

AllDone == state = "calling" /\ \A i \in 1..Len(progress) : progress[i] = "done"

ToolResults ==
    /\ AllDone
    /\ Observe("generating")
    /\ awaiting' = (awaiting \/ state' = "generating")
    /\ UNCHANGED <<config, assistantTurns, textOf, toolVars>>

-----------------------------------------------------------------------------
(* Mutant of Release: only when the trajectory ends without an exception.  *)
ReleaseOnReturn ==
    IF state # "terminated" THEN UNCHANGED <<instances, live>>
    ELSE /\ live' = [t \in Tools |-> IF t \in instances THEN live[t] - 1 ELSE live[t]]
         /\ instances' = {}

(* _release_tool_instances, in the finally clause of run                   *)
Release ==
    /\ live' = [t \in Tools |-> IF t \in instances THEN live[t] - 1 ELSE live[t]]
    /\ instances' = {}

Return ==
    /\ state = "terminated"
    /\ Release
    /\ state' = "returned"
    /\ UNCHANGED <<config, tokens, turns, calls, progress>>

(* The chat template, the server, the interaction or a result that is an   *)
(* image raises.                                                           *)
Raise ==
    /\ state \in {"pending", "generating", "decodeError", "interacting"} \/ AllDone
    /\ Release
    /\ state' = "raised"
    /\ UNCHANGED <<config, tokens, turns, calls, progress>>

Handle == Pending \/ Exhausted \/ Generate \/ DecodeError \/ Interact
          \/ StartCalls \/ Call \/ ToolResults \/ Return

Next == Handle \/ Raise

(* The event loop resumes a trajectory whose server or tool has answered.  *)
Spec == Init /\ [][Next]_vars /\ WF_vars(Handle)

-----------------------------------------------------------------------------
Ended == state \in {"returned", "raised"}

(* Python's s[-n:] and s[:n]                                               *)
LastOf(s, n) == IF n = 0 THEN s ELSE SubSeq(s, Len(s) - n + 1, Len(s))

FirstOf(s, n) == SubSeq(s, 1, Least(n, Len(s)))

(* The output of run.                                                      *)
response_ids == FirstOf(LastOf(prompt_ids, Len(response_mask)), TotalLength)

outputMask == FirstOf(response_mask, TotalLength)

outputLogprobs == FirstOf(logprobs, TotalLength)

outputPrompt == FirstOf(prompt_ids, Len(prompt_ids) - Len(response_mask))

(* Every variable of a trajectory has its type (AgentData).                *)
TypeOK ==
    /\ config \in Configurations
    /\ state \in {"pending", "generating", "decodeError", "tools", "calling", "interacting",
                  "terminated", "returned", "raised"}
    /\ prompt_ids \in Seq({"prompt", "model", "observation"})
    /\ response_mask \in Seq({0, 1}) /\ logprobs \in Seq({0, 1})
    /\ instructed \in BOOLEAN /\ awaiting \in BOOLEAN
    /\ assistantTurns \in Nat /\ userTurns \in Nat /\ textOf \in 0..assistantTurns
    /\ calls \in Seq(Tools) /\ progress \in Seq({"new", "running", "done"})
    /\ instances \subseteq Tools
    /\ live \in [Tools -> Nat]

(* What is returned is aligned, unless the first turn wrote nothing: the   *)
(* mask is 1 exactly on the model's tokens, every log-probability is at    *)
(* its token, and nothing of the response is in the prompt (run).          *)
OutputAligned ==
    state = "returned" /\ response_mask # <<>> /\ response_mask[1] = 1 =>
        /\ Len(response_ids) = Len(outputMask)
        /\ \A i \in 1..Len(outputMask) : outputMask[i] = 1 <=> response_ids[i] = "model"
        /\ logprobs # <<>> => outputLogprobs = outputMask
        /\ \A i \in 1..Len(outputPrompt) : outputPrompt[i] = "prompt"

(* Whatever is generated and observed, the budgets of the configuration    *)
(* hold: for the model's tokens, the response, and the whole context when  *)
(* the prompt fits (_build_turn_sampling_params,                           *)
(* _truncate_observation_tokens_to_budget).                                *)
BudgetsKept ==
    /\ Ones(response_mask) <= ResponseLength
    /\ Len(response_mask) <= TotalLength
    /\ Len(prompt_ids) - Len(response_mask) <= PromptLength + TotalLength =>
           Len(prompt_ids) <= PromptLength + TotalLength

(* The last turn allowed is never exceeded, and by whichever way it is     *)
(* reached the model has been told, in full, that it is the last           *)
(* (_maybe_add_final_policy_turn_message and its four callers).            *)
FinalTurnInstructed ==
    MaxAssistantTurns > 0 =>
        /\ assistantTurns <= MaxAssistantTurns
        /\ state = "generating" /\ config.injectFinal /\ assistantTurns + 1 >= MaxAssistantTurns => instructed

(* However a trajectory ends, each tool held one instance for it at most   *)
(* and none is left (_call_tool, _release_tool_instances).                 *)
InstancesReleased ==
    /\ \A t \in Tools : live[t] <= 1
    /\ Ended => \A t \in Tools : live[t] = 0

(* Without a limit of turns as well, a trajectory ends: the budgets see to *)
(* that (run).                                                             *)
Ends == <>Ended

(* The text whose format is judged is the last the model wrote             *)
(* (_compute_policy_output_format_penalty).                                *)
LastTextJudged == state = "returned" /\ response_mask # <<>> => textOf = assistantTurns
=============================================================================
