----------------------------- MODULE PartialRollout -----------------------------
(***************************************************************************)
(* FullyAsyncLLMServerManager.generate over servers whose weights are      *)
(* updated meanwhile: a request that is aborted is sent again with the     *)
(* tokens it has, so that the agent loop sees one generation.  A token is  *)
(* represented by the version of the weights that generated it.            *)
(***************************************************************************)
EXTENDS WeightUpdate, LoadBalancer, SequencesExt

CONSTANTS PartialRolloutOn,  \* async_training.partial_rollout
          HasLimit,          \* the sampling parameters name max_tokens
          ResponseLength,    \* ... and its value, or the server's response_length
          PromptRoom         \* prompt_length minus the length of the prompt

ASSUME PartialRolloutAssumption ==
    /\ Replicas = Servers
    /\ PartialRolloutOn \in BOOLEAN /\ HasLimit \in BOOLEAN
    /\ ResponseLength \in Nat \ {0} /\ PromptRoom \in Nat

VARIABLES request,   \* per conversation: where its request is
          tokens,    \* final_output.token_ids
          capacity,  \* the number of tokens at which the engine stops
          answer,    \* the server's answer: stop_reason and global_steps
          span       \* min_global_steps and max_global_steps

genVars == <<request, tokens, capacity, answer, span>>

vars == <<updateVars, lbVars, genVars>>

NoVersion == -2

Init ==
    /\ WUInit
    /\ LBInit
    /\ request = [c \in Conversations |-> "none"]
    /\ tokens = [c \in Conversations |-> <<>>]
    /\ capacity = [c \in Conversations |-> 0]
    /\ answer = [c \in Conversations |-> [stop |-> "none", version |-> NoVersion]]
    /\ span = [c \in Conversations |-> [min |-> NoVersion, max |-> NoVersion]]

Begin(c) ==
    /\ request[c] = "none"
    /\ request' = [request EXCEPT ![c] = "asking"]
    /\ UNCHANGED <<updateVars, lbVars, tokens, capacity, answer, span>>

Ask(c) ==
    /\ request[c] = "asking"
    /\ Acquire(c)
    /\ request' = [request EXCEPT ![c] = "sent"]
    /\ UNCHANGED <<updateVars, tokens, capacity, answer, span>>

(* max_tokens of a request that already has n tokens: the rest of the      *)
(* limit, or the server's default, which looks at the prompt it is sent.   *)
(* The room in the model's context may end a generation earlier, and so    *)
(* may the model after any token (Token).                                  *)
MaxTokens(n) ==
    IF HasLimit THEN ResponseLength - n
    ELSE Min({ResponseLength, PromptRoom + ResponseLength - n})

(* A paused engine makes the request wait.                                 *)
Start(c) ==
    /\ request[c] = "sent"
    /\ using[c] \notin held
    /\ request' = [request EXCEPT ![c] = "running"]
    /\ capacity' = [capacity EXCEPT ![c] = Len(tokens[c]) + MaxTokens(Len(tokens[c]))]
    /\ UNCHANGED <<updateVars, lbVars, tokens, answer, span>>

Answers(c, stop) ==
    [answer EXCEPT ![c] = [stop |-> stop, version |-> globalSteps[using[c]]]]

(* One more token, after which the model may be done and must be at the    *)
(* limit; the server reads its global_steps when the answer is complete.   *)
Token(c) ==
    /\ request[c] = "running"
    /\ tokens' = [tokens EXCEPT ![c] = Append(@, weights[using[c]])]
    /\ \/ /\ Len(tokens'[c]) < capacity[c]
          /\ UNCHANGED <<request, answer>>
       \/ /\ request' = [request EXCEPT ![c] = "answered"]
          /\ answer' = Answers(c, "completed")
    /\ UNCHANGED <<updateVars, lbVars, capacity, span>>

Running(s) == {c \in Conversations : request[c] = "running" /\ using[c] = s}

(* abort_all_requests: what was running is answered with what it has.      *)
Abort(s) ==
    /\ AbortAll(s)
    /\ request' = [c \in Conversations |-> IF c \in Running(s) THEN "answered" ELSE request[c]]
    /\ answer' = [c \in Conversations |->
                    IF c \in Running(s) THEN [stop |-> "aborted", version |-> globalSteps[s]]
                    ELSE answer[c]]
    /\ UNCHANGED <<lbVars, tokens, capacity, span>>

(* Mutant of Spanned: both ends move with every answer.                     *)
SpannedByLast(old, version) == [min |-> version, max |-> version]

Spanned(old, version) ==
    [min |-> IF old.min = NoVersion THEN version ELSE old.min, max |-> version]

(* Mutant of GoesOn: an aborted request counts as finished.                 *)
NeverGoesOn(c) == FALSE

GoesOn(c) ==
    /\ ~(HasLimit /\ Len(tokens[c]) >= ResponseLength)
    /\ answer[c].stop = "aborted"
    /\ PartialRolloutOn

(* The answer arrives: release the server, merge, go on or return.         *)
Merge(c) ==
    /\ request[c] = "answered"
    /\ SendRelease(c)
    /\ span' = [span EXCEPT ![c] = Spanned(@, answer[c].version)]
    /\ request' = [request EXCEPT ![c] = IF GoesOn(c) THEN "asking" ELSE "done"]
    /\ UNCHANGED <<updateVars, tokens, capacity, answer>>

Releases(c) == Release(c) /\ UNCHANGED <<updateVars, genVars>>

Server(action) == action /\ UNCHANGED <<lbVars, genVars>>

GenerationStep(c) == Begin(c) \/ Ask(c) \/ Start(c) \/ Token(c) \/ Merge(c) \/ Releases(c)

UpdateStep ==
    \E s \in Servers :
        \/ Abort(s)
        \/ Server(LoadBegins(s)) \/ Server(LoadEnds(s)) \/ Server(SetGlobalSteps(s))
        \/ Server(ResumeGeneration(s))

AllDone ==
    /\ \A c \in Conversations : request[c] = "done" /\ owed[c] = NoServer
    /\ phase = "idle" /\ target = MaxUpdates
    /\ UNCHANGED vars

Next ==
    \/ \E c \in Conversations : GenerationStep(c)
    \/ Server(BeginUpdate)
    \/ UpdateStep
    \/ AllDone

Spec == Init /\ [][Next]_vars

(* Servers and event loops keep running, and an update once begun goes on. *)
Fairness ==
    /\ \A c \in Conversations : WF_vars(GenerationStep(c))
    /\ WF_vars(UpdateStep)

FairSpec == Spec /\ Fairness
-------------------------------------------------------------------------------
(* Every variable stays in its type.                                       *)
TypeOK ==
    /\ weights \in [Servers -> (0..MaxUpdates) \cup {Mixed}]
    /\ globalSteps \in [Servers -> 0..MaxUpdates]
    /\ held \subseteq Servers
    /\ phase \in {"idle", "aborting", "loading", "resuming"}
    /\ left \subseteq Servers
    /\ target \in 0..MaxUpdates
    /\ \A s \in Servers : inflight[s] \in Nat
    /\ request \in [Conversations -> {"none", "asking", "sent", "running", "answered", "done"}]
    /\ \A c \in Conversations :
          /\ request[c] \in {"sent", "running", "answered"} <=> using[c] \in Servers
          /\ \A i \in 1..Len(tokens[c]) : tokens[c][i] \in (0..MaxUpdates) \cup {Mixed}
          /\ request[c] = "done" => span[c].min \in 0..MaxUpdates /\ span[c].max \in 0..MaxUpdates

(* README.md 224-226 and update_weights: generation is interrupted for the *)
(* update and goes on after it, never on weights that are being loaded.    *)
InterruptedUntilSynced ==
    phase = "loading" => \A c \in Conversations : request[c] # "running"

(* min_global_steps and max_global_steps, by which the trainer judges      *)
(* staleness, span the versions of all the tokens returned.                *)
SpanCoversTokens ==
    \A c \in Conversations :
        request[c] = "done" =>
            \A i \in 1..Len(tokens[c]) : span[c].min <= tokens[c][i] /\ tokens[c][i] <= span[c].max

(* A generation is returned when the model is done or its limit reached,   *)
(* never because of an update ...                                          *)
NotCutShort ==
    \A c \in Conversations :
        request[c] = "done" => answer[c].stop = "completed" \/ Len(tokens[c]) = ResponseLength

(* "making rollout interruption invisible to the AgentLoop": ... and is    *)
(* never longer than an uninterrupted one could be                         *)
(* (FullyAsyncLLMServerManager.generate).                                  *)
AsUninterrupted == NotCutShort /\ \A c \in Conversations : Len(tokens[c]) <= ResponseLength

(* Updates and aborts starve no generation.                                *)
EveryGenerationEnds ==
    \A c \in Conversations : request[c] # "none" ~> request[c] = "done"

(* For the generations an update is one change of version.                 *)
Loaded == \A s \in Servers : weights[s] = target

Atomic == INSTANCE AtomicUpdate WITH
              current <- IF Loaded THEN target ELSE target - 1,
              streams <- tokens,
              ended <- {c \in Conversations : request[c] = "done"}

ImplementsAtomicUpdate == Atomic!Spec
===============================================================================
