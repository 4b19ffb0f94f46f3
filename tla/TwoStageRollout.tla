----------------------------- MODULE TwoStageRollout -----------------------------
(***************************************************************************)
(* One call of _run_two_stage_orchestrator_rollout: in every round the     *)
(* backbone answers or asks queries, the policy runs every query in        *)
(* several branches, and a branch whose queries all went well goes back to *)
(* the backbone. What is known of a row is kept in dictionaries by the     *)
(* trace of the row, which are looked up when all is over.                 *)
(***************************************************************************)
EXTENDS Integers, Sequences, FiniteSets, SequencesExt

CONSTANTS Configurations,  \* what a call is configured with, see below
          MaxFound         \* bound: queries in one output of the backbone

(* inputs: rows of the batch; rolloutN: policy_rollout_n; maxRounds:       *)
(* max_orchestrator_rounds; maxQueries: max_backbone_search_queries, 0 for *)
(* no limit; validation: the rollout validates; emit: the policy's rounds  *)
(* are the train points (tool_reward_as_grpo_point).                       *)
ASSUME TwoStageAssumption ==
    /\ Configurations \subseteq [inputs : Nat, rolloutN : Nat \ {0}, maxRounds : Nat \ {0},
                                 maxQueries : Nat, validation : BOOLEAN, emit : BOOLEAN]
    /\ MaxFound \in Nat

VARIABLES config,
          round,       \* round_idx
          phase,       \* the stage that comes next
          remaining,   \* remaining_batch with remaining_indices
          running,     \* policy_batch: the rows the policy runs in this round
          finished,    \* finished_parts with finished_indices
          points,      \* policy_round_parts
          finalSource, \* backbone_final_source_by_trace
          pairGroup,   \* pair_group_id_by_trace
          requests,    \* policy_request_ids_by_trace
          chain        \* chain_events_by_trace

byTrace == <<finalSource, pairGroup, requests, chain>>
twoStageVars == <<config, round, phase, remaining, running, finished, points, byTrace>>

-----------------------------------------------------------------------------
(* Traces. The ids are strings in the code: a trace is the sequence of the *)
(* parts such a string is joined from.                                     *)
Root(i) == << <<"root", i, 0>> >>

Composite(parent, b) == IF config.rolloutN > 1 THEN Append(parent, <<"branch", round, b>>) ELSE parent

PolicyTrace(composite, q, count) == IF count > 1 THEN Append(composite, <<"query", q, 0>>) ELSE composite

(* Mutant of PairGroup: queries asked together share a group.              *)
PairGroupOfParent(parent, q, count) == Append(parent, <<"round", round, 0>>)

PairGroup(parent, q, count) ==
    LET group == Append(parent, <<"round", round, 0>>)
    IN IF count > 1 THEN Append(group, <<"query", q, 0>>) ELSE group

NoTrace == <<>>

(* Python's d.get(key, default)                                            *)
Get(dict, key, default) == IF key \in DOMAIN dict THEN dict[key] ELSE default

(* A dictionary with the entries of new added, and changed where it had    *)
(* them.                                                                   *)
Updated(dict, new) ==
    [t \in DOMAIN dict \cup DOMAIN new |-> IF t \in DOMAIN new THEN new[t] ELSE dict[t]]

(* The entries of new are added where the dictionary has none.             *)
WithDefaults(dict, new) == Updated(new, dict)

Rows(s) == {s[i] : i \in 1..Len(s)}

(* The rows of s that are in P, in their order.                            *)
Those(s, P) == FlattenSeq([i \in 1..Len(s) |-> IF s[i] \in P THEN <<s[i]>> ELSE <<>>])

(* Besides its trace and input, a row carries what truly happened to it,   *)
(* which the code does not know and the properties compare with: past, the *)
(* requests of the policy it rests on.                                     *)
InputRow(i) == [trace |-> Root(i), input |-> i, past |-> {}]

(* by: who wrote the answer of a finished row, in round at.                *)
Finish(row, writer) == [trace |-> row.trace, input |-> row.input, past |-> row.past, by |-> writer, at |-> round]

TwoStageInit ==
    /\ config \in Configurations
    /\ round = 0
    /\ phase = "backbone"
    /\ remaining = [i \in 1..config.inputs |-> InputRow(i)]
    /\ running = <<>>
    /\ finished = <<>>
    /\ points = <<>>
    /\ finalSource = <<>>
    /\ pairGroup = <<>>
    /\ requests = [t \in {Root(i) : i \in 1..config.inputs} |-> <<>>]
    /\ chain = [t \in {Root(i) : i \in 1..config.inputs} |-> <<>>]

-----------------------------------------------------------------------------
(* The backbone's output for a row: an answer, or a block with so many     *)
(* queries. A block without a query that can be read counts as one.        *)
Answer == -1

Least(a, b) == IF a < b THEN a ELSE b

QueryCount(found) ==
    IF found = 0 THEN 1 ELSE IF config.maxQueries > 0 THEN Least(found, config.maxQueries) ELSE found

(* A row of the policy: query q of a parent in branch b.                   *)
PolicyRow(parent, count, b, q) ==
    [trace |-> PolicyTrace(Composite(parent.trace, b), q, count),
     group |-> Composite(parent.trace, b),
     parent |-> parent.trace, input |-> parent.input, past |-> parent.past,
     query |-> q, count |-> count]

RowsOf(parent, count) ==
    FlattenSeq([b \in 1..config.rolloutN |-> [q \in 1..count |-> PolicyRow(parent, count, b, q)]])

NewPairGroups(rows) ==
    Updated(pairGroup, [t \in {r.trace : r \in rows} |->
        LET r == CHOOSE x \in rows : x.trace = t IN PairGroup(r.parent, r.query, r.count)])

(* A branch and its queries inherit the records of their parent, once.     *)
Inherited(dict, rows) ==
    WithDefaults(dict, [t \in {r.trace : r \in rows} \cup {r.group : r \in rows} |->
        LET r == CHOOSE x \in rows : t \in {x.trace, x.group} IN dict[r.parent]])

(* The rows that the backbone answers, and those the policy runs for the   *)
(* others.                                                                 *)
AnsweredBy(found) ==
    FlattenSeq([i \in 1..Len(remaining) |-> IF found[i] = Answer THEN <<remaining[i]>> ELSE <<>>])

AskedBy(found) ==
    FlattenSeq([i \in 1..Len(remaining) |->
        IF found[i] = Answer THEN <<>> ELSE RowsOf(remaining[i], QueryCount(found[i]))])

(* The events kept of a chain: who was heard in which round.               *)
Heard(writer, traces) ==
    Updated(chain, [t \in traces |-> Append(Get(chain, t, <<>>), <<writer, round>>)])

Backbone ==
    /\ phase = "backbone"
    /\ round < config.maxRounds /\ remaining # <<>>
    /\ \E found \in [1..Len(remaining) -> {Answer} \cup 0..MaxFound] :
        LET answers == AnsweredBy(found)
            policy == AskedBy(found)
            heard == Heard("backbone", {r.trace : r \in Rows(remaining)})
        IN /\ finished' = finished \o [k \in 1..Len(answers) |-> Finish(answers[k], "backbone")]
           /\ finalSource' = Updated(finalSource, [t \in {r.trace : r \in Rows(answers)} |-> "backbone"])
           /\ running' = policy
           /\ pairGroup' = NewPairGroups(Rows(policy))
           /\ requests' = Inherited(requests, Rows(policy))
           /\ chain' = Inherited(heard, Rows(policy))
           /\ remaining' = <<>>
           /\ phase' = IF policy = <<>> THEN "restore" ELSE "policy"
    /\ UNCHANGED <<config, round, points>>

-----------------------------------------------------------------------------
(* The request of the policy for a row.                                    *)
Request(row) == <<round, row.trace>>

Members(group) == Those(running, {r \in Rows(running) : r.group = group})

Groups == {r.group : r \in Rows(running)}

(* The branches that go on, each as the row of its first query.            *)
Survivors(good) == Those(running, {r \in Rows(running) : r.group \in good /\ r.query = 1})

(* Mutant of Continues: validation prunes like training.                   *)
ContinuesIfGood(good) == good

Continues(good) == IF config.validation THEN Groups ELSE good

(* The rows of the branches that end here, branch by branch.               *)
Terminated(good) == Those(running, {r \in Rows(running) : r.group \notin good})

(* Mutant of MergedRequests: the last query's are kept.                    *)
MergedRequestsOfLast(own) ==
    Updated(own, [g \in Groups |-> own[Members(g)[Len(Members(g))].trace]])

(* A branch has the requests of its past and those of all its queries.     *)
MergedRequests(own) ==
    Updated(own, [g \in Groups |->
        LET current == [k \in 1..Len(Members(g)) |-> Request(Members(g)[k])]
        IN own[g] \o Those(current, Rows(current) \ Rows(own[g]))])

(* good: the branches all of whose queries were judged good, by the binary *)
(* score or by the discrete gate.                                          *)
Policy ==
    /\ phase = "policy"
    /\ \E good \in SUBSET Groups :
        LET own == Updated(requests, [t \in {r.trace : r \in Rows(running)} |->
                       LET r == CHOOSE x \in Rows(running) : x.trace = t
                       IN Append(requests[t], Request(r))])
            gone == Terminated(Continues(good))
            on == Survivors(Continues(good))
        IN /\ requests' = MergedRequests(own)
           /\ chain' = Heard("policy", {r.trace : r \in Rows(running)} \cup Groups)
           /\ points' = IF config.emit /\ ~config.validation
                        THEN points \o [k \in 1..Len(running) |->
                                 [input |-> running[k].input, group |-> Get(pairGroup, running[k].trace, NoTrace),
                                  asked |-> <<running[k].parent, round, running[k].query>>]]
                        ELSE points
           /\ finished' = finished \o [k \in 1..Len(gone) |->
                  Finish([gone[k] EXCEPT !.past = @ \cup {Request(gone[k])}], "policy")]
           /\ finalSource' = Updated(finalSource, [t \in {r.trace : r \in Rows(gone)} |-> "policy"])
           /\ remaining' = [k \in 1..Len(on) |->
                  [trace |-> on[k].group, input |-> on[k].input,
                   past |-> on[k].past \cup {Request(r) : r \in Rows(Members(on[k].group))}]]
           /\ IF on = <<>> THEN phase' = "restore" /\ UNCHANGED round
              ELSE IF round = config.maxRounds - 1 THEN phase' = "final" /\ UNCHANGED round
              ELSE phase' = "backbone" /\ round' = round + 1
    /\ running' = <<>>
    /\ UNCHANGED <<config, pairGroup>>

(* Mutant of Final: the rows are left without the backbone's answer.       *)
FinalUnasked ==
    /\ phase = "final"
    /\ finished' = finished \o [k \in 1..Len(remaining) |-> Finish(remaining[k], "backbone")]
    /\ remaining' = <<>>
    /\ phase' = "restore"
    /\ UNCHANGED <<config, round, running, points, byTrace>>

(* The rounds are over: the backbone has to answer what is left.           *)
Final ==
    /\ phase = "final"
    /\ finished' = finished \o [k \in 1..Len(remaining) |-> Finish(remaining[k], "backbone")]
    /\ finalSource' = Updated(finalSource, [t \in {r.trace : r \in Rows(remaining)} |-> "backbone"])
    /\ chain' = Heard("backbone", {r.trace : r \in Rows(remaining)})
    /\ remaining' = <<>>
    /\ phase' = "restore"
    /\ UNCHANGED <<config, round, running, points, pairGroup, requests>>

(* An empty batch is returned as it is.                                    *)
Restore ==
    /\ phase = "restore" \/ (phase = "backbone" /\ remaining = <<>>)
    /\ phase' = "done"
    /\ UNCHANGED <<config, round, remaining, running, finished, points, byTrace>>

TwoStageNext == Backbone \/ Policy \/ Final \/ Restore

TwoStageSpec == TwoStageInit /\ [][TwoStageNext]_twoStageVars

-----------------------------------------------------------------------------
(* What is returned, in the order of the inputs; the order of the rows of  *)
(* one input is argsort's.                                                 *)
restored ==
    LET argsort == CHOOSE p \in Bijection(1..Len(finished), 1..Len(finished)) :
            \A i, j \in 1..Len(finished) : i < j => finished[p[i]].input <= finished[p[j]].input
    IN [i \in 1..Len(finished) |-> finished[argsort[i]]]

Rounds == 0..(config.maxRounds - 1)

(* Every variable has its type.                                            *)
TwoStageTypeOK ==
    /\ config \in Configurations
    /\ round \in Rounds
    /\ phase \in {"backbone", "policy", "final", "restore", "done"}
    /\ \A r \in Rows(remaining) \cup Rows(running) \cup Rows(finished) : r.input \in 1..config.inputs
    /\ DOMAIN requests = DOMAIN chain
    /\ \A t \in DOMAIN finalSource : finalSource[t] \in {"backbone", "policy"}

(* No input is ever lost, no branch ends twice or goes on after its end,   *)
(* and a validation in one branch returns every input once, in order,      *)
(* answered by the backbone: nothing is pruned.                            *)
EveryInputAnswered ==
    /\ 1..config.inputs = {r.input : r \in Rows(remaining) \cup Rows(running) \cup Rows(finished)}
    /\ \A i, j \in 1..Len(finished) : finished[i].trace = finished[j].trace => i = j
    /\ {r.trace : r \in Rows(finished)} \cap {r.trace : r \in Rows(remaining) \cup Rows(running)} = {}
    /\ phase = "done" /\ config.validation =>
           /\ \A r \in Rows(finished) : r.by = "backbone"
           /\ config.rolloutN = 1 => [i \in 1..Len(restored) |-> restored[i].input] = [i \in 1..config.inputs |-> i]

(* What is looked up by trace at the end is true of the row: who wrote its *)
(* answer, and for an answer of the policy the group of the round it is of *)
(* (restored.non_tensor_batch["backbone_final_source"], ["pair_group_id"]). *)
LookupsTrue ==
    phase = "done" => \A r \in Rows(finished) :
        /\ Get(finalSource, r.trace, "") = r.by
        /\ r.by = "policy" => <<"round", r.at, 0>> \in Rows(Get(pairGroup, r.trace, NoTrace))

(* The train points fall into complete groups: as many as there are        *)
(* branches, all of one input, asked one query in one round.               *)
GroupsComplete ==
    \A p \in Rows(points) :
        LET peers == Those(points, {x \in Rows(points) : x.group = p.group})
        IN Len(peers) = config.rolloutN /\ \A x \in Rows(peers) : x.asked = p.asked /\ x.input = p.input

(* The record of a row is its own history and no other's: the requests it  *)
(* rests on, and the backbone's output of every round it went through.     *)
HasOwnHistory(r) ==
    /\ Rows(requests[r.trace]) = r.past
    /\ \A k \in 0..r.at : <<"backbone", k>> \in Rows(chain[r.trace])

(* With several branches, every row returned has its own history           *)
(* (policy_request_ids, orchestrator_chain).                               *)
HistoryOfBranches ==
    phase = "done" /\ config.rolloutN > 1 => \A r \in Rows(finished) : HasOwnHistory(r)

(* The same for any number of branches.                                    *)
HistoryOfAll == phase = "done" => \A r \in Rows(finished) : HasOwnHistory(r)

=============================================================================
