---------------------------- MODULE MCTwoStageRollout ----------------------------
(* Small instances of TwoStageRollout: one branch for several rounds, and  *)
(* several branches.                                                       *)
EXTENDS TwoStageRollout

Sizes ==
    {[inputs |-> 2, rolloutN |-> 1, maxRounds |-> 3, maxQueries |-> 2],
     [inputs |-> 1, rolloutN |-> 1, maxRounds |-> 3, maxQueries |-> 0],
     [inputs |-> 1, rolloutN |-> 2, maxRounds |-> 2, maxQueries |-> 2],
     [inputs |-> 2, rolloutN |-> 2, maxRounds |-> 2, maxQueries |-> 1]}

SomeConfigurations ==
    {[inputs |-> s.inputs, rolloutN |-> s.rolloutN, maxRounds |-> s.maxRounds, maxQueries |-> s.maxQueries,
      validation |-> v, emit |-> e] : s \in Sizes, v \in BOOLEAN, e \in BOOLEAN}
=============================================================================
