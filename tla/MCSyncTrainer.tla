----------------------------- MODULE MCSyncTrainer -----------------------------
(* Configurations of fit: the usual one with replicas that sleep, one with a *)
(* reward model on the same devices, the two-stage rollout, REMAX, and a   *)
(* critic's warm-up. The last two, with replicas on devices of their own,   *)
(* are those of the one-step-off trainer too.                              *)
EXTENDS OneStepOff

Usual == [freeCache |-> TRUE, twoStage |-> FALSE, emit |-> FALSE, remax |-> FALSE,
          rewardModel |-> FALSE, valBefore |-> TRUE, criticWarmup |-> 0, saveFreq |-> 2,
          testFreq |-> 2]

MCConfigurations ==
    {Usual,
     [Usual EXCEPT !.rewardModel = TRUE],
     [Usual EXCEPT !.twoStage = TRUE, !.emit = TRUE],
     [Usual EXCEPT !.twoStage = TRUE, !.emit = TRUE, !.freeCache = FALSE],
     [Usual EXCEPT !.twoStage = TRUE, !.testFreq = 0],
     [Usual EXCEPT !.remax = TRUE, !.valBefore = FALSE],
     [Usual EXCEPT !.criticWarmup = 3, !.testFreq = 0],
     [Usual EXCEPT !.saveFreq = 0],
     [Usual EXCEPT !.freeCache = FALSE],
     [Usual EXCEPT !.freeCache = FALSE, !.criticWarmup = 3, !.testFreq = 0,
                   !.valBefore = FALSE]}
=============================================================================
