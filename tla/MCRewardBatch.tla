----------------------------- MODULE MCRewardBatch -----------------------------
(* A batch of four items on one worker.                                    *)
EXTENDS RewardBatch

Four == 1..4
OneWorker == [r \in Requests |-> 1]
DictKeys == {"score", "acc"}
===============================================================================
