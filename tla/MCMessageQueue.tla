---------------------------- MODULE MCMessageQueue ----------------------------
(* Two consumers; weights 1 and 2 fit the queue of 3, weight 4 does not.   *)
EXTENDS MessageQueueClients, TLC

CONSTANTS c1, c2, None

MCConsumers == {c1, c2}
MCCounts == {0, 2, 4}
Symmetry == Permutations(MCConsumers)
===============================================================================
