----------------------------- MODULE MCTokenBucket -----------------------------
(* Four calls: three that fit the bucket and one that does not.            *)
EXTENDS TokenBucket

CONSTANTS k1, k2, k3, k4

MCCalls == {k1, k2, k3, k4}
MCSize == [c \in MCCalls |-> CASE c = k1 -> 1 [] c = k2 -> 2 [] c = k3 -> 3 [] c = k4 -> 7]
===============================================================================
