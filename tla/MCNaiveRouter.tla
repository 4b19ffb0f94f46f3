------------------------------ MODULE MCNaiveRouter ------------------------------
(* Three requests over two workers, with so few connections that hanging    *)
(* attempts take them all: two with no limit per host, or one per host.     *)
EXTENDS NaiveRouter

CONSTANTS r1, r2, r3

MCRequests == {r1, r2, r3}

MCLimits == {2, 4}
===============================================================================
