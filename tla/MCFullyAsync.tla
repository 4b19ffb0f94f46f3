----------------------------- MODULE MCFullyAsync -----------------------------
(* Small instances of the fully asynchronous trainer.                      *)
EXTENDS FullyAsync

CONSTANTS None, T

MCConsumers == {T}

(* One train point a rollout, or none at all.                              *)
SinglePoint == {<<>>, <<1>>}

(* Two train points a rollout, in one group or two.                        *)
TwoPoints == {<<>>, <<1, 1>>, <<2>>}
===============================================================================
