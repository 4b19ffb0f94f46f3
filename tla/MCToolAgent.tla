------------------------------- MODULE MCToolAgent -------------------------------
(* A small instance of ToolAgent.                                          *)
EXTENDS ToolAgent

SomePrompts == {1, 3, 9}

SomeLimits == {NoLimit, 0, 3}

SomeObservations == {1, 2}
=============================================================================
