--------------------------- MODULE MCCheckpointResume ---------------------------
(* A small instance of CheckpointResume: an actor and a critic with limits *)
(* of their own.                                                           *)
EXTENDS CheckpointResume, TLC

ActorAndCritic == <<"actor", "critic">>

KeepTwoAndThree == ("actor" :> 2) @@ ("critic" :> 3)

ActorOnly == <<"actor">>

KeepOne == [m \in {"actor"} |-> 1]
=============================================================================
