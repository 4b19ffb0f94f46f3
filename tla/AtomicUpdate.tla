------------------------------ MODULE AtomicUpdate ------------------------------
(***************************************************************************)
(* What a weight update promises the generations that run around it: there *)
(* is one version of the weights at any time, every token is generated by  *)
(* it, and an update is a single change of version between two tokens.     *)
(***************************************************************************)
EXTENDS Integers, Sequences

CONSTANT Conversations

VARIABLES current,  \* the version
          streams,  \* per conversation: the version that generated each token
          ended     \* the conversations whose generation is over

atomicVars == <<current, streams, ended>>

Init ==
    /\ current = 0
    /\ streams = [c \in Conversations |-> <<>>]
    /\ ended = {}

Emit(c) ==
    /\ c \notin ended
    /\ streams' = [streams EXCEPT ![c] = Append(@, current)]
    /\ UNCHANGED <<current, ended>>

End(c) ==
    /\ ended' = ended \cup {c}
    /\ UNCHANGED <<current, streams>>

Update == current' = current + 1 /\ UNCHANGED <<streams, ended>>

Next == Update \/ \E c \in Conversations : Emit(c) \/ End(c)

Spec == Init /\ [][Next]_atomicVars
===============================================================================
