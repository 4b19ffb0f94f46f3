------------------------------- MODULE LossyFifo -------------------------------
(***************************************************************************)
(* What the message queue promises its users, whatever its weights and     *)
(* counters do: items come out in the order they went in, each at most     *)
(* once, and an item that is lost was the oldest one when it was lost.     *)
(***************************************************************************)
EXTENDS Integers, Sequences

CONSTANTS Items,      \* what can be put, None included
          Consumers,
          NoItem      \* what a consumer of a closed, empty queue is given

VARIABLES contents,   \* the items inside, oldest first
          open,       \* producers may still come back
          given       \* per consumer: the last item it was given

fifoVars == <<contents, open, given>>

Init ==
    /\ contents = <<>>
    /\ open = TRUE
    /\ given = [c \in Consumers |-> NoItem]

Put(item) ==
    /\ \E k \in 0..Len(contents) :
          contents' = Append(SubSeq(contents, k + 1, Len(contents)), item)
    /\ UNCHANGED <<open, given>>

Take(c) ==
    /\ contents # <<>>
    /\ contents' = Tail(contents)
    /\ given' = [given EXCEPT ![c] = Head(contents)]
    /\ UNCHANGED open

TakeFromClosed(c) ==
    /\ contents = <<>>
    /\ ~open
    /\ given' = [given EXCEPT ![c] = NoItem]
    /\ UNCHANGED <<contents, open>>

Discard ==
    /\ contents' = <<>>
    /\ UNCHANGED <<open, given>>

Close ==
    /\ open' = FALSE
    /\ UNCHANGED <<contents, given>>

Next ==
    \/ \E item \in Items : Put(item)
    \/ \E c \in Consumers : Take(c) \/ TakeFromClosed(c)
    \/ Discard
    \/ Close

Spec == Init /\ [][Next]_fifoVars
===============================================================================
