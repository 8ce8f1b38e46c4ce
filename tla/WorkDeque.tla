------------------------------ MODULE WorkDeque ------------------------------
(***************************************************************************)
(* What a work-stealing deque promises: the owner pushes and pops at the   *)
(* bottom (last in, first out), thieves take from the top (first in, first *)
(* out), and every item leaves once.                                       *)
(***************************************************************************)
EXTENDS Naturals, Sequences, SequencesExt

CONSTANT Items

VARIABLES
    deque,          \* top first
    delivered       \* items handed out, in order

Init ==
    /\ deque = <<>>
    /\ delivered = <<>>

Push(x) ==
    /\ deque' = Append(deque, x)
    /\ UNCHANGED delivered

PopBottom ==
    /\ deque # <<>>
    /\ delivered' = Append(delivered, Last(deque))
    /\ deque' = Front(deque)

StealTop ==
    /\ deque # <<>>
    /\ delivered' = Append(delivered, Head(deque))
    /\ deque' = Tail(deque)

Next == (\E x \in Items : Push(x)) \/ PopBottom \/ StealTop

Spec == Init /\ [][Next]_<<deque, delivered>>
=============================================================================
