----------------------------- MODULE FifoMutex -----------------------------
(***************************************************************************)
(* What a ticket lock promises: requests are granted one at a time in the  *)
(* order in which they were made.  A request that is abandoned before it   *)
(* is granted keeps its place, and is never granted.                       *)
(***************************************************************************)
EXTENDS Naturals, Sequences

CONSTANTS Harts, NOBODY

VARIABLES
    queue,          \* harts that requested the lock, in order of request
    granted         \* the head of the queue holds the lock

vars == <<queue, granted>>

Init == queue = <<>> /\ granted = FALSE

Request(h) ==
    /\ queue' = Append(queue, h)
    /\ UNCHANGED granted

Grant ==
    /\ queue # <<>>
    /\ Head(queue) # NOBODY
    /\ ~granted
    /\ granted' = TRUE
    /\ UNCHANGED queue

Release ==
    /\ granted
    /\ queue' = Tail(queue)
    /\ granted' = FALSE

Abandon(i) ==
    /\ granted => i # 1
    /\ queue' = [queue EXCEPT ![i] = NOBODY]
    /\ UNCHANGED granted

Next ==
    \/ \E h \in Harts : Request(h)
    \/ Grant
    \/ Release
    \/ \E i \in DOMAIN queue : Abandon(i)

Spec == Init /\ [][Next]_vars
=============================================================================
