---------------------------- MODULE MCPrimitives ----------------------------
(* The three locks and the work-stealing deque, each exercised by          *)
(* behaviours of its own: the first state says which one the harts use.    *)
EXTENDS RwLock, Spinlock, TicketLock, ChaseLev

VARIABLE used

MCInit ==
    /\ RwInit /\ SpinInit /\ Init /\ DequeInit
    /\ used \in {"RwLock", "Spinlock", "TicketLock", "WorkStealingDeque"}

MCNext ==
    /\ \/ /\ used = "RwLock" /\ RwNext
          /\ UNCHANGED <<spin_vars, vars, deque_vars>>
       \/ /\ used = "Spinlock" /\ SpinNext
          /\ UNCHANGED <<rw_vars, vars, deque_vars>>
       \/ /\ used = "TicketLock" /\ Next
          /\ UNCHANGED <<rw_vars, spin_vars, deque_vars>>
       \/ /\ used = "WorkStealingDeque" /\ DequeNext
          /\ UNCHANGED <<rw_vars, spin_vars, vars>>
    /\ UNCHANGED used

MCSpec ==
    /\ MCInit /\ [][MCNext]_<<rw_vars, spin_vars, vars, deque_vars, used>>
    /\ RwFairness /\ Fairness
=============================================================================
