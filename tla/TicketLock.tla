----------------------------- MODULE TicketLock -----------------------------
(***************************************************************************)
(* TicketLock of kernel/src/lock/mod.rs.  lock() draws a ticket with one   *)
(* fetch_add and spins until it is served; the guard's drop serves the     *)
(* next ticket.  try_lock() loads both counters, and only if they agree    *)
(* draws a ticket and looks once whether it is served.  The counters are   *)
(* u32 and wrap: here modulo TICKETS.                                      *)
(***************************************************************************)
EXTENDS Integers, FiniteSets, Sequences

CONSTANTS
    Harts,
    TryHarts,       \* harts that call try_lock() as well as lock()
    NOBODY,         \* stands for the owner of an abandoned ticket
    TICKETS         \* number of distinct tickets, 2^32 in the code

ASSUME TicketAssumption ==
    /\ IsFiniteSet(Harts)
    /\ TryHarts \subseteq Harts
    /\ NOBODY \notin Harts
    /\ TICKETS \in Nat
    /\ TICKETS > 2 * Cardinality(Harts)

Tickets == 0 .. TICKETS - 1

(* fetch_add(1) on a wrapping counter. *)
Succ(n) == IF n = TICKETS - 1 THEN 0 ELSE n + 1

VARIABLES
    next_ticket,
    now_serving,
    pc,
    my_ticket,      \* the ticket each hart drew last
    current         \* try_lock: the value of now_serving it loaded

vars == <<next_ticket, now_serving, pc, my_ticket, current>>

Labels == {"idle", "waiting", "held", "try_next", "try_take", "try_check"}

(* Shapes of the two counters and of the harts' tickets and places. *)
TypeOK ==
    /\ next_ticket \in Tickets
    /\ now_serving \in Tickets
    /\ pc \in [Harts -> Labels]
    /\ my_ticket \in [Harts -> Tickets]
    /\ current \in [Harts -> Tickets]

Init ==
    /\ next_ticket = 0
    /\ now_serving = 0
    /\ pc = [h \in Harts |-> "idle"]
    /\ my_ticket = [h \in Harts |-> 0]
    /\ current = [h \in Harts |-> 0]

Goto(h, label) == pc' = [pc EXCEPT ![h] = label]

(* Back at the caller: the locals of lock() and try_lock() are gone. *)
Return(h) ==
    /\ Goto(h, "idle")
    /\ my_ticket' = [my_ticket EXCEPT ![h] = 0]
    /\ current' = [current EXCEPT ![h] = 0]

DrawTicket(h) ==
    /\ my_ticket' = [my_ticket EXCEPT ![h] = next_ticket]
    /\ next_ticket' = Succ(next_ticket)

----------------------------------------------------------------------------
Lock(h) ==
    /\ pc[h] = "idle"
    /\ DrawTicket(h)
    /\ Goto(h, "waiting")
    /\ UNCHANGED <<now_serving, current>>

(* Fault: the spin loop leaves when any ticket up to its own is served. *)
ServedEarly(h) ==
    /\ pc[h] = "waiting"
    /\ now_serving <= my_ticket[h]
    /\ Goto(h, "held")
    /\ UNCHANGED <<next_ticket, now_serving, my_ticket, current>>

(* Fault: the spin loop waits for the ticket after its own. *)
ServedLate(h) ==
    /\ pc[h] = "waiting"
    /\ now_serving = Succ(my_ticket[h])
    /\ Goto(h, "held")
    /\ UNCHANGED <<next_ticket, now_serving, my_ticket, current>>

Served(h) ==
    /\ pc[h] = "waiting"
    /\ now_serving = my_ticket[h]
    /\ Goto(h, "held")
    /\ UNCHANGED <<next_ticket, now_serving, my_ticket, current>>

Drop(h) ==
    /\ pc[h] = "held"
    /\ now_serving' = Succ(now_serving)
    /\ Return(h)
    /\ UNCHANGED next_ticket

----------------------------------------------------------------------------
(* try_lock(), one step per atomic access. *)
TryLoadServing(h) ==
    /\ pc[h] = "idle"
    /\ current' = [current EXCEPT ![h] = now_serving]
    /\ Goto(h, "try_next")
    /\ UNCHANGED <<next_ticket, now_serving, my_ticket>>

TryLoadNext(h) ==
    /\ pc[h] = "try_next"
    /\ IF current[h] = next_ticket
       THEN Goto(h, "try_take") /\ UNCHANGED <<my_ticket, current>>
       ELSE Return(h)
    /\ UNCHANGED <<next_ticket, now_serving>>

TryTake(h) ==
    /\ pc[h] = "try_take"
    /\ DrawTicket(h)
    /\ Goto(h, "try_check")
    /\ UNCHANGED <<now_serving, current>>

(* Not served at once: None is returned and the drawn ticket stays drawn. *)
TryCheck(h) ==
    /\ pc[h] = "try_check"
    /\ IF now_serving = my_ticket[h]
       THEN Goto(h, "held") /\ UNCHANGED <<my_ticket, current>>
       ELSE Return(h)
    /\ UNCHANGED <<next_ticket, now_serving>>

TryStep(h) == TryLoadServing(h) \/ TryLoadNext(h) \/ TryTake(h) \/ TryCheck(h)

LockStep(h) == Lock(h) \/ Served(h) \/ Drop(h)

Next ==
    \/ \E h \in Harts : LockStep(h)
    \/ \E h \in TryHarts : TryStep(h)

Spec == Init /\ [][Next]_vars

(* Clients that only call lock(). *)
LockNext == \E h \in Harts : LockStep(h)
LockSpec == Init /\ [][LockNext]_vars

(* A spinning hart re-reads now_serving, a guard is dropped at scope end, and
   a try_lock() call runs to its return. *)
Fairness ==
    /\ \A h \in Harts : WF_vars(Served(h)) /\ WF_vars(Drop(h))
    /\ \A h \in TryHarts : WF_vars(TryLoadNext(h) \/ TryTake(h) \/ TryCheck(h))

----------------------------------------------------------------------------
(* How many tickets are served before ticket t. *)
Ahead(t) == IF t >= now_serving THEN t - now_serving ELSE t - now_serving + TICKETS

Holders == {h \in Harts : pc[h] = "held"}
Outstanding == {h \in Harts : pc[h] \in {"waiting", "held", "try_check"}}

(* A ticket guard is exclusive, with wrapping counters and with try_lock()
   callers that walk away from tickets they drew. *)
MutualExclusion == \A g, h \in Holders : g = h

(* Callers hold distinct tickets, all of them between the served and the next
   one, with no gap, and the guard is the served ticket: the counters' wrap-around
   never makes two tickets meet.  Inductive as long as nobody abandons a ticket,
   that is for callers of lock(). *)
TicketsDistinct ==
    /\ \A h \in Outstanding : Ahead(my_ticket[h]) < Ahead(next_ticket)
    /\ \A g, h \in Outstanding : my_ticket[g] = my_ticket[h] => g = h
    /\ \A h \in Holders : my_ticket[h] = now_serving
    /\ \A i \in 0 .. Ahead(next_ticket) - 1 : \E h \in Outstanding : Ahead(my_ticket[h]) = i
    /\ Ahead(next_ticket) = Cardinality(Outstanding)

IInv == TypeOK /\ TicketsDistinct

(* The tickets drawn and not yet served, in serving order.  Nobody stands at the
   position of a ticket that its try_lock() caller walked away from. *)
ServedAt(i) == {h \in Outstanding : Ahead(my_ticket[h]) = i - 1}
ServingOrder ==
    [i \in 1 .. Ahead(next_ticket) |->
        IF ServedAt(i) = {} THEN NOBODY ELSE CHOOSE h \in ServedAt(i) : TRUE]
Abandoned == \E i \in DOMAIN ServingOrder : ServingOrder[i] = NOBODY

(* "This prevents starvation - the process that requests the lock first gets it
   first" (lock/mod.rs:287): whoever waits in lock() gets the guard, unless a
   try_lock() caller has walked away from a ticket. *)
ServedUnlessAbandoned ==
    \A h \in Harts : []<>(pc[h] # "waiting" \/ Abandoned)

(* The lock is a first-come first-served queue: a guard goes to the oldest ticket,
   and an abandoned ticket keeps its place in the queue for ever. *)
Fifo == INSTANCE FifoMutex WITH queue <- ServingOrder, granted <- (Holders # {})
FirstComeFirstServed == Fifo!Spec
=============================================================================
