--------------------------- MODULE ReadersWriter ---------------------------
(***************************************************************************)
(* What a reader-writer lock promises its callers: any number of clients   *)
(* hold it for reading, or exactly one holds it for writing.               *)
(***************************************************************************)
CONSTANT Clients

VARIABLES readers, writers

vars == <<readers, writers>>

Init == readers = {} /\ writers = {}

BeginRead(c) ==
    /\ writers = {}
    /\ c \notin readers
    /\ readers' = readers \union {c}
    /\ UNCHANGED writers

EndRead(c) ==
    /\ c \in readers
    /\ readers' = readers \ {c}
    /\ UNCHANGED writers

BeginWrite(c) ==
    /\ readers = {}
    /\ writers = {}
    /\ writers' = {c}
    /\ UNCHANGED readers

EndWrite(c) ==
    /\ writers = {c}
    /\ writers' = {}
    /\ UNCHANGED readers

Next == \E c \in Clients : BeginRead(c) \/ EndRead(c) \/ BeginWrite(c) \/ EndWrite(c)

Spec == Init /\ [][Next]_vars
=============================================================================
