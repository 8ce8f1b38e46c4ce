------------------------------- MODULE RwLock -------------------------------
(***************************************************************************)
(* RwLock of kernel/src/lock/mod.rs: one atomic word, whose top bit says   *)
(* that a writer waits or holds and whose low bits count the readers.      *)
(* A client is one guard acquisition in progress on some hart.  Every      *)
(* atomic access of the code is one step, so a load and the compare-and-   *)
(* exchange that follows it can be separated by other clients' steps.      *)
(***************************************************************************)
EXTENDS Integers, FiniteSets

CONSTANTS
    Clients,        \* guard acquisitions that compete for the lock
    WRITER_BIT      \* 2^31 in the code; any positive bound in the model

ASSUME RwLockAssumption ==
    /\ IsFiniteSet(Clients)
    /\ WRITER_BIT \in Nat \ {0}

MAX_READERS == WRITER_BIT - 1

HasWriter(word) == word >= WRITER_BIT

ReaderCount(word) == IF HasWriter(word) THEN word - WRITER_BIT ELSE word

VARIABLES
    state,          \* the atomic word
    place,          \* where each client is in read/try_read/write/try_write
    seen            \* the value of the word each client last loaded

rw_vars == <<state, place, seen>>

RwLabels == {"idle", "read", "read_cas", "try_read_cas", "reading",
             "write", "write_cas", "write_drain", "writing", "panicked"}

(* Shapes of the word, of the words loaded for a CAS and of the callers' places. *)
RwTypeOK ==
    /\ state \in 0 .. 2 * WRITER_BIT - 1
    /\ place \in [Clients -> RwLabels]
    /\ seen \in [Clients -> 0 .. 2 * WRITER_BIT - 1]

RwInit ==
    /\ state = 0
    /\ place = [c \in Clients |-> "idle"]
    /\ seen = [c \in Clients |-> 0]

RwGoto(c, label) == place' = [place EXCEPT ![c] = label]

----------------------------------------------------------------------------
(* read(): spin until no writer is there, then add one to the count. *)
ReadCall(c) ==
    /\ place[c] = "idle"
    /\ RwGoto(c, "read")
    /\ UNCHANGED <<state, seen>>

ReadLoad(c) ==
    /\ place[c] = "read"
    /\ ~HasWriter(state)
    /\ seen' = [seen EXCEPT ![c] = state]
    /\ RwGoto(c, IF ReaderCount(state) >= MAX_READERS THEN "panicked" ELSE "read_cas")
    /\ UNCHANGED state

(* Fault: the count is raised with fetch_add, whatever the word has become. *)
ReadCasBlind(c) ==
    /\ place[c] = "read_cas"
    /\ state' = (state + 1) % (2 * WRITER_BIT)
    /\ RwGoto(c, "reading")
    /\ UNCHANGED seen

(* compare_exchange_weak may fail although the word has not changed. *)
ReadCas(c) ==
    /\ place[c] = "read_cas"
    /\ \/ state = seen[c] /\ state' = state + 1 /\ RwGoto(c, "reading")
       \/ RwGoto(c, "read") /\ UNCHANGED state
    /\ UNCHANGED seen

(* try_read(): one attempt; None leaves the client idle. *)
TryReadLoad(c) ==
    /\ place[c] = "idle"
    /\ ~HasWriter(state)
    /\ ReaderCount(state) < MAX_READERS
    /\ seen' = [seen EXCEPT ![c] = state]
    /\ RwGoto(c, "try_read_cas")
    /\ UNCHANGED state

TryReadCas(c) ==
    /\ place[c] = "try_read_cas"
    /\ \/ state = seen[c] /\ state' = state + 1 /\ RwGoto(c, "reading")
       \/ RwGoto(c, "idle") /\ UNCHANGED state
    /\ UNCHANGED seen

(* Fault: a reader's guard is dropped without releasing its count. *)
ReadDropLeaks(c) ==
    /\ place[c] = "reading"
    /\ RwGoto(c, "idle")
    /\ UNCHANGED <<state, seen>>

(* Drop of RwLockReadGuard: fetch_sub(1). *)
ReadDrop(c) ==
    /\ place[c] = "reading"
    /\ state' = state - 1
    /\ RwGoto(c, "idle")
    /\ UNCHANGED seen

----------------------------------------------------------------------------
(* write(): set the writer bit over whatever readers there are, then wait
   until the word is the writer bit alone. *)
WriteCall(c) ==
    /\ place[c] = "idle"
    /\ RwGoto(c, "write")
    /\ UNCHANGED <<state, seen>>

WriteLoad(c) ==
    /\ place[c] = "write"
    /\ ~HasWriter(state)
    /\ seen' = [seen EXCEPT ![c] = state]
    /\ RwGoto(c, "write_cas")
    /\ UNCHANGED state

WriteCas(c) ==
    /\ place[c] = "write_cas"
    /\ \/ state = seen[c] /\ state' = state + WRITER_BIT /\ RwGoto(c, "write_drain")
       \/ RwGoto(c, "write") /\ UNCHANGED state
    /\ UNCHANGED seen

(* Fault: the writer enters as soon as it owns the bit. *)
WriteDrainEarly(c) ==
    /\ place[c] = "write_drain"
    /\ RwGoto(c, "writing")
    /\ UNCHANGED <<state, seen>>

WriteDrain(c) ==
    /\ place[c] = "write_drain"
    /\ state = WRITER_BIT
    /\ RwGoto(c, "writing")
    /\ UNCHANGED <<state, seen>>

(* try_write(): a single strong exchange of 0 for the writer bit. *)
TryWrite(c) ==
    /\ place[c] = "idle"
    /\ state = 0
    /\ state' = WRITER_BIT
    /\ RwGoto(c, "writing")
    /\ UNCHANGED seen

(* Drop of RwLockWriteGuard: fetch_and(!WRITER_BIT). *)
WriteDrop(c) ==
    /\ place[c] = "writing"
    /\ state' = ReaderCount(state)
    /\ RwGoto(c, "idle")
    /\ UNCHANGED seen

----------------------------------------------------------------------------
RwStep(c) ==
    \/ ReadCall(c) \/ ReadLoad(c) \/ ReadCas(c)
    \/ TryReadLoad(c) \/ TryReadCas(c) \/ ReadDrop(c)
    \/ WriteCall(c) \/ WriteLoad(c) \/ WriteCas(c) \/ WriteDrain(c)
    \/ TryWrite(c) \/ WriteDrop(c)

RwNext == \E c \in Clients : RwStep(c)

RwSpec == RwInit /\ [][RwNext]_rw_vars

(* Guards are dropped at the end of a scope, and a hart that spins keeps
   running: holders release, and a draining writer re-reads the word. *)
RwFairness ==
    \A c \in Clients : WF_rw_vars(ReadDrop(c)) /\ WF_rw_vars(WriteDrain(c))

----------------------------------------------------------------------------
Readers == {c \in Clients : place[c] = "reading"}
Writers == {c \in Clients : place[c] = "writing"}
BitOwners == {c \in Clients : place[c] \in {"write_drain", "writing"}}

(* RwLock "multiple readers OR one writer" (lock/mod.rs:6): a write guard
   never coexists with another guard of either kind. *)
Exclusion ==
    \A c \in Writers : Readers = {} /\ Writers = {c}

(* The word is the truth: it counts exactly the live read guards, and the
   writer bit is set exactly while one writer waits for the readers or holds.
   This is what makes fetch_sub and fetch_and in the guard drops safe. *)
WordMatchesGuards ==
    /\ ReaderCount(state) = Cardinality(Readers)
    /\ HasWriter(state) <=> BitOwners # {}
    /\ \A c, d \in BitOwners : c = d

(* A client about to exchange the word saw no writer, and a reader saw room
   for one more: what the exchange relies on when it succeeds. *)
SeenWordAdmits ==
    \A c \in Clients :
        /\ place[c] \in {"read_cas", "try_read_cas"} => seen[c] < MAX_READERS
        /\ place[c] = "write_cas" => ~HasWriter(seen[c])

(* The inductive invariant: the word counts the guards, exchanges are
   admissible, and so guards exclude each other. *)
RwIInv == RwTypeOK /\ WordMatchesGuards /\ SeenWordAdmits /\ Exclusion

(* "Blocks if a writer is holding or waiting for the lock" (lock/mod.rs:485):
   from the moment a writer has set its bit, no client becomes a reader. *)
NoReaderOvertakesWriter ==
    [][BitOwners # {} => Readers' \subseteq Readers]_rw_vars

(* A writer that has set its bit is not starved by readers: new ones are kept
   out, so the word drains to the writer bit and write() returns. *)
WaitingWriterGetsIn ==
    \A c \in Clients : []<>(place[c] # "write_drain")

(* The word-level algorithm implements the abstract reader-writer lock. *)
RW == INSTANCE ReadersWriter WITH readers <- Readers, writers <- Writers
ImplementsReadersWriter == RW!Spec
=============================================================================
