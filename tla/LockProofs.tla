----------------------------- MODULE LockProofs -----------------------------
(***************************************************************************)
(* Proofs about the locks.                                                 *)
(*                                                                         *)
(* Spinlock, for any number of harts.  The holder word is written outside  *)
(* the exchange; SpinIInv says what it may name in between.                *)
(*                                                                         *)
(* TicketLock when every caller uses lock(), for any finite set of harts   *)
(* and any ticket width larger than twice their number: the wrapping       *)
(* counters never let two tickets meet.                                    *)
(*                                                                         *)
(* RwLock, for any finite set of clients and any width of the word.  The   *)
(* core is that RwIInv is inductive: the reader count moves with the set   *)
(* of read guards, and the writer bit with its one owner.                  *)
(***************************************************************************)
EXTENDS Spinlock, TicketLock, RwLock, FiniteSetTheorems, TLAPS

LEMMA SpinInitIInv == SpinInit => SpinIInv
  BY Zenon DEF SpinInit, SpinIInv, SpinTypeOK, SpinExclusion, Inside, SpinLabels

LEMMA SpinStepIInv == SpinIInv /\ [SpinNext]_spin_vars => SpinIInv'
  <1> SUFFICES ASSUME SpinIInv, [SpinNext]_spin_vars PROVE SpinIInv'
    BY Zenon
  <1> USE SpinlockAssumption DEF SpinIInv, SpinTypeOK, SpinExclusion, Inside, SpinLabels
  <1>1. CASE UNCHANGED spin_vars
    BY <1>1, Zenon DEF spin_vars
  <1>2. ASSUME NEW h \in SpinHarts, LockCall(h) PROVE SpinIInv'
    BY <1>2 DEF LockCall, SpinGoto
  <1>3. ASSUME NEW h \in SpinHarts, SwapWins(h) \/ TryLock(h) PROVE SpinIInv'
    <2>1. \A g \in SpinHarts : at[g] \notin {"acquired", "held", "respin", "dropping", "panicked"}
      BY <1>3, Zenon DEF SwapWins, TryLock
    <2>2. locked' = TRUE /\ holder' = holder /\ at' = [at EXCEPT ![h] = "acquired"]
      BY <1>3, Zenon DEF SwapWins, TryLock, SpinGoto
    <2>3. SpinTypeOK'
      BY <2>2, Zenon
    <2>4. SpinExclusion'
      BY <2>1, <2>2
    <2>5. holder = NoHart
      BY <2>1, Zenon
    <2> QED
      BY <2>2, <2>3, <2>4, <2>5, Zenon
  <1>4. ASSUME NEW h \in SpinHarts, StoreHolder(h) PROVE SpinIInv'
    BY <1>4 DEF StoreHolder, SpinGoto
  <1>5. ASSUME NEW h \in SpinHarts, Relock(h) PROVE SpinIInv'
    BY <1>5 DEF Relock, SpinGoto
  <1>6. ASSUME NEW h \in SpinHarts, DetectDeadlock(h) PROVE SpinIInv'
    BY <1>6 DEF DetectDeadlock, SpinGoto
  <1>7. ASSUME NEW h \in SpinHarts, DropClearHolder(h) PROVE SpinIInv'
    BY <1>7 DEF DropClearHolder, SpinGoto
  <1>8. ASSUME NEW h \in SpinHarts, DropRelease(h) PROVE SpinIInv'
    <2>1. \A g \in SpinHarts : at'[g] \notin {"acquired", "held", "respin", "dropping", "panicked"}
      BY <1>8 DEF DropRelease, SpinGoto
    <2>2. holder = NoHart
      BY <1>8 DEF DropRelease
    <2> QED
      BY <1>8, <2>1, <2>2, Zenon DEF DropRelease, SpinGoto
  <1> QED
    BY <1>1, <1>2, <1>3, <1>4, <1>5, <1>6, <1>7, <1>8 DEF SpinNext, SpinStep

(* The exchanged word, the holder word and the harts inside always agree. *)
THEOREM SpinlockInvariant == SpinSpec => []SpinIInv
  BY SpinInitIInv, SpinStepIInv, PTL DEF SpinSpec

(* One hart at most is between its winning exchange and its release. *)
THEOREM SpinlockExclusion == SpinSpec => []SpinExclusion
  BY SpinlockInvariant, PTL DEF SpinIInv

(* The debug build's deadlock panic never hits a hart that merely waits. *)
THEOREM SpinlockNoFalseAlarm == SpinSpec => PanicOnlyWhenReentrant
  <1> DEFINE Alarm == \A h \in SpinHarts :
                 at[h] # "panicked" /\ at'[h] = "panicked" => at[h] = "respin"
  <1>1. SpinIInv /\ [SpinNext]_spin_vars => [Alarm]_spin_vars
    <2> SUFFICES ASSUME SpinIInv, NEW g \in SpinHarts, SpinStep(g), NEW h \in SpinHarts,
                        at[h] # "panicked", at'[h] = "panicked"
                 PROVE  at[h] = "respin"
      BY Zenon DEF SpinNext, spin_vars
    <2> QED
      BY SpinlockAssumption, Zenon DEF SpinIInv, SpinTypeOK, SpinLabels, SpinStep, LockCall, SwapWins, TryLock, StoreHolder, Relock,
         DetectDeadlock, DropClearHolder, DropRelease, SpinGoto
  <1> QED
    BY <1>1, SpinlockInvariant, PTL DEF SpinSpec, PanicOnlyWhenReentrant

-----------------------------------------------------------------------------
(* A distance is a number of tickets, and it determines the ticket. *)
LEMMA AheadFacts ==
    ASSUME now_serving \in Tickets
    PROVE  /\ \A t \in Tickets : Ahead(t) \in Tickets
           /\ \A t, u \in Tickets : Ahead(t) = Ahead(u) => t = u
           /\ \A t \in Tickets : Ahead(t) = 0 <=> t = now_serving
           /\ \A t \in Tickets : Ahead(t) < TICKETS - 1 => Ahead(Succ(t)) = Ahead(t) + 1
           /\ \A t \in Tickets : Succ(t) \in Tickets
  BY TicketAssumption, FS_CardinalityType DEF Tickets, Ahead, Succ

(* The outstanding requests can be counted, and there is one per hart at most. *)
LEMMA OutstandingFinite ==
    /\ IsFiniteSet(Outstanding)
    /\ Cardinality(Outstanding) \in Nat
    /\ \A h \in Harts : h \notin Outstanding => Cardinality(Outstanding) < Cardinality(Harts)
  <1>1. Outstanding \in SUBSET Harts
    BY Zenon DEF Outstanding
  <1>2. IsFiniteSet(Outstanding) /\ Cardinality(Outstanding) \in Nat
    BY <1>1, TicketAssumption, FS_Subset, FS_CardinalityType
  <1>3. ASSUME NEW h \in Harts, h \notin Outstanding
        PROVE  Cardinality(Outstanding) < Cardinality(Harts)
    <2>1. /\ Cardinality(Outstanding) <= Cardinality(Harts)
          /\ Cardinality(Harts) = Cardinality(Outstanding) => Harts = Outstanding
      BY <1>1, TicketAssumption, FS_Subset, Zenon
    <2> QED
      BY <1>2, <1>3, <2>1, TicketAssumption, FS_CardinalityType
  <1> QED
    BY <1>2, <1>3, Zenon

LEMMA InitIInv == Init => IInv
  <1> SUFFICES ASSUME Init PROVE IInv
    BY Zenon
  <1>1. Outstanding = {} /\ Holders = {}
    BY Zenon DEF Init, Outstanding, Holders
  <1>2. TICKETS \in Nat /\ TICKETS > 0
    BY TicketAssumption, FS_CardinalityType
  <1>3. TypeOK
    BY <1>2 DEF Init, TypeOK, Tickets, Labels
  <1>4. Ahead(next_ticket) = 0 /\ Cardinality(Outstanding) = 0
    BY <1>1, FS_EmptySet DEF Init, Ahead
  <1> QED
    BY <1>1, <1>3, <1>4 DEF IInv, TicketsDistinct

LEMMA StepIInv == IInv /\ [LockNext]_vars => IInv'
  <1> SUFFICES ASSUME TypeOK, TicketsDistinct, [LockNext]_vars
               PROVE  TypeOK' /\ TicketsDistinct'
    BY Zenon DEF IInv
  <1>0. /\ now_serving \in Tickets /\ next_ticket \in Tickets
        /\ \A h \in Outstanding : h \in Harts /\ my_ticket[h] \in Tickets
        /\ Holders \subseteq Outstanding
        /\ TICKETS \in Nat
    BY TicketAssumption, Zenon DEF TypeOK, Outstanding, Holders
  <1>1. CASE UNCHANGED vars
    <2>1. UNCHANGED <<Outstanding, Holders>>
      BY <1>1, Zenon DEF vars, Outstanding, Holders
    <2> QED
      BY <1>1, <2>1 DEF vars, TypeOK, TicketsDistinct, Ahead
  <1>2. ASSUME NEW h \in Harts, Lock(h) PROVE TypeOK' /\ TicketsDistinct'
    <2>1. /\ h \notin Outstanding
          /\ Outstanding' = Outstanding \cup {h}
          /\ Holders' = Holders
      BY <1>2, Zenon DEF Lock, Goto, TypeOK, Labels, Outstanding, Holders
    <2>2. /\ next_ticket' = Succ(next_ticket)
          /\ my_ticket'[h] = next_ticket
          /\ \A g \in Outstanding : my_ticket'[g] = my_ticket[g]
          /\ now_serving' = now_serving
      BY <1>0, <1>2, <2>1, Zenon DEF Lock, DrawTicket, TypeOK
    <2>3. TypeOK'
      BY <1>0, <1>2, AheadFacts, Zenon DEF Lock, DrawTicket, Goto, TypeOK, Labels
    <2>4. Ahead(next_ticket) < TICKETS - 1
      BY <1>0, <2>1, OutstandingFinite, TicketAssumption, FS_CardinalityType DEF TicketsDistinct
    <2>5. /\ Ahead(next_ticket)' = Ahead(next_ticket) + 1
          /\ Ahead(my_ticket[h])' = Ahead(next_ticket)
          /\ \A g \in Outstanding : Ahead(my_ticket[g])' = Ahead(my_ticket[g])
      BY <1>0, <2>2, <2>4, AheadFacts, Zenon DEF Ahead
    <2>6. Cardinality(Outstanding') = Cardinality(Outstanding) + 1
      BY <2>1, OutstandingFinite, FS_AddElement, Zenon
    <2>7. Ahead(next_ticket) \in Nat /\ \A g \in Outstanding : Ahead(my_ticket[g]) \in Nat
      BY <1>0, AheadFacts DEF Tickets
    <2>8. ASSUME NEW g \in Outstanding, my_ticket[g] = next_ticket PROVE FALSE
      <3>1. Ahead(next_ticket) < Ahead(next_ticket)
        BY <2>8, Zenon DEF TicketsDistinct
      <3> QED
        BY <2>7, <3>1
    <2>9. \A i \in 0 .. Ahead(next_ticket)' - 1 :
            \E g \in Outstanding' : Ahead(my_ticket[g])' = i
      <3>1. ASSUME NEW i \in 0 .. Ahead(next_ticket)' - 1
            PROVE  i = Ahead(next_ticket) \/ i \in 0 .. Ahead(next_ticket) - 1
        BY <2>5, <2>7
      <3> QED
        BY <2>1, <2>5, <3>1, Zenon DEF TicketsDistinct
    <2> QED
      BY <1>0, <2>1, <2>2, <2>3, <2>5, <2>6, <2>7, <2>8, <2>9 DEF TicketsDistinct
  <1>3. ASSUME NEW h \in Harts, Served(h) PROVE TypeOK' /\ TicketsDistinct'
    <2>1. Outstanding' = Outstanding /\ Holders' = Holders \cup {h}
      BY <1>3, Zenon DEF Served, Goto, TypeOK, Labels, Outstanding, Holders
    <2>2. TypeOK'
      BY <1>3, Zenon DEF Served, Goto, TypeOK, Labels
    <2> QED
      BY <1>3, <2>1, <2>2 DEF Served, TicketsDistinct, Ahead
  <1>4. ASSUME NEW h \in Harts, Drop(h) PROVE TypeOK' /\ TicketsDistinct'
    <2>1. /\ h \in Holders
          /\ Outstanding' = Outstanding \ {h}
          /\ Holders' = Holders \ {h}
      BY <1>4, Zenon DEF Drop, Return, Goto, TypeOK, Labels, Outstanding, Holders
    <2>2. /\ next_ticket' = next_ticket
          /\ \A g \in Outstanding' : g # h /\ my_ticket'[g] = my_ticket[g]
          /\ now_serving' = Succ(now_serving)
      BY <1>0, <1>4, <2>1, Zenon DEF Drop, Return, TypeOK
    <2>3. TypeOK'
      BY <1>0, <1>4, AheadFacts, TicketAssumption DEF Drop, Return, Goto, TypeOK, Labels, Tickets
    <2>4. my_ticket[h] = now_serving /\ Ahead(my_ticket[h]) = 0
      BY <1>0, <2>1, AheadFacts, Zenon DEF TicketsDistinct
    <2>5. \A g \in Outstanding' : my_ticket[g] # now_serving
      BY <1>0, <2>1, <2>4, Zenon DEF TicketsDistinct
    <2>6. Holders' = {}
      BY <1>0, <2>1, <2>5, Zenon DEF TicketsDistinct
    <2>7. next_ticket # now_serving
      BY <1>0, <2>1, <2>4, AheadFacts DEF TicketsDistinct
    <2>8. /\ Ahead(next_ticket)' = Ahead(next_ticket) - 1
          /\ \A g \in Outstanding' : Ahead(my_ticket[g])' = Ahead(my_ticket[g]) - 1
      <3>1. \A g \in Outstanding' : my_ticket[g] \in Tickets
        BY <1>0, <2>1, Zenon
      <3>2. \A t \in Tickets : t # now_serving =>
               (IF t >= now_serving' THEN t - now_serving' ELSE t - now_serving' + TICKETS)
                 = Ahead(t) - 1
        BY <1>0, <2>2, TicketAssumption, FS_CardinalityType DEF Tickets, Ahead, Succ
      <3> QED
        BY <1>0, <2>2, <2>5, <2>7, <3>1, <3>2, Zenon DEF Ahead
    <2>9. Cardinality(Outstanding') = Cardinality(Outstanding) - 1
      BY <1>0, <2>1, OutstandingFinite, FS_RemoveElement, Zenon
    <2>10. Ahead(next_ticket) \in Nat /\ \A g \in Outstanding : Ahead(my_ticket[g]) \in Nat
      BY <1>0, AheadFacts DEF Tickets
    <2>11. \A i \in 0 .. Ahead(next_ticket)' - 1 :
             \E g \in Outstanding' : Ahead(my_ticket[g])' = i
      <3> SUFFICES ASSUME NEW i \in 0 .. Ahead(next_ticket)' - 1
                   PROVE  \E g \in Outstanding' : Ahead(my_ticket[g])' = i
        BY Zenon
      <3>1. i + 1 \in 0 .. Ahead(next_ticket) - 1
        BY <2>8, <2>10
      <3>2. PICK g \in Outstanding : Ahead(my_ticket[g]) = i + 1
        BY <3>1, Zenon DEF TicketsDistinct
      <3>3. g \in Outstanding'
        BY <2>1, <2>4, <3>2
      <3> QED
        BY <2>8, <3>2, <3>3
    <2> QED
      BY <1>0, <2>1, <2>2, <2>3, <2>6, <2>8, <2>9, <2>10, <2>11 DEF TicketsDistinct
  <1> QED
    BY <1>1, <1>2, <1>3, <1>4, Zenon DEF LockNext, LockStep

(* Tickets drawn by lock() stay distinct and contiguous, and the guard belongs to
   the ticket being served, whatever the number of harts and however often the
   u32 counters wrap. *)
THEOREM TicketLockInvariant == LockSpec => []IInv
  BY InitIInv, StepIInv, PTL DEF LockSpec

(* lock() is mutually exclusive: two guards would hold the served ticket. *)
THEOREM TicketLockExclusion == LockSpec => []MutualExclusion
  <1>1. IInv => MutualExclusion
    BY DEF IInv, TicketsDistinct, MutualExclusion, Holders, Outstanding
  <1> QED
    BY <1>1, TicketLockInvariant, PTL

----------------------------------------------------------------------------
(* The read guards form a finite set, so that they can be counted. *)
LEMMA ReadersFinite ==
    /\ IsFiniteSet(Readers)
    /\ Cardinality(Readers) \in Nat
    /\ Cardinality(Readers) = 0 <=> Readers = {}
  <1>1. Readers \in SUBSET Clients
    BY Zenon DEF Readers
  <1>2. IsFiniteSet(Readers)
    BY <1>1, RwLockAssumption, FS_Subset, Zenon
  <1> QED
    BY <1>2, FS_CardinalityType, FS_EmptySet, Zenon

(* Gaining or losing one read guard moves the count by one. *)
LEMMA CountMoves ==
    ASSUME NEW c \in Clients
    PROVE  /\ c \notin Readers => Cardinality(Readers \cup {c}) = Cardinality(Readers) + 1
           /\ c \notin Readers => Readers \ {c} = Readers
           /\ c \in Readers => Cardinality(Readers \ {c}) = Cardinality(Readers) - 1
  <1>1. IsFiniteSet(Readers)
    BY ReadersFinite, Zenon
  <1>2. c \notin Readers => Cardinality(Readers \cup {c}) = Cardinality(Readers) + 1
    BY <1>1, FS_AddElement, Zenon
  <1>3. c \in Readers => Cardinality(Readers \ {c}) = Cardinality(Readers) - 1
    BY <1>1, FS_RemoveElement, Zenon
  <1>4. c \notin Readers => Readers \ {c} = Readers
    BY Zenon
  <1> QED
    BY <1>2, <1>3, <1>4, Zenon

LEMMA RwInitIInv == RwInit => RwIInv
  <1> SUFFICES ASSUME RwInit PROVE RwIInv
    BY Zenon
  <1>1. Readers = {} /\ Writers = {} /\ BitOwners = {}
    BY Zenon DEF RwInit, Readers, Writers, BitOwners
  <1> QED
    BY <1>1, ReadersFinite, RwLockAssumption
    DEF RwInit, RwIInv, RwTypeOK, WordMatchesGuards, SeenWordAdmits, Exclusion,
        RwLabels, HasWriter, ReaderCount

(* Each step of each client keeps the inductive invariant.  Under each action:
   what it does to the sets of guards, then the types and the loaded words,
   then the word against the guards. *)
LEMMA RwStepIInv == RwIInv /\ [RwNext]_rw_vars => RwIInv'
  <1> SUFFICES ASSUME RwTypeOK, WordMatchesGuards, SeenWordAdmits, Exclusion, [RwNext]_rw_vars
               PROVE  RwIInv'
    BY Zenon DEF RwIInv
  <1> DEFINE Local == RwTypeOK' /\ SeenWordAdmits'
             Global == WordMatchesGuards' /\ Exclusion'
  <1>1. Local /\ Global => RwIInv'
    BY Zenon DEF RwIInv
  <1> HIDE DEF Local, Global
  <1>2. CASE UNCHANGED rw_vars
    BY <1>1, <1>2, Zenon DEF rw_vars, Local, Global, RwTypeOK, WordMatchesGuards, SeenWordAdmits,
       Exclusion, Readers, Writers, BitOwners
  <1>3. ASSUME NEW c \in Clients, RwStep(c) PROVE Local /\ Global
    <2>0. /\ ReaderCount(state) = Cardinality(Readers)
          /\ HasWriter(state) <=> BitOwners # {}
          /\ Writers \subseteq BitOwners
          /\ \A d, e \in BitOwners : d = e
          /\ \A d \in Writers : Readers = {} /\ Writers = {d}
      BY Zenon DEF WordMatchesGuards, Exclusion, Readers, Writers, BitOwners
    <2>1. CASE ReadCall(c)
      <3>1. UNCHANGED <<state, Readers, Writers, BitOwners>>
        BY <2>1, Zenon DEF ReadCall, RwGoto, RwTypeOK, RwLabels, Readers, Writers, BitOwners
      <3>2. Local
        BY <2>1, RwLockAssumption DEF ReadCall, RwGoto, Local, RwTypeOK, SeenWordAdmits, RwLabels,
           HasWriter, ReaderCount, MAX_READERS
      <3> QED
        BY <2>0, <3>1, <3>2 DEF Global, WordMatchesGuards, Exclusion, HasWriter, ReaderCount
    <2>2. CASE ReadLoad(c)
      <3>1. UNCHANGED <<state, Readers, Writers, BitOwners>>
        BY <2>2, Zenon DEF ReadLoad, RwGoto, RwTypeOK, RwLabels, Readers, Writers, BitOwners
      <3>2. Local
        BY <2>2, RwLockAssumption DEF ReadLoad, RwGoto, Local, RwTypeOK, SeenWordAdmits, RwLabels,
           HasWriter, ReaderCount, MAX_READERS
      <3> QED
        BY <2>0, <3>1, <3>2, Zenon DEF Global, WordMatchesGuards, Exclusion, HasWriter, ReaderCount
    <2>3. CASE ReadCas(c)
      <3>1. CASE place'[c] = "reading"
        <4>1. /\ state' = state + 1
              /\ state \in 0 .. MAX_READERS - 1
              /\ c \notin Readers
          BY <2>3, <3>1, RwLockAssumption DEF ReadCas, RwGoto, RwTypeOK, SeenWordAdmits, Readers,
             MAX_READERS
        <4>2. /\ Readers' = Readers \cup {c}
              /\ UNCHANGED <<Writers, BitOwners>>
          BY <2>3, <3>1, Zenon DEF ReadCas, RwGoto, RwTypeOK, RwLabels, Readers, Writers, BitOwners
        <4>3. Local
          BY <2>3, <4>1, RwLockAssumption DEF ReadCas, RwGoto, Local, RwTypeOK, SeenWordAdmits,
             RwLabels, HasWriter, MAX_READERS
        <4>4. BitOwners = {} /\ Writers = {}
          BY <2>0, <4>1, RwLockAssumption DEF HasWriter, MAX_READERS
        <4>5. Cardinality(Readers') = Cardinality(Readers) + 1
          BY <4>1, <4>2, CountMoves, Zenon
        <4> QED
          BY <2>0, <4>1, <4>2, <4>3, <4>4, <4>5, RwLockAssumption
          DEF Global, WordMatchesGuards, Exclusion, HasWriter, ReaderCount, MAX_READERS
      <3>2. CASE place'[c] # "reading"
        <4>1. UNCHANGED <<state, Readers, Writers, BitOwners>>
          BY <2>3, <3>2, Zenon DEF ReadCas, RwGoto, RwTypeOK, RwLabels, Readers, Writers, BitOwners
        <4>2. Local
          BY <2>3, <4>1 DEF ReadCas, RwGoto, Local, RwTypeOK, SeenWordAdmits, RwLabels
        <4> QED
          BY <2>0, <4>1, <4>2, Zenon DEF Global, WordMatchesGuards, Exclusion, HasWriter, ReaderCount
      <3> QED
        BY <3>1, <3>2, Zenon
    <2>4. CASE TryReadLoad(c)
      <3>1. UNCHANGED <<state, Readers, Writers, BitOwners>>
        BY <2>4, Zenon DEF TryReadLoad, RwGoto, RwTypeOK, RwLabels, Readers, Writers, BitOwners
      <3>2. Local
        BY <2>4, RwLockAssumption DEF TryReadLoad, RwGoto, Local, RwTypeOK, SeenWordAdmits, RwLabels,
           HasWriter, ReaderCount, MAX_READERS
      <3> QED
        BY <2>0, <3>1, <3>2, Zenon DEF Global, WordMatchesGuards, Exclusion, HasWriter, ReaderCount
    <2>5. CASE TryReadCas(c)
      <3>1. CASE place'[c] = "reading"
        <4>1. /\ state' = state + 1
              /\ state \in 0 .. MAX_READERS - 1
              /\ c \notin Readers
          BY <2>5, <3>1, RwLockAssumption DEF TryReadCas, RwGoto, RwTypeOK, SeenWordAdmits, Readers,
             MAX_READERS
        <4>2. /\ Readers' = Readers \cup {c}
              /\ UNCHANGED <<Writers, BitOwners>>
          BY <2>5, <3>1 DEF TryReadCas, RwGoto, RwTypeOK, RwLabels, Readers, Writers, BitOwners
        <4>3. Local
          BY <2>5, <4>1, RwLockAssumption DEF TryReadCas, RwGoto, Local, RwTypeOK, SeenWordAdmits,
             RwLabels, HasWriter, MAX_READERS
        <4>4. BitOwners = {} /\ Writers = {}
          BY <2>0, <4>1, RwLockAssumption DEF HasWriter, MAX_READERS
        <4>5. Cardinality(Readers') = Cardinality(Readers) + 1
          BY <4>1, <4>2, CountMoves, Zenon
        <4> QED
          BY <2>0, <4>1, <4>2, <4>3, <4>4, <4>5, RwLockAssumption
          DEF Global, WordMatchesGuards, Exclusion, HasWriter, ReaderCount, MAX_READERS
      <3>2. CASE place'[c] # "reading"
        <4>1. UNCHANGED <<state, Readers, Writers, BitOwners>>
          BY <2>5, <3>2, Zenon DEF TryReadCas, RwGoto, RwTypeOK, RwLabels, Readers, Writers, BitOwners
        <4>2. Local
          BY <2>5, <4>1 DEF TryReadCas, RwGoto, Local, RwTypeOK, SeenWordAdmits, RwLabels
        <4> QED
          BY <2>0, <4>1, <4>2, Zenon DEF Global, WordMatchesGuards, Exclusion, HasWriter, ReaderCount
      <3> QED
        BY <3>1, <3>2, Zenon
    <2>6. CASE ReadDrop(c)
      <3>1. /\ c \in Readers
            /\ Readers' = Readers \ {c}
            /\ UNCHANGED <<Writers, BitOwners>>
        BY <2>6, Zenon DEF ReadDrop, RwGoto, RwTypeOK, RwLabels, Readers, Writers, BitOwners
      <3>2. /\ Cardinality(Readers') = Cardinality(Readers) - 1
            /\ ReaderCount(state) >= 1
        BY <2>0, <3>1, ReadersFinite, CountMoves
      <3>3. /\ state' = state - 1
            /\ ReaderCount(state') = ReaderCount(state) - 1
            /\ HasWriter(state') <=> HasWriter(state)
        BY <2>6, <3>2, RwLockAssumption DEF ReadDrop, ReaderCount, HasWriter, RwTypeOK
      <3>4. Local
        BY <2>6, <3>2, <3>3, RwLockAssumption DEF ReadDrop, RwGoto, Local, RwTypeOK, SeenWordAdmits,
           RwLabels, HasWriter, ReaderCount
      <3> QED
        BY <2>0, <3>1, <3>2, <3>3, <3>4 DEF Global, WordMatchesGuards, Exclusion
    <2>7. CASE WriteCall(c)
      <3>1. UNCHANGED <<state, Readers, Writers, BitOwners>>
        BY <2>7, Zenon DEF WriteCall, RwGoto, RwTypeOK, RwLabels, Readers, Writers, BitOwners
      <3>2. Local
        BY <2>7, RwLockAssumption DEF WriteCall, RwGoto, Local, RwTypeOK, SeenWordAdmits, RwLabels,
           HasWriter, ReaderCount, MAX_READERS
      <3> QED
        BY <2>0, <3>1, <3>2, Zenon DEF Global, WordMatchesGuards, Exclusion, HasWriter, ReaderCount
    <2>8. CASE WriteLoad(c)
      <3>1. UNCHANGED <<state, Readers, Writers, BitOwners>>
        BY <2>8, Zenon DEF WriteLoad, RwGoto, RwTypeOK, RwLabels, Readers, Writers, BitOwners
      <3>2. Local
        BY <2>8, RwLockAssumption, Zenon DEF WriteLoad, RwGoto, Local, RwTypeOK, SeenWordAdmits, RwLabels,
           HasWriter, ReaderCount, MAX_READERS
      <3> QED
        BY <2>0, <3>1, <3>2, Zenon DEF Global, WordMatchesGuards, Exclusion, HasWriter, ReaderCount
    <2>9. CASE WriteCas(c)
      <3>1. CASE place'[c] = "write_drain"
        <4>1. state' = state + WRITER_BIT /\ ~HasWriter(state)
          BY <2>9, <3>1, Zenon DEF WriteCas, RwGoto, RwTypeOK, SeenWordAdmits
        <4>2. /\ BitOwners' = BitOwners \cup {c}
              /\ UNCHANGED <<Readers, Writers>>
          BY <2>9, <3>1, Zenon DEF WriteCas, RwGoto, RwTypeOK, RwLabels, Readers, Writers, BitOwners
        <4>3. Local
          BY <2>9, <4>1, RwLockAssumption DEF WriteCas, RwGoto, Local, RwTypeOK, SeenWordAdmits,
             RwLabels, HasWriter
        <4> QED
          BY <2>0, <4>1, <4>2, <4>3, RwLockAssumption
          DEF Global, WordMatchesGuards, Exclusion, HasWriter, ReaderCount, RwTypeOK
      <3>2. CASE place'[c] # "write_drain"
        <4>1. UNCHANGED <<state, Readers, Writers, BitOwners>>
          BY <2>9, <3>2, Zenon DEF WriteCas, RwGoto, RwTypeOK, RwLabels, Readers, Writers, BitOwners
        <4>2. Local
          BY <2>9, <4>1, Zenon DEF WriteCas, RwGoto, Local, RwTypeOK, SeenWordAdmits, RwLabels
        <4> QED
          BY <2>0, <4>1, <4>2, Zenon DEF Global, WordMatchesGuards, Exclusion, HasWriter, ReaderCount
      <3> QED
        BY <3>1, <3>2, Zenon
    <2>10. CASE WriteDrain(c)
      <3>1. /\ c \in BitOwners
            /\ Writers' = Writers \cup {c}
            /\ UNCHANGED <<state, Readers, BitOwners>>
        BY <2>10, Zenon DEF WriteDrain, RwGoto, RwTypeOK, RwLabels, Readers, Writers, BitOwners
      <3>2. Local
        BY <2>10, RwLockAssumption, Zenon DEF WriteDrain, RwGoto, Local, RwTypeOK, SeenWordAdmits, RwLabels,
           HasWriter, ReaderCount, MAX_READERS
      <3>3. Readers = {}
        BY <2>10, <2>0, ReadersFinite, RwLockAssumption DEF WriteDrain, HasWriter, ReaderCount
      <3>4. Writers' = {c}
        BY <2>0, <3>1, Zenon
      <3> QED
        BY <2>0, <3>1, <3>2, <3>3, <3>4 DEF Global, WordMatchesGuards, Exclusion, HasWriter, ReaderCount
    <2>11. CASE TryWrite(c)
      <3>1. /\ Writers' = Writers \cup {c}
            /\ BitOwners' = BitOwners \cup {c}
            /\ UNCHANGED Readers
        BY <2>11, Zenon DEF TryWrite, RwGoto, RwTypeOK, RwLabels, Readers, Writers, BitOwners
      <3>2. Local
        BY <2>11, RwLockAssumption DEF TryWrite, RwGoto, Local, RwTypeOK, SeenWordAdmits, RwLabels,
           HasWriter, ReaderCount, MAX_READERS
      <3>3. Readers = {} /\ BitOwners = {} /\ Writers = {}
        BY <2>11, <2>0, ReadersFinite, RwLockAssumption DEF TryWrite, HasWriter, ReaderCount
      <3>4. state' = WRITER_BIT
        BY <2>11, Zenon DEF TryWrite
      <3> QED
        BY <2>0, <3>1, <3>2, <3>3, <3>4, ReadersFinite, RwLockAssumption DEF Global, WordMatchesGuards, Exclusion, HasWriter, ReaderCount
    <2>12. CASE WriteDrop(c)
      <3>1. /\ c \in Writers
            /\ Writers' = Writers \ {c}
            /\ BitOwners' = BitOwners \ {c}
            /\ UNCHANGED Readers
        BY <2>12, Zenon DEF WriteDrop, RwGoto, RwTypeOK, RwLabels, Readers, Writers, BitOwners
      <3>2. Local
        BY <2>12, RwLockAssumption DEF WriteDrop, RwGoto, Local, RwTypeOK, SeenWordAdmits, RwLabels,
           HasWriter, ReaderCount, MAX_READERS
      <3>3. BitOwners' = {} /\ Writers' = {}
        BY <2>0, <3>1, Zenon
      <3>4. state' = ReaderCount(state) /\ ~HasWriter(state')
        BY <2>12, RwLockAssumption DEF WriteDrop, HasWriter, ReaderCount, RwTypeOK
      <3> QED
        BY <2>0, <3>1, <3>2, <3>3, <3>4 DEF Global, WordMatchesGuards, Exclusion, HasWriter, ReaderCount
    <2> QED
      BY <1>3, <2>1, <2>2, <2>3, <2>4, <2>5, <2>6, <2>7, <2>8, <2>9, <2>10, <2>11, <2>12 DEF RwStep
  <1> QED
    BY <1>1, <1>2, <1>3, Zenon DEF RwNext

(* The word always counts the live guards and guards exclude each other, for
   every number of clients and every width of the word. *)
THEOREM RwLockInvariant == RwSpec => []RwIInv
  BY RwInitIInv, RwStepIInv, PTL DEF RwSpec

(* Deref/DerefMut of the guards are safe: a write guard is alone. *)
THEOREM RwLockExclusion == RwSpec => []Exclusion
  <1>1. RwIInv => Exclusion
    BY Zenon DEF RwIInv
  <1> QED
    BY <1>1, RwLockInvariant, PTL

(* The action behind the code comment "Blocks if a writer is holding or waiting
   for the lock": while the writer bit is owned nobody becomes a reader. *)
THEOREM RwLockNoOvertaking == RwSpec => NoReaderOvertakesWriter
  <1>1. RwIInv /\ [RwNext]_rw_vars => [BitOwners # {} => Readers' \subseteq Readers]_rw_vars
    <2> SUFFICES ASSUME RwIInv, NEW c \in Clients, RwStep(c), BitOwners # {}
                 PROVE  Readers' \subseteq Readers
      BY Zenon DEF RwNext
    <2>1. HasWriter(state)
      BY Zenon DEF RwIInv, WordMatchesGuards
    <2>2. place'[c] # "reading" \/ place[c] = "reading"
      BY <2>1, RwLockAssumption
      DEF RwIInv, RwTypeOK, SeenWordAdmits, HasWriter, MAX_READERS, RwLabels, RwStep, RwGoto,
          ReadCall, ReadLoad, ReadCas, TryReadLoad, TryReadCas, ReadDrop, WriteCall,
          WriteLoad, WriteCas, WriteDrain, TryWrite, WriteDrop
    <2>3. \A d \in Clients \ {c} : place'[d] = place[d]
      BY Zenon DEF RwIInv, RwTypeOK, RwStep, RwGoto, ReadCall, ReadLoad, ReadCas, TryReadLoad,
         TryReadCas, ReadDrop, WriteCall, WriteLoad, WriteCas, WriteDrain, TryWrite, WriteDrop
    <2> QED
      BY <2>2, <2>3, Zenon DEF Readers
  <1> QED
    BY <1>1, RwLockInvariant, PTL DEF RwSpec, NoReaderOvertakesWriter

(* The algorithm on the atomic word implements the abstract reader-writer lock:
   every step of it is a step of ReadersWriter or leaves the guards alone. *)
THEOREM RwLockRefinement == RwSpec => ImplementsReadersWriter
  <1>1. RwInit => RW!Init
    BY Zenon DEF RwInit, RW!Init, Readers, Writers
  <1>2. RwIInv /\ RwIInv' /\ [RwNext]_rw_vars => [RW!Next]_(RW!vars)
    <2> SUFFICES ASSUME RwIInv, RwIInv', [RwNext]_rw_vars PROVE [RW!Next]_(RW!vars)
      BY Zenon
    <2>1. CASE UNCHANGED rw_vars
      BY <2>1, Zenon DEF rw_vars, RW!vars, Readers, Writers
    <2>2. ASSUME NEW c \in Clients, RwStep(c) PROVE [RW!Next]_(RW!vars)
      <3> USE DEF RwIInv, RwTypeOK, RwLabels, RwGoto
      <3>1. CASE ReadCas(c) \/ TryReadCas(c)
        <4>1. CASE place'[c] = "reading"
          <5>1. c \notin Readers /\ Readers' = Readers \union {c} /\ UNCHANGED Writers
            BY <3>1, <4>1 DEF ReadCas, TryReadCas, Readers, Writers
          <5>2. Writers = {}
            BY <5>1, Zenon DEF Exclusion
          <5> QED
            BY <5>1, <5>2, Zenon DEF RW!Next, RW!BeginRead
        <4>2. CASE place'[c] # "reading"
          BY <3>1, <4>2 DEF ReadCas, TryReadCas, Readers, Writers, RW!vars
        <4> QED
          BY <4>1, <4>2, Zenon
      <3>2. CASE ReadDrop(c)
        <4>1. c \in Readers /\ Readers' = Readers \ {c} /\ UNCHANGED Writers
          BY <3>2 DEF ReadDrop, Readers, Writers
        <4> QED
          BY <4>1, Zenon DEF RW!Next, RW!EndRead
      <3>3. CASE WriteDrain(c) \/ TryWrite(c)
        <4>1. c \in Writers' /\ c \notin Writers /\ Writers \subseteq Writers' /\ UNCHANGED Readers
          BY <3>3 DEF WriteDrain, TryWrite, Readers, Writers
        <4>2. Readers' = {} /\ Writers' = {c}
          BY <4>1, Zenon DEF Exclusion
        <4> QED
          BY <4>1, <4>2, Zenon DEF RW!Next, RW!BeginWrite
      <3>4. CASE WriteDrop(c)
        <4>1. c \in Writers /\ Writers' = Writers \ {c} /\ UNCHANGED Readers
          BY <3>4, Zenon DEF WriteDrop, Readers, Writers
        <4>2. Writers = {c}
          BY <4>1, Zenon DEF Exclusion
        <4> QED
          BY <4>1, <4>2, Zenon DEF RW!Next, RW!EndWrite
      <3>5. CASE ReadCall(c) \/ ReadLoad(c) \/ TryReadLoad(c) \/ WriteCall(c) \/ WriteLoad(c)
                 \/ WriteCas(c)
        BY <3>5 DEF ReadCall, ReadLoad, TryReadLoad, WriteCall, WriteLoad, WriteCas,
           Readers, Writers, RW!vars
      <3> QED
        BY <2>2, <3>1, <3>2, <3>3, <3>4, <3>5, Zenon DEF RwStep
    <2> QED
      BY <2>1, <2>2, Zenon DEF RwNext
  <1> QED
    BY <1>1, <1>2, RwLockInvariant, PTL DEF RwSpec, ImplementsReadersWriter, RW!Spec
=============================================================================
