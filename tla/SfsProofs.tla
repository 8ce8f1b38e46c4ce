----------------------------- MODULE SfsProofs -----------------------------
(***************************************************************************)
(* Proofs about Sfs, the first part: the block cache, the slots of the     *)
(* directory and the chains of blocks; the inductive invariant SfsInv; the *)
(* steps that start a call, list, write sectors back or end a call, and a  *)
(* stop of the machine, all of which keep it.                              *)
(***************************************************************************)
EXTENDS Sfs, TLAPS

----------------------------------------------------------------------------
(* The cache and the device *)
DirEntries == [name : Paths \cup {""}, size : Nat, head : Nat]
DataBlocks == [next : Nat, chunk : Nat]
Content(s) == IF s \in DirSectors THEN [Index -> DirEntries] ELSE DataBlocks

OneToOne(q) == \A i, j \in DOMAIN q : q[i] = q[j] => i = j

(* A clean block is what the device holds, and every place in the order of use is a
   cached sector of its own. *)
Sound(m) ==
    /\ DOMAIN m.disk = Sectors
    /\ \A s \in Sectors : m.disk[s] \in Content(s)
    /\ DOMAIN m.cache \subseteq Sectors
    /\ \A s \in DOMAIN m.cache : m.cache[s] \in Content(s)
    /\ m.dirty \subseteq DOMAIN m.cache
    /\ \A s \in DOMAIN m.cache : s \notin m.dirty => m.cache[s] = m.disk[s]
    /\ m.lru \in Seq(Sectors) /\ OneToOne(m.lru)
    /\ \A i \in DOMAIN m.lru : m.lru[i] \in DOMAIN m.cache

(* What reached the device between m and n is what callers saw. *)
WrittenBack(m, n) == \A t \in Sectors : n.disk[t] \in {m.disk[t], View(m, t)}

(* n shows callers the same blocks as m. *)
Same(m, n) == WrittenBack(m, n) /\ \A t \in Sectors : View(n, t) = View(m, t)

LEMMA TailOneToOne ==
    ASSUME NEW S, NEW q \in Seq(S), OneToOne(q), q # <<>>
    PROVE  /\ 1 \in DOMAIN q /\ Head(q) = q[1]
           /\ Tail(q) \in Seq(S) /\ OneToOne(Tail(q))
           /\ \A i \in DOMAIN Tail(q) : /\ i + 1 \in DOMAIN q /\ Tail(q)[i] = q[i + 1]
                                       /\ q[i + 1] # q[1]
  <1>1. Len(q) \in Nat \ {0} /\ Head(q) = q[1] /\ DOMAIN q = 1 .. Len(q)
    OBVIOUS
  <1>2. /\ Len(Tail(q)) = Len(q) - 1 /\ Tail(q) \in Seq(S) /\ DOMAIN Tail(q) = 1 .. Len(q) - 1
        /\ \A i \in 1 .. Len(q) - 1 : Tail(q)[i] = q[i + 1]
    OBVIOUS
  <1>3. \A i \in 1 .. Len(q) - 1 : i + 1 \in DOMAIN q /\ q[i + 1] # q[1]
    BY <1>1 DEF OneToOne
  <1>4. OneToOne(Tail(q))
    BY <1>1, <1>2 DEF OneToOne
  <1> QED
    BY <1>1, <1>2, <1>3, <1>4

LEMMA EvictSame ==
    ASSUME NEW m, Sound(m), m.lru # <<>>
    PROVE  Sound(Evict(m)) /\ Same(m, Evict(m))
  <1> DEFINE s == Head(m.lru)
             n == Evict(m)
  <1>1. /\ n.cache = Without(m.cache, s) /\ n.dirty = m.dirty \ {s} /\ n.lru = Tail(m.lru)
        /\ n.disk = IF s \in m.dirty THEN [m.disk EXCEPT ![s] = m.cache[s]] ELSE m.disk
    BY DEF Evict
  <1>2. /\ DOMAIN n.cache = DOMAIN m.cache \ {s}
        /\ \A t \in DOMAIN n.cache : n.cache[t] = m.cache[t]
    BY <1>1 DEF Without
  <1>3. s \in DOMAIN m.cache /\ s \in Sectors
    BY TailOneToOne DEF Sound
  <1>4. /\ DOMAIN n.disk = Sectors
        /\ \A t \in Sectors : n.disk[t] = IF t = s /\ s \in m.dirty THEN m.cache[s] ELSE m.disk[t]
    BY <1>1, <1>3 DEF Sound
  <1>5. n.lru \in Seq(Sectors) /\ OneToOne(n.lru) /\ \A i \in DOMAIN n.lru : n.lru[i] \in DOMAIN n.cache
    BY <1>1, <1>2, TailOneToOne DEF Sound
  <1> HIDE DEF n, s
  <1>6. Sound(n)
    BY <1>1, <1>2, <1>3, <1>4, <1>5 DEF Sound
  <1>7. Same(m, n)
    BY <1>1, <1>2, <1>3, <1>4 DEF Sound, Same, WrittenBack, View
  <1> QED
    BY <1>6, <1>7 DEF n

LEMMA RoomSame ==
    ASSUME NEW m, Sound(m), NEW s
    PROVE  Sound(MakeRoom(m, s)) /\ Same(m, MakeRoom(m, s))
  <1>1. Same(m, m)
    BY DEF Same, WrittenBack
  <1>2. Len(m.lru) >= CACHE_MAX_BLOCKS => m.lru # <<>>
    <2>1. CACHE_MAX_BLOCKS \in Nat \ {0}
      BY SfsAssumption, Zenon
    <2>2. Len(<<>>) = 0
      OBVIOUS
    <2> QED
      BY <2>1, <2>2
  <1>3. MakeRoom(m, s) = m \/ (m.lru # <<>> /\ MakeRoom(m, s) = Evict(m))
    BY <1>2, Zenon DEF MakeRoom
  <1> QED
    BY <1>1, <1>3, EvictSame, Zenon

LEMMA TouchOneToOne ==
    ASSUME NEW S, NEW q \in Seq(S), OneToOne(q), NEW s \in S
    PROVE  /\ Touch(q, s) \in Seq(S) /\ OneToOne(Touch(q, s))
           /\ \A i \in DOMAIN Touch(q, s) :
               Touch(q, s)[i] = s \/ \E j \in DOMAIN q : Touch(q, s)[i] = q[j]
  <1>1. CASE \E i \in DOMAIN q : q[i] = s
    <2> DEFINE k == CHOOSE i \in DOMAIN q : q[i] = s
               n == [i \in DOMAIN q |-> IF i < k THEN q[i] ELSE IF i < Len(q) THEN q[i + 1] ELSE s]
    <2>1. k \in DOMAIN q /\ q[k] = s
      BY <1>1
    <2>2. Touch(q, s) = n
      BY <1>1 DEF Touch
    <2> HIDE DEF k
    <2>3. n \in Seq(S)
      BY <2>1
    <2>4. OneToOne(n)
      BY <2>1 DEF OneToOne
    <2>5. \A i \in DOMAIN n : n[i] = s \/ \E j \in DOMAIN q : n[i] = q[j]
      OBVIOUS
    <2> QED
      BY <2>2, <2>3, <2>4, <2>5
  <1>2. CASE ~ \E i \in DOMAIN q : q[i] = s
    BY <1>2 DEF Touch, OneToOne
  <1> QED
    BY <1>1, <1>2

LEMMA PutKeeps ==
    ASSUME NEW m, Sound(m), NEW s \in Sectors, NEW b \in Content(s)
    PROVE  LET n == Put(m, s, b)
           IN  /\ n.disk = m.disk /\ n.dirty = m.dirty
               /\ DOMAIN n.cache = DOMAIN m.cache \cup {s} /\ DOMAIN n.cache \subseteq Sectors
               /\ \A t \in DOMAIN n.cache : n.cache[t] = IF t = s THEN b ELSE m.cache[t]
               /\ \A t \in DOMAIN n.cache : n.cache[t] \in Content(t)
               /\ n.lru \in Seq(Sectors) /\ OneToOne(n.lru)
               /\ \A i \in DOMAIN n.lru : n.lru[i] \in DOMAIN n.cache
  <1> DEFINE n == Put(m, s, b)
  <1>1. /\ n.cache = [t \in DOMAIN m.cache \cup {s} |-> IF t = s THEN b ELSE m.cache[t]]
        /\ n.dirty = m.dirty /\ n.disk = m.disk /\ n.lru = Touch(m.lru, s)
    BY DEF Put
  <1> HIDE DEF n
  <1>2. /\ DOMAIN n.cache = DOMAIN m.cache \cup {s} /\ DOMAIN n.cache \subseteq Sectors
        /\ \A t \in DOMAIN n.cache : n.cache[t] = IF t = s THEN b ELSE m.cache[t]
    BY <1>1 DEF Sound
  <1>3. \A t \in DOMAIN n.cache : n.cache[t] \in Content(t)
    BY <1>2 DEF Sound
  <1>4. /\ n.lru \in Seq(Sectors) /\ OneToOne(n.lru)
        /\ \A i \in DOMAIN n.lru : n.lru[i] \in DOMAIN n.cache
    <2>1. /\ m.lru \in Seq(Sectors) /\ OneToOne(m.lru)
          /\ \A i \in DOMAIN m.lru : m.lru[i] \in DOMAIN m.cache
      BY DEF Sound
    <2>2. /\ n.lru \in Seq(Sectors) /\ OneToOne(n.lru)
          /\ \A i \in DOMAIN n.lru : n.lru[i] = s \/ \E j \in DOMAIN m.lru : n.lru[i] = m.lru[j]
      BY <1>1, <2>1, TouchOneToOne
    <2> QED
      BY <1>2, <2>1, <2>2, Zenon
  <1> QED
    BY <1>1, <1>2, <1>3, <1>4, Zenon DEF n

(* read_mut: callers see no difference. *)
LEMMA LoadSame ==
    ASSUME NEW m, Sound(m), NEW s \in Sectors
    PROVE  Sound(Load(m, s)) /\ Same(m, Load(m, s))
  <1> DEFINE r == MakeRoom(m, s)
             n == Load(m, s)
  <1>1. Sound(r) /\ Same(m, r)
    BY RoomSame, Zenon
  <1>2. n = Put(r, s, View(r, s))
    BY <1>1, Zenon DEF Load, Same
  <1> HIDE DEF n, r
  <1>3. View(r, s) \in Content(s)
    BY <1>1 DEF Sound, View
  <1>4. /\ n.disk = r.disk /\ n.dirty = r.dirty
        /\ DOMAIN n.cache = DOMAIN r.cache \cup {s} /\ DOMAIN n.cache \subseteq Sectors
        /\ \A t \in DOMAIN n.cache : n.cache[t] = IF t = s THEN View(r, s) ELSE r.cache[t]
        /\ \A t \in DOMAIN n.cache : n.cache[t] \in Content(t)
        /\ n.lru \in Seq(Sectors) /\ OneToOne(n.lru)
        /\ \A i \in DOMAIN n.lru : n.lru[i] \in DOMAIN n.cache
    BY <1>1, <1>2, <1>3, PutKeeps
  <1>5. Sound(n)
    BY <1>1, <1>4 DEF Sound, View
  <1>6. \A t \in Sectors : View(n, t) = View(r, t)
    BY <1>4 DEF View
  <1>7. Same(m, n)
    BY <1>1, <1>4, <1>6 DEF Same, WrittenBack
  <1> QED
    BY <1>5, <1>7 DEF n

(* A change of a block is seen by callers at once. *)
LEMMA ModifyShows ==
    ASSUME NEW m, Sound(m), NEW s \in Sectors, NEW b \in Content(s)
    PROVE  /\ Sound(Modify(m, s, b)) /\ WrittenBack(m, Modify(m, s, b))
           /\ \A t \in Sectors : View(Modify(m, s, b), t) = IF t = s THEN b ELSE View(m, t)
  <1> DEFINE r == MakeRoom(m, s)
             k == Put(r, s, b)
             n == Modify(m, s, b)
  <1>1. Sound(r) /\ Same(m, r)
    BY RoomSame, Zenon
  <1>2. /\ n.cache = k.cache /\ n.dirty = k.dirty \cup {s} /\ n.lru = k.lru /\ n.disk = k.disk
    BY DEF Modify, mark_dirty, Put
  <1>3. /\ k.disk = r.disk /\ k.dirty = r.dirty
        /\ DOMAIN k.cache = DOMAIN r.cache \cup {s} /\ DOMAIN k.cache \subseteq Sectors
        /\ \A t \in DOMAIN k.cache : k.cache[t] = IF t = s THEN b ELSE r.cache[t]
        /\ \A t \in DOMAIN k.cache : k.cache[t] \in Content(t)
        /\ k.lru \in Seq(Sectors) /\ OneToOne(k.lru)
        /\ \A i \in DOMAIN k.lru : k.lru[i] \in DOMAIN k.cache
    BY <1>1, PutKeeps, Zenon
  <1> HIDE DEF n, k, r
  <1>4. Sound(n)
    BY <1>1, <1>2, <1>3 DEF Sound
  <1>5. \A t \in Sectors : View(n, t) = IF t = s THEN b ELSE View(r, t)
    BY <1>2, <1>3 DEF View
  <1>6. WrittenBack(m, n)
    BY <1>1, <1>2, <1>3 DEF Same, WrittenBack
  <1> QED
    BY <1>1, <1>4, <1>5, <1>6 DEF n, Same

----------------------------------------------------------------------------
(* The directory: C names the entry of each slot as the cache shows it, E as the device
   does.  lone are the paths that never shared a slot, gone is the path whose entry was
   zeroed in the cache and not yet on the device, or "". *)
NameOf == [Slots -> Paths \cup {""}]

OneSlot(C, p) == \A a, b \in Slots : C[a] = p /\ C[b] = p => a = b
FirstFree(E, a) == \A b \in Slots : E[b] = "" => Before(a, b)

(* A path that never shared a slot has one entry in the cache and one on the device, in
   the same slot if it has both; an entry that is only in the cache is in the first slot
   that is free on the device. *)
DirOk(C, E, lone, gone) ==
    /\ \A p \in lone : OneSlot(C, p) /\ OneSlot(E, p)
    /\ \A p \in lone : \A a \in Slots :
        /\ C[a] = p => E[a] \in {p, ""}
        /\ E[a] = p => C[a] = p \/ (gone = p /\ C[a] = "")
    /\ gone \in lone => \A a \in Slots : C[a] # gone
    /\ gone = "" => \A a \in Slots :
        /\ C[a] = "" => E[a] = ""
        /\ C[a] # "" /\ E[a] = "" => FirstFree(E, a)

(* The slot of a write_file in progress, and of a remove *)
WriteSlot(C, E, lone, s, p) ==
    /\ E[s] = "" => FirstFree(E, s)
    /\ p \in lone => \A a \in Slots : C[a] = p => a = s
RemoveSlot(C, lone, s, p) ==
    /\ p \in lone => C[s] = p
    /\ C[s] \in lone => C[s] = p

(* Entries that reach the device keep all that. *)
LEMMA DirWrittenBack ==
    ASSUME NEW C \in NameOf, NEW E \in NameOf, NEW E2 \in NameOf, NEW lone \in SUBSET Paths, NEW gone,
           DirOk(C, E, lone, gone), \A a \in Slots : E2[a] \in {E[a], C[a]}
    PROVE  DirOk(C, E2, lone, gone)
  <1>0. "" \notin lone
    BY SfsAssumption, Zenon DEF Paths
  <1>1. ASSUME NEW p \in lone PROVE OneSlot(E2, p)
    <2> SUFFICES ASSUME NEW a \in Slots, NEW b \in Slots, E2[a] = p, E2[b] = p PROVE a = b
      BY DEF OneSlot
    <2>1. CASE gone # p
      <3>1. C[a] = p /\ C[b] = p
        BY <2>1 DEF DirOk
      <3>2. OneSlot(C, p)
        BY Zenon DEF DirOk
      <3> QED
        BY <3>1, <3>2, Zenon DEF OneSlot
    <2>2. CASE gone = p
      <3>1. C[a] # p /\ C[b] # p
        BY <2>2 DEF DirOk
      <3>2. OneSlot(E, p)
        BY Zenon DEF DirOk
      <3>3. E[a] = p /\ E[b] = p
        BY <3>1
      <3> QED
        BY <3>2, <3>3, Zenon DEF OneSlot
    <2> QED
      BY <2>1, <2>2
  <1>2. ASSUME NEW p \in lone, NEW a \in Slots
        PROVE  /\ C[a] = p => E2[a] \in {p, ""}
               /\ E2[a] = p => C[a] = p \/ (gone = p /\ C[a] = "")
    BY ZenonT(30) DEF DirOk
  <1>3. ASSUME gone = "", NEW a \in Slots
        PROVE  /\ C[a] = "" => E2[a] = ""
               /\ C[a] # "" /\ E2[a] = "" => FirstFree(E2, a)
    BY <1>3, Zenon DEF DirOk, FirstFree
  <1> QED
    BY <1>1, <1>2, <1>3 DEF DirOk

LEMMA SlotWrittenBack ==
    ASSUME NEW C \in NameOf, NEW E \in NameOf, NEW E2 \in NameOf, NEW lone \in SUBSET Paths,
           NEW s \in Slots, NEW p,
           DirOk(C, E, lone, ""), WriteSlot(C, E, lone, s, p),
           \A a \in Slots : E2[a] \in {E[a], C[a]}
    PROVE  WriteSlot(C, E2, lone, s, p)
  BY DEF DirOk, WriteSlot, FirstFree

LEMMA SameSlot ==
    ASSUME NEW a \in Slots, NEW b \in Slots, Before(a, b), Before(b, a)
    PROVE  a = b
  <1>1. a[1] \in Int /\ a[2] \in Int /\ b[1] \in Int /\ b[2] \in Int
    <2>1. DirSectors \subseteq Int /\ Index \subseteq Int
      BY DEF DirSectors, Index
    <2> QED
      BY <2>1, Zenon DEF Slots
  <1>2. a[1] = b[1] /\ a[2] = b[2]
    BY <1>1 DEF Before
  <1>3. a = <<a[1], a[2]>> /\ b = <<b[1], b[2]>>
    BY DEF Slots
  <1> QED
    BY <1>2, <1>3

(* A lookup on the device finds the slot of the path's entry in the cache. *)
LEMMA WriteSlotFound ==
    ASSUME NEW C \in NameOf, NEW E \in NameOf, NEW lone \in SUBSET Paths, NEW s \in Slots,
           NEW p \in Paths, DirOk(C, E, lone, ""),
           \/ E[s] = p
           \/ E[s] = "" /\ FirstFree(E, s) /\ \A a \in Slots : E[a] # p
    PROVE  WriteSlot(C, E, lone, s, p)
  <1>0. "" \notin Paths
    BY SfsAssumption, Zenon DEF Paths
  <1>1. E[s] = "" => FirstFree(E, s)
    BY <1>0
  <1>2. ASSUME p \in lone, NEW a \in Slots, C[a] = p PROVE a = s
    <2>1. CASE E[s] = p
      BY <1>0, <1>2, <2>1, ZenonT(30) DEF DirOk, OneSlot
    <2>2. CASE E[s] = "" /\ \A b \in Slots : E[b] # p
      <3>1. E[a] = ""
        BY <1>2, <2>2 DEF DirOk
      <3>2. FirstFree(E, a)
        BY <1>0, <1>2, <3>1 DEF DirOk
      <3>3. Before(a, s) /\ Before(s, a)
        BY <1>1, <2>2, <3>1, <3>2 DEF FirstFree
      <3> QED
        BY <3>3, SameSlot, Zenon
    <2> QED
      BY <2>1, <2>2
  <1> QED
    BY <1>1, <1>2 DEF WriteSlot

LEMMA RemoveSlotFound ==
    ASSUME NEW C \in NameOf, NEW E \in NameOf, NEW lone \in SUBSET Paths, NEW s \in Slots,
           NEW p \in Paths, DirOk(C, E, lone, ""), E[s] = p
    PROVE  RemoveSlot(C, lone, s, p)
  <1>0. "" \notin Paths
    BY SfsAssumption, Zenon DEF Paths
  <1> QED
    BY <1>0 DEF DirOk, RemoveSlot

(* write_file puts its entry into the cached sector: a path whose entry it overwrites, and
   its own path then, are no longer lone. *)
NameSet(C, E, C2, E2, s, p) ==
    /\ C \in NameOf /\ E \in NameOf /\ C2 \in NameOf /\ E2 \in NameOf /\ s \in Slots
    /\ \A a \in Slots : E2[a] \in {E[a], C[a]}
    /\ \A a \in Slots : C2[a] = IF a = s THEN p ELSE C[a]

LEMMA DirWritten ==
    ASSUME NEW C, NEW E, NEW E2, NEW C2, NEW lone, NEW lone2, NEW s, NEW p,
           NameSet(C, E, C2, E2, s, p), lone \subseteq Paths, lone2 \subseteq lone, p \in Paths,
           DirOk(C, E, lone, ""), WriteSlot(C, E, lone, s, p),
           C[s] \in {"", p} \/ (C[s] \notin lone2 /\ p \notin lone2)
    PROVE  DirOk(C2, E2, lone2, "")
  <1> USE DEF NameSet
  <1>0. "" \notin Paths
    BY SfsAssumption, Zenon DEF Paths
  <1>1. DirOk(C, E2, lone, "") /\ WriteSlot(C, E2, lone, s, p)
    BY DirWrittenBack, SlotWrittenBack, Zenon
  <1>2. ASSUME NEW q \in lone2 PROVE OneSlot(C2, q) /\ OneSlot(E2, q)
    <2>1. OneSlot(C, q) /\ OneSlot(E2, q)
      BY <1>1, Zenon DEF DirOk
    <2>2. CASE q # p
      BY <2>1, <2>2, Zenon DEF OneSlot
    <2>3. CASE q = p
      <3>1. \A a \in Slots : C2[a] = p => a = s
        BY <1>1, <2>3 DEF WriteSlot
      <3> QED
        BY <2>1, <2>3, <3>1, Zenon DEF OneSlot
    <2> QED
      BY <2>2, <2>3
  <1>3. ASSUME NEW q \in lone2, NEW a \in Slots
        PROVE  /\ C2[a] = q => E2[a] \in {q, ""}
               /\ E2[a] = q => C2[a] = q
    <2>0. q \in lone /\ q # ""
      BY <1>0, Zenon
    <2>1. /\ q \in lone /\ q # ""
          /\ C[a] = q => E2[a] \in {q, ""}
          /\ E2[a] = q => C[a] = q
          /\ C[a] = "" => E2[a] = ""
      <3>1. C[a] = q => E2[a] \in {q, ""}
        BY <1>1, <2>0, Zenon DEF DirOk
      <3>2. E2[a] = q => C[a] = q
        BY <1>1, <2>0, Zenon DEF DirOk
      <3>3. C[a] = "" => E2[a] = ""
        BY <1>1, Zenon DEF DirOk
      <3> QED
        BY <2>0, <3>1, <3>2, <3>3, Zenon
    <2>2. CASE a # s
      BY <2>1, <2>2, Zenon
    <2>3. CASE a = s
      <3>1. C2[a] = p /\ (C[a] \in {"", p} \/ (C[a] \notin lone2 /\ p \notin lone2))
        BY <2>3, Zenon
      <3> QED
        BY <2>1, <3>1
    <2> QED
      BY <2>2, <2>3
  <1>4. ASSUME NEW a \in Slots
        PROVE  /\ C2[a] = "" => E2[a] = ""
               /\ C2[a] # "" /\ E2[a] = "" => FirstFree(E2, a)
    <2>1. /\ C[a] = "" => E2[a] = ""
          /\ C[a] # "" /\ E2[a] = "" => FirstFree(E2, a)
          /\ E2[s] = "" => FirstFree(E2, s)
      BY <1>1, Zenon DEF DirOk, WriteSlot
    <2> QED
      BY <1>0, <2>1, Zenon
  <1> QED
    BY <1>0, <1>2, <1>3, <1>4 DEF DirOk

(* remove zeroes the entry in the cached sector. *)
LEMMA DirRemoved ==
    ASSUME NEW C, NEW E, NEW E2, NEW C2, NEW lone, NEW s, NEW p,
           NameSet(C, E, C2, E2, s, ""), lone \subseteq Paths, p \in Paths,
           DirOk(C, E, lone, ""), RemoveSlot(C, lone, s, p)
    PROVE  DirOk(C2, E2, lone, p)
  <1> USE DEF NameSet
  <1>0. "" \notin Paths
    BY SfsAssumption, Zenon DEF Paths
  <1>1. DirOk(C, E2, lone, "")
    BY DirWrittenBack, Zenon
  <1>2. ASSUME NEW q \in lone PROVE OneSlot(C2, q) /\ OneSlot(E2, q)
    <2>1. OneSlot(C, q) /\ OneSlot(E2, q) /\ q # ""
      BY <1>0, <1>1, ZenonT(30) DEF DirOk
    <2> QED
      BY <2>1, Zenon DEF OneSlot
  <1>3. ASSUME NEW q \in lone, NEW a \in Slots
        PROVE  /\ C2[a] = q => E2[a] \in {q, ""}
               /\ E2[a] = q => C2[a] = q \/ (p = q /\ C2[a] = "")
    <2>1. /\ q # ""
          /\ C[a] = q => E2[a] \in {q, ""}
          /\ E2[a] = q => C[a] = q
      <3>1. q # ""
        BY <1>0
      <3>2. C[a] = q => E2[a] \in {q, ""}
        BY <1>1, Zenon DEF DirOk
      <3>3. E2[a] = q => C[a] = q \/ ("" = q /\ C[a] = "")
        BY <1>1, Zenon DEF DirOk
      <3> QED
        BY <3>1, <3>2, <3>3, Zenon
    <2>2. C[s] = q => p = q
      BY Zenon DEF RemoveSlot
    <2> QED
      BY <2>1, <2>2, Zenon
  <1>4. ASSUME p \in lone, NEW a \in Slots PROVE C2[a] # p
    <2>1. OneSlot(C, p) /\ C[s] = p
      BY <1>1, <1>4, Zenon DEF DirOk, RemoveSlot
    <2> QED
      BY <1>0, <2>1, Zenon DEF OneSlot
  <1> QED
    BY <1>0, <1>2, <1>3, <1>4 DEF DirOk

(* After a sync, and after a restart, the cache shows what the device holds. *)
LEMMA DirClean ==
    ASSUME NEW C \in NameOf, NEW E \in NameOf, NEW lone \in SUBSET Paths, NEW gone,
           DirOk(C, E, lone, gone)
    PROVE  DirOk(E, E, lone, "")
  <1>0. "" \notin lone
    BY SfsAssumption, Zenon DEF Paths
  <1>1. \A p \in lone : OneSlot(E, p)
    BY Zenon DEF DirOk
  <1> QED
    BY <1>0, <1>1 DEF DirOk

----------------------------------------------------------------------------
(* Files: w holds the blocks as the cache shows them, k as the device does. *)
At(w, a) == w[a[1]][a[2]]
NamesIn(w) == [a \in Slots |-> At(w, a).name]
Typed(w) == \A s \in Sectors : w[s] \in Content(s)

(* The blocks c hold the beginning of the content v. *)
Linked(w, c, v) ==
    /\ Len(c) <= Len(v)
    /\ \A i \in DOMAIN c :
        /\ w[c[i]].chunk = v[i]
        /\ w[c[i]].next = IF i = Len(c) THEN 0 ELSE c[i + 1]
FirstOf(c) == IF c = <<>> THEN 0 ELSE c[1]

(* The file p has the content v, in the blocks c. *)
FileIs(w, p, v, c) ==
    /\ v = Absent => c = <<>> /\ \A a \in Slots : At(w, a).name # p
    /\ v # Absent =>
        /\ v \in Seq(Nat) /\ Len(c) = Len(v) /\ Linked(w, c, v)
        /\ \E a \in Slots : At(w, a) = [name |-> p, size |-> Len(v), head |-> FirstOf(c)]

(* The device holds the entry of p and the blocks c as the cache shows them. *)
OnDevice(w, k, p, c) ==
    /\ \A a \in Slots : At(w, a).name = p \/ At(k, a).name = p => At(k, a) = At(w, a)
    /\ \A i \in DOMAIN c : k[c[i]] = w[c[i]]

Marked(c, map) == \A i \in DOMAIN c : c[i] \in map
Apart(c, d) == \A i \in DOMAIN c, j \in DOMAIN d : c[i] # d[j]

(* Nothing of the file changed. *)
Kept(w, w2, p, c) ==
    /\ \A a \in Slots : At(w, a).name = p \/ At(w2, a).name = p => At(w2, a) = At(w, a)
    /\ \A i \in DOMAIN c : w2[c[i]] = w[c[i]]

LEMMA SectorKinds ==
    /\ DirSectors \subseteq Sectors /\ Data \subseteq Sectors /\ DirSectors \cap Data = {}
    /\ \A a \in Slots : a[1] \in DirSectors /\ a[1] \in Sectors /\ a[1] \notin Data /\ a[2] \in Index
    /\ 0 \notin Data /\ 0 \notin Sectors /\ Data \subseteq Nat /\ DirSectors \subseteq Nat
  <1>1. SEC_DIR_COUNT \in Nat /\ BLOCKS \in Nat
    BY SfsAssumption, Zenon
  <1>2. /\ DirSectors \cap Data = {} /\ Data \subseteq Nat /\ DirSectors \subseteq Nat
        /\ 0 \notin Data /\ 0 \notin DirSectors
    BY <1>1 DEF DirSectors, Data
  <1>3. \A a \in Slots : a[1] \in DirSectors /\ a[2] \in Index
    BY DEF Slots
  <1> QED
    BY <1>2, <1>3, Zenon DEF Sectors

LEMMA ChainSectors ==
    ASSUME NEW c \in Seq(Data)
    PROVE  \A i \in DOMAIN c : c[i] \in Data /\ c[i] \in Sectors
  <1>1. \A i \in DOMAIN c : c[i] \in Data
    OBVIOUS
  <1> QED
    BY <1>1, SectorKinds, Zenon

LEMMA NamesTyped ==
    ASSUME NEW w, Typed(w)
    PROVE  NamesIn(w) \in NameOf
  <1>1. \A a \in Slots : At(w, a) \in DirEntries
    BY SectorKinds, Zenon DEF Typed, Content, At
  <1> QED
    BY <1>1 DEF NamesIn, NameOf, DirEntries

LEMMA LinkedKept ==
    ASSUME NEW w, NEW w2, NEW c, NEW v, Linked(w, c, v), \A i \in DOMAIN c : w2[c[i]] = w[c[i]]
    PROVE  Linked(w2, c, v)
  BY DEF Linked

LEMMA FileKept ==
    ASSUME NEW w, NEW w2, NEW p, NEW v, NEW c, FileIs(w, p, v, c), Kept(w, w2, p, c)
    PROVE  FileIs(w2, p, v, c)
  <1>1. CASE v = Absent
    BY <1>1, Zenon DEF FileIs, Kept
  <1>2. CASE v # Absent
    <2>1. Len(c) = Len(v) /\ Linked(w2, c, v)
      <3>1. Len(c) = Len(v) /\ Linked(w, c, v) /\ \A i \in DOMAIN c : w2[c[i]] = w[c[i]]
        BY <1>2, Zenon DEF FileIs, Kept
      <3> QED
        BY <3>1, LinkedKept
    <2>2. PICK a \in Slots : At(w, a) = [name |-> p, size |-> Len(v), head |-> FirstOf(c)]
      BY <1>2, Zenon DEF FileIs
    <2>3. At(w, a).name = p
      BY <2>2
    <2>4. At(w2, a) = At(w, a)
      BY <2>3, Zenon DEF Kept
    <2> QED
      BY <1>2, <2>1, <2>2, <2>4, Zenon DEF FileIs
  <1> QED
    BY <1>1, <1>2

LEMMA OnDeviceKept ==
    ASSUME NEW w, NEW w2, NEW k, NEW k2, NEW p, NEW c, OnDevice(w, k, p, c), Kept(w, w2, p, c),
           \A a \in Slots : At(k2, a) \in {At(k, a), At(w, a)},
           \A i \in DOMAIN c : k2[c[i]] \in {k[c[i]], w[c[i]]}
    PROVE  OnDevice(w2, k2, p, c)
  <1>1. ASSUME NEW a \in Slots, At(w2, a).name = p \/ At(k2, a).name = p
        PROVE  At(k2, a) = At(w2, a)
    <2>1. At(w, a).name = p
      BY <1>1, Zenon DEF OnDevice, Kept
    <2> QED
      BY <2>1, Zenon DEF OnDevice, Kept
  <1>2. \A i \in DOMAIN c : k2[c[i]] = w2[c[i]]
    BY DEF OnDevice, Kept
  <1> QED
    BY <1>1, <1>2, Zenon DEF OnDevice

----------------------------------------------------------------------------
(* The inductive invariant *)
view == [s \in Sectors |-> View(Memory, s)]
Steps == {"idle", "write", "sync_map", "sync_cache", "list", "remove", "remove_sync"}
Removing == pc = "remove" \/ (pc = "list" /\ op = "remove")
Gone == IF pc = "remove_sync" THEN path ELSE ""
Lone == Paths \ clobbered                  \* paths that never shared a slot
Intact == Paths \ (torn \cup clobbered)     \* paths whose last change was not cut short either

TypeInv ==
    /\ Sound(Memory)
    /\ pc \in Steps /\ slot \in Slots /\ scan.sector \in DirSectors
    /\ pc \in {"write", "remove_sync"} \/ Removing => path \in Paths
    /\ pc = "write" => data \in Seq(Nat) /\ made \in Seq(Data)
    /\ DOMAIN files = Paths /\ chain \in [Paths -> Seq(Data)]

(* No block that is marked on the device is free in memory; outside a call the two maps
   differ only when the next sync writes the bitmap. *)
MapInv ==
    /\ disk_map \subseteq bitmap_cache /\ bitmap_cache \subseteq Data
    /\ bitmap_dirty \/ disk_map = bitmap_cache
    /\ pc = "sync_cache" => disk_map = bitmap_cache

DirInv == DirOk(NamesIn(view), NamesIn(disk), Lone, Gone)

SlotInv ==
    /\ pc = "write" => WriteSlot(NamesIn(view), NamesIn(disk), Lone, slot, path)
    /\ Removing => RemoveSlot(NamesIn(view), Lone, slot, path)
    /\ pc = "remove_sync" => chain[path] = <<>>

(* Every file whose last change was not cut short is in the cache as written, in blocks
   that are marked and its own; so is what write_file has written so far. *)
FileInv ==
    \A p \in Intact : FileIs(view, p, files[p], chain[p]) /\ Marked(chain[p], bitmap_cache)
OwnInv == \A p, q \in Intact : p # q => Apart(chain[p], chain[q])
MadeInv ==
    pc = "write" =>
        /\ Linked(view, made, data) /\ OneToOne(made) /\ Marked(made, bitmap_cache)
        /\ \A p \in Intact : Apart(made, chain[p])

(* A settled file is on the device as the cache shows it, and its blocks are marked there. *)
SettledInv ==
    \A p \in Settled : OnDevice(view, disk, p, chain[p]) /\ Marked(chain[p], disk_map)

SfsInv ==
    TypeInv /\ MapInv /\ DirInv /\ SlotInv /\ FileInv /\ OwnInv /\ MadeInv /\ SettledInv

LEMMA NamesSame ==
    ASSUME NEW w, NEW w2, \A a \in Slots : At(w2, a) = At(w, a)
    PROVE  NamesIn(w2) = NamesIn(w)
  BY DEF NamesIn

LEMMA NamesAt ==
    ASSUME NEW w, NEW a \in Slots
    PROVE  NamesIn(w)[a] = At(w, a).name
  BY DEF NamesIn

LEMMA ViewTyped ==
    ASSUME Sound(Memory)
    PROVE  /\ Typed(view) /\ Typed(disk)
           /\ NamesIn(view) \in NameOf /\ NamesIn(disk) \in NameOf
  <1>1. \A s \in Sectors : view[s] = View(Memory, s)
    BY Zenon DEF view
  <1>2. \A s \in Sectors : View(Memory, s) \in Content(s) /\ disk[s] \in Content(s)
    BY DEF Sound, View, Memory
  <1>3. Typed(view) /\ Typed(disk)
    BY <1>1, <1>2 DEF Typed
  <1> QED
    BY <1>3, NamesTyped, Zenon

(* The effect on the directory and the files of a step in which no block but those of X
   looks different, and what reaches the device is what the cache showed. *)
Slide(w, w2, k, k2, X) ==
    \A t \in Sectors \ X : w2[t] = w[t] /\ k2[t] \in {k[t], w[t]}

LEMMA SlideNames ==
    ASSUME NEW w, NEW w2, NEW k, NEW k2, NEW X \in SUBSET Data, Slide(w, w2, k, k2, X)
    PROVE  /\ \A a \in Slots : At(w2, a) = At(w, a) /\ At(k2, a) \in {At(k, a), At(w, a)}
           /\ NamesIn(w2) = NamesIn(w)
           /\ \A a \in Slots : NamesIn(k2)[a] \in {NamesIn(k)[a], NamesIn(w)[a]}
  <1>1. \A a \in Slots : a[1] \in Sectors \ X
    BY SectorKinds, Zenon
  <1>2. \A a \in Slots : At(w2, a) = At(w, a) /\ At(k2, a) \in {At(k, a), At(w, a)}
    BY <1>1 DEF Slide, At
  <1>3. NamesIn(w2) = NamesIn(w)
    BY <1>2, NamesSame, Zenon
  <1>4. \A a \in Slots : NamesIn(k2)[a] \in {NamesIn(k)[a], NamesIn(w)[a]}
    BY <1>2, NamesAt
  <1> QED
    BY <1>2, <1>3, <1>4, Zenon

LEMMA SlideKeeps ==
    ASSUME NEW w, NEW w2, NEW k, NEW k2, NEW X \in SUBSET Data, Slide(w, w2, k, k2, X),
           NEW p, NEW c \in Seq(Data), \A i \in DOMAIN c : c[i] \notin X
    PROVE  /\ Kept(w, w2, p, c)
           /\ OnDevice(w, k, p, c) => OnDevice(w2, k2, p, c)
  <1>1. \A i \in DOMAIN c : c[i] \in Sectors \ X
    <2>1. \A i \in DOMAIN c : c[i] \in Data
      OBVIOUS
    <2> QED
      BY <2>1, SectorKinds, Zenon
  <1>2. \A i \in DOMAIN c : w2[c[i]] = w[c[i]] /\ k2[c[i]] \in {k[c[i]], w[c[i]]}
    BY <1>1 DEF Slide
  <1>3. \A a \in Slots : At(w2, a) = At(w, a) /\ At(k2, a) \in {At(k, a), At(w, a)}
    BY SlideNames, Zenon
  <1>4. Kept(w, w2, p, c)
    BY <1>2, <1>3 DEF Kept
  <1> QED
    BY <1>2, <1>3, <1>4, OnDeviceKept

LEMMA SlideStep ==
    ASSUME SfsInv, NEW X \in SUBSET Data, Slide(view, view', disk, disk', X),
           \A p \in Intact : \A i \in DOMAIN chain[p] : chain[p][i] \notin X,
           UNCHANGED <<files, chain, unsynced, torn, clobbered>>,
           bitmap_cache \subseteq bitmap_cache', disk_map \subseteq disk_map'
    PROVE  FileInv' /\ OwnInv' /\ SettledInv'
  <1>1. Intact' = Intact /\ Settled' = Settled /\ Settled \subseteq Intact
    BY DEF Intact, Settled
  <1>2. \A p \in Intact : chain[p] \in Seq(Data)
    BY DEF SfsInv, TypeInv, Intact
  <1>3. ASSUME NEW p \in Intact
        PROVE  FileIs(view', p, files[p], chain[p]) /\ Marked(chain[p], bitmap_cache')
    <2>1. Kept(view, view', p, chain[p])
      BY <1>2, SlideKeeps
    <2>2. FileIs(view, p, files[p], chain[p]) /\ Marked(chain[p], bitmap_cache)
      BY Zenon DEF SfsInv, FileInv
    <2> QED
      BY <2>1, <2>2, FileKept DEF Marked
  <1>4. ASSUME NEW p \in Settled
        PROVE  OnDevice(view', disk', p, chain[p]) /\ Marked(chain[p], disk_map')
    <2>1. OnDevice(view, disk, p, chain[p]) /\ Marked(chain[p], disk_map)
      BY Zenon DEF SfsInv, SettledInv
    <2>2. OnDevice(view', disk', p, chain[p])
      BY <1>1, <1>2, <2>1, SlideKeeps
    <2> QED
      BY <2>1, <2>2 DEF Marked
  <1>5. FileInv' /\ SettledInv'
    BY <1>1, <1>3, <1>4, Zenon DEF FileInv, SettledInv
  <1>6. OwnInv'
    BY <1>1, Zenon DEF SfsInv, OwnInv
  <1> QED
    BY <1>5, <1>6

LEMMA SlideDir ==
    ASSUME SfsInv, Sound(Memory'), NEW X \in SUBSET Data, Slide(view, view', disk, disk', X),
           clobbered' = clobbered, Gone' = Gone
    PROVE  /\ DirInv'
           /\ NamesIn(view') = NamesIn(view) /\ NamesIn(disk') \in NameOf
           /\ \A a \in Slots : NamesIn(disk')[a] \in {NamesIn(disk)[a], NamesIn(view)[a]}
  <1>1. /\ NamesIn(view') = NamesIn(view)
        /\ \A a \in Slots : NamesIn(disk')[a] \in {NamesIn(disk)[a], NamesIn(view)[a]}
    BY SlideNames, SMTT(30), ZenonT(30)
  <1>2. NamesIn(disk') \in NameOf
    BY ViewTyped, NamesTyped, SectorKinds DEF Sound, Typed, Memory
  <1>3. NamesIn(view) \in NameOf /\ NamesIn(disk) \in NameOf /\ Lone \in SUBSET Paths
    BY ViewTyped DEF SfsInv, TypeInv, Lone
  <1>4. DirOk(NamesIn(view), NamesIn(disk), Lone, Gone) /\ Lone' = Lone
    BY DEF SfsInv, DirInv, Lone
  <1>5. DirOk(NamesIn(view), NamesIn(disk'), Lone, Gone)
    BY <1>1, <1>2, <1>3, <1>4, DirWrittenBack
  <1>6. DirInv'
    BY <1>1, <1>4, <1>5 DEF DirInv
  <1> QED
    BY <1>1, <1>2, <1>6

LEMMA BlocksSame ==
    ASSUME SfsInv, UNCHANGED blocks
    PROVE  Memory' = Memory /\ view' = view /\ disk' = disk /\ Sound(Memory') /\ Slide(view, view', disk, disk', {})
  <1>1. Memory' = Memory /\ disk' = disk
    BY DEF blocks, Memory
  <1>2. view' = view
    BY <1>1 DEF view
  <1>3. Slide(view, view', disk, disk', {})
    BY <1>1, <1>2 DEF Slide
  <1> QED
    BY <1>1, <1>2, <1>3 DEF SfsInv, TypeInv

LEMMA IdleTyped ==
    ASSUME Idle
    PROVE  /\ pc' = "idle" /\ op' = "none" /\ slot' \in Slots /\ scan'.sector \in DirSectors
  <1>1. 1 \in DirSectors /\ 1 \in Index
    <2>1. SEC_DIR_COUNT \in Nat \ {0} /\ ENTRIES_PER_SECTOR \in Nat \ {0}
      BY SfsAssumption, Zenon
    <2> QED
      BY <2>1 DEF DirSectors, Index
  <1>2. pc' = "idle" /\ op' = "none" /\ slot' = <<1, 1>> /\ scan' = ScanStart
    BY Zenon DEF Idle
  <1>3. ScanStart.sector = 1
    BY DEF ScanStart
  <1> QED
    BY <1>1, <1>2, <1>3 DEF Slots

(* A step that touches no block and no history leaves the files as they are. *)
LEMMA QuietStep ==
    ASSUME SfsInv, UNCHANGED <<blocks, history>>,
           bitmap_cache \subseteq bitmap_cache', disk_map \subseteq disk_map', Gone' = Gone
    PROVE  /\ DirInv' /\ FileInv' /\ OwnInv' /\ SettledInv'
           /\ Lone' = Lone /\ Intact' = Intact /\ view' = view /\ disk' = disk /\ Sound(Memory')
           /\ DOMAIN files' = Paths /\ chain' \in [Paths -> Seq(Data)]
  <1>1. /\ view' = view /\ disk' = disk /\ Sound(Memory') /\ Slide(view, view', disk, disk', {})
        /\ UNCHANGED <<files, chain, unsynced, torn, clobbered>>
    BY BlocksSame, Zenon DEF history
  <1>2. FileInv' /\ OwnInv' /\ SettledInv'
    BY <1>1, SlideStep
  <1>3. DirInv'
    BY <1>1, SlideDir
  <1>4. Lone' = Lone /\ Intact' = Intact
    BY <1>1, Zenon DEF Lone, Intact
  <1>5. DOMAIN files' = Paths /\ chain' \in [Paths -> Seq(Data)]
    BY <1>1, Zenon DEF SfsInv, TypeInv
  <1> QED
    BY <1>1, <1>2, <1>3, <1>4, <1>5, Zenon

LEMMA WriteStarts ==
    ASSUME SfsInv, NEW p \in Paths, NEW v \in Values, NEW o, WriteStart(p, v, o)
    PROVE  SfsInv'
  <1>1. PICK a \in Slots : /\ IsFirst(a, IF EntryPos(p) # {} THEN EntryPos(p) ELSE FreeDirEntry)
                          /\ slot' = a
    BY Zenon DEF WriteStart, EntriesFor
  <1>2. /\ pc = "idle" /\ pc' = "write" /\ path' = p /\ data' = v /\ made' = <<>> /\ scan' = scan
        /\ UNCHANGED <<bitmap, blocks, history>>
    BY Zenon DEF WriteStart
  <1>3. UNCHANGED <<disk_map, bitmap_cache, bitmap_dirty>> /\ Gone' = Gone /\ Gone = ""
    BY <1>2 DEF bitmap, Gone
  <1>4. /\ DirInv' /\ FileInv' /\ OwnInv' /\ SettledInv'
        /\ Lone' = Lone /\ Intact' = Intact /\ view' = view /\ disk' = disk /\ Sound(Memory')
        /\ DOMAIN files' = Paths /\ chain' \in [Paths -> Seq(Data)]
    BY <1>2, <1>3, QuietStep
  <1>5. v \in Seq(Nat)
    BY SfsAssumption, ZenonT(30)
  <1>6. TypeInv'
    BY <1>1, <1>2, <1>4, <1>5 DEF TypeInv, SfsInv, Steps, Removing
  <1>7. MapInv'
    BY <1>2, <1>3 DEF SfsInv, MapInv
  <1>8. \A b \in Slots : Entry(b).name = NamesIn(disk)[b]
    BY NamesAt, SMTT(30), ZenonT(30) DEF Entry, At
  <1>9. WriteSlot(NamesIn(view), NamesIn(disk), Lone, a, p)
    <2>1. \/ NamesIn(disk)[a] = p
          \/ /\ NamesIn(disk)[a] = "" /\ FirstFree(NamesIn(disk), a)
             /\ \A b \in Slots : NamesIn(disk)[b] # p
      BY <1>1, <1>8 DEF IsFirst, EntryPos, FreeDirEntry, FirstFree
    <2>2. /\ NamesIn(view) \in NameOf /\ NamesIn(disk) \in NameOf /\ Lone \in SUBSET Paths
          /\ DirOk(NamesIn(view), NamesIn(disk), Lone, "")
      BY <1>3, ViewTyped DEF SfsInv, TypeInv, DirInv, Lone
    <2> QED
      BY <2>1, <2>2, WriteSlotFound
  <1>10. SlotInv'
    BY <1>1, <1>2, <1>4, <1>9 DEF SlotInv, Removing
  <1>11. MadeInv'
    BY <1>2, <1>4, <1>5 DEF MadeInv, Linked, OneToOne, Marked, Apart
  <1> QED
    BY <1>4, <1>6, <1>7, <1>10, <1>11 DEF SfsInv

LEMMA RemoveStarts ==
    ASSUME SfsInv, NEW p \in Paths, RemoveStart(p)
    PROVE  SfsInv'
  <1>1. PICK a \in Slots : IsFirst(a, EntryPos(p)) /\ slot' = a
    BY Zenon DEF RemoveStart
  <1>2. /\ pc = "idle" /\ pc' \in {"list", "remove"} /\ path' = p /\ scan' = scan
        /\ UNCHANGED <<bitmap, blocks, history>>
    BY DEF RemoveStart
  <1>3. UNCHANGED <<disk_map, bitmap_cache, bitmap_dirty>> /\ Gone' = Gone /\ Gone = ""
    BY <1>2 DEF bitmap, Gone
  <1>4. /\ DirInv' /\ FileInv' /\ OwnInv' /\ SettledInv'
        /\ Lone' = Lone /\ Intact' = Intact /\ view' = view /\ disk' = disk /\ Sound(Memory')
        /\ DOMAIN files' = Paths /\ chain' \in [Paths -> Seq(Data)]
    BY <1>2, <1>3, QuietStep, ZenonT(30)
  <1>5. TypeInv'
    BY <1>1, <1>2, <1>4 DEF TypeInv, SfsInv, Steps, Removing
  <1>6. MapInv'
    BY <1>2, <1>3, ZenonT(30) DEF SfsInv, MapInv
  <1>7. RemoveSlot(NamesIn(view), Lone, a, p)
    <2>1. NamesIn(disk)[a] = p
      BY <1>1, NamesAt DEF IsFirst, EntryPos, Entry, At
    <2>2. /\ NamesIn(view) \in NameOf /\ NamesIn(disk) \in NameOf /\ Lone \in SUBSET Paths
          /\ DirOk(NamesIn(view), NamesIn(disk), Lone, "")
      BY <1>3, ViewTyped DEF SfsInv, TypeInv, DirInv, Lone
    <2> QED
      BY <2>1, <2>2, RemoveSlotFound, ZenonT(30)
  <1>8. SlotInv' /\ MadeInv'
    BY <1>1, <1>2, <1>4, <1>7 DEF SlotInv, MadeInv, Removing
  <1> QED
    BY <1>4, <1>5, <1>6, <1>8 DEF SfsInv

(* A call fails or is over, a listing or a sync begins, or the bitmap is written. *)
LEMMA QuietSteps ==
    ASSUME SfsInv, DiskFull \/ SyncStart \/ SyncMap \/ ListDir
    PROVE  SfsInv'
  <1>1. /\ pc \in {"idle", "write", "sync_map"} /\ pc' \in {"idle", "sync_map", "sync_cache", "list"}
        /\ pc' = "list" => op' = "list"
        /\ UNCHANGED <<blocks, history, bitmap_cache>>
    BY DEF DiskFull, SyncStart, SyncMap, ListDir, Idle, bitmap
  <1>2. slot' \in Slots /\ scan'.sector \in DirSectors
    BY IdleTyped DEF DiskFull, SyncStart, SyncMap, ListDir, SfsInv, TypeInv
  <1>3. Gone' = Gone
    BY <1>1 DEF Gone
  <1>4. MapInv' /\ disk_map \subseteq disk_map'
    <2>1. CASE SyncMap
      <3>1. bitmap_cache' = bitmap_cache /\ (disk_map' = bitmap_cache \/ (disk_map' = disk_map /\ ~ bitmap_dirty))
        BY <1>1, <2>1, Zenon DEF SyncMap
      <3>2. disk_map' = bitmap_cache
        BY <3>1, Zenon DEF SfsInv, MapInv
      <3> QED
        BY <3>1, <3>2, Zenon DEF SfsInv, MapInv
    <2>2. CASE DiskFull \/ SyncStart \/ ListDir
      <3>1. UNCHANGED <<disk_map, bitmap_cache, bitmap_dirty>> /\ pc' # "sync_cache"
        BY <2>2, Zenon DEF DiskFull, SyncStart, ListDir, Idle, bitmap
      <3> QED
        BY <3>1, Zenon DEF SfsInv, MapInv
    <2> QED
      BY <2>1, <2>2
  <1>5. /\ DirInv' /\ FileInv' /\ OwnInv' /\ SettledInv' /\ Sound(Memory')
        /\ DOMAIN files' = Paths /\ chain' \in [Paths -> Seq(Data)]
    BY <1>1, <1>3, <1>4, QuietStep
  <1>6. TypeInv'
    BY <1>1, <1>2, <1>5, SMTT(30), ZenonT(30) DEF TypeInv, Steps, Removing
  <1>7. SlotInv' /\ MadeInv'
    BY <1>1, SMTT(30), ZenonT(30) DEF SlotInv, MadeInv, Removing
  <1> QED
    BY <1>4, <1>5, <1>6, <1>7 DEF SfsInv

LEMMA CleanView ==
    ASSUME Sound(Memory), dirty = {}
    PROVE  \A s \in Sectors : view[s] = disk[s]
  BY DEF view, View, Memory, Sound

(* The cache was synced: what is in it is on the device, and the call is over. *)
LEMMA SyncEnds ==
    ASSUME SfsInv, SyncDone \/ RemoveDone
    PROVE  SfsInv'
  <1>1. /\ dirty = {} /\ Idle /\ UNCHANGED <<bitmap, blocks, files, chain, torn, clobbered>>
        /\ \/ pc = "sync_cache" /\ unsynced' = {}
           \/ pc = "remove_sync" /\ unsynced' = unsynced \ {path}
    BY Zenon DEF SyncDone, RemoveDone
  <1>2. pc' = "idle" /\ slot' \in Slots /\ scan'.sector \in DirSectors /\ Gone' = ""
    BY <1>1, IdleTyped DEF Gone
  <1>3. Memory' = Memory /\ view' = view /\ disk' = disk /\ Sound(Memory')
    BY <1>1, BlocksSame
  <1>4. \A s \in Sectors : view[s] = disk[s]
    BY <1>1, CleanView DEF SfsInv, TypeInv
  <1>5. \A a \in Slots : At(view, a) = At(disk, a)
    BY <1>4, SectorKinds, Zenon DEF At
  <1>6. Lone' = Lone /\ Intact' = Intact /\ UNCHANGED <<disk_map, bitmap_cache, bitmap_dirty>>
    BY <1>1, Zenon DEF Lone, Intact, bitmap
  <1>7. DirInv'
    <2>1. NamesIn(view) = NamesIn(disk)
      BY <1>5, NamesSame
    <2>2. NamesIn(disk) \in NameOf /\ Lone \in SUBSET Paths /\ DirOk(NamesIn(disk), NamesIn(disk), Lone, Gone)
      BY <2>1, ViewTyped DEF SfsInv, TypeInv, DirInv, Lone
    <2>3. DirOk(NamesIn(disk), NamesIn(disk), Lone, "")
      BY <2>2, DirClean
    <2> QED
      BY <1>2, <1>3, <1>6, <2>1, <2>3 DEF DirInv
  <1>8. FileInv' /\ OwnInv'
    BY <1>1, <1>3, <1>6, Zenon DEF SfsInv, FileInv, OwnInv
  <1>9. ASSUME NEW p \in Settled' PROVE OnDevice(view, disk, p, chain[p]) /\ Marked(chain[p], disk_map)
    <2>1. p \in Intact
      BY <1>1 DEF Settled, Intact
    <2>2. chain[p] \in Seq(Data)
      BY <2>1 DEF SfsInv, TypeInv, Intact
    <2>3. OnDevice(view, disk, p, chain[p])
      <3>1. \A i \in DOMAIN chain[p] : chain[p][i] \in Sectors
        BY <2>2, ChainSectors, SMTT(30), ZenonT(30)
      <3> QED
        BY <1>4, <1>5, <3>1 DEF OnDevice
    <2>4. CASE pc = "sync_cache"
      BY <2>1, <2>3, <2>4, SMTT(30), ZenonT(30) DEF SfsInv, MapInv, FileInv
    <2>5. CASE pc = "remove_sync" /\ p = path
      BY <2>3, <2>5 DEF SfsInv, SlotInv, Marked
    <2>6. CASE pc = "remove_sync" /\ unsynced' = unsynced \ {path} /\ p # path
      <3>1. p \in Settled
        BY <1>1, <2>6 DEF Settled
      <3> QED
        BY <2>3, <3>1 DEF SfsInv, SettledInv
    <2> QED
      BY <1>1, <2>4, <2>5, <2>6
  <1>10. SettledInv'
    BY <1>1, <1>3, <1>6, <1>9, SMTT(30), ZenonT(30) DEF SettledInv
  <1>11. TypeInv' /\ MapInv' /\ SlotInv' /\ MadeInv'
    BY <1>1, <1>2, <1>3, <1>6, Zenon DEF SfsInv, TypeInv, MapInv, SlotInv, MadeInv, Steps, Removing
  <1> QED
    BY <1>7, <1>8, <1>10, <1>11 DEF SfsInv

(* After a restart only what is on the device is left. *)
LEMMA Restarts ==
    ASSUME SfsInv, Crash
    PROVE  SfsInv'
  <1>1. /\ cache' = <<>> /\ dirty' = {} /\ lru' = <<>> /\ bitmap_cache' = disk_map
        /\ torn' = torn \cup unsynced /\ unsynced' = {}
        /\ Idle /\ UNCHANGED <<disk, disk_map, files, chain, clobbered>>
    BY Zenon DEF Crash
  <1>2. pc' = "idle" /\ slot' \in Slots /\ scan'.sector \in DirSectors /\ Gone' = ""
    BY <1>1, IdleTyped, SMTT(30), ZenonT(30) DEF Gone
  <1>3. Sound(Memory') /\ \A s \in Sectors : view'[s] = disk[s]
    <2>1. DOMAIN cache' = {} /\ lru' \in Seq(Sectors) /\ OneToOne(lru') /\ DOMAIN lru' = {}
      BY <1>1 DEF OneToOne
    <2> QED
      BY <1>1, <2>1, Zenon DEF view, View, Memory, Sound, SfsInv, TypeInv
  <1>4. \A a \in Slots : At(view', a) = At(disk, a)
    BY <1>3, SectorKinds, Zenon DEF At
  <1>5. Lone' = Lone /\ Intact' = Settled /\ Settled' = Settled /\ Settled \subseteq Intact
    BY <1>1 DEF Lone, Intact, Settled
  <1>6. DirInv'
    <2>1. NamesIn(view') = NamesIn(disk)
      BY <1>4, NamesSame
    <2>2. /\ NamesIn(view) \in NameOf /\ NamesIn(disk) \in NameOf /\ Lone \in SUBSET Paths
          /\ DirOk(NamesIn(view), NamesIn(disk), Lone, Gone)
      BY ViewTyped DEF SfsInv, TypeInv, DirInv, Lone
    <2>3. DirOk(NamesIn(disk), NamesIn(disk), Lone, "")
      BY <2>2, DirClean, ZenonT(30)
    <2> QED
      BY <1>1, <1>2, <1>5, <2>1, <2>3 DEF DirInv
  <1>7. ASSUME NEW p \in Settled
        PROVE  /\ FileIs(view', p, files[p], chain[p]) /\ Marked(chain[p], disk_map)
               /\ OnDevice(view', disk, p, chain[p])
    <2>1. chain[p] \in Seq(Data)
      BY DEF SfsInv, TypeInv, Settled
    <2>2. \A i \in DOMAIN chain[p] : view'[chain[p][i]] = disk[chain[p][i]]
      <3>1. \A i \in DOMAIN chain[p] : chain[p][i] \in Sectors
        BY <2>1, ChainSectors
      <3> QED
        BY <1>3, <3>1
    <2>3. OnDevice(view, disk, p, chain[p]) /\ Marked(chain[p], disk_map)
      BY ZenonT(30) DEF SfsInv, SettledInv
    <2>4. Kept(view, view', p, chain[p])
      <3>1. ASSUME NEW a \in Slots, At(view, a).name = p \/ At(view', a).name = p
            PROVE  At(view', a) = At(view, a)
        <4>1. At(view', a) = At(disk, a)
          BY <1>4, Zenon
        <4>2. At(view, a).name = p \/ At(disk, a).name = p
          BY <3>1, <4>1, Zenon
        <4> QED
          BY <2>3, <4>1, <4>2, Zenon DEF OnDevice
      <3>2. ASSUME NEW i \in DOMAIN chain[p]
            PROVE  view'[chain[p][i]] = view[chain[p][i]]
        <4>1. view'[chain[p][i]] = disk[chain[p][i]]
          BY <2>2
        <4>2. disk[chain[p][i]] = view[chain[p][i]]
          BY <2>3 DEF OnDevice
        <4> QED
          BY <4>1, <4>2
      <3> QED
        BY <3>1, <3>2, Zenon DEF Kept
    <2>5. FileIs(view, p, files[p], chain[p])
      BY <1>5, ZenonT(30) DEF SfsInv, FileInv
    <2>6. OnDevice(view', disk, p, chain[p])
      BY <1>4, <2>2 DEF OnDevice
    <2> QED
      BY <2>3, <2>4, <2>5, <2>6, FileKept
  <1>8. FileInv' /\ SettledInv'
    BY <1>1, <1>5, <1>7, Zenon DEF FileInv, SettledInv
  <1>9. OwnInv'
    BY <1>1, <1>5, ZenonT(30) DEF SfsInv, OwnInv
  <1>10. TypeInv' /\ MapInv' /\ SlotInv' /\ MadeInv'
    BY <1>1, <1>2, <1>3, ZenonT(30) DEF SfsInv, TypeInv, MapInv, SlotInv, MadeInv, Steps, Removing
  <1> QED
    BY <1>6, <1>8, <1>9, <1>10 DEF SfsInv

LEMMA BecomesShows ==
    ASSUME NEW STATE n, Becomes(n), Sound(n)
    PROVE  /\ Sound(Memory') /\ disk' = n.disk
           /\ \A t \in Sectors : view'[t] = View(n, t)
  <1>1. /\ Memory'.cache = n.cache /\ Memory'.dirty = n.dirty /\ Memory'.lru = n.lru
        /\ Memory'.disk = n.disk /\ disk' = n.disk
    BY DEF Becomes, Memory
  <1>2. Sound(Memory')
    BY <1>1, Zenon DEF Sound
  <1>3. \A t \in Sectors : view'[t] = View(Memory', t)
    BY Zenon DEF view
  <1> QED
    BY <1>1, <1>2, <1>3 DEF View

(* A step that only moves blocks between the cache and the device *)
LEMMA BlocksMove ==
    ASSUME SfsInv, Sound(Memory'), Slide(view, view', disk, disk', {}), pc # "write", pc' # "write",
           UNCHANGED <<bitmap, history>>, Gone' = Gone, pc' = "sync_cache" => pc = "sync_cache",
           pc' \in Steps, slot' \in Slots, scan'.sector \in DirSectors,
           Removing' => Removing /\ UNCHANGED <<path, slot>>,
           pc' = "remove_sync" => pc = "remove_sync" /\ path' = path
    PROVE  SfsInv'
  <1>1. UNCHANGED <<files, chain, unsynced, torn, clobbered, disk_map, bitmap_cache, bitmap_dirty>>
    BY DEF history, bitmap
  <1>2. FileInv' /\ OwnInv' /\ SettledInv'
    BY <1>1, SlideStep
  <1>3. DirInv' /\ NamesIn(view') = NamesIn(view)
    BY <1>1, SlideDir
  <1>4. MapInv' /\ MadeInv'
    BY <1>1, ZenonT(30) DEF SfsInv, MapInv, MadeInv
  <1>5. TypeInv'
    BY <1>1, ZenonT(30) DEF SfsInv, TypeInv
  <1>6. SlotInv'
    <2>1. Lone' = Lone
      BY <1>1, ZenonT(30) DEF Lone
    <2>2. ASSUME Removing'
          PROVE  RemoveSlot(NamesIn(view'), Lone', slot', path')
      <3>1. Removing /\ slot' = slot /\ path' = path
        BY <2>2, Zenon
      <3>2. RemoveSlot(NamesIn(view), Lone, slot, path)
        BY <3>1, Zenon DEF SfsInv, SlotInv
      <3> QED
        BY <1>3, <2>1, <3>1, <3>2, Zenon
    <2>3. ASSUME pc' = "remove_sync"
          PROVE  chain'[path'] = <<>>
      <3>1. pc = "remove_sync" /\ path' = path
        BY <2>3, Zenon
      <3>2. chain[path] = <<>>
        BY <3>1, Zenon DEF SfsInv, SlotInv
      <3> QED
        BY <1>1, <3>1, <3>2, Zenon
    <2> QED
      BY <2>2, <2>3, Zenon DEF SlotInv
  <1> QED
    BY <1>2, <1>3, <1>4, <1>5, <1>6 DEF SfsInv

LEMMA SectorSyncs ==
    ASSUME SfsInv, SyncSector
    PROVE  SfsInv'
  <1>1. PICK s \in dirty : disk' = [disk EXCEPT ![s] = cache[s]] /\ dirty' = dirty \ {s}
    BY Zenon DEF SyncSector
  <1>2. /\ pc \in {"sync_cache", "remove_sync"}
        /\ UNCHANGED <<bitmap, cache, lru, call, history>>
    BY DEF SyncSector
  <1>3. UNCHANGED <<cache, lru, pc, op, path, slot, scan>>
    BY <1>2 DEF call
  <1>4. Sound(Memory)
    BY SMTT(30), ZenonT(30) DEF SfsInv, TypeInv
  <1>5. s \in DOMAIN cache /\ s \in Sectors /\ DOMAIN disk = Sectors /\ cache[s] \in Content(s)
    BY <1>1, <1>4 DEF Sound, Memory
  <1>6. DOMAIN disk' = Sectors /\ \A t \in Sectors : disk'[t] = IF t = s THEN cache[s] ELSE disk[t]
    BY <1>1, <1>5, SMTT(30), ZenonT(30)
  <1>7. Sound(Memory')
    BY <1>1, <1>3, <1>4, <1>5, <1>6, ZenonT(30) DEF Sound, Memory
  <1>8. \A t \in Sectors : view'[t] = view[t] /\ disk'[t] \in {disk[t], view[t]}
    BY <1>3, <1>5, <1>6, Zenon DEF view, View, Memory
  <1>9. Slide(view, view', disk, disk', {})
    BY <1>8 DEF Slide
  <1>10. pc' \in Steps /\ slot' \in Slots /\ scan'.sector \in DirSectors /\ ~ Removing' /\ Gone' = Gone
    BY <1>2, <1>3 DEF SfsInv, TypeInv, Removing, Gone
  <1> QED
    BY <1>2, <1>3, <1>7, <1>9, <1>10, BlocksMove

LEMMA SectorListed ==
    ASSUME SfsInv, ListSector
    PROVE  SfsInv'
  <1>1. /\ pc = "list" /\ Becomes(Load(Memory, scan.sector)) /\ UNCHANGED <<bitmap, history>>
        /\ \/ /\ scan.sector < SEC_DIR_COUNT /\ scan'.sector = scan.sector + 1
              /\ UNCHANGED <<pc, op, path, slot>>
           \/ op = "remove" /\ pc' = "remove" /\ scan' = ScanStart /\ UNCHANGED <<op, path, slot>>
           \/ Idle
    <2>1. /\ pc = "list" /\ Becomes(Load(Memory, scan.sector)) /\ UNCHANGED <<bitmap, history>>
          /\ \/ /\ scan.sector < SEC_DIR_COUNT
                /\ \E n, e : scan' = [sector |-> scan.sector + 1, empties |-> e, names |-> n]
                /\ UNCHANGED <<pc, op, path, slot, data, made>>
             \/ /\ op = "remove" /\ pc' = "remove" /\ scan' = ScanStart
                /\ UNCHANGED <<op, path, slot, data, made>>
             \/ Idle
      BY Zenon DEF ListSector
    <2> QED
      BY <2>1
  <1>2. Sound(Memory) /\ scan.sector \in Sectors /\ scan.sector \in DirSectors
    BY SectorKinds, Zenon DEF SfsInv, TypeInv
  <1>3. Sound(Load(Memory, scan.sector)) /\ Same(Memory, Load(Memory, scan.sector))
    BY <1>2, LoadSame
  <1>4. /\ Sound(Memory') /\ disk' = Load(Memory, scan.sector).disk
        /\ \A t \in Sectors : view'[t] = View(Load(Memory, scan.sector), t)
    BY <1>1, <1>3, BecomesShows
  <1>5. \A t \in Sectors : view[t] = View(Memory, t) /\ disk[t] = Memory.disk[t]
    BY SMTT(30), ZenonT(30) DEF view, Memory
  <1>6. Slide(view, view', disk, disk', {})
    BY <1>3, <1>4, <1>5 DEF Slide, Same, WrittenBack
  <1>7. slot' \in Slots /\ scan'.sector \in DirSectors
    <2>1. CASE Idle
      BY <2>1, IdleTyped
    <2>2. CASE pc' = "remove" /\ scan' = ScanStart /\ UNCHANGED <<op, path, slot>>
      <3>1. SEC_DIR_COUNT \in Nat \ {0}
        BY SfsAssumption, Zenon
      <3> QED
        BY <2>2, <3>1 DEF ScanStart, DirSectors, SfsInv, TypeInv
    <2>3. CASE scan.sector < SEC_DIR_COUNT /\ scan'.sector = scan.sector + 1 /\ UNCHANGED <<pc, op, path, slot>>
      <3>1. SEC_DIR_COUNT \in Nat
        BY SfsAssumption, Zenon
      <3> QED
        BY <1>2, <2>3, <3>1 DEF DirSectors, SfsInv, TypeInv
    <2> QED
      BY <1>1, <2>1, <2>2, <2>3
  <1>8. /\ pc' \in {"idle", "list", "remove"} /\ Gone' = Gone
        /\ Removing' => Removing /\ UNCHANGED <<path, slot>>
    BY <1>1, IdleTyped DEF Removing, Gone
  <1> QED
    BY <1>1, <1>4, <1>6, <1>7, <1>8, BlocksMove DEF Steps
=============================================================================
