--------------------------- MODULE SfsStepProofs ---------------------------
(***************************************************************************)
(* The steps that change a file or the directory keep the invariant SfsInv *)
(* of SfsProofs too.  So, for every size of the directory, the device and  *)
(* the cache, a file that was synced reads back as written after stops of  *)
(* the machine, its blocks are its own, and its path has one entry.        *)
(***************************************************************************)
EXTENDS SfsProofs, WellFoundedInduction

----------------------------------------------------------------------------
(* write_file adds the block b to those that hold the beginning of the content. *)
Extended(w, w2, c, v, b) ==
    /\ c \in Seq(Data) /\ v \in Seq(Nat) /\ b \in Data /\ Len(c) < Len(v)
    /\ Linked(w, c, v) /\ OneToOne(c) /\ \A i \in DOMAIN c : c[i] # b
    /\ w2[b].next = 0 /\ w2[b].chunk = v[Len(c) + 1]
    /\ \A i \in DOMAIN c : i # Len(c) => w2[c[i]] = w[c[i]]
    /\ c # <<>> => w2[c[Len(c)]].next = b /\ w2[c[Len(c)]].chunk = w[c[Len(c)]].chunk

LEMMA LinkedAppend ==
    ASSUME NEW w, NEW w2, NEW c, NEW v, NEW b, Extended(w, w2, c, v, b)
    PROVE  /\ Append(c, b) \in Seq(Data) /\ Linked(w2, Append(c, b), v) /\ OneToOne(Append(c, b))
           /\ \A i \in DOMAIN Append(c, b) : Append(c, b)[i] = b \/ \E j \in DOMAIN c : Append(c, b)[i] = c[j]
  <1> DEFINE d == Append(c, b)
  <1> USE DEF Extended
  <1>1. /\ Len(c) \in Nat /\ Len(v) \in Nat /\ DOMAIN c = 1 .. Len(c)
        /\ d \in Seq(Data) /\ Len(d) = Len(c) + 1 /\ DOMAIN d = 1 .. Len(c) + 1
        /\ \A i \in 1 .. Len(c) : d[i] = c[i]
        /\ d[Len(c) + 1] = b
    OBVIOUS
  <1> HIDE DEF d
  <1>5. \A i \in DOMAIN d : (i \in DOMAIN c /\ d[i] = c[i]) \/ (i = Len(c) + 1 /\ d[i] = b)
    <2>1. \A i \in DOMAIN d : i \in 1 .. Len(c) \/ i = Len(c) + 1
      BY <1>1
    <2> QED
      BY <1>1, <2>1, Zenon
  <1>2. OneToOne(d)
    BY <1>5, ZenonT(30) DEF OneToOne
  <1>3. ASSUME NEW i \in DOMAIN d
        PROVE  w2[d[i]].chunk = v[i] /\ w2[d[i]].next = IF i = Len(d) THEN 0 ELSE d[i + 1]
    <2>1. CASE i = Len(c) + 1
      BY <1>1, <2>1
    <2>2. CASE i = Len(c)
      <3>1. i \in DOMAIN c /\ c # <<>>
        BY <1>1, <1>3, <2>2
      <3>2. d[i] = c[i] /\ w2[c[i]].next = b /\ w2[c[i]].chunk = w[c[i]].chunk
        BY <1>1, <2>2, <3>1
      <3>3. w[c[i]].chunk = v[i]
        BY <3>1, SMTT(30), ZenonT(30) DEF Linked
      <3>4. i # Len(d) /\ d[i + 1] = b
        BY <1>1, <2>2, ZenonT(30)
      <3> QED
        BY <3>2, <3>3, <3>4, Zenon
    <2>3. CASE i < Len(c)
      <3>1. i \in DOMAIN c /\ i + 1 \in 1 .. Len(c) /\ i # Len(c)
        BY <1>1, <1>3, <2>3, SMTT(30), ZenonT(30)
      <3>2. d[i] = c[i] /\ d[i + 1] = c[i + 1] /\ w2[c[i]] = w[c[i]]
        BY <1>1, <3>1
      <3>3. w[c[i]].chunk = v[i] /\ w[c[i]].next = c[i + 1]
        BY <3>1 DEF Linked
      <3> QED
        BY <1>1, <2>3, <3>1, <3>2, <3>3
    <2> QED
      BY <1>1, <2>1, <2>2, <2>3
  <1>4. Linked(w2, d, v)
    BY <1>1, <1>3 DEF Linked
  <1>6. \A i \in DOMAIN d : d[i] = b \/ \E j \in DOMAIN c : d[i] = c[j]
    BY <1>5, Zenon
  <1> QED
    BY <1>1, <1>2, <1>4, <1>6, Zenon DEF d

LEMMA BlockWritten ==
    ASSUME SfsInv, WriteBlock
    PROVE  SfsInv'
  <1>1. PICK b \in Data \ bitmap_cache :
            /\ Alloc(b) /\ made' = Append(made, b)
            /\ Becomes(Modify(link_block_cached(Memory, b), b, [next |-> 0, chunk |-> data[Len(made) + 1]]))
    BY Zenon DEF WriteBlock
  <1>2. /\ pc = "write" /\ Len(data) - Len(made) > 0
        /\ UNCHANGED <<disk_map, pc, op, path, slot, data, scan, files, chain, unsynced, torn, clobbered>>
        /\ bitmap_cache' = bitmap_cache \cup {b} /\ bitmap_dirty'
    BY <1>1, Zenon DEF WriteBlock, Alloc, remaining, history
  <1>3. /\ Sound(Memory) /\ data \in Seq(Nat) /\ made \in Seq(Data) /\ b \in Data /\ b \in Sectors
        /\ Len(made) < Len(data) /\ data[Len(made) + 1] \in Nat
    <2>1. Sound(Memory) /\ data \in Seq(Nat) /\ made \in Seq(Data)
      BY <1>2 DEF SfsInv, TypeInv
    <2>2. b \in Data /\ b \in Sectors
      BY SectorKinds, Zenon
    <2> QED
      BY <1>2, <2>1, <2>2
  <1> DEFINE m == link_block_cached(Memory, b)
             n == Modify(m, b, [next |-> 0, chunk |-> data[Len(made) + 1]])
             X == {t \in Data : t = b \/ t = prev}
  <1>4. \A i \in DOMAIN made : /\ made[i] \in Data /\ made[i] \in Sectors /\ made[i] # 0
                               /\ made[i] \in bitmap_cache /\ made[i] # b
    <2>1. \A i \in DOMAIN made : made[i] \in bitmap_cache
      BY <1>2 DEF SfsInv, MadeInv, Marked
    <2> QED
      BY <1>1, <1>3, <2>1, ChainSectors, SectorKinds, Zenon
  <1>5. \/ made = <<>> /\ prev = 0
        \/ made # <<>> /\ prev = made[Len(made)] /\ Len(made) \in DOMAIN made
    BY <1>3 DEF prev
  <1>6. /\ Sound(m) /\ WrittenBack(Memory, m)
        /\ \A t \in Sectors : t # prev => View(m, t) = View(Memory, t)
        /\ made # <<>> => /\ View(m, prev).next = b
                         /\ View(m, prev).chunk = View(Memory, prev).chunk
    <2>1. CASE made = <<>>
      <3>1. m = Memory
        BY <1>5, <2>1, Zenon DEF link_block_cached
      <3> QED
        BY <1>3, <2>1, <3>1 DEF WrittenBack
    <2>2. CASE made # <<>>
      <3>1. prev \in Data /\ prev \in Sectors /\ prev # 0
        BY <1>4, <1>5, <2>2
      <3>2. m = Modify(Memory, prev, [View(Memory, prev) EXCEPT !.next = b])
        BY <3>1, Zenon DEF link_block_cached
      <3>3. prev \notin DirSectors /\ b \in Nat
        BY <1>3, <3>1, SectorKinds, Zenon
      <3>4. View(Memory, prev) \in DataBlocks
        BY <1>3, <3>1, <3>3 DEF Sound, View, Content
      <3>5. /\ [View(Memory, prev) EXCEPT !.next = b] \in DataBlocks
            /\ [View(Memory, prev) EXCEPT !.next = b].next = b
            /\ [View(Memory, prev) EXCEPT !.next = b].chunk = View(Memory, prev).chunk
        BY <3>3, <3>4 DEF DataBlocks
      <3>6. [View(Memory, prev) EXCEPT !.next = b] \in Content(prev)
        BY <3>3, <3>5, Zenon DEF Content
      <3>7. /\ Sound(m) /\ WrittenBack(Memory, m)
            /\ \A t \in Sectors :
                View(m, t) = IF t = prev THEN [View(Memory, prev) EXCEPT !.next = b] ELSE View(Memory, t)
        BY <1>3, <3>1, <3>2, <3>6, ModifyShows
      <3> QED
        BY <3>1, <3>5, <3>7, Zenon
    <2> QED
      BY <2>1, <2>2
  <1>7. /\ Sound(n) /\ WrittenBack(m, n)
        /\ \A t \in Sectors :
            View(n, t) = IF t = b THEN [next |-> 0, chunk |-> data[Len(made) + 1]] ELSE View(m, t)
    <2>1. [next |-> 0, chunk |-> data[Len(made) + 1]] \in Content(b)
      <3>1. b \notin DirSectors
        BY <1>3, SectorKinds, Zenon
      <3>2. [next |-> 0, chunk |-> data[Len(made) + 1]] \in DataBlocks
        BY <1>3 DEF DataBlocks
      <3> QED
        BY <3>1, <3>2, Zenon DEF Content
    <2> QED
      BY <1>3, <1>6, <2>1, ModifyShows
  <1> HIDE DEF m
  <1>8. Sound(Memory') /\ disk' = n.disk /\ \A t \in Sectors : view'[t] = View(n, t)
    <2>1. Becomes(n)
      BY <1>1 DEF m
    <2> QED
      BY <1>7, <2>1, BecomesShows
  <1> HIDE DEF n
  <1>9. \A t \in Sectors : view[t] = View(Memory, t) /\ disk[t] = Memory.disk[t]
    BY DEF view, Memory
  <1>10. Slide(view, view', disk, disk', X) /\ X \in SUBSET Data
    <2>1. ASSUME NEW t \in Sectors \ X PROVE view'[t] = view[t] /\ disk'[t] \in {disk[t], view[t]}
      <3>1. t # b /\ t # prev
        <4>1. CASE made = <<>>
          BY <1>3, <1>5, <4>1, SectorKinds, Zenon
        <4>2. CASE made # <<>>
          BY <1>3, <1>4, <1>5, <4>2
        <4> QED
          BY <4>1, <4>2
      <3> QED
        BY <1>6, <1>7, <1>8, <1>9, <3>1 DEF WrittenBack
    <2> QED
      BY <2>1 DEF Slide
  <1>11. ASSUME NEW p \in Intact, NEW i \in DOMAIN chain[p] PROVE chain[p][i] \notin X
    <2>1. chain[p][i] # b
      BY <1>1 DEF SfsInv, FileInv, Marked
    <2>2. \A j \in DOMAIN made : chain[p][i] # made[j]
      BY <1>2 DEF SfsInv, MadeInv, Apart
    <2>3. prev = 0 \/ chain[p][i] # prev
      BY <1>5, <2>2, Zenon
    <2> QED
      BY <2>1, <2>3, SectorKinds, Zenon
  <1> HIDE DEF X
  <1>12. bitmap_cache \subseteq bitmap_cache' /\ Gone' = Gone /\ Gone = "" /\ Intact' = Intact /\ Lone' = Lone
    BY <1>2 DEF Gone, Intact, Lone
  <1>13. FileInv' /\ OwnInv' /\ SettledInv'
    BY <1>2, <1>10, <1>11, <1>12, SlideStep
  <1>14. /\ DirInv' /\ NamesIn(view') = NamesIn(view) /\ NamesIn(disk') \in NameOf
         /\ \A a \in Slots : NamesIn(disk')[a] \in {NamesIn(disk)[a], NamesIn(view)[a]}
    BY <1>2, <1>8, <1>10, <1>12, SlideDir
  <1>15. /\ made' \in Seq(Data) /\ Linked(view', made', data) /\ OneToOne(made')
         /\ \A i \in DOMAIN made' : made'[i] = b \/ \E j \in DOMAIN made : made'[i] = made[j]
    <2>1. Linked(view, made, data) /\ OneToOne(made)
      BY <1>2 DEF SfsInv, MadeInv
    <2>2. view'[b].next = 0 /\ view'[b].chunk = data[Len(made) + 1]
      BY <1>3, <1>7, <1>8
    <2>3. ASSUME NEW i \in DOMAIN made, i # Len(made) PROVE view'[made[i]] = view[made[i]]
      <3>1. made[i] # prev /\ made[i] # b /\ made[i] \in Sectors
        BY <1>4, <1>5, <2>1, <2>3, Zenon DEF OneToOne
      <3> QED
        BY <1>6, <1>7, <1>8, <1>9, <3>1
    <2>4. made # <<>> => /\ view'[made[Len(made)]].next = b
                        /\ view'[made[Len(made)]].chunk = view[made[Len(made)]].chunk
      <3>1. made # <<>> => prev \in Sectors /\ prev # b /\ made[Len(made)] = prev
        BY <1>4, <1>5, Zenon
      <3>2. made # <<>> => view'[prev] = View(m, prev) /\ view[prev] = View(Memory, prev)
        BY <1>7, <1>8, <1>9, <3>1
      <3> QED
        BY <1>6, <3>1, <3>2
    <2> QED
      <3>1. (\A i \in DOMAIN made : made[i] # b) /\ b \in Data
        BY <1>3, <1>4, Zenon
      <3>2. \A i \in DOMAIN made : i # Len(made) => view'[made[i]] = view[made[i]]
        BY <2>3
      <3>3. made \in Seq(Data) /\ data \in Seq(Nat) /\ Len(made) < Len(data) /\ made' = Append(made, b)
        BY <1>1, <1>3, Zenon
      <3>4. /\ Append(made, b) \in Seq(Data) /\ Linked(view', Append(made, b), data)
            /\ OneToOne(Append(made, b))
            /\ \A i \in DOMAIN Append(made, b) :
                Append(made, b)[i] = b \/ \E j \in DOMAIN made : Append(made, b)[i] = made[j]
        <4>1. Extended(view, view', made, data, b)
          BY <2>1, <2>2, <2>4, <3>1, <3>2, <3>3, Zenon DEF Extended
        <4> QED
          BY <4>1, LinkedAppend
      <3> QED
        BY <3>3, <3>4, Zenon
  <1>16. Marked(made', bitmap_cache')
    BY <1>2, <1>4, <1>15, Zenon DEF Marked
  <1>17. ASSUME NEW p \in Intact PROVE Apart(made', chain[p])
    <2>1. \A i \in DOMAIN chain[p] : chain[p][i] # b
      BY <1>1 DEF SfsInv, FileInv, Marked
    <2>2. \A j \in DOMAIN made, i \in DOMAIN chain[p] : made[j] # chain[p][i]
      BY <1>2 DEF SfsInv, MadeInv, Apart
    <2>3. ASSUME NEW i \in DOMAIN made', NEW j \in DOMAIN chain[p] PROVE made'[i] # chain[p][j]
      BY <1>15, <2>1, <2>2
    <2> QED
      BY <2>3 DEF Apart
  <1>18. MadeInv'
    BY <1>2, <1>12, <1>15, <1>16, <1>17, ZenonT(30) DEF MadeInv
  <1>19. SlotInv'
    <2>1. /\ WriteSlot(NamesIn(view), NamesIn(disk), Lone, slot, path)
          /\ DirOk(NamesIn(view), NamesIn(disk), Lone, "")
      BY <1>2, <1>12 DEF SfsInv, SlotInv, DirInv
    <2>2. NamesIn(view) \in NameOf /\ NamesIn(disk) \in NameOf /\ Lone \in SUBSET Paths /\ slot \in Slots
      BY <1>3, ViewTyped DEF SfsInv, TypeInv, Lone
    <2>3. WriteSlot(NamesIn(view), NamesIn(disk'), Lone, slot, path)
      BY <1>14, <2>1, <2>2, SlotWrittenBack
    <2> QED
      BY <1>2, <1>12, <1>14, <2>3, Zenon DEF SlotInv, Removing
  <1>20. MapInv'
    <2>1. bitmap_cache' \subseteq Data /\ disk_map' \subseteq bitmap_cache'
      BY <1>2, <1>3 DEF SfsInv, MapInv
    <2> QED
      BY <1>2, <2>1 DEF MapInv
  <1>21. TypeInv'
    BY <1>2, <1>3, <1>8, <1>15 DEF SfsInv, TypeInv, Removing
  <1> QED
    BY <1>13, <1>14, <1>18, <1>19, <1>20, <1>21 DEF SfsInv

----------------------------------------------------------------------------
(* A directory entry changes in the cache *)
EntrySet(w, w2, k, k2, s, e) ==
    /\ \A a \in Slots : /\ At(w2, a) = IF a = s THEN e ELSE At(w, a)
                        /\ At(k2, a) \in {At(k, a), At(w, a)}
    /\ \A t \in Data : w2[t] = w[t] /\ k2[t] \in {k[t], w[t]}

LEMMA EntryKeeps ==
    ASSUME NEW w, NEW w2, NEW k, NEW k2, NEW s \in Slots, NEW e, EntrySet(w, w2, k, k2, s, e),
           NEW q, NEW c \in Seq(Data), At(w, s).name # q, e.name # q
    PROVE  /\ Kept(w, w2, q, c)
           /\ OnDevice(w, k, q, c) => OnDevice(w2, k2, q, c)
  <1>1. \A i \in DOMAIN c : w2[c[i]] = w[c[i]] /\ k2[c[i]] \in {k[c[i]], w[c[i]]}
    BY ChainSectors DEF EntrySet
  <1>2. \A a \in Slots : At(k2, a) \in {At(k, a), At(w, a)}
    BY Zenon DEF EntrySet
  <1>3. \A a \in Slots : At(w2, a) = IF a = s THEN e ELSE At(w, a)
    BY Zenon DEF EntrySet
  <1>4. ASSUME NEW a \in Slots, At(w, a).name = q \/ At(w2, a).name = q
        PROVE  At(w2, a) = At(w, a)
    <2>1. CASE a = s
      BY <1>3, <1>4, <2>1, Zenon
    <2>2. CASE a # s
      BY <1>3, <2>2, Zenon
    <2> QED
      BY <2>1, <2>2
  <1>5. Kept(w, w2, q, c)
    BY <1>1, <1>4 DEF Kept
  <1> QED
    BY <1>1, <1>2, <1>5, OnDeviceKept

LEMMA EntryChanges ==
    ASSUME SfsInv, NEW STATE e, e \in DirEntries,
           Becomes(Modify(Memory, slot[1], [View(Memory, slot[1]) EXCEPT ![slot[2]] = e]))
    PROVE  /\ Sound(Memory') /\ EntrySet(view, view', disk, disk', slot, e)
           /\ View(Memory, slot[1])[slot[2]] = At(view, slot)
  <1> DEFINE x == [View(Memory, slot[1]) EXCEPT ![slot[2]] = e]
             n == Modify(Memory, slot[1], x)
  <1>1. /\ Sound(Memory) /\ slot \in Slots
        /\ slot[1] \in DirSectors /\ slot[1] \in Sectors /\ slot[2] \in Index
    BY SectorKinds DEF SfsInv, TypeInv
  <1>2. \A t \in Sectors : view[t] = View(Memory, t) /\ disk[t] = Memory.disk[t]
    BY DEF view, Memory
  <1>3. View(Memory, slot[1]) \in [Index -> DirEntries]
    BY <1>1 DEF Sound, View, Content
  <1>4. /\ x \in [Index -> DirEntries]
        /\ \A i \in Index : x[i] = IF i = slot[2] THEN e ELSE View(Memory, slot[1])[i]
    BY <1>1, <1>3
  <1>5. x \in Content(slot[1])
    BY <1>1, <1>4 DEF Content
  <1> HIDE DEF x
  <1>6. /\ Sound(n) /\ WrittenBack(Memory, n)
        /\ \A t \in Sectors : View(n, t) = IF t = slot[1] THEN x ELSE View(Memory, t)
    BY <1>1, <1>5, ModifyShows
  <1>7. Sound(Memory') /\ disk' = n.disk /\ \A t \in Sectors : view'[t] = View(n, t)
    <2>1. Becomes(n)
      BY DEF x
    <2> QED
      BY <1>6, <2>1, BecomesShows
  <1> HIDE DEF n
  <1>8. \A t \in Sectors : /\ view'[t] = IF t = slot[1] THEN x ELSE view[t]
                           /\ disk'[t] \in {disk[t], view[t]}
    BY <1>2, <1>6, <1>7 DEF WrittenBack
  <1>9. ASSUME NEW a \in Slots
        PROVE  /\ At(view', a) = IF a = slot THEN e ELSE At(view, a)
               /\ At(disk', a) \in {At(disk, a), At(view, a)}
    <2>1. a[1] \in Sectors /\ a[2] \in Index
      BY SectorKinds
    <2>2. At(disk', a) \in {At(disk, a), At(view, a)}
      BY <1>8, <2>1 DEF At
    <2>3. a = <<a[1], a[2]>> /\ slot = <<slot[1], slot[2]>>
      BY <1>1 DEF Slots
    <2>4. CASE a[1] = slot[1] /\ a[2] = slot[2]
      BY <1>1, <1>4, <1>8, <2>3, <2>4, SMTT(30), ZenonT(30) DEF At
    <2>5. CASE a[1] # slot[1]
      <3>1. a # slot
        BY <2>5, SMTT(30), ZenonT(30)
      <3> QED
        BY <1>8, <2>1, <2>2, <2>5, <3>1 DEF At
    <2>6. CASE a[1] = slot[1] /\ a[2] # slot[2]
      <3>1. a # slot
        BY <2>6
      <3>2. view'[a[1]] = x /\ x[a[2]] = View(Memory, slot[1])[a[2]]
        BY <1>1, <1>4, <1>8, <2>1, <2>6, SMTT(30), ZenonT(30)
      <3>3. View(Memory, slot[1]) = view[a[1]]
        BY <1>1, <1>2, <2>6
      <3> QED
        BY <2>2, <3>1, <3>2, <3>3 DEF At
    <2> QED
      BY <2>2, <2>4, <2>5, <2>6
  <1>10. \A t \in Data : view'[t] = view[t] /\ disk'[t] \in {disk[t], view[t]}
    <2>1. \A t \in Data : t \in Sectors /\ t # slot[1]
      BY <1>1, SectorKinds, Zenon
    <2> QED
      BY <1>8, <2>1
  <1>11. View(Memory, slot[1])[slot[2]] = At(view, slot)
    BY <1>1, <1>2 DEF At
  <1> QED
    BY <1>7, <1>9, <1>10, <1>11 DEF EntrySet

LEMMA EntryNames ==
    ASSUME Sound(Memory), Sound(Memory'), NEW STATE s, s \in Slots, NEW STATE e,
           EntrySet(view, view', disk, disk', s, e)
    PROVE  /\ NamesIn(view) \in NameOf /\ NamesIn(disk) \in NameOf
           /\ NamesIn(view') \in NameOf /\ NamesIn(disk') \in NameOf
           /\ \A a \in Slots : NamesIn(disk')[a] \in {NamesIn(disk)[a], NamesIn(view)[a]}
           /\ \A a \in Slots : NamesIn(view')[a] = IF a = s THEN e.name ELSE NamesIn(view)[a]
  <1>1. NamesIn(view) \in NameOf /\ NamesIn(disk) \in NameOf
    BY ViewTyped
  <1>2. Typed(view') /\ Typed(disk')
    <2>1. \A t \in Sectors : view'[t] = View(Memory', t)
      BY ZenonT(30) DEF view
    <2>2. \A t \in Sectors : View(Memory', t) \in Content(t) /\ disk'[t] \in Content(t)
      BY DEF Sound, View, Memory
    <2> QED
      BY <2>1, <2>2 DEF Typed
  <1>3. NamesIn(view') \in NameOf /\ NamesIn(disk') \in NameOf
    BY <1>2, NamesTyped
  <1>4. \A a \in Slots : NamesIn(disk')[a] \in {NamesIn(disk)[a], NamesIn(view)[a]}
    BY NamesAt DEF EntrySet
  <1>5. \A a \in Slots : NamesIn(view')[a] = IF a = s THEN e.name ELSE NamesIn(view)[a]
    BY NamesAt DEF EntrySet
  <1> QED
    BY <1>1, <1>3, <1>4, <1>5

LEMMA EntryWritten ==
    ASSUME SfsInv, WriteEntry
    PROVE  SfsInv'
  <1> DEFINE e == [name |-> path, size |-> Len(data), head |-> head]
             old == View(Memory, slot[1])[slot[2]].name
  <1>1. /\ pc = "write" /\ Len(data) - Len(made) = 0
        /\ Becomes(Modify(Memory, slot[1], [View(Memory, slot[1]) EXCEPT ![slot[2]] = e]))
        /\ clobbered' = clobbered \cup (IF old \in {"", path} THEN {} ELSE {old, path})
        /\ files' = [files EXCEPT ![path] = data] /\ chain' = [chain EXCEPT ![path] = made]
        /\ unsynced' = unsynced \cup {path} /\ torn' = torn \ {path}
        /\ (pc' = "sync_map" /\ UNCHANGED <<slot, scan>>) \/ Idle
        /\ UNCHANGED <<disk_map, bitmap_cache, bitmap_dirty>>
    BY Zenon DEF WriteEntry, remaining, bitmap
  <1>2. /\ Sound(Memory) /\ slot \in Slots /\ path \in Paths /\ path # ""
        /\ data \in Seq(Nat) /\ made \in Seq(Data) /\ Len(made) = Len(data)
        /\ DOMAIN files = Paths /\ chain \in [Paths -> Seq(Data)]
    <2>1. "" \notin Paths
      BY SfsAssumption, Zenon DEF Paths
    <2>2. /\ Sound(Memory) /\ slot \in Slots /\ path \in Paths
          /\ data \in Seq(Nat) /\ made \in Seq(Data)
          /\ DOMAIN files = Paths /\ chain \in [Paths -> Seq(Data)]
      BY <1>1, Zenon DEF SfsInv, TypeInv
    <2>3. data \in Seq(Nat) /\ made \in Seq(Data) /\ Len(data) - Len(made) = 0
      BY <1>1, <2>2, Zenon
    <2>4. Len(made) = Len(data)
      BY <2>3
    <2> QED
      BY <2>1, <2>2, <2>4, Zenon
  <1>3. head = FirstOf(made) /\ head \in Nat
    <2>1. made \in Seq(Data)
      BY <1>2, Zenon
    <2>2. made # <<>> => made[1] \in Data
      BY <2>1
    <2>3. head = FirstOf(made) /\ (head = 0 \/ head \in Data)
      BY <2>2, Zenon DEF head, FirstOf
    <2>4. 0 \in Nat
      OBVIOUS
    <2> QED
      BY <2>3, <2>4, SectorKinds, Zenon
  <1>4. e \in DirEntries /\ e.name = path
    <2>1. data \in Seq(Nat)
      BY <1>2, Zenon
    <2>2. Len(data) \in Nat
      BY <2>1
    <2>3. head \in Nat /\ path \in Paths
      BY <1>2, <1>3, ZenonT(30)
    <2> QED
      BY <2>2, <2>3 DEF DirEntries
  <1>5. /\ Sound(Memory') /\ EntrySet(view, view', disk, disk', slot, e) /\ old = At(view, slot).name
    BY <1>1, <1>4, EntryChanges, ZenonT(30)
  <1>6. /\ NamesIn(view) \in NameOf /\ NamesIn(disk) \in NameOf
        /\ NamesIn(view') \in NameOf /\ NamesIn(disk') \in NameOf
        /\ \A a \in Slots : NamesIn(disk')[a] \in {NamesIn(disk)[a], NamesIn(view)[a]}
        /\ \A a \in Slots : NamesIn(view')[a] = IF a = slot THEN path ELSE NamesIn(view)[a]
    BY <1>2, <1>4, <1>5, EntryNames
  <1> HIDE DEF old
  <1>7. NamesIn(view)[slot] = old
    BY <1>2, <1>5, NamesAt, ZenonT(30)
  <1>8. pc' \in {"idle", "sync_map"} /\ slot' \in Slots /\ scan'.sector \in DirSectors /\ Gone' = ""
    BY <1>1, IdleTyped, Zenon DEF SfsInv, TypeInv, Gone
  <1>9. DirInv'
    <2>1. DirOk(NamesIn(view), NamesIn(disk), Lone, "") /\ WriteSlot(NamesIn(view), NamesIn(disk), Lone, slot, path)
      BY <1>1 DEF SfsInv, DirInv, SlotInv, Gone
    <2>2. Lone \in SUBSET Paths /\ Lone' \in SUBSET Lone
      BY <1>1 DEF Lone
    <2>3. old \in {"", path} \/ (old \notin Lone' /\ path \notin Lone')
      BY <1>1 DEF Lone
    <2>4. NameSet(NamesIn(view), NamesIn(disk), NamesIn(view'), NamesIn(disk'), slot, path)
      BY <1>2, <1>6, Zenon DEF NameSet
    <2>5. NamesIn(view)[slot] \in {"", path} \/ (NamesIn(view)[slot] \notin Lone' /\ path \notin Lone')
      BY <1>7, <2>3, ZenonT(30)
    <2>6. DirOk(NamesIn(view'), NamesIn(disk'), Lone', "")
      BY <1>2, <2>1, <2>2, <2>4, <2>5, DirWritten, ZenonT(30)
    <2> QED
      BY <1>8, <2>6 DEF DirInv
  <1>10. ASSUME NEW q \in Intact', q # path
         PROVE  /\ q \in Intact /\ files'[q] = files[q] /\ chain'[q] = chain[q] /\ chain[q] \in Seq(Data)
                /\ Kept(view, view', q, chain[q])
                /\ OnDevice(view, disk, q, chain[q]) => OnDevice(view', disk', q, chain[q])
    <2>1. q \in Intact /\ q \in Paths
      BY <1>1, <1>10 DEF Intact
    <2>2. files'[q] = files[q] /\ chain'[q] = chain[q] /\ chain[q] \in Seq(Data)
      BY <1>1, <1>2, <1>10, <2>1, ZenonT(30)
    <2>3. At(view, slot).name # q /\ e.name # q
      <3>1. old # q
        <4>1. q # "" /\ q \notin clobbered'
          <5>1. "" \notin Paths
            BY SfsAssumption, ZenonT(30) DEF Paths
          <5> QED
            BY <2>1, <5>1 DEF Intact
        <4> QED
          BY <1>1, <1>10, <4>1, Zenon
      <3> QED
        BY <1>4, <1>5, <1>10, <3>1
    <2> HIDE DEF e
    <2>4. Kept(view, view', q, chain[q]) /\ (OnDevice(view, disk, q, chain[q]) => OnDevice(view', disk', q, chain[q]))
      BY <1>2, <1>5, <2>2, <2>3, EntryKeeps
    <2> QED
      BY <2>1, <2>2, <2>4, SMTT(30), ZenonT(30)
  <1>11. files'[path] = data /\ chain'[path] = made
    BY <1>1, <1>2
  <1>12. FileIs(view', path, data, made) /\ Marked(made, bitmap_cache)
    <2>1. Linked(view, made, data) /\ Marked(made, bitmap_cache)
      BY <1>1, ZenonT(30) DEF SfsInv, MadeInv
    <2>2. \A i \in DOMAIN made : view'[made[i]] = view[made[i]]
      BY <1>2, <1>5, ChainSectors DEF EntrySet
    <2>3. Linked(view', made, data)
      BY <2>1, <2>2, LinkedKept, SMTT(30), ZenonT(30)
    <2>4. At(view', slot) = [name |-> path, size |-> Len(data), head |-> FirstOf(made)]
      BY <1>2, <1>3, <1>5 DEF EntrySet
    <2>5. data # Absent
      <3>1. data \in Seq(Nat)
        BY <1>2, Zenon
      <3>2. Absent # <<>> /\ Absent[1] = -1
        BY DEF Absent
      <3>3. data # <<>> => data[1] \in Nat
        BY <3>1
      <3> QED
        BY <3>2, <3>3
    <2> QED
      BY <1>2, <2>1, <2>3, <2>4, <2>5, Zenon DEF FileIs
  <1>13. FileInv'
    <2>1. ASSUME NEW q \in Intact', q # path
          PROVE  FileIs(view', q, files'[q], chain'[q]) /\ Marked(chain'[q], bitmap_cache')
      <3>1. FileIs(view, q, files[q], chain[q]) /\ Marked(chain[q], bitmap_cache)
        BY <1>10, <2>1, SMTT(30), ZenonT(30) DEF SfsInv, FileInv
      <3>2. FileIs(view', q, files[q], chain[q])
        BY <1>10, <2>1, <3>1, FileKept
      <3> QED
        BY <1>1, <1>10, <2>1, <3>1, <3>2, ZenonT(30)
    <2> QED
      BY <1>1, <1>11, <1>12, <2>1 DEF FileInv
  <1>14. OwnInv'
    <2>1. ASSUME NEW p \in Intact', NEW q \in Intact', p # q PROVE Apart(chain'[p], chain'[q])
      <3>1. CASE p = path
        <4>1. q \in Intact /\ chain'[q] = chain[q] /\ chain'[p] = made
          BY <1>10, <1>11, <2>1, <3>1
        <4> QED
          BY <1>1, <4>1, Zenon DEF SfsInv, MadeInv
      <3>2. CASE q = path
        <4>1. p \in Intact /\ chain'[p] = chain[p] /\ chain'[q] = made
          BY <1>10, <1>11, <2>1, <3>2
        <4>2. Apart(made, chain[p])
          BY <1>1, <4>1 DEF SfsInv, MadeInv
        <4> QED
          BY <4>1, <4>2, Zenon DEF Apart
      <3>3. CASE p # path /\ q # path
        <4>1. p \in Intact /\ q \in Intact /\ chain'[p] = chain[p] /\ chain'[q] = chain[q]
          BY <1>10, <3>3
        <4> QED
          BY <2>1, <4>1 DEF SfsInv, OwnInv
      <3> QED
        BY <3>1, <3>2, <3>3
    <2> QED
      BY <2>1 DEF OwnInv
  <1>15. SettledInv'
    <2>1. ASSUME NEW q \in Settled'
          PROVE  OnDevice(view', disk', q, chain'[q]) /\ Marked(chain'[q], disk_map')
      <3>1. q \in Intact' /\ q # path /\ q \in Settled
        BY <1>1 DEF Settled, Intact
      <3>2. OnDevice(view, disk, q, chain[q]) /\ Marked(chain[q], disk_map)
        BY <3>1 DEF SfsInv, SettledInv
      <3> QED
        BY <1>1, <1>10, <3>1, <3>2, ZenonT(30)
    <2> QED
      BY <2>1 DEF SettledInv
  <1>16. MapInv' /\ SlotInv' /\ MadeInv'
    BY <1>1, <1>8 DEF SfsInv, MapInv, SlotInv, MadeInv, Removing
  <1>17. TypeInv'
    <2>1. DOMAIN files' = Paths /\ chain' \in [Paths -> Seq(Data)]
      BY <1>1, <1>2
    <2> QED
      BY <1>5, <1>8, <2>1 DEF TypeInv, Steps, Removing
  <1> QED
    BY <1>9, <1>13, <1>14, <1>15, <1>16, <1>17 DEF SfsInv

LEMMA EntryRemoved ==
    ASSUME SfsInv, RemoveEntry
    PROVE  SfsInv'
  <1>1. /\ pc = "remove" /\ pc' = "remove_sync" /\ UNCHANGED <<path, slot, scan>>
        /\ Becomes(Modify(Memory, slot[1], [View(Memory, slot[1]) EXCEPT ![slot[2]] = NoEntry]))
        /\ files' = [files EXCEPT ![path] = Absent] /\ chain' = [chain EXCEPT ![path] = <<>>]
        /\ unsynced' = unsynced \cup {path} /\ torn' = torn \ {path} /\ clobbered' = clobbered
        /\ UNCHANGED <<disk_map, bitmap_cache, bitmap_dirty>>
    BY Zenon DEF RemoveEntry, bitmap
  <1>2. /\ Sound(Memory) /\ slot \in Slots /\ path \in Paths
        /\ DOMAIN files = Paths /\ chain \in [Paths -> Seq(Data)]
        /\ RemoveSlot(NamesIn(view), Lone, slot, path)
    BY <1>1, Zenon DEF SfsInv, TypeInv, SlotInv, Removing
  <1>3. NoEntry \in DirEntries /\ NoEntry.name = ""
    BY DEF DirEntries, NoEntry
  <1>4. Sound(Memory') /\ EntrySet(view, view', disk, disk', slot, NoEntry)
    BY <1>1, <1>3, EntryChanges
  <1>5. /\ NamesIn(view) \in NameOf /\ NamesIn(disk) \in NameOf
        /\ NamesIn(view') \in NameOf /\ NamesIn(disk') \in NameOf
        /\ \A a \in Slots : NamesIn(disk')[a] \in {NamesIn(disk)[a], NamesIn(view)[a]}
        /\ \A a \in Slots : NamesIn(view')[a] = IF a = slot THEN "" ELSE NamesIn(view)[a]
    <2>1. /\ NamesIn(view) \in NameOf /\ NamesIn(disk) \in NameOf
          /\ NamesIn(view') \in NameOf /\ NamesIn(disk') \in NameOf
          /\ \A a \in Slots : NamesIn(disk')[a] \in {NamesIn(disk)[a], NamesIn(view)[a]}
          /\ \A a \in Slots : NamesIn(view')[a] = IF a = slot THEN NoEntry.name ELSE NamesIn(view)[a]
      BY <1>2, <1>4, EntryNames
    <2> QED
      BY <1>3, <2>1, ZenonT(30)
  <1>6. Gone' = path /\ Lone' = Lone /\ Lone \subseteq Paths
    BY <1>1 DEF Gone, Lone
  <1>7. DirOk(NamesIn(view'), NamesIn(disk'), Lone, path)
    <2>1. DirOk(NamesIn(view), NamesIn(disk), Lone, "")
      BY <1>1 DEF SfsInv, DirInv, Gone
    <2>2. NameSet(NamesIn(view), NamesIn(disk), NamesIn(view'), NamesIn(disk'), slot, "")
      BY <1>2, <1>5, ZenonT(30) DEF NameSet
    <2> QED
      BY <1>2, <1>6, <2>1, <2>2, DirRemoved
  <1>8. ASSUME NEW q \in Intact', q # path
        PROVE  /\ q \in Intact /\ files'[q] = files[q] /\ chain'[q] = chain[q] /\ chain[q] \in Seq(Data)
               /\ Kept(view, view', q, chain[q])
               /\ OnDevice(view, disk, q, chain[q]) => OnDevice(view', disk', q, chain[q])
    <2>1. q \in Intact /\ q \in Paths /\ q \in Lone
      BY <1>1, <1>8 DEF Intact, Lone
    <2>2. files'[q] = files[q] /\ chain'[q] = chain[q] /\ chain[q] \in Seq(Data)
      BY <1>1, <1>2, <1>8, <2>1
    <2>3. At(view, slot).name # q
      <3>1. NamesIn(view)[slot] = At(view, slot).name
        BY <1>2, NamesAt
      <3> QED
        BY <1>2, <1>8, <2>1, <3>1, ZenonT(30) DEF RemoveSlot
    <2>4. NoEntry.name # q
      BY <1>3, <2>1, SfsAssumption, ZenonT(30) DEF Paths
    <2>5. Kept(view, view', q, chain[q]) /\ (OnDevice(view, disk, q, chain[q]) => OnDevice(view', disk', q, chain[q]))
      BY <1>2, <1>4, <2>2, <2>3, <2>4, EntryKeeps, ZenonT(30)
    <2> QED
      BY <2>1, <2>2, <2>5
  <1>9. files'[path] = Absent /\ chain'[path] = <<>> /\ DOMAIN chain'[path] = {}
    BY <1>1, <1>2
  <1>10. FileInv'
    <2>1. ASSUME NEW q \in Intact', q # path
          PROVE  FileIs(view', q, files'[q], chain'[q]) /\ Marked(chain'[q], bitmap_cache')
      <3>1. FileIs(view, q, files[q], chain[q]) /\ Marked(chain[q], bitmap_cache)
        BY <1>8, <2>1 DEF SfsInv, FileInv
      <3>2. FileIs(view', q, files[q], chain[q])
        BY <1>8, <2>1, <3>1, FileKept
      <3> QED
        BY <1>1, <1>8, <2>1, <3>1, <3>2
    <2>2. ASSUME path \in Intact'
          PROVE  FileIs(view', path, files'[path], chain'[path]) /\ Marked(chain'[path], bitmap_cache')
      <3>1. path \in Lone
        BY <1>1, <2>2 DEF Intact, Lone
      <3>2. \A a \in Slots : At(view', a).name # path
        BY <1>7, <3>1, NamesAt, ZenonT(30) DEF DirOk
      <3> QED
        BY <1>9, <3>2, Zenon DEF FileIs, Marked
    <2> QED
      BY <1>1, <2>1, <2>2 DEF FileInv
  <1>11. OwnInv'
    <2>1. ASSUME NEW p \in Intact', NEW q \in Intact', p # q PROVE Apart(chain'[p], chain'[q])
      <3>1. CASE p = path \/ q = path
        BY <1>9, <3>1, Zenon DEF Apart
      <3>2. CASE p # path /\ q # path
        <4>1. p \in Intact /\ q \in Intact /\ chain'[p] = chain[p] /\ chain'[q] = chain[q]
          BY <1>8, <3>2
        <4> QED
          BY <2>1, <4>1 DEF SfsInv, OwnInv
      <3> QED
        BY <3>1, <3>2
    <2> QED
      BY <2>1 DEF OwnInv
  <1>12. SettledInv'
    <2>1. ASSUME NEW q \in Settled'
          PROVE  OnDevice(view', disk', q, chain'[q]) /\ Marked(chain'[q], disk_map')
      <3>1. q \in Intact' /\ q # path /\ q \in Settled
        BY <1>1 DEF Settled, Intact
      <3>2. OnDevice(view, disk, q, chain[q]) /\ Marked(chain[q], disk_map)
        BY <3>1 DEF SfsInv, SettledInv
      <3> QED
        BY <1>1, <1>8, <3>1, <3>2
    <2> QED
      BY <2>1 DEF SettledInv
  <1>13. DirInv' /\ MapInv' /\ MadeInv'
    BY <1>1, <1>6, <1>7 DEF SfsInv, MapInv, DirInv, MadeInv
  <1>14. SlotInv'
    BY <1>1, <1>9 DEF SlotInv, Removing
  <1>15. TypeInv'
    <2>1. DOMAIN files' = Paths /\ chain' \in [Paths -> Seq(Data)]
      BY <1>1, <1>2
    <2> QED
      BY <1>1, <1>2, <1>4, <2>1 DEF SfsInv, TypeInv, Steps, Removing
  <1> QED
    BY <1>10, <1>11, <1>12, <1>13, <1>14, <1>15 DEF SfsInv

----------------------------------------------------------------------------
(* The invariant *)
LEMMA SfsStarts ==
    ASSUME Init
    PROVE  SfsInv
  <1>1. /\ disk = [s \in Sectors |-> IF s \in DirSectors THEN [i \in Index |-> NoEntry] ELSE ZeroBlock]
        /\ disk_map = {} /\ bitmap_cache = {}
        /\ cache = <<>> /\ dirty = {} /\ lru = <<>>
        /\ pc = "idle" /\ slot = <<1, 1>> /\ scan = ScanStart
        /\ files = [p \in Paths |-> Absent] /\ chain = [p \in Paths |-> <<>>]
    BY Zenon DEF Init
  <1>2. NoEntry \in DirEntries /\ NoEntry.name = "" /\ ZeroBlock \in DataBlocks
    BY DEF NoEntry, DirEntries, ZeroBlock, DataBlocks
  <1>3. Sound(Memory)
    <2>1. \A s \in Sectors : disk[s] \in Content(s)
      BY <1>1, <1>2 DEF Content
    <2>2. DOMAIN cache = {} /\ lru \in Seq(Sectors) /\ OneToOne(lru) /\ DOMAIN lru = {}
      BY <1>1 DEF OneToOne
    <2> QED
      BY <1>1, <2>1, <2>2 DEF Sound, Memory
  <1>4. \A s \in Sectors : view[s] = disk[s]
    BY <1>1, <1>3, CleanView
  <1>5. \A a \in Slots : At(view, a) = At(disk, a) /\ At(disk, a).name = ""
    <2>1. \A a \in Slots : At(disk, a) = NoEntry
      BY <1>1, SectorKinds DEF At
    <2>2. \A a \in Slots : At(view, a) = At(disk, a)
      BY <1>4, SectorKinds, Zenon DEF At
    <2> QED
      BY <1>2, <2>1, <2>2
  <1>6. "" \notin Paths
    BY SfsAssumption, Zenon DEF Paths
  <1>7. \A p \in Paths : files[p] = Absent /\ chain[p] = <<>> /\ DOMAIN chain[p] = {}
    BY <1>1
  <1>8. DirInv
    <2>1. \A a \in Slots : NamesIn(view)[a] = "" /\ NamesIn(disk)[a] = ""
      BY <1>5, NamesAt
    <2>2. Gone = "" /\ Lone \subseteq Paths
      BY <1>1 DEF Gone, Lone
    <2> QED
      BY <1>6, <2>1, <2>2 DEF DirInv, DirOk, OneSlot
  <1>9. FileInv
    <2>1. ASSUME NEW p \in Intact PROVE FileIs(view, p, files[p], chain[p]) /\ Marked(chain[p], bitmap_cache)
      <3>1. p \in Paths /\ p # ""
        BY <1>6 DEF Intact
      <3>2. \A a \in Slots : At(view, a).name # p
        BY <1>5, <3>1, Zenon
      <3> QED
        BY <1>7, <3>1, <3>2, Zenon DEF FileIs, Marked
    <2> QED
      BY <2>1 DEF FileInv
  <1>10. OwnInv
    BY <1>7, Zenon DEF OwnInv, Apart, Intact
  <1>11. SettledInv
    BY <1>5, <1>7, Zenon DEF SettledInv, OnDevice, Marked, Settled
  <1>12. TypeInv
    <2>1. SEC_DIR_COUNT \in Nat \ {0} /\ ENTRIES_PER_SECTOR \in Nat \ {0}
      BY SfsAssumption, Zenon
    <2>2. slot \in Slots /\ scan.sector \in DirSectors
      BY <1>1, <2>1 DEF Slots, DirSectors, Index, ScanStart
    <2>3. DOMAIN files = Paths /\ chain \in [Paths -> Seq(Data)]
      BY <1>1
    <2> QED
      BY <1>1, <1>3, <2>2, <2>3 DEF TypeInv, Steps, Removing
  <1>13. MapInv /\ SlotInv /\ MadeInv
    BY <1>1 DEF MapInv, SlotInv, MadeInv, Removing
  <1> QED
    BY <1>8, <1>9, <1>10, <1>11, <1>12, <1>13 DEF SfsInv

LEMMA SfsStutters ==
    ASSUME SfsInv, UNCHANGED vars
    PROVE  SfsInv'
  <1>1. UNCHANGED <<bitmap, blocks, call, history>>
    BY DEF vars
  <1>2. UNCHANGED <<pc, op, path, slot, data, made, scan, disk_map, bitmap_cache, bitmap_dirty>>
    BY <1>1 DEF call, bitmap
  <1>3. Gone' = Gone
    BY <1>2 DEF Gone
  <1>4. /\ DirInv' /\ FileInv' /\ OwnInv' /\ SettledInv'
        /\ Lone' = Lone /\ Intact' = Intact /\ view' = view /\ disk' = disk /\ Sound(Memory')
        /\ DOMAIN files' = Paths /\ chain' \in [Paths -> Seq(Data)]
    BY <1>1, <1>2, <1>3, QuietStep
  <1>5. chain' = chain /\ Removing' = Removing
    BY <1>1, <1>2, SMTT(30), ZenonT(30) DEF history, Removing
  <1>6. TypeInv'
    BY <1>2, <1>4, <1>5 DEF SfsInv, TypeInv
  <1>7. MapInv' /\ MadeInv'
    BY <1>2, <1>4, <1>5, Zenon DEF SfsInv, MapInv, MadeInv
  <1>8. SlotInv'
    BY <1>2, <1>4, <1>5, Zenon DEF SfsInv, SlotInv
  <1> QED
    BY <1>4, <1>6, <1>7, <1>8 DEF SfsInv

LEMMA SfsInductive ==
    ASSUME SfsInv, [Next]_vars
    PROVE  SfsInv'
  <1>1. CASE \E p \in Names, v \in Values, o \in {"write_sync", "write"} : WriteStart(p, v, o)
    BY <1>1, WriteStarts DEF Paths
  <1>2. CASE \E p \in DirNames : WriteStart(p, Marker, "mkdir")
    <2>1. Marker \in Values
      BY SfsAssumption, Zenon
    <2> QED
      BY <1>2, <2>1, WriteStarts DEF Paths
  <1>3. CASE WriteBlock
    BY <1>3, BlockWritten
  <1>4. CASE WriteEntry
    BY <1>4, EntryWritten
  <1>5. CASE DiskFull \/ SyncStart \/ SyncMap \/ ListDir
    BY <1>5, QuietSteps
  <1>6. CASE SyncSector
    BY <1>6, SectorSyncs
  <1>7. CASE SyncDone \/ RemoveDone
    BY <1>7, SyncEnds
  <1>8. CASE ListSector
    BY <1>8, SectorListed
  <1>9. CASE \E p \in Paths : RemoveStart(p)
    BY <1>9, RemoveStarts
  <1>10. CASE RemoveEntry
    BY <1>10, EntryRemoved
  <1>11. CASE Crash
    BY <1>11, Restarts
  <1>12. CASE UNCHANGED vars
    BY <1>12, SfsStutters
  <1> QED
    BY <1>1, <1>2, <1>3, <1>4, <1>5, <1>6, <1>7, <1>8, <1>9, <1>10, <1>11, <1>12, ZenonT(30)
    DEF Next, Write, Remove

(* The files stay on the device as the calls that returned left them. *)
LEMMA SfsInvariant == Spec => []SfsInv
  BY SfsStarts, SfsInductive, PTL DEF Spec

----------------------------------------------------------------------------
(* What lookups and reads of the device find *)
(* A set of numbers that is not empty has a least one. *)
LEMMA LeastOf ==
    ASSUME NEW S, S \subseteq Nat, S # {}
    PROVE  \E x \in S : \A y \in S : x <= y
  <1>1. PICK x \in S : \A y \in S : ~ (<<y, x>> \in OpToRel(<, Nat))
    BY NatLessThanWellFounded, WFMin, Zenon
  <1>2. \A y \in S : ~ (y < x)
    BY <1>1, Zenon DEF OpToRel
  <1> QED
    BY <1>2

(* A chain is determined by its entry and the links of its blocks. *)
LEMMA OneChain ==
    ASSUME NEW e, e.size \in Nat, NEW b, NEW c, Follows(e, b), Follows(e, c)
    PROVE  \A i \in 1 .. e.size : b[i] = c[i]
  <1> DEFINE S == {i \in 1 .. e.size : b[i] # c[i]}
  <1>1. ASSUME S # {} PROVE FALSE
    <2>0. S \subseteq Nat
      OBVIOUS
    <2>1. PICK x \in S : \A y \in S : x <= y
      BY <1>1, <2>0, LeastOf, Zenon
    <2>2. x \in 1 .. e.size /\ b[x] # c[x]
      BY <2>1
    <2>3. x # 1
      BY <2>2 DEF Follows
    <2>4. x - 1 \in 1 .. e.size /\ ~ (x <= x - 1)
      BY <2>2, <2>3
    <2>5. b[x - 1] = c[x - 1]
      BY <2>1, <2>4
    <2> QED
      BY <2>2, <2>3, <2>5 DEF Follows
  <1> QED
    BY <1>1, SMTT(30), ZenonT(30)

LEMMA ChainFound ==
    ASSUME NEW e, NEW v \in Seq(Nat), NEW c \in Seq(Data), Len(c) = Len(v), Linked(disk, c, v),
           e.size = Len(v), e.head = FirstOf(c)
    PROVE  DOMAIN Chain(e) = DOMAIN c /\ \A i \in DOMAIN c : Chain(e)[i] = c[i]
  <1> DEFINE b == CHOOSE d \in [1 .. e.size -> Data \cup {0}] : Follows(e, d)
  <1>1. e.size \in Nat /\ DOMAIN c = 1 .. e.size /\ \A i \in 1 .. e.size : c[i] \in Data /\ c[i] # 0
    <2>1. Len(c) \in Nat /\ DOMAIN c = 1 .. Len(c)
      OBVIOUS
    <2>2. 0 \notin Data
      BY SectorKinds, Zenon
    <2> QED
      BY <2>1, <2>2, ChainSectors, Zenon
  <1>2. c \in [1 .. e.size -> Data \cup {0}]
    BY <1>1, SMTT(30), ZenonT(30)
  <1>3. Follows(e, c)
    <2>1. ASSUME NEW i \in 1 .. e.size
          PROVE  c[i] = IF i = 1 THEN e.head ELSE IF c[i - 1] = 0 THEN 0 ELSE disk[c[i - 1]].next
      <3>1. CASE i = 1
        <4>1. c # <<>>
          BY <1>1, <3>1, SMTT(30), ZenonT(30)
        <4> QED
          BY <3>1, <4>1, Zenon DEF FirstOf
      <3>2. CASE i # 1
        <4>1. i - 1 \in DOMAIN c /\ i - 1 # Len(c) /\ (i - 1) + 1 = i
          BY <1>1, <3>2
        <4>2. disk[c[i - 1]].next = c[(i - 1) + 1]
          BY <4>1, Zenon DEF Linked
        <4> QED
          BY <1>1, <3>2, <4>1, <4>2
      <3> QED
        BY <3>1, <3>2
    <2> QED
      BY <2>1, SMTT(30), ZenonT(30) DEF Follows
  <1>4. Follows(e, b)
    BY <1>2, <1>3, Zenon
  <1>5. \A i \in 1 .. e.size : b[i] = c[i]
    BY <1>1, <1>3, <1>4, OneChain
  <1>6. Chain(e) = [i \in {j \in 1 .. e.size : b[j] # 0} |-> b[i]]
    BY ZenonT(30) DEF Chain
  <1> HIDE DEF b
  <1> QED
    BY <1>1, <1>5, <1>6

(* A settled file is found, with the content of the calls and in the blocks recorded. *)
LEMMA SettledFile ==
    ASSUME SfsInv, NEW p \in Settled
    PROVE  /\ ReadFile(p) = files[p]
           /\ Blocks(p) = {chain[p][i] : i \in DOMAIN chain[p]}
  <1>1. p \in Intact /\ p \in Paths /\ p \in Lone /\ chain[p] \in Seq(Data)
    BY DEF Settled, Intact, Lone, SfsInv, TypeInv
  <1>2. FileIs(disk, p, files[p], chain[p])
    <2>1. FileIs(view, p, files[p], chain[p]) /\ OnDevice(view, disk, p, chain[p])
      BY <1>1, Zenon DEF SfsInv, FileInv, SettledInv
    <2>2. Kept(view, disk, p, chain[p])
      BY <2>1, Zenon DEF OnDevice, Kept
    <2> QED
      BY <2>1, <2>2, FileKept, Zenon
  <1>3. EntryPos(p) = {a \in Slots : At(disk, a).name = p}
    BY ZenonT(30) DEF EntryPos, Entry, At
  <1>4. CASE files[p] = Absent
    <2>1. chain[p] = <<>> /\ EntryPos(p) = {}
      BY <1>2, <1>3, <1>4, Zenon DEF FileIs
    <2>2. DOMAIN chain[p] = {}
      BY <2>1
    <2>3. ReadFile(p) = Absent /\ Blocks(p) = {}
      BY <2>1, Zenon DEF ReadFile, Blocks
    <2> QED
      BY <1>4, <2>2, <2>3
  <1>5. CASE files[p] # Absent
    <2>1. /\ files[p] \in Seq(Nat) /\ Len(chain[p]) = Len(files[p]) /\ Linked(disk, chain[p], files[p])
          /\ \E a \in Slots :
              At(disk, a) = [name |-> p, size |-> Len(files[p]), head |-> FirstOf(chain[p])]
      BY <1>2, <1>5, Zenon DEF FileIs
    <2>2. PICK a \in Slots : At(disk, a) = [name |-> p, size |-> Len(files[p]), head |-> FirstOf(chain[p])]
      BY <2>1, ZenonT(30)
    <2> DEFINE e == At(disk, a)
    <2>3. e.name = p /\ e.size = Len(files[p]) /\ e.head = FirstOf(chain[p])
      BY <2>2
    <2>4. EntryPos(p) = {a}
      <3>1. OneSlot(NamesIn(disk), p)
        BY <1>1, Zenon DEF SfsInv, DirInv, DirOk
      <3>2. \A b \in Slots : At(disk, b).name = p => b = a
        BY <2>3, <3>1, NamesAt, Zenon DEF OneSlot
      <3> QED
        BY <1>3, <2>3, <3>2, Zenon
    <2>5. IsFirst(a, EntryPos(p))
      <3>1. a[1] \in Int /\ a[2] \in Int
        <4>1. a[1] \in DirSectors /\ a[2] \in Index
          BY SectorKinds, Zenon
        <4> QED
          BY <4>1 DEF DirSectors, Index
      <3>2. Before(a, a)
        BY <3>1 DEF Before
      <3> QED
        BY <2>4, <3>2, Zenon DEF IsFirst
    <2>6. Found(p) = e
      <3>1. (CHOOSE b \in EntryPos(p) : IsFirst(b, EntryPos(p))) = a
        BY <2>4, <2>5, ZenonT(30)
      <3> QED
        BY <3>1, Zenon DEF Found, Entry, At
    <2> HIDE DEF e
    <2> DEFINE c == Chain(e)
    <2>7. DOMAIN c = DOMAIN chain[p] /\ \A i \in DOMAIN chain[p] : c[i] = chain[p][i]
      BY <1>1, <2>1, <2>3, ChainFound, Zenon
    <2>8. /\ ReadFile(p) = [i \in DOMAIN c |-> disk[c[i]].chunk]
          /\ Blocks(p) = {c[i] : i \in DOMAIN c}
      BY <2>4, <2>6, Zenon DEF ReadFile, Blocks
    <2> HIDE DEF c
    <2>9. Blocks(p) = {chain[p][i] : i \in DOMAIN chain[p]}
      BY <2>7, <2>8, ZenonT(30)
    <2>10. ReadFile(p) = files[p]
      <3>1. DOMAIN chain[p] = DOMAIN files[p] /\ files[p] = [i \in DOMAIN files[p] |-> files[p][i]]
        BY <1>1, <2>1, SMTT(30), ZenonT(30)
      <3>2. \A i \in DOMAIN chain[p] : disk[chain[p][i]].chunk = files[p][i]
        BY <2>1, Zenon DEF Linked
      <3>3. \A i \in DOMAIN files[p] : disk[c[i]].chunk = files[p][i]
        BY <2>7, <3>1, <3>2, Zenon
      <3> QED
        BY <2>7, <2>8, <3>1, <3>3, SMTT(30), ZenonT(30)
    <2> QED
      BY <2>9, <2>10
  <1> QED
    BY <1>4, <1>5

LEMMA InvDurable == SfsInv => SettledIsDurable
  <1>1. ASSUME SfsInv, NEW p \in Settled PROVE ReadFile(p) = files[p] /\ Blocks(p) \subseteq disk_map
    <2>1. Marked(chain[p], disk_map)
      BY <1>1, Zenon DEF SfsInv, SettledInv
    <2>2. ReadFile(p) = files[p] /\ Blocks(p) = {chain[p][i] : i \in DOMAIN chain[p]}
      BY <1>1, SettledFile
    <2> QED
      BY <2>1, <2>2 DEF Marked
  <1> QED
    BY <1>1, Zenon DEF SettledIsDurable

LEMMA InvShared == SfsInv => NothingShared
  <1>1. ASSUME SfsInv, NEW p \in Settled, NEW q \in Settled, p # q PROVE Blocks(p) \cap Blocks(q) = {}
    <2>1. Apart(chain[p], chain[q])
      BY <1>1, Zenon DEF SfsInv, OwnInv, Settled, Intact
    <2>2. /\ Blocks(p) = {chain[p][i] : i \in DOMAIN chain[p]}
          /\ Blocks(q) = {chain[q][i] : i \in DOMAIN chain[q]}
      BY <1>1, SettledFile
    <2> QED
      BY <2>1, <2>2 DEF Apart
  <1>2. ASSUME SfsInv, NEW p \in Paths \ clobbered, NEW a \in EntryPos(p), NEW b \in EntryPos(p) PROVE a = b
    <2>1. a \in Slots /\ b \in Slots /\ At(disk, a).name = p /\ At(disk, b).name = p
      BY Zenon DEF EntryPos, Entry, At
    <2>2. OneSlot(NamesIn(disk), p)
      BY <1>2, Zenon DEF SfsInv, DirInv, DirOk, Lone
    <2> QED
      BY <2>1, <2>2, NamesAt, Zenon DEF OneSlot
  <1> QED
    BY <1>1, <1>2, ZenonT(30) DEF NothingShared

(* "Call fs.sync() when you need durability": for every size of the directory, of the
   device and of the cache and any number of stops, a settled file reads back from the
   device as it was written, and its blocks are marked in the bitmap there. *)
THEOREM SfsDurable == Spec => []SettledIsDurable
  BY SfsInvariant, InvDurable, PTL

(* No two settled files share a block, and a path that never had a slot in common with
   another one has one entry: find_entry and find_entry_pos cannot disagree about it. *)
THEOREM SfsShared == Spec => []NothingShared
  BY SfsInvariant, InvShared, PTL
=============================================================================
