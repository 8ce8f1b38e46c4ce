--------------------------- MODULE SchedulerProofs ---------------------------
(***************************************************************************)
(* Proofs about Scheduler: the operations on queues, the inductive         *)
(* invariant IInv, that every step keeps the types, what no step changes   *)
(* about a process that exists, what a step does to the run queues, the    *)
(* steal queues and the process table, and that every step keeps IInv.  So *)
(* no Ready process is lost, no pinned process ticks on another hart and   *)
(* no one-shot process ticks twice, for any number of harts, boot daemons  *)
(* and processes.                                                          *)
(***************************************************************************)
EXTENDS Scheduler, TLAPS, WellFoundedInduction

(* The least and the greatest element of a set of numbers. *)
LEMMA MinOf ==
    ASSUME NEW S, S \subseteq Nat, S # {}
    PROVE  Min(S) \in S /\ \A y \in S : Min(S) <= y
  <1>1. PICK x \in S : \A y \in S : ~ (<<y, x>> \in OpToRel(<, Nat))
    BY NatLessThanWellFounded, WFMin, Zenon
  <1>2. \A y \in S : ~ (y < x)
    BY <1>1, Zenon DEF OpToRel
  <1>3. \A y \in S : x <= y
    BY <1>2
  <1> QED
    BY <1>3, Zenon DEF Min

LEMMA MaxOf ==
    ASSUME NEW n \in Nat, NEW S, S \subseteq 0 .. n, S # {}
    PROVE  Max(S) \in S
  <1> DEFINE T == {n - x : x \in S}
  <1>1. T \subseteq Nat
    OBVIOUS
  <1>2. T # {}
    BY Zenon
  <1> HIDE DEF T
  <1>3. PICK t \in T : \A y \in T : t <= y
    BY <1>1, <1>2, MinOf, Zenon
  <1>4. PICK x \in S : t = n - x
    BY Zenon DEF T
  <1>5. ASSUME NEW y \in S
        PROVE  x >= y
    <2>1. n - y \in T
      BY Zenon DEF T
    <2>2. n - x <= n - y
      BY <1>3, <1>4, <2>1, Zenon
    <2> QED
      BY <2>2
  <1> QED
    BY <1>5, Zenon DEF Max

(* What the operations on run queues do to what a queue contains. *)
LEMMA ConcatFacts ==
    ASSUME NEW S, NEW a \in Seq(S), NEW b \in Seq(S)
    PROVE  /\ a \o b \in Seq(S) /\ Len(a \o b) = Len(a) + Len(b)
           /\ \A k \in 1 .. Len(a) : (a \o b)[k] = a[k]
           /\ \A k \in 1 .. Len(b) : (a \o b)[Len(a) + k] = b[k]
  OBVIOUS

LEMMA InsertAtContains ==
    ASSUME NEW S, NEW q \in Seq(S), NEW e \in S, NEW i \in 1 .. Len(q) + 1
    PROVE  /\ InsertAt(q, i, e) \in Seq(S)
           /\ \A x : Contains(InsertAt(q, i, e), x) <=> x = e \/ Contains(q, x)
  <1> DEFINE r == InsertAt(q, i, e)
  <1>1. /\ r \in Seq(S) /\ Len(r) = Len(q) + 1
        /\ r[i] = e
        /\ \A k \in 1 .. i - 1 : r[k] = q[k]
        /\ \A k \in i .. Len(q) : r[k + 1] = q[k]
    <2> DEFINE a == SubSeq(q, 1, i - 1)
               b == SubSeq(q, i, Len(q))
               c == a \o <<e>>
    <2>1. a \in Seq(S) /\ Len(a) = i - 1 /\ \A k \in 1 .. i - 1 : a[k] = q[k]
      OBVIOUS
    <2>2. b \in Seq(S) /\ Len(b) = Len(q) - i + 1 /\ \A k \in 1 .. Len(b) : b[k] = q[i + k - 1]
      OBVIOUS
    <2>r. r = c \o b
      BY Zenon DEF InsertAt
    <2> HIDE DEF a, b
    <2>3. c \in Seq(S) /\ Len(c) = i /\ c[i] = e /\ \A k \in 1 .. i - 1 : c[k] = q[k]
      BY <2>1
    <2> HIDE DEF c, r
    <2>4. /\ r \in Seq(S) /\ Len(r) = Len(q) + 1
          /\ \A k \in 1 .. i : r[k] = c[k]
          /\ \A k \in 1 .. Len(b) : r[i + k] = b[k]
      BY <2>2, <2>3, <2>r, ConcatFacts
    <2>5. ASSUME NEW k \in i .. Len(q)
          PROVE  r[k + 1] = q[k]
      <3>1. PICK l \in 1 .. Len(b) : i + l = k + 1 /\ i + l - 1 = k
        BY <2>2
      <3>2. r[i + l] = b[l] /\ b[l] = q[i + l - 1]
        BY <2>2, <2>4, Zenon
      <3> QED
        BY <3>1, <3>2, Zenon
    <2> QED
      BY <2>3, <2>4, <2>5
  <1> HIDE DEF r
  <1>2. ASSUME NEW x, Contains(r, x)
        PROVE  x = e \/ Contains(q, x)
    <2>1. PICK k \in 1 .. Len(r) : r[k] = x
      BY <1>2, SMTT(30), ZenonT(30) DEF Contains
    <2>2. CASE k < i
      BY <1>1, <2>1, <2>2 DEF Contains
    <2>3. CASE k > i
      <3>1. PICK j \in i .. Len(q) : j + 1 = k /\ j \in 1 .. Len(q)
        BY <1>1, <2>1, <2>3
      <3>2. r[j + 1] = q[j]
        BY <1>1, Zenon
      <3> QED
        BY <2>1, <3>1, <3>2 DEF Contains
    <2> QED
      BY <1>1, <2>1, <2>2, <2>3
  <1>3. ASSUME NEW x, Contains(q, x)
        PROVE  Contains(r, x)
    <2>1. PICK k \in 1 .. Len(q) : q[k] = x
      BY <1>3 DEF Contains
    <2>2. CASE k < i
      BY <1>1, <2>1, <2>2 DEF Contains
    <2>3. CASE k >= i
      <3>1. k \in i .. Len(q) /\ k + 1 \in 1 .. Len(r)
        BY <1>1, <2>1, <2>3
      <3> QED
        BY <1>1, <2>1, <3>1, SMTT(30), ZenonT(30) DEF Contains
    <2> QED
      BY <2>1, <2>2, <2>3
  <1>4. Contains(r, e)
    BY <1>1 DEF Contains
  <1> QED
    BY <1>1, <1>2, <1>3, <1>4, Zenon DEF r

LEMMA RemoveAtContains ==
    ASSUME NEW S, NEW q \in Seq(S), NEW i \in 1 .. Len(q)
    PROVE  /\ RemoveAt(q, i) \in Seq(S)
           /\ \A x : Contains(RemoveAt(q, i), x) => Contains(q, x)
           /\ \A x : Contains(q, x) /\ x # q[i] => Contains(RemoveAt(q, i), x)
  <1> DEFINE r == RemoveAt(q, i)
  <1>1. /\ r \in Seq(S) /\ Len(r) = Len(q) - 1
        /\ \A k \in 1 .. i - 1 : r[k] = q[k]
        /\ \A k \in i .. Len(q) - 1 : r[k] = q[k + 1]
    <2> DEFINE a == SubSeq(q, 1, i - 1)
               b == SubSeq(q, i + 1, Len(q))
    <2>1. a \in Seq(S) /\ Len(a) = i - 1 /\ \A k \in 1 .. i - 1 : a[k] = q[k]
      OBVIOUS
    <2>2. b \in Seq(S) /\ Len(b) = Len(q) - i /\ \A k \in 1 .. Len(b) : b[k] = q[i + k]
      BY SMTT(30), ZenonT(30)
    <2>r. r = a \o b
      BY Zenon DEF RemoveAt
    <2> HIDE DEF a, b, r
    <2>3. /\ r \in Seq(S) /\ Len(r) = Len(a) + Len(b)
          /\ \A k \in 1 .. Len(a) : r[k] = a[k]
          /\ \A k \in 1 .. Len(b) : r[Len(a) + k] = b[k]
      <3>1. /\ a \o b \in Seq(S) /\ Len(a \o b) = Len(a) + Len(b)
            /\ \A k \in 1 .. Len(a) : (a \o b)[k] = a[k]
            /\ \A k \in 1 .. Len(b) : (a \o b)[Len(a) + k] = b[k]
        <4>1. a \in Seq(S) /\ b \in Seq(S)
          BY <2>1, <2>2, Zenon
        <4> QED
          BY <4>1, ConcatFacts
      <3> QED
        BY <2>r, <3>1, Zenon
    <2>4. ASSUME NEW k \in i .. Len(q) - 1
          PROVE  r[k] = q[k + 1]
      <3>1. PICK l \in 1 .. Len(b) : Len(a) + l = k /\ i + l = k + 1
        BY <2>1, <2>2
      <3>2. r[Len(a) + l] = b[l] /\ b[l] = q[i + l]
        BY <2>2, <2>3, Zenon
      <3> QED
        BY <3>1, <3>2, Zenon
    <2>5. Len(r) = Len(q) - 1 /\ \A k \in 1 .. i - 1 : r[k] = q[k]
      BY <2>1, <2>2, <2>3
    <2> QED
      BY <2>3, <2>4, <2>5, Zenon
  <1> HIDE DEF r
  <1>2. ASSUME NEW x, Contains(r, x)
        PROVE  Contains(q, x)
    <2>1. PICK k \in 1 .. Len(r) : r[k] = x
      BY <1>2 DEF Contains
    <2>2. CASE k < i
      BY <1>1, <2>1, <2>2 DEF Contains
    <2>3. CASE k >= i
      <3>1. k \in i .. Len(q) - 1 /\ k + 1 \in 1 .. Len(q)
        BY <1>1, <2>1, <2>3
      <3> QED
        BY <1>1, <2>1, <3>1, SMTT(30), ZenonT(30) DEF Contains
    <2> QED
      BY <2>1, <2>2, <2>3
  <1>3. ASSUME NEW x, Contains(q, x), x # q[i]
        PROVE  Contains(r, x)
    <2>1. PICK k \in 1 .. Len(q) : q[k] = x
      BY <1>3 DEF Contains
    <2>2. CASE k < i
      BY <1>1, <2>1, <2>2 DEF Contains
    <2>3. CASE k > i
      <3>1. PICK j \in i .. Len(q) - 1 : j + 1 = k /\ j \in 1 .. Len(r)
        BY <1>1, <2>1, <2>3
      <3>2. r[j] = q[j + 1]
        BY <1>1, Zenon
      <3> QED
        BY <2>1, <3>1, <3>2 DEF Contains
    <2> QED
      BY <1>3, <2>1, <2>2, <2>3
  <1> QED
    BY <1>1, <1>2, <1>3, Zenon DEF r

LEMMA RemoveContains ==
    ASSUME NEW S, NEW q \in Seq(S), NEW e
    PROVE  /\ Remove(q, e) \in Seq(S)
           /\ \A x : Contains(Remove(q, e), x) => Contains(q, x)
           /\ \A x : Contains(q, x) /\ x # e => Contains(Remove(q, e), x)
  <1>1. CASE Contains(q, e)
    <2> DEFINE I == {i \in 1 .. Len(q) : q[i] = e}
    <2>1. I # {} /\ I \subseteq Nat
      BY <1>1 DEF Contains
    <2>2. Min(I) \in I
      BY <2>1, MinOf, Zenon
    <2>3. {i \in DOMAIN q : q[i] = e} = I
      OBVIOUS
    <2>4. Remove(q, e) = RemoveAt(q, Min(I))
      BY <1>1, <2>3, Zenon DEF Remove
    <2> HIDE DEF I
    <2>5. PICK i \in 1 .. Len(q) : q[i] = e /\ Remove(q, e) = RemoveAt(q, i)
      BY <2>2, <2>4, Zenon DEF I
    <2> QED
      BY <2>5, RemoveAtContains
  <1>2. CASE ~ Contains(q, e)
    BY <1>2, Zenon DEF Remove, Contains
  <1> QED
    BY <1>1, <1>2, Zenon

LEMMA InsertContains ==
    ASSUME NEW S, NEW q \in Seq(S), NEW p \in S, NEW prio
    PROVE  /\ Insert(q, p, prio) \in Seq(S)
           /\ \A x : Contains(Insert(q, p, prio), x) <=> x = p \/ Contains(q, x)
  <1> DEFINE lower == {i \in DOMAIN q : prio[q[i]] < prio[p]}
             pos == IF lower = {} THEN Len(q) + 1 ELSE Min(lower)
  <1>1. pos \in 1 .. Len(q) + 1
    <2>1. lower \subseteq 1 .. Len(q) /\ lower \subseteq Nat
      OBVIOUS
    <2>2. lower # {} => Min(lower) \in lower
      BY <2>1, MinOf, SMTT(30), ZenonT(30)
    <2> QED
      BY <2>1, <2>2
  <1>2. Insert(q, p, prio) = InsertAt(q, pos, p)
    BY Zenon DEF Insert
  <1> HIDE DEF pos
  <1> QED
    BY <1>1, <1>2, InsertAtContains

(* The same for steal queues, which lose entries at both ends. *)
LEMMA EndsContain ==
    ASSUME NEW S, NEW q \in Seq(S), NEW e \in S
    PROVE  /\ Append(q, e) \in Seq(S)
           /\ \A x : Contains(Append(q, e), x) => x = e \/ Contains(q, x)
           /\ q # <<>> =>
               /\ Tail(q) \in Seq(S)
               /\ Contains(q, Head(q)) /\ Head(q) \in S
               /\ \A x : Contains(Tail(q), x) => Contains(q, x)
  <1>1. Append(q, e) \in Seq(S)
    OBVIOUS
  <1>2. \A x : Contains(Append(q, e), x) => x = e \/ Contains(q, x)
    BY DEF Contains
  <1>3. q # <<>> =>
           /\ Tail(q) \in Seq(S)
           /\ Contains(q, Head(q)) /\ Head(q) \in S
    BY DEF Contains
  <1>4. ASSUME q # <<>>, NEW x, Contains(Tail(q), x)
        PROVE  Contains(q, x)
    <2>1. PICK k \in 1 .. Len(Tail(q)) : Tail(q)[k] = x
      BY <1>4 DEF Contains
    <2>2. Tail(q)[k] = q[k + 1] /\ k + 1 \in 1 .. Len(q)
      BY <1>4
    <2> QED
      BY <2>1, <2>2 DEF Contains
  <1> QED
    BY <1>1, <1>2, <1>3, <1>4, Zenon

LEMMA PopBackContains ==
    ASSUME NEW S, NEW q \in Seq(S)
    PROVE  PopBack(q) \in Seq(S) /\ \A x : Contains(PopBack(q), x) => Contains(q, x)
  <1>1. CASE q = <<>>
    BY <1>1, Zenon DEF PopBack
  <1>2. CASE q # <<>>
    BY <1>2 DEF PopBack, Contains
  <1> QED
    BY <1>1, <1>2, Zenon

----------------------------------------------------------------------------
Enqueuing == {"enqueue_push", "enqueue_insert"}
PuttingBack == {"putback_push", "putback_insert"}
Stealing == {"steal_remove"} \cup PuttingBack
Looking == {"boot", "pick", "scan", "idle"}
Labels == Enqueuing \cup Stealing \cup Looking \cup {"assign", "running", "kill_remove"}

ProcessType ==
    [state : States, affinity : Cpus \cup {AnyCpu}, priority : Nat, daemon : BOOLEAN]

TypeOK ==
    /\ queues \in [Cpus -> Seq(Pids)]
    /\ steal_queues \in [Cpus -> Seq(Pids)]
    /\ proc \in [Pids -> ProcessType]
    /\ next_pid \in 1 .. MAX_PID + 1
    /\ pc \in [Cpus -> Labels]
    /\ cur \in [Cpus -> Pids \cup {NoPid}]
    /\ scan \in [Cpus -> Seq(Cpus)]
    /\ obj \in [Cpus -> Pids \cup {NoPid}]
    /\ target \in [Cpus -> Cpus]
    /\ back \in [Cpus -> {"boot", "pick", "running"}]

(* The process in a hart's hands, and the one it is enqueueing or killing, are there as
   long as the call lasts. *)
Locals(h) ==
    /\ pc[h] \in Looking => cur[h] = NoPid
    /\ pc[h] \in Enqueuing /\ back[h] # "running" => cur[h] = NoPid
    /\ pc[h] \in Enqueuing /\ back[h] = "running" => cur[h] # NoPid
    /\ pc[h] \in Stealing \cup {"assign", "running", "kill_remove"} => cur[h] # NoPid
    /\ pc[h] \in Enqueuing \cup {"kill_remove"} <=> obj[h] # NoPid
    /\ pc[h] \in Stealing => scan[h] # <<>> /\ Head(scan[h]) \notin {h, 0}
    /\ pc[h] = "kill_remove" => obj[h] \in killed

(* Until hart 0 is done with the boot, the others wait. *)
Booting == pc[0] = "boot" \/ (pc[0] \in Enqueuing /\ back[0] = "boot")
BootsAlone ==
    \A h \in Cpus \ {0} :
        /\ Booting => pc[h] = "boot"
        /\ pc[h] \in Enqueuing => back[h] # "boot"

(* The pids drawn so far. *)
Allocated == 1 .. next_pid - 1
Recorded == table \subseteq Allocated /\ killed \subseteq Allocated /\ finished \subseteq Allocated

(* Where a process may be. *)
Fits(p, c) == proc[p].affinity \in {AnyCpu, c}

(* Queues hold processes that fit their CPU, and so do hands, but for a thief that puts
   a process back. *)
QueueFits(c) == \A p \in Pids : Contains(queues[c], p) => p \in Allocated /\ Fits(p, c)
StealFitsHome(c) == \A p \in Pids : Contains(steal_queues[c], p) => p \in Allocated /\ Fits(p, c)
HandFits(h) ==
    /\ cur[h] \in Allocated \cup {NoPid} /\ obj[h] \in Allocated \cup {NoPid}
    /\ pc[h] \in Enqueuing => Fits(obj[h], target[h])
    /\ pc[h] \in Stealing => Fits(cur[h], Head(scan[h]))
    /\ cur[h] # NoPid /\ pc[h] \notin PuttingBack => Fits(cur[h], h)

(* A one-shot process is pinned; it is not Ready from its tick on; and once it finished
   no hart has it, but for a thief that puts back a stale entry of a steal queue. *)
OneShotsPinned == \A p \in Allocated : ~ proc[p].daemon => proc[p].affinity # AnyCpu
TickNotReady(h) ==
    cur[h] # NoPid /\ ~ proc[cur[h]].daemon /\ pc[h] \in Enqueuing \cup {"running", "kill_remove"}
        => proc[cur[h]].state # "Ready"
FinishedOnce ==
    \A p \in finished :
        /\ ~ proc[p].daemon /\ proc[p].state # "Ready"
        /\ \A h \in Cpus : cur[h] = p => pc[h] \in PuttingBack

HartInv(h) == Locals(h) /\ HandFits(h) /\ TickNotReady(h)
HomeInv == Recorded /\ OneShotsPinned /\ \A c \in Cpus : QueueFits(c) /\ StealFitsHome(c)

IInv ==
    /\ TypeOK /\ (\A h \in Cpus : HartInv(h)) /\ BootsAlone
    /\ HomeInv /\ FinishedOnce /\ ReadyIsQueued

----------------------------------------------------------------------------
(* find_least_loaded_cpu finds a CPU. *)
LEMMA LeastLoadedTyped == TypeOK => LeastLoaded \in Cpus
  <1> SUFFICES ASSUME TypeOK
               PROVE  LeastLoaded \in Cpus
    BY Zenon
  <1> DEFINE empty == {c \in Cpus \ {0} : queues[c] = <<>>}
             lens == {Len(queues[c]) : c \in Cpus}
             short == {c \in Cpus : \A d \in Cpus : Len(queues[c]) <= Len(queues[d])}
  <1>1. Cpus \subseteq Nat /\ 0 \in Cpus /\ Cpus \subseteq 0 .. NumCpus - 1 /\ NumCpus - 1 \in Nat
    BY SchedulerAssumption DEF Cpus
  <1>2. \A c \in Cpus : Len(queues[c]) \in Nat
    BY DEF TypeOK
  <1>3. short # {}
    <2>1. lens \subseteq Nat /\ lens # {}
      BY <1>1, <1>2, Zenon
    <2>2. PICK n \in lens : \A m \in lens : n <= m
      BY <2>1, MinOf, Zenon
    <2>3. PICK c \in Cpus : n = Len(queues[c])
      BY Zenon
    <2>4. \A d \in Cpus : Len(queues[c]) <= Len(queues[d])
      BY <2>2, <2>3, Zenon
    <2> QED
      BY <2>4, Zenon
  <1>4. Max(short) \in short
    BY <1>1, <1>3, MaxOf, Zenon
  <1>5. empty # {} => Min(empty) \in empty
    BY <1>1, MinOf, Zenon
  <1> QED
    BY <1>4, <1>5, Zenon DEF LeastLoaded

(* What the types say of the parts of the state. *)
LEMMA TypeFacts ==
    ASSUME TypeOK
    PROVE  /\ 0 \in Cpus /\ Cpus \subseteq Nat /\ Pids \subseteq Nat /\ NoPid \notin Pids /\ AnyCpu \notin Cpus
           /\ Allocated \subseteq Pids /\ next_pid \notin Allocated /\ next_pid \in Nat
           /\ Boot \subseteq Pids
           /\ \A p \in Boot : BootAffinity[p] \in Cpus /\ BootPriority[p] \in Nat
  <1>1. 0 \in Cpus /\ Cpus \subseteq Nat /\ AnyCpu \notin Cpus
    BY SchedulerAssumption DEF Cpus, AnyCpu
  <1>2. Pids \subseteq Nat /\ NoPid \notin Pids
    BY DEF Pids, NoPid
  <1>3. Allocated \subseteq Pids /\ next_pid \notin Allocated /\ next_pid \in Nat
    BY SchedulerAssumption DEF TypeOK, Pids, Allocated
  <1>4. Boot \subseteq Pids
    BY SchedulerAssumption DEF Pids, Boot
  <1>5. \A p \in Boot : BootAffinity[p] \in Cpus
    BY SchedulerAssumption DEF Boot
  <1>6. \A p \in Boot : BootPriority[p] \in Nat
    BY SchedulerAssumption DEF Boot
  <1> QED
    BY <1>1, <1>2, <1>3, <1>4, <1>5, <1>6, Zenon

LEMMA ProcessTyped ==
    ASSUME NEW a \in Cpus \cup {AnyCpu}, NEW n \in Nat, NEW d \in BOOLEAN
    PROVE  Process(a, n, d) \in ProcessType
  BY Zenon DEF Process, ProcessType, States

(* Every step keeps the types. *)
LEMMA TypeStep == TypeOK /\ (\A h \in Cpus : Locals(h)) /\ Recorded /\ [Next]_vars => TypeOK'
  <1> SUFFICES ASSUME TypeOK, \A h \in Cpus : Locals(h), Recorded, [Next]_vars
               PROVE  TypeOK'
    BY Zenon
  <1>f. /\ 0 \in Cpus /\ Cpus \subseteq Nat /\ Pids \subseteq Nat /\ NoPid \notin Pids
        /\ Allocated \subseteq Pids /\ Boot \subseteq Pids
        /\ \A p \in Boot : BootAffinity[p] \in Cpus /\ BootPriority[p] \in Nat
    BY TypeFacts, Zenon
  <1>p. \A p \in Pids : proc[p].affinity \in Cpus \cup {AnyCpu} /\ proc[p].priority \in Nat
    BY Zenon DEF TypeOK, ProcessType
  <1>s. \A p \in Pids, s \in States : [proc EXCEPT ![p].state = s] \in [Pids -> ProcessType]
    BY ZenonT(30) DEF TypeOK, ProcessType
  <1>n. next_pid \in Pids => next_pid + 1 \in 1 .. MAX_PID + 1
    BY SchedulerAssumption DEF Pids
  <1>g. \A h \in Cpus, l \in Labels : [pc EXCEPT ![h] = l] \in [Cpus -> Labels]
    BY Zenon DEF TypeOK
  <1>1. ASSUME NEW h \in Cpus, NEW p \in Pids, NEW c \in Cpus, NEW r \in {"boot", "pick", "running"},
               CallEnqueue(h, p, c, r)
        PROVE  /\ pc' \in [Cpus -> Labels] /\ obj' \in [Cpus -> Pids \cup {NoPid}]
               /\ target' \in [Cpus -> Cpus] /\ back' \in [Cpus -> {"boot", "pick", "running"}]
    BY <1>1, Zenon DEF CallEnqueue, Goto, TypeOK, Labels, Enqueuing
  <1>2. ASSUME NEW h \in Cpus, ScheduleService(h)
        PROVE  TypeOK'
    <2>1. PICK n \in Boot : n = next_pid
      BY <1>2, Zenon DEF ScheduleService
    <2>2. proc' \in [Pids -> ProcessType]
      <3>1. Process(BootAffinity[n], BootPriority[n], TRUE) \in ProcessType
        BY <1>f, ProcessTyped, Zenon
      <3> QED
        BY <1>2, <1>f, <2>1, <3>1, Zenon DEF ScheduleService, TypeOK
    <2>3. CallEnqueue(h, n, BootAffinity[n], "boot")
      BY <1>2, <2>1, Zenon DEF ScheduleService
    <2>4. /\ pc' \in [Cpus -> Labels] /\ obj' \in [Cpus -> Pids \cup {NoPid}]
          /\ target' \in [Cpus -> Cpus] /\ back' \in [Cpus -> {"boot", "pick", "running"}]
      BY <1>1, <1>f, <2>3, Zenon
    <2>5. next_pid' \in 1 .. MAX_PID + 1
      BY <1>2, <1>f, <1>n, <2>1 DEF ScheduleService, Register
    <2> QED
      BY <1>2, <2>2, <2>4, <2>5, Zenon DEF ScheduleService, TypeOK, queue_vars
  <1>3. ASSUME NEW h \in Cpus, NEW cpu \in Cpus, NEW b \in Boot, SpawnOnCpu(h, cpu, BootPriority[b])
        PROVE  TypeOK'
    <2>1. PICK n \in Pids : n = next_pid
      BY <1>3, Zenon DEF SpawnOnCpu
    <2>2. proc' \in [Pids -> ProcessType]
      <3>1. Process(cpu, BootPriority[b], FALSE) \in ProcessType
        BY <1>f, ProcessTyped, Zenon
      <3> QED
        BY <1>3, <2>1, <3>1, Zenon DEF SpawnOnCpu, TypeOK
    <2>3. CallEnqueue(h, n, cpu, "running")
      BY <1>3, <2>1, Zenon DEF SpawnOnCpu
    <2>4. /\ pc' \in [Cpus -> Labels] /\ obj' \in [Cpus -> Pids \cup {NoPid}]
          /\ target' \in [Cpus -> Cpus] /\ back' \in [Cpus -> {"boot", "pick", "running"}]
      BY <1>1, <2>3, Zenon
    <2>5. next_pid' \in 1 .. MAX_PID + 1
      BY <1>3, <1>n, <2>1 DEF SpawnOnCpu, Register
    <2> QED
      BY <1>3, <2>2, <2>4, <2>5, Zenon DEF SpawnOnCpu, TypeOK, queue_vars
  <1>4. ASSUME NEW h \in Cpus, NEW p \in Pids, ExitOther(h, p), proc[p].daemon
        PROVE  TypeOK'
    <2>1. PICK n \in Pids : n = next_pid
      BY <1>4, Zenon DEF ExitOther
    <2>2. proc' \in [Pids -> ProcessType]
      <3>1. Process(AnyCpu, proc[p].priority, TRUE) \in ProcessType
        BY <1>p, ProcessTyped, Zenon
      <3>2. proc' = [[proc EXCEPT ![p].state = "Zombie"] EXCEPT ![n] = Process(AnyCpu, proc[p].priority, TRUE)]
        BY <1>4, <2>1, Zenon DEF ExitOther
      <3> QED
        BY <1>s, <3>1, <3>2, Zenon DEF States
    <2>3. CallEnqueue(h, n, LeastLoaded, "running")
      BY <1>4, <2>1, Zenon DEF ExitOther
    <2>4. /\ pc' \in [Cpus -> Labels] /\ obj' \in [Cpus -> Pids \cup {NoPid}]
          /\ target' \in [Cpus -> Cpus] /\ back' \in [Cpus -> {"boot", "pick", "running"}]
      BY <1>1, <2>3, LeastLoadedTyped, Zenon
    <2>5. next_pid' \in 1 .. MAX_PID + 1
      BY <1>4, <1>n, <2>1 DEF ExitOther, Register
    <2> QED
      BY <1>4, <2>2, <2>4, <2>5 DEF ExitOther, TypeOK, queue_vars
  <1>5. ASSUME NEW h \in Cpus, DaemonReturns(h)
        PROVE  TypeOK'
    <2>1. PICK p \in Pids : p = cur[h]
      BY <1>5, Zenon DEF DaemonReturns, Locals, TypeOK
    <2>2. proc' \in [Pids -> ProcessType]
      BY <1>5, <1>s, <2>1, Zenon DEF DaemonReturns, SetState, States
    <2>3. PICK c \in Cpus : CallEnqueue(h, p, c, "pick")
      BY <1>5, <1>p, <2>1, LeastLoadedTyped DEF DaemonReturns
    <2>4. /\ pc' \in [Cpus -> Labels] /\ obj' \in [Cpus -> Pids \cup {NoPid}]
          /\ target' \in [Cpus -> Cpus] /\ back' \in [Cpus -> {"boot", "pick", "running"}]
      BY <1>1, <2>3, Zenon
    <2> QED
      BY <1>5, <2>2, <2>4, Zenon DEF DaemonReturns, TypeOK, queue_vars
  <1>6. ASSUME NEW h \in Cpus, \/ BootReady(h) \/ PickNone(h) \/ StealFails(h) \/ Idle(h) \/ Wake(h)
                               \/ ReapZombies(h)
        PROVE  TypeOK'
    <2>1. pc' \in [Cpus -> Labels]
      BY <1>6, <1>g, ZenonT(30) DEF BootReady, PickNone, StealFails, Idle, Wake, ReapZombies, Goto, TypeOK, Labels, Looking
    <2>2. scan' \in [Cpus -> Seq(Cpus)]
      <3>1. ASSUME NEW start \in Cpus
            PROVE  Victims(start) \in Seq(Cpus)
        BY SchedulerAssumption DEF Victims, Cpus
      <3>2. CASE PickNone(h)
        BY <3>1, <3>2 DEF PickNone, TypeOK
      <3>3. CASE StealFails(h)
        BY <3>3 DEF StealFails, TypeOK
      <3> QED
        BY <1>6, <3>2, <3>3, Zenon DEF BootReady, Idle, Wake, ReapZombies, TypeOK
    <2> QED
      BY <1>6, <2>1, <2>2, Zenon DEF BootReady, PickNone, StealFails, Idle, Wake, ReapZombies, TypeOK, queue_vars, call_vars
  <1>7. ASSUME NEW h \in Cpus, EnqueuePush(h) \/ EnqueueInsert(h)
        PROVE  TypeOK'
    <2>1. PICK p \in Pids, c \in Cpus : p = obj[h] /\ c = target[h]
      BY <1>7, Zenon DEF EnqueuePush, EnqueueInsert, Locals, TypeOK, Enqueuing
    <2>2. Append(steal_queues[c], p) \in Seq(Pids) /\ Insert(queues[c], p, Priority) \in Seq(Pids)
      BY InsertContains DEF TypeOK
    <2>3. pc' \in [Cpus -> Labels]
      BY <1>7, <1>g, ZenonT(30) DEF EnqueuePush, EnqueueInsert, Goto, TypeOK, Labels, Enqueuing, Looking
    <2>4. queues' \in [Cpus -> Seq(Pids)] /\ steal_queues' \in [Cpus -> Seq(Pids)]
      <3>1. CASE EnqueuePush(h)
        BY <2>1, <2>2, <3>1 DEF EnqueuePush, TypeOK
      <3>2. CASE EnqueueInsert(h)
        BY <2>1, <2>2, <3>2 DEF EnqueueInsert, TypeOK
      <3> QED
        BY <1>7, <3>1, <3>2, Zenon
    <2> QED
      BY <1>7, <2>3, <2>4, Zenon DEF EnqueuePush, EnqueueInsert, TypeOK, call_vars
  <1>8. ASSUME NEW h \in Cpus, PickOwn(h)
        PROVE  TypeOK'
    <2>1. PICK i \in DOMAIN queues[h] : /\ cur' = [cur EXCEPT ![h] = queues[h][i]]
                                        /\ queues' = [queues EXCEPT ![h] = RemoveAt(queues[h], i)]
      BY <1>8, Zenon DEF PickOwn, FirstRunnable
    <2>2. queues[h][i] \in Pids /\ RemoveAt(queues[h], i) \in Seq(Pids)
      BY <2>1, RemoveAtContains DEF TypeOK
    <2>3. PopBack(steal_queues[h]) \in Seq(Pids)
      BY PopBackContains, Zenon DEF TypeOK
    <2>4. queues' \in [Cpus -> Seq(Pids)] /\ cur' \in [Cpus -> Pids \cup {NoPid}]
      BY <2>1, <2>2, Zenon DEF TypeOK
    <2>5. steal_queues' \in [Cpus -> Seq(Pids)]
      BY <1>8, <2>3, Zenon DEF PickOwn, TypeOK
    <2>6. pc' \in [Cpus -> Labels]
      BY <1>8, <1>g, Zenon DEF PickOwn, Goto, Labels
    <2> QED
      BY <1>8, <2>4, <2>5, <2>6 DEF PickOwn, TypeOK, call_vars
  <1>9. ASSUME NEW h \in Cpus, NEW l \in Labels, Steal(h, l)
        PROVE  TypeOK'
    <2>1. PICK v \in Cpus : v = Head(scan[h]) /\ steal_queues[v] # <<>>
      BY <1>9 DEF Steal, TypeOK
    <2>2. Head(steal_queues[v]) \in Pids /\ Tail(steal_queues[v]) \in Seq(Pids)
      BY <2>1 DEF TypeOK
    <2>3. cur' \in [Cpus -> Pids \cup {NoPid}] /\ steal_queues' \in [Cpus -> Seq(Pids)]
      BY <1>9, <2>1, <2>2, Zenon DEF Steal, TypeOK
    <2>4. pc' \in [Cpus -> Labels]
      BY <1>9, <1>g, Zenon DEF Steal, Goto
    <2> QED
      BY <1>9, <2>3, <2>4, ZenonT(30) DEF Steal, TypeOK, call_vars
  <1>10. ASSUME NEW h \in Cpus, RemoveStolen(h) \/ PutBackPush(h) \/ PutBackInsert(h)
         PROVE  TypeOK'
    <2>1. PICK v \in Cpus, p \in Pids : v = Head(scan[h]) /\ p = cur[h] /\ Tail(scan[h]) \in Seq(Cpus)
      BY <1>10, SMTT(30), ZenonT(30) DEF RemoveStolen, PutBackPush, PutBackInsert, Locals, Stealing, PuttingBack, TypeOK
    <2>2. /\ Remove(queues[v], p) \in Seq(Pids) /\ Insert(queues[v], p, Priority) \in Seq(Pids)
          /\ Append(steal_queues[v], p) \in Seq(Pids)
      BY RemoveContains, InsertContains DEF TypeOK
    <2>3. CASE RemoveStolen(h)
      <3>1. queues' \in [Cpus -> Seq(Pids)] /\ scan' \in [Cpus -> Seq(Cpus)]
        BY <2>1, <2>2, <2>3, SMTT(30), ZenonT(30) DEF RemoveStolen, TypeOK
      <3>2. pc' \in [Cpus -> Labels]
        BY <1>g, <2>3, Zenon DEF RemoveStolen, Goto, Labels
      <3> QED
        BY <2>3, <3>1, <3>2, SMTT(30), ZenonT(30) DEF RemoveStolen, TypeOK, call_vars
    <2>4. CASE PutBackPush(h)
      <3>1. steal_queues' \in [Cpus -> Seq(Pids)]
        BY <2>1, <2>2, <2>4, Zenon DEF PutBackPush, TypeOK
      <3>2. pc' \in [Cpus -> Labels]
        BY <1>g, <2>4, Zenon DEF PutBackPush, Goto, Labels, Stealing, PuttingBack
      <3> QED
        BY <2>4, <3>1, <3>2, Zenon DEF PutBackPush, TypeOK, call_vars
    <2>5. CASE PutBackInsert(h)
      <3>1. queues' \in [Cpus -> Seq(Pids)] /\ scan' \in [Cpus -> Seq(Cpus)] /\ cur' \in [Cpus -> Pids \cup {NoPid}]
        BY <2>1, <2>2, <2>5, SMTT(30), ZenonT(30) DEF PutBackInsert, TypeOK
      <3>2. pc' \in [Cpus -> Labels]
        BY <1>g, <2>5, Zenon DEF PutBackInsert, Goto, Labels, Looking
      <3> QED
        BY <2>5, <3>1, <3>2, Zenon DEF PutBackInsert, TypeOK, call_vars
    <2> QED
      BY <1>10, <2>3, <2>4, <2>5
  <1>11. ASSUME NEW h \in Cpus, Assign(h) \/ OneShotReturns(h)
         PROVE  TypeOK'
    <2>1. PICK p \in Pids : p = cur[h]
      BY <1>11, Zenon DEF Assign, OneShotReturns, Locals, TypeOK
    <2>2. proc' \in [Pids -> ProcessType]
      <3>1. "Running" \in States /\ "Zombie" \in States
        BY Zenon DEF States
      <3>2. \/ proc' = proc
            \/ \E s \in States : proc' = [proc EXCEPT ![p].state = s]
        BY <1>11, <2>1, <3>1 DEF Assign, OneShotReturns, SetState
      <3>3. proc \in [Pids -> ProcessType]
        BY Zenon DEF TypeOK
      <3>4. ASSUME NEW s \in States, proc' = [proc EXCEPT ![p].state = s]
            PROVE  proc' \in [Pids -> ProcessType]
        BY <1>s, <3>4, Zenon
      <3> QED
        BY <3>2, <3>3, <3>4
    <2>3. pc' \in [Cpus -> Labels]
      BY <1>11, <1>g DEF Assign, OneShotReturns, Goto, Labels, Looking
    <2>4. cur' \in [Cpus -> Pids \cup {NoPid}]
      BY <1>11, Zenon DEF Assign, OneShotReturns, TypeOK
    <2> QED
      BY <1>11, <2>2, <2>3, <2>4, SMTT(30), ZenonT(30) DEF Assign, OneShotReturns, TypeOK, queue_vars, call_vars
  <1>12. ASSUME NEW h \in Cpus, NEW p \in Pids, Kill(h, p) \/ (ExitOther(h, p) /\ ~ proc[p].daemon)
         PROVE  TypeOK'
    <2>1. proc' \in [Pids -> ProcessType]
      BY <1>12, <1>s, Zenon DEF Kill, ExitOther, SetState, States
    <2>2. pc' \in [Cpus -> Labels]
      BY <1>12, <1>g, Zenon DEF Kill, ExitOther, Goto, Labels, TypeOK
    <2>3. obj' \in [Cpus -> Pids \cup {NoPid}] /\ target' \in [Cpus -> Cpus]
      <3>1. CASE Kill(h, p)
        BY <1>f, <3>1, Zenon DEF Kill, TypeOK
      <3>2. CASE ExitOther(h, p) /\ ~ proc[p].daemon
        BY <3>2, Zenon DEF ExitOther, TypeOK, call_vars
      <3> QED
        BY <1>12, <3>1, <3>2
    <2> QED
      BY <1>12, <2>1, <2>2, <2>3, Zenon DEF Kill, ExitOther, TypeOK, queue_vars, call_vars
  <1>13. ASSUME NEW h \in Cpus, KillRemove(h)
         PROVE  TypeOK'
    <2>1. PICK p \in Pids, c \in Cpus : p = obj[h] /\ c = target[h]
      BY <1>13, Zenon DEF KillRemove, Locals, TypeOK
    <2>2. Remove(queues[c], p) \in Seq(Pids)
      BY RemoveContains DEF TypeOK
    <2>3. queues' \in [Cpus -> Seq(Pids)]
      BY <1>13, <2>1, <2>2, Zenon DEF KillRemove, TypeOK
    <2>4. c < NumCpus - 1 => c + 1 \in Cpus
      BY SchedulerAssumption DEF Cpus
    <2>5. target' \in [Cpus -> Cpus] /\ obj' \in [Cpus -> Pids \cup {NoPid}]
      <3>1. CASE target[h] < NumCpus - 1
        BY <1>13, <2>1, <2>4, <3>1, ZenonT(30) DEF KillRemove, TypeOK
      <3>2. CASE ~ (target[h] < NumCpus - 1)
        BY <1>13, <3>2, Zenon DEF KillRemove, TypeOK
      <3> QED
        BY <3>1, <3>2, Zenon
    <2>6. pc' \in [Cpus -> Labels]
      <3>1. "running" \in Labels /\ pc \in [Cpus -> Labels]
        BY Zenon DEF Labels, TypeOK
      <3>2. pc' = pc \/ pc' = [pc EXCEPT ![h] = "running"]
        BY <1>13, Zenon DEF KillRemove, Goto
      <3> QED
        BY <1>g, <3>1, <3>2, Zenon
    <2> QED
      BY <1>13, <2>3, <2>5, <2>6, ZenonT(30) DEF KillRemove, TypeOK
  <1>14. CASE UNCHANGED vars
    BY <1>14, Zenon DEF vars, queue_vars, call_vars, TypeOK
  <1>15. ASSUME NEW h \in Cpus, StealFits(h) \/ StealMisfits(h)
         PROVE  TypeOK'
    BY <1>9, <1>15, Zenon DEF StealFits, StealMisfits, Labels, Stealing, PuttingBack
  <1> QED
    BY <1>2, <1>3, <1>4, <1>5, <1>6, <1>7, <1>8, <1>10, <1>11, <1>12, <1>13, <1>14, <1>15, Zenon
       DEF Next, Loop, Calls, Pick

----------------------------------------------------------------------------
(* What no step changes about the processes that exist. *)
Kept ==
    /\ Allocated \subseteq Allocated'
    /\ \A p \in Allocated :
        /\ proc'[p].affinity = proc[p].affinity /\ proc'[p].daemon = proc[p].daemon
        /\ ~ proc[p].daemon /\ proc'[p].state = "Ready" => proc[p].state = "Ready"

LEMMA KeptStep == TypeOK /\ (\A h \in Cpus : Locals(h)) /\ Recorded /\ [Next]_vars => Kept
  <1> SUFFICES ASSUME TypeOK, \A h \in Cpus : Locals(h), Recorded, [Next]_vars
               PROVE  Kept
    BY Zenon
  <1>f. /\ Allocated \subseteq Pids /\ next_pid \notin Allocated /\ next_pid \in Nat /\ Boot \subseteq Pids
        /\ table \subseteq Allocated
    BY TypeFacts, Zenon DEF Recorded
  <1>t. \A p \in Pids : proc[p] \in ProcessType
    BY Zenon DEF TypeOK
  <1>g. next_pid' = next_pid + 1 => Allocated \subseteq Allocated'
    BY <1>f DEF Allocated
  <1>e. next_pid' = next_pid => Allocated \subseteq Allocated'
    BY Zenon DEF Allocated
  <1>1. ASSUME proc' = proc, next_pid' = next_pid
        PROVE  Kept
    BY <1>1, <1>e, Zenon DEF Kept
  <1>2. ASSUME NEW p \in Pids, NEW s \in States, proc' = [proc EXCEPT ![p].state = s],
               s = "Ready" => proc[p].daemon, next_pid' = next_pid
        PROVE  Kept
    <2>1. ASSUME NEW q \in Allocated
          PROVE  /\ proc'[q].affinity = proc[q].affinity /\ proc'[q].daemon = proc[q].daemon
                 /\ ~ proc[q].daemon /\ proc'[q].state = "Ready" => proc[q].state = "Ready"
      <3>1. CASE q = p
        BY <1>2, <1>t, <3>1 DEF TypeOK, ProcessType
      <3>2. CASE q # p
        BY <1>2, <1>f, <3>2, Zenon DEF TypeOK
      <3> QED
        BY <3>1, <3>2, Zenon
    <2> QED
      BY <1>2, <1>e, <2>1 DEF Kept
  <1>3. ASSUME NEW n \in Pids, n = next_pid, NEW r, proc' = [proc EXCEPT ![n] = r], next_pid' = next_pid + 1
        PROVE  Kept
    <2>1. \A q \in Allocated : proc'[q] = proc[q]
      BY <1>3, <1>f, Zenon DEF TypeOK
    <2> QED
      BY <1>3, <1>g, <2>1 DEF Kept
  <1>4. ASSUME NEW h \in Cpus, NEW p \in Pids, ExitOther(h, p), proc[p].daemon
        PROVE  Kept
    <2>1. PICK n \in Pids : n = next_pid /\ next_pid' = next_pid + 1 /\ p \in Allocated /\ n # p
                            /\ proc' = [proc EXCEPT ![p].state = "Zombie",
                                                    ![n] = Process(AnyCpu, proc[p].priority, TRUE)]
      BY <1>4, <1>f, Zenon DEF ExitOther, Register
    <2>2. ASSUME NEW q \in Allocated
          PROVE  /\ proc'[q].affinity = proc[q].affinity /\ proc'[q].daemon = proc[q].daemon
                 /\ ~ proc[q].daemon /\ proc'[q].state = "Ready" => proc[q].state = "Ready"
      <3>1. CASE q = p
        <4>1. proc'[p] = [proc[p] EXCEPT !.state = "Zombie"]
          BY <2>1, <3>1, Zenon DEF TypeOK
        <4> QED
          BY <1>t, <3>1, <4>1 DEF ProcessType
      <3>2. CASE q # p
        BY <1>f, <2>1, <3>2, Zenon DEF TypeOK
      <3> QED
        BY <3>1, <3>2, Zenon
    <2> QED
      BY <1>g, <2>1, <2>2, Zenon DEF Kept
  <1>5. ASSUME NEW h \in Cpus, ScheduleService(h)
        PROVE  Kept
    <2>1. PICK n \in Pids : n = next_pid
      BY <1>5, <1>f, Zenon DEF ScheduleService
    <2> QED
      BY <1>3, <1>5, <2>1, Zenon DEF ScheduleService, Register
  <1>6. ASSUME NEW h \in Cpus, NEW cpu \in Cpus, NEW b \in Boot, SpawnOnCpu(h, cpu, BootPriority[b])
        PROVE  Kept
    <2>1. PICK n \in Pids : n = next_pid
      BY <1>6, Zenon DEF SpawnOnCpu
    <2> QED
      BY <1>3, <1>6, <2>1, Zenon DEF SpawnOnCpu, Register
  <1>7. ASSUME NEW h \in Cpus, Assign(h) \/ DaemonReturns(h) \/ OneShotReturns(h)
        PROVE  Kept
    <2>1. PICK p \in Pids : p = cur[h]
      BY <1>7, Zenon DEF Assign, DaemonReturns, OneShotReturns, Locals, TypeOK
    <2>2. next_pid' = next_pid
      BY <1>7, Zenon DEF Assign, DaemonReturns, OneShotReturns
    <2>3. CASE Assign(h)
      BY <1>2, <2>1, <2>2, <2>3, Zenon DEF Assign, SetState, States
    <2>4. CASE DaemonReturns(h)
      BY <1>2, <2>1, <2>2, <2>4, Zenon DEF DaemonReturns, SetState, States
    <2>5. CASE OneShotReturns(h)
      BY <1>1, <1>2, <2>1, <2>2, <2>5 DEF OneShotReturns, SetState, States
    <2> QED
      BY <1>7, <2>3, <2>4, <2>5
  <1>8. ASSUME NEW h \in Cpus, NEW p \in Pids, Kill(h, p) \/ (ExitOther(h, p) /\ ~ proc[p].daemon)
        PROVE  Kept
    BY <1>2, <1>8, Zenon DEF Kill, ExitOther, SetState, States
  <1>9. ASSUME NEW h \in Cpus,
               BootReady(h) \/ Pick(h) \/ Idle(h) \/ Wake(h) \/ EnqueuePush(h) \/ EnqueueInsert(h)
                \/ KillRemove(h) \/ ReapZombies(h)
        PROVE  proc' = proc /\ next_pid' = next_pid
    BY <1>9, Zenon DEF BootReady, Pick, PickOwn, PickNone, StealFails, StealFits, StealMisfits, Steal, RemoveStolen,
                PutBackPush, PutBackInsert, Idle, Wake, EnqueuePush, EnqueueInsert, KillRemove, ReapZombies
  <1>10. CASE UNCHANGED vars
    BY <1>1, <1>10, ZenonT(30) DEF vars
  <1> QED
    BY <1>1, <1>4, <1>5, <1>6, <1>7, <1>8, <1>9, <1>10, Zenon DEF Next, Loop, Calls

----------------------------------------------------------------------------
(* A step of hart h leaves what the other harts have in hand; only the end of the boot
   moves them. *)
Untouched(g) ==
    /\ cur'[g] = cur[g] /\ scan'[g] = scan[g]
    /\ obj'[g] = obj[g] /\ target'[g] = target[g] /\ back'[g] = back[g]

LEMMA OthersStep ==
    ASSUME TypeOK, NEW h \in Cpus, Loop(h) \/ Calls(h), NEW g \in Cpus, g # h
    PROVE  Untouched(g) /\ (pc'[g] = pc[g] \/ BootReady(h))
  <1> USE DEF TypeOK, Untouched
  <1>1. CASE ScheduleService(h)
    BY <1>1, Zenon DEF ScheduleService, CallEnqueue, Goto
  <1>2. CASE BootReady(h)
    BY <1>2, ZenonT(30) DEF BootReady, call_vars
  <1>3. CASE PickOwn(h) \/ PickNone(h) \/ StealFails(h) \/ RemoveStolen(h) \/ PutBackPush(h) \/ PutBackInsert(h)
    BY <1>3 DEF PickOwn, PickNone, StealFails, RemoveStolen, PutBackPush, PutBackInsert, Goto, call_vars
  <1>4. CASE StealFits(h) \/ StealMisfits(h)
    BY <1>4, Zenon DEF StealFits, StealMisfits, Steal, Goto, call_vars
  <1>5. CASE Idle(h) \/ Wake(h) \/ Assign(h) \/ OneShotReturns(h) \/ ReapZombies(h)
    BY <1>5, Zenon DEF Idle, Wake, Assign, OneShotReturns, ReapZombies, Goto, call_vars
  <1>6. CASE DaemonReturns(h)
    BY <1>6, Zenon DEF DaemonReturns, CallEnqueue, Goto
  <1>7. CASE EnqueuePush(h) \/ EnqueueInsert(h)
    BY <1>7 DEF EnqueuePush, EnqueueInsert, Goto, call_vars
  <1>8. CASE KillRemove(h)
    BY <1>8, Zenon DEF KillRemove, Goto
  <1>9. ASSUME NEW cpu \in Cpus, NEW n, SpawnOnCpu(h, cpu, n)
        PROVE  Untouched(g) /\ pc'[g] = pc[g]
    BY <1>9, Zenon DEF SpawnOnCpu, CallEnqueue, Goto
  <1>10. ASSUME NEW p \in Pids, ExitOther(h, p)
         PROVE  Untouched(g) /\ pc'[g] = pc[g]
    BY <1>10, ZenonT(30) DEF ExitOther, CallEnqueue, Goto, call_vars
  <1>11. ASSUME NEW p \in Pids, Kill(h, p)
         PROVE  Untouched(g) /\ pc'[g] = pc[g]
    BY <1>11, Zenon DEF Kill, Goto
  <1> QED
    BY <1>1, <1>2, <1>3, <1>4, <1>5, <1>6, <1>7, <1>8, <1>9, <1>10, <1>11, Zenon DEF Loop, Calls, Pick

(* So what holds of another hart's hands still holds after the step. *)
LEMMA OthersInv ==
    ASSUME TypeOK, Kept, killed \subseteq killed', NEW g \in Cpus, HartInv(g), Untouched(g), pc'[g] = pc[g]
    PROVE  HartInv(g)'
  <1>t. NoPid \notin Pids /\ Allocated \subseteq Pids
    BY TypeFacts, Zenon
  <1>p. \A p \in Allocated : p \in Allocated' /\ \A c : Fits(p, c) <=> proc'[p].affinity \in {AnyCpu, c}
    BY Zenon DEF Kept, Fits
  <1>1. Locals(g)'
    BY Zenon DEF HartInv, Locals, Untouched
  <1>2. HandFits(g)'
    <2>1. cur'[g] \in Allocated' \cup {NoPid} /\ obj'[g] \in Allocated' \cup {NoPid}
      BY <1>p, Zenon DEF HartInv, HandFits, Untouched
    <2>2. pc'[g] \in Enqueuing => proc'[obj'[g]].affinity \in {AnyCpu, target'[g]}
      BY <1>p, Zenon DEF HartInv, HandFits, Locals, Untouched
    <2>3. pc'[g] \in Stealing => proc'[cur'[g]].affinity \in {AnyCpu, Head(scan'[g])}
      BY <1>p, Zenon DEF HartInv, HandFits, Locals, Untouched
    <2>4. cur'[g] # NoPid /\ pc'[g] \notin PuttingBack => proc'[cur'[g]].affinity \in {AnyCpu, g}
      BY <1>p, Zenon DEF HartInv, HandFits, Untouched
    <2> QED
      BY <2>1, <2>2, <2>3, <2>4, Zenon DEF HandFits, Fits
  <1>3. TickNotReady(g)'
    BY Zenon DEF HartInv, HandFits, TickNotReady, Untouched, Kept
  <1> QED
    BY <1>1, <1>2, <1>3, Zenon DEF HartInv

----------------------------------------------------------------------------
(* A run queue gets only processes that fit its CPU, and loses only the process that the
   step takes in hand or one that was killed. *)
Arrivals == \A c \in Cpus, p \in Pids :
    Contains(queues'[c], p) => Contains(queues[c], p) \/ (p \in Allocated /\ Fits(p, c))
Departures(h) == \A c \in Cpus, p \in Pids :
    Contains(queues[c], p) => Contains(queues'[c], p) \/ cur'[h] = p \/ p \in killed

LEMMA QueueStep ==
    ASSUME TypeOK, NEW h \in Cpus, HartInv(h), Loop(h) \/ Calls(h)
    PROVE  Arrivals /\ Departures(h)
  <1>t. NoPid \notin Pids
    BY TypeFacts, Zenon
  <1>q. \A c \in Cpus : queues[c] \in Seq(Pids)
    BY Zenon DEF TypeOK
  <1>e. ASSUME NEW c \in Cpus, NEW q, queues' = [queues EXCEPT ![c] = q],
               \A p \in Pids : Contains(q, p) => Contains(queues[c], p) \/ (p \in Allocated /\ Fits(p, c)),
               \A p \in Pids : Contains(queues[c], p) => Contains(q, p) \/ cur'[h] = p \/ p \in killed
        PROVE  Arrivals /\ Departures(h)
    <2>1. \A d \in Cpus : queues'[d] = IF d = c THEN q ELSE queues[d]
      BY <1>e, Zenon DEF TypeOK
    <2> QED
      BY <1>e, <2>1, Zenon DEF Arrivals, Departures
  <1>1. CASE EnqueueInsert(h)
    <2>1. PICK c \in Cpus : c = target[h]
      BY Zenon DEF TypeOK
    <2>2. PICK p \in Pids : p = obj[h] /\ p \in Allocated /\ Fits(p, c)
      BY <1>1, <2>1, Zenon DEF EnqueueInsert, HartInv, Locals, HandFits, Enqueuing, TypeOK
    <2>3. queues' = [queues EXCEPT ![c] = Insert(queues[c], p, Priority)]
      BY <1>1, <2>1, <2>2 DEF EnqueueInsert, TypeOK
    <2>4. \A x : Contains(Insert(queues[c], p, Priority), x) <=> x = p \/ Contains(queues[c], x)
      BY <1>q, InsertContains, Zenon
    <2> QED
      BY <1>e, <2>2, <2>3, <2>4, Zenon
  <1>2. CASE PutBackInsert(h)
    <2>1. PICK c \in Cpus : c = Head(scan[h])
      BY <1>2 DEF PutBackInsert, HartInv, Locals, Stealing, PuttingBack, TypeOK
    <2>2. PICK p \in Pids : p = cur[h] /\ p \in Allocated /\ Fits(p, c)
      BY <1>2, <2>1, Zenon DEF PutBackInsert, HartInv, Locals, HandFits, Stealing, PuttingBack, TypeOK
    <2>3. queues' = [queues EXCEPT ![c] = Insert(queues[c], p, Priority)]
      BY <1>2, <2>1, <2>2, Zenon DEF PutBackInsert, TypeOK
    <2>4. \A x : Contains(Insert(queues[c], p, Priority), x) <=> x = p \/ Contains(queues[c], x)
      BY <1>q, InsertContains, Zenon
    <2> QED
      BY <1>e, <2>2, <2>3, <2>4, Zenon
  <1>3. CASE PickOwn(h)
    <2>0. PICK i \in FirstRunnable(queues[h]) : cur' = [cur EXCEPT ![h] = queues[h][i]]
                                                /\ queues' = [queues EXCEPT ![h] = RemoveAt(@, i)]
      BY <1>3, Zenon DEF PickOwn
    <2>1. /\ i \in 1 .. Len(queues[h]) /\ cur' = [cur EXCEPT ![h] = queues[h][i]]
          /\ queues' = [queues EXCEPT ![h] = RemoveAt(queues[h], i)]
      BY <1>q, <2>0 DEF FirstRunnable
    <2>2. /\ \A x : Contains(RemoveAt(queues[h], i), x) => Contains(queues[h], x)
          /\ \A x : Contains(queues[h], x) /\ x # queues[h][i] => Contains(RemoveAt(queues[h], i), x)
      BY <1>q, <2>1, RemoveAtContains, Zenon
    <2>3. cur'[h] = queues[h][i]
      BY <2>1, Zenon DEF TypeOK
    <2> QED
      BY <1>e, <2>1, <2>2, <2>3, Zenon
  <1>4. CASE RemoveStolen(h)
    <2>1. PICK c \in Cpus : c = Head(scan[h])
      BY <1>4 DEF RemoveStolen, HartInv, Locals, Stealing, PuttingBack, TypeOK
    <2>2. queues' = [queues EXCEPT ![c] = Remove(queues[c], cur[h])] /\ cur' = cur
      BY <1>4, <2>1, Zenon DEF RemoveStolen, TypeOK
    <2>3. /\ \A x : Contains(Remove(queues[c], cur[h]), x) => Contains(queues[c], x)
          /\ \A x : Contains(queues[c], x) /\ x # cur[h] => Contains(Remove(queues[c], cur[h]), x)
      BY <1>q, RemoveContains, Zenon
    <2> QED
      BY <1>e, <2>2, <2>3, Zenon
  <1>5. CASE KillRemove(h)
    <2>1. PICK c \in Cpus : c = target[h]
      BY Zenon DEF TypeOK
    <2>2. queues' = [queues EXCEPT ![c] = Remove(queues[c], obj[h])] /\ obj[h] \in killed
      BY <1>5, <2>1, Zenon DEF KillRemove, HartInv, Locals, TypeOK
    <2>3. /\ \A x : Contains(Remove(queues[c], obj[h]), x) => Contains(queues[c], x)
          /\ \A x : Contains(queues[c], x) /\ x # obj[h] => Contains(Remove(queues[c], obj[h]), x)
      BY <1>q, RemoveContains, Zenon
    <2> QED
      BY <1>e, <2>2, <2>3, Zenon
  <1>6. CASE queues' = queues
    BY <1>6, Zenon DEF Arrivals, Departures
  <1>7. CASE \/ ScheduleService(h) \/ BootReady(h) \/ PickNone(h) \/ StealFails(h) \/ StealFits(h) \/ StealMisfits(h)
             \/ PutBackPush(h) \/ Idle(h) \/ Wake(h) \/ Assign(h) \/ DaemonReturns(h) \/ OneShotReturns(h)
             \/ EnqueuePush(h) \/ Calls(h)
    BY <1>6, <1>7, Zenon DEF ScheduleService, BootReady, PickNone, StealFails, StealFits, StealMisfits, Steal, PutBackPush,
        Idle, Wake, Assign, DaemonReturns, OneShotReturns, EnqueuePush, Calls, SpawnOnCpu, ExitOther, Kill,
        ReapZombies, queue_vars
  <1> QED
    BY <1>1, <1>2, <1>3, <1>4, <1>5, <1>7, Zenon DEF Loop, Pick

(* A steal queue gets only processes that fit its CPU. *)
StealArrivals == \A c \in Cpus, p \in Pids :
    Contains(steal_queues'[c], p) => Contains(steal_queues[c], p) \/ (p \in Allocated /\ Fits(p, c))

LEMMA StealQueueStep ==
    ASSUME TypeOK, NEW h \in Cpus, HartInv(h), Loop(h) \/ Calls(h)
    PROVE  StealArrivals
  <1>t. NoPid \notin Pids
    BY TypeFacts, Zenon
  <1>q. \A c \in Cpus : steal_queues[c] \in Seq(Pids)
    BY Zenon DEF TypeOK
  <1>e. ASSUME NEW c \in Cpus, NEW q, steal_queues' = [steal_queues EXCEPT ![c] = q],
               \A p \in Pids : Contains(q, p) => Contains(steal_queues[c], p) \/ (p \in Allocated /\ Fits(p, c))
        PROVE  StealArrivals
    <2>1. \A d \in Cpus : steal_queues'[d] = IF d = c THEN q ELSE steal_queues[d]
      BY <1>e, Zenon DEF TypeOK
    <2> QED
      BY <1>e, <2>1, Zenon DEF StealArrivals
  <1>1. CASE EnqueuePush(h)
    <2>1. PICK c \in Cpus : c = target[h]
      BY Zenon DEF TypeOK
    <2>2. PICK p \in Pids : p = obj[h] /\ p \in Allocated /\ Fits(p, c)
      BY <1>1, <2>1, Zenon DEF EnqueuePush, HartInv, Locals, HandFits, Enqueuing, TypeOK
    <2>3. steal_queues' = [steal_queues EXCEPT ![c] = Append(steal_queues[c], p)]
      BY <1>1, <2>1, <2>2 DEF EnqueuePush, TypeOK
    <2>4. \A x : Contains(Append(steal_queues[c], p), x) => x = p \/ Contains(steal_queues[c], x)
      BY <1>q, EndsContain
    <2> QED
      BY <1>e, <2>2, <2>3, <2>4, Zenon
  <1>2. CASE PutBackPush(h)
    <2>1. PICK c \in Cpus : c = Head(scan[h])
      BY <1>2 DEF PutBackPush, HartInv, Locals, Stealing, PuttingBack, TypeOK
    <2>2. PICK p \in Pids : p = cur[h] /\ p \in Allocated /\ Fits(p, c)
      BY <1>2, <2>1, Zenon DEF PutBackPush, HartInv, Locals, HandFits, Stealing, PuttingBack, TypeOK
    <2>3. steal_queues' = [steal_queues EXCEPT ![c] = Append(steal_queues[c], p)]
      BY <1>2, <2>1, <2>2, Zenon DEF PutBackPush, TypeOK
    <2>4. \A x : Contains(Append(steal_queues[c], p), x) => x = p \/ Contains(steal_queues[c], x)
      BY <1>q, EndsContain, Zenon
    <2> QED
      BY <1>e, <2>2, <2>3, <2>4, Zenon
  <1>3. CASE PickOwn(h)
    <2>1. steal_queues' = [steal_queues EXCEPT ![h] = PopBack(steal_queues[h])]
      BY <1>3, Zenon DEF PickOwn, TypeOK
    <2>2. \A x : Contains(PopBack(steal_queues[h]), x) => Contains(steal_queues[h], x)
      BY <1>q, PopBackContains, Zenon
    <2> QED
      BY <1>e, <2>1, <2>2, ZenonT(30)
  <1>4. CASE StealFits(h) \/ StealMisfits(h)
    <2>0. /\ scan[h] # <<>> /\ steal_queues[Head(scan[h])] # <<>>
          /\ steal_queues' = [steal_queues EXCEPT ![Head(scan[h])] = Tail(@)]
      BY <1>4, Zenon DEF StealFits, StealMisfits, Steal
    <2>h. Head(scan[h]) \in Cpus
      BY <2>0 DEF TypeOK
    <2>1. PICK c \in Cpus : c = Head(scan[h]) /\ steal_queues[c] # <<>>
                            /\ steal_queues' = [steal_queues EXCEPT ![c] = Tail(@)]
      BY <2>0, <2>h, Zenon
    <2>2. PICK p \in Pids : TRUE
      BY <1>q, <2>1
    <2>3. \A x : Contains(Tail(steal_queues[c]), x) => Contains(steal_queues[c], x)
      BY <1>q, <2>1, <2>2, EndsContain, Zenon
    <2> QED
      BY <1>e, <2>1, <2>3, Zenon
  <1>6. CASE steal_queues' = steal_queues
    BY <1>6, Zenon DEF StealArrivals
  <1>7. CASE \/ ScheduleService(h) \/ BootReady(h) \/ PickNone(h) \/ StealFails(h) \/ RemoveStolen(h) \/ PutBackInsert(h)
             \/ Idle(h) \/ Wake(h) \/ Assign(h) \/ DaemonReturns(h) \/ OneShotReturns(h)
             \/ EnqueueInsert(h) \/ KillRemove(h) \/ Calls(h)
    BY <1>6, <1>7, Zenon DEF ScheduleService, BootReady, PickNone, StealFails, RemoveStolen, PutBackInsert,
        Idle, Wake, Assign, DaemonReturns, OneShotReturns, EnqueueInsert, KillRemove, Calls, SpawnOnCpu, ExitOther,
        Kill, ReapZombies, queue_vars
  <1> QED
    BY <1>1, <1>2, <1>3, <1>4, <1>7 DEF Loop, Pick

----------------------------------------------------------------------------
(* A new process is in the hands of the hart that made it, and so is one that becomes
   Ready. *)
Births(h) ==
    \/ next_pid' = next_pid /\ table' \subseteq table
    \/ /\ next_pid \in Pids /\ next_pid' = next_pid + 1 /\ table' = table \cup {next_pid}
       /\ obj'[h] = next_pid
       /\ proc'[next_pid].daemon \/ proc'[next_pid].affinity # AnyCpu

LEMMA BirthStep ==
    ASSUME TypeOK, Recorded, NEW h \in Cpus, Loop(h) \/ Calls(h)
    PROVE  Births(h)
  <1>f. Boot \subseteq Pids /\ AnyCpu \notin Cpus /\ next_pid \notin table
    BY TypeFacts DEF Recorded
  <1>1. CASE ScheduleService(h)
    BY <1>1, <1>f DEF ScheduleService, Register, CallEnqueue, Process, TypeOK, Births
  <1>2. ASSUME NEW cpu \in Cpus, NEW n, SpawnOnCpu(h, cpu, n)
        PROVE  Births(h)
    BY <1>2, <1>f DEF SpawnOnCpu, Register, CallEnqueue, Process, TypeOK, Births
  <1>3. ASSUME NEW p \in Pids, ExitOther(h, p)
        PROVE  Births(h)
    <2>1. CASE proc[p].daemon
      <3>1. PICK n \in Pids : n = next_pid /\ n # p
        BY <1>3, <1>f, <2>1 DEF ExitOther
      <3>2. /\ proc' = [proc EXCEPT ![p].state = "Zombie", ![n] = Process(AnyCpu, proc[p].priority, TRUE)]
            /\ next_pid' = next_pid + 1 /\ table' = table \cup {next_pid} /\ obj' = [obj EXCEPT ![h] = n]
        BY <1>3, <2>1, <3>1, ZenonT(30) DEF ExitOther, Register, CallEnqueue
      <3>3. proc'[n].daemon /\ obj'[h] = n
        BY <3>1, <3>2 DEF TypeOK, Process
      <3> QED
        BY <3>1, <3>2, <3>3, Zenon DEF Births
    <2>2. CASE ~ proc[p].daemon
      BY <1>3, <2>2 DEF ExitOther, Births
    <2> QED
      BY <2>1, <2>2, Zenon
  <1>4. CASE \/ BootReady(h) \/ Pick(h) \/ Idle(h) \/ Wake(h) \/ Assign(h) \/ DaemonReturns(h) \/ OneShotReturns(h)
             \/ EnqueuePush(h) \/ EnqueueInsert(h)
    BY <1>4, ZenonT(30) DEF BootReady, Pick, PickOwn, PickNone, StealFails, StealFits, StealMisfits, Steal, RemoveStolen,
        PutBackPush, PutBackInsert, Idle, Wake, Assign, DaemonReturns, OneShotReturns, EnqueuePush, EnqueueInsert, Births
  <1>5. CASE KillRemove(h) \/ ReapZombies(h)
    BY <1>5 DEF KillRemove, ReapZombies, Births
  <1>6. ASSUME NEW p \in Pids, Kill(h, p)
        PROVE  Births(h)
    BY <1>6, Zenon DEF Kill, Births
  <1> QED
    BY <1>1, <1>2, <1>3, <1>4, <1>5, <1>6 DEF Loop, Calls

(* kill() and the end of a one-shot process are the only steps that enter the histories. *)
Histories(h) ==
    /\ killed' = killed \/ \E p \in table : killed' = killed \cup {p}
    /\ finished' = finished \/ (OneShotReturns(h) /\ finished' = finished \cup {cur[h]})

LEMMA HistoryStep ==
    ASSUME NEW h \in Cpus, Loop(h) \/ Calls(h)
    PROVE  Histories(h)
  <1>1. CASE OneShotReturns(h)
    BY <1>1, Zenon DEF OneShotReturns, Histories
  <1>2. ASSUME NEW p \in Pids, Kill(h, p)
        PROVE  Histories(h)
    BY <1>2, Zenon DEF Kill, Histories
  <1>3. CASE KillRemove(h)
    BY <1>3, Zenon DEF KillRemove, Histories
  <1>4. CASE UNCHANGED history
    BY <1>4, SMTT(30), ZenonT(30) DEF history, Histories
  <1>5. CASE \/ ScheduleService(h) \/ BootReady(h) \/ Pick(h) \/ Idle(h) \/ Wake(h) \/ Assign(h) \/ DaemonReturns(h)
             \/ EnqueuePush(h) \/ EnqueueInsert(h) \/ ReapZombies(h)
    BY <1>4, <1>5, Zenon DEF ScheduleService, BootReady, Pick, PickOwn, PickNone, StealFails, StealFits, StealMisfits, Steal,
        RemoveStolen, PutBackPush, PutBackInsert, Idle, Wake, Assign, DaemonReturns, EnqueuePush, EnqueueInsert,
        ReapZombies
  <1>6. ASSUME NEW cpu \in Cpus, NEW n, SpawnOnCpu(h, cpu, n)
        PROVE  Histories(h)
    BY <1>4, <1>6 DEF SpawnOnCpu
  <1>7. ASSUME NEW p \in Pids, ExitOther(h, p)
        PROVE  Histories(h)
    BY <1>4, <1>7 DEF ExitOther
  <1> QED
    BY <1>1, <1>2, <1>3, <1>5, <1>6, <1>7 DEF Loop, Calls

(* Queues go on holding only processes that fit. *)
LEMMA HomeStep ==
    ASSUME TypeOK, HomeInv, Kept, NEW h \in Cpus, HartInv(h), Loop(h) \/ Calls(h)
    PROVE  HomeInv'
  <1>f. Allocated \subseteq Pids /\ next_pid \in Nat
    BY TypeFacts, Zenon
  <1>a. Arrivals /\ StealArrivals /\ Births(h) /\ Histories(h)
    BY QueueStep, StealQueueStep, BirthStep, HistoryStep DEF HomeInv
  <1>n. Allocated' = Allocated \/ Allocated' = Allocated \cup {next_pid}
    BY <1>a, <1>f DEF Births, Allocated, TypeOK
  <1>1. Recorded'
    <2>1. table' \subseteq Allocated'
      <3>1. table \subseteq Allocated'
        BY Zenon DEF HomeInv, Recorded, Kept
      <3>2. next_pid' = next_pid + 1 => next_pid \in Allocated'
        BY <1>f DEF Allocated, TypeOK
      <3> QED
        BY <1>a, <3>1, <3>2, Zenon DEF Births
    <2>2. killed' \subseteq Allocated'
      BY <1>a DEF Histories, HomeInv, Recorded, Kept
    <2>3. OneShotReturns(h) => cur[h] \in Allocated
      BY Zenon DEF OneShotReturns, HartInv, Locals, HandFits
    <2>4. finished' \subseteq Allocated'
      BY <1>a, <2>3, Zenon DEF Histories, HomeInv, Recorded, Kept
    <2> QED
      BY <2>1, <2>2, <2>4, Zenon DEF Recorded
  <1>2. OneShotsPinned'
    <2>1. ASSUME NEW p \in Allocated', ~ proc'[p].daemon
          PROVE  proc'[p].affinity # AnyCpu
      <3>1. CASE p \in Allocated
        BY <2>1, <3>1, Zenon DEF HomeInv, OneShotsPinned, Kept
      <3>2. CASE p \notin Allocated
        <4>1. p = next_pid /\ next_pid' # next_pid
          BY <1>n, <3>2, Zenon DEF Allocated
        <4> QED
          BY <1>a, <2>1, <4>1 DEF Births
      <3> QED
        BY <3>1, <3>2, Zenon
    <2> QED
      BY <2>1, Zenon DEF OneShotsPinned
  <1>3. ASSUME NEW c \in Cpus
        PROVE  QueueFits(c)' /\ StealFitsHome(c)'
    <2>1. \A p \in Pids : p \in Allocated /\ Fits(p, c) => p \in Allocated' /\ proc'[p].affinity \in {AnyCpu, c}
      BY Zenon DEF Fits, Kept
    <2>2. \A p \in Pids : Contains(queues'[c], p) => p \in Allocated /\ Fits(p, c)
      BY <1>a DEF Arrivals, HomeInv, QueueFits
    <2>3. \A p \in Pids : Contains(steal_queues'[c], p) => p \in Allocated /\ Fits(p, c)
      BY <1>a DEF StealArrivals, HomeInv, StealFitsHome
    <2> QED
      BY <2>1, <2>2, <2>3 DEF QueueFits, StealFitsHome, Fits
  <1> QED
    BY <1>1, <1>2, <1>3 DEF HomeInv


----------------------------------------------------------------------------
(* The hands of the hart that takes the step: one fact for each kind of place it may come
   to, then one step for each action. *)
LEMMA OwnStep ==
    ASSUME TypeOK, HomeInv, Kept, killed \subseteq killed', NEW h \in Cpus, HartInv(h), Loop(h) \/ Calls(h)
    PROVE  HartInv(h)'
  <1>f. /\ NoPid \notin Pids /\ Allocated \subseteq Pids /\ next_pid \in Nat /\ Boot \subseteq Pids
        /\ \A p \in Boot : BootAffinity[p] \in Cpus
    BY TypeFacts, Zenon
  <1>k. \A p \in Allocated : /\ p \in Allocated' /\ p # NoPid
                             /\ \A c : Fits(p, c) => proc'[p].affinity \in {AnyCpu, c}
    BY <1>f DEF Kept, Fits
  <1>n. next_pid' = next_pid + 1 => next_pid \in Allocated'
    BY <1>f DEF Allocated, TypeOK
  <1>l. /\ "boot" \in Looking /\ "pick" \in Looking /\ "scan" \in Looking /\ "idle" \in Looking
        /\ Looking \cap (Enqueuing \cup Stealing \cup {"assign", "running", "kill_remove"}) = {}
        /\ Enqueuing \cap (Stealing \cup {"assign", "running", "kill_remove"}) = {}
        /\ Stealing \cap {"assign", "running", "kill_remove"} = {} /\ PuttingBack \subseteq Stealing
        /\ "steal_remove" \in Stealing /\ "steal_remove" \notin PuttingBack
        /\ "putback_push" \in PuttingBack /\ "putback_insert" \in PuttingBack
        /\ "enqueue_push" \in Enqueuing /\ "enqueue_insert" \in Enqueuing
    BY Zenon DEF Looking, Enqueuing, Stealing, PuttingBack
  <1>r. ASSUME pc[h] \in Enqueuing \cup {"running", "kill_remove"}, cur[h] # NoPid
        PROVE  /\ cur[h] \in Allocated /\ Fits(cur[h], h)
               /\ ~ proc'[cur[h]].daemon => proc'[cur[h]].state # "Ready"
    <2>1. cur[h] \in Allocated /\ Fits(cur[h], h)
      BY <1>r, <1>l, ZenonT(30) DEF HartInv, HandFits
    <2> QED
      BY <1>r, <2>1, Zenon DEF HartInv, TickNotReady, Kept
  <1>A. ASSUME pc'[h] \in Looking, cur'[h] = NoPid, obj'[h] = NoPid
        PROVE  HartInv(h)'
    BY <1>A, <1>l, Zenon DEF HartInv, Locals, HandFits, TickNotReady
  <1>B. ASSUME pc'[h] \in {"assign", "running"}, cur'[h] \in Allocated, Fits(cur'[h], h), obj'[h] = NoPid,
               pc'[h] = "running" /\ ~ proc'[cur'[h]].daemon => proc'[cur'[h]].state # "Ready"
        PROVE  HartInv(h)'
    <2>1. proc'[cur'[h]].affinity \in {AnyCpu, h} /\ cur'[h] \in Allocated' /\ cur'[h] # NoPid
      BY <1>B, <1>k
    <2>2. Locals(h)'
      BY <1>B, <1>l, <2>1 DEF Locals
    <2>3. HandFits(h)'
      BY <1>B, <1>l, <2>1, SMTT(30), ZenonT(30) DEF HandFits, Fits
    <2>4. TickNotReady(h)'
      BY <1>B, <1>l DEF TickNotReady
    <2> QED
      BY <2>2, <2>3, <2>4, ZenonT(30) DEF HartInv
  <1>C. ASSUME pc'[h] \in Enqueuing, back'[h] = "running", cur'[h] \in Allocated, Fits(cur'[h], h),
               ~ proc'[cur'[h]].daemon => proc'[cur'[h]].state # "Ready",
               obj'[h] \in Allocated', obj'[h] # NoPid, proc'[obj'[h]].affinity \in {AnyCpu, target'[h]}
        PROVE  HartInv(h)'
    <2>1. proc'[cur'[h]].affinity \in {AnyCpu, h} /\ cur'[h] \in Allocated' /\ cur'[h] # NoPid
      BY <1>C, <1>k, ZenonT(30)
    <2>2. Locals(h)'
      BY <1>C, <1>l, <2>1 DEF Locals
    <2>3. HandFits(h)'
      BY <1>C, <1>l, <2>1, SMTT(30), ZenonT(30) DEF HandFits, Fits
    <2>4. TickNotReady(h)'
      BY <1>C, SMTT(30), ZenonT(30) DEF TickNotReady
    <2> QED
      BY <2>2, <2>3, <2>4, Zenon DEF HartInv
  <1>D. ASSUME pc'[h] \in Enqueuing, back'[h] # "running", cur'[h] = NoPid,
               obj'[h] \in Allocated', obj'[h] # NoPid, proc'[obj'[h]].affinity \in {AnyCpu, target'[h]}
        PROVE  HartInv(h)'
    <2>2. Locals(h)'
      BY <1>D, <1>l, SMTT(30), ZenonT(30) DEF Locals
    <2>3. HandFits(h)'
      BY <1>D, <1>l DEF HandFits, Fits
    <2>4. TickNotReady(h)'
      BY <1>D DEF TickNotReady
    <2> QED
      BY <2>2, <2>3, <2>4, Zenon DEF HartInv
  <1>E. ASSUME pc'[h] \in Stealing, obj'[h] = NoPid, cur'[h] \in Allocated, scan'[h] # <<>>, Head(scan'[h]) \notin {h, 0},
               Fits(cur'[h], Head(scan'[h])), pc'[h] \notin PuttingBack => Fits(cur'[h], h)
        PROVE  HartInv(h)'
    <2>1. /\ proc'[cur'[h]].affinity \in {AnyCpu, Head(scan'[h])} /\ cur'[h] \in Allocated' /\ cur'[h] # NoPid
          /\ pc'[h] \notin PuttingBack => proc'[cur'[h]].affinity \in {AnyCpu, h}
      BY <1>E, <1>k, SMTT(30), ZenonT(30)
    <2>2. Locals(h)'
      BY <1>E, <1>l, <2>1, SMTT(30), ZenonT(30) DEF Locals
    <2>3. HandFits(h)'
      BY <1>E, <1>l, <2>1, SMTT(30), ZenonT(30) DEF HandFits, Fits
    <2>4. TickNotReady(h)'
      BY <1>E, <1>l, SMTT(30), ZenonT(30) DEF TickNotReady
    <2> QED
      BY <2>2, <2>3, <2>4, Zenon DEF HartInv
  <1>F. ASSUME pc'[h] = "kill_remove", cur'[h] \in Allocated, Fits(cur'[h], h),
               ~ proc'[cur'[h]].daemon => proc'[cur'[h]].state # "Ready",
               obj'[h] \in killed', obj'[h] \in Allocated
        PROVE  HartInv(h)'
    <2>1. /\ proc'[cur'[h]].affinity \in {AnyCpu, h} /\ cur'[h] \in Allocated' /\ cur'[h] # NoPid
          /\ obj'[h] \in Allocated' /\ obj'[h] # NoPid
      BY <1>F, <1>k
    <2>2. Locals(h)'
      BY <1>F, <1>l, <2>1, ZenonT(30) DEF Locals
    <2>3. HandFits(h)'
      BY <1>F, <1>l, <2>1 DEF HandFits, Fits
    <2>4. TickNotReady(h)'
      BY <1>F, ZenonT(30) DEF TickNotReady
    <2> QED
      BY <2>2, <2>3, <2>4, Zenon DEF HartInv
  <1>1. CASE ScheduleService(h)
    <2>1. PICK n \in Boot : n = next_pid /\ n \in Pids
      BY <1>1, <1>f DEF ScheduleService
    <2>2. /\ pc'[h] = "enqueue_push" /\ back'[h] = "boot" /\ obj'[h] = n /\ target'[h] = BootAffinity[n]
          /\ proc'[n].affinity = BootAffinity[n] /\ next_pid' = next_pid + 1 /\ cur' = cur
      BY <1>1, <2>1, ZenonT(30) DEF ScheduleService, CallEnqueue, Goto, Register, Process, TypeOK
    <2>3. cur[h] = NoPid
      BY <1>1, <1>l DEF ScheduleService, HartInv, Locals
    <2> QED
      BY <1>D, <1>f, <1>l, <1>n, <2>1, <2>2, <2>3
  <1>2. CASE BootReady(h) \/ PickNone(h) \/ StealFails(h) \/ Idle(h) \/ Wake(h)
    <2>1. pc[h] \in Looking /\ pc'[h] \in Looking /\ cur' = cur /\ obj' = obj
      BY <1>2, <1>l, ZenonT(30) DEF BootReady, PickNone, StealFails, Idle, Wake, Goto, call_vars, TypeOK
    <2>2. cur[h] = NoPid /\ obj[h] = NoPid
      BY <1>l, <2>1, Zenon DEF HartInv, Locals
    <2> QED
      BY <1>A, <2>1, <2>2
  <1>3. CASE PickOwn(h)
    <2>1. PICK i \in FirstRunnable(queues[h]) : cur' = [cur EXCEPT ![h] = queues[h][i]]
      BY <1>3, Zenon DEF PickOwn
    <2>2. Contains(queues[h], queues[h][i]) /\ queues[h][i] \in Pids
      BY DEF FirstRunnable, Contains, TypeOK
    <2>3. cur'[h] = queues[h][i] /\ pc'[h] = "assign" /\ obj' = obj /\ pc[h] = "pick"
      BY <1>3, <2>1, Zenon DEF PickOwn, Goto, call_vars, TypeOK
    <2>4. obj[h] = NoPid
      BY <1>l, <2>3, ZenonT(30) DEF HartInv, Locals
    <2>5. cur'[h] \in Allocated /\ Fits(cur'[h], h)
      BY <2>2, <2>3, Zenon DEF HomeInv, QueueFits
    <2> QED
      BY <1>B, <2>3, <2>4, <2>5, Zenon
  <1>4. CASE StealFits(h) \/ StealMisfits(h)
    <2>1. /\ pc[h] = "scan" /\ scan[h] # <<>> /\ Head(scan[h]) \notin {h, 0} /\ steal_queues[Head(scan[h])] # <<>>
          /\ cur'[h] = Head(steal_queues[Head(scan[h])]) /\ scan' = scan /\ obj' = obj
      BY <1>4, ZenonT(30) DEF StealFits, StealMisfits, Steal, call_vars, TypeOK
    <2>2. PICK v \in Cpus : v = Head(scan[h])
      BY <2>1, SMTT(30), ZenonT(30) DEF TypeOK
    <2>s. steal_queues[v] \in Seq(Pids) /\ steal_queues[v] # <<>>
      BY <2>1, <2>2, Zenon DEF TypeOK
    <2>3. PICK p \in Pids : p = Head(steal_queues[v]) /\ p = cur'[h]
      BY <2>1, <2>2, <2>s
    <2>4. Contains(steal_queues[v], p)
      BY <2>s, <2>3, EndsContain, Zenon
    <2>5. p \in Allocated /\ Fits(p, v)
      BY <2>4, Zenon DEF HomeInv, StealFitsHome
    <2>6. obj[h] = NoPid
      BY <1>l, <2>1, ZenonT(30) DEF HartInv, Locals
    <2>7. CASE StealFits(h)
      <3>1. pc'[h] = "steal_remove" /\ Fits(p, h)
        BY <2>3, <2>7, ZenonT(30) DEF StealFits, Steal, Goto, CanRunOnCpu, Fits, TypeOK
      <3> QED
        BY <1>E, <1>l, <2>1, <2>2, <2>3, <2>5, <2>6, <3>1
    <2>8. CASE StealMisfits(h)
      <3>1. pc'[h] = "putback_push"
        BY <2>8, SMTT(30), ZenonT(30) DEF StealMisfits, Steal, Goto, TypeOK
      <3> QED
        BY <1>E, <1>l, <2>1, <2>2, <2>3, <2>5, <2>6, <3>1, SMTT(30), ZenonT(30)
    <2> QED
      BY <1>4, <2>7, <2>8, Zenon
  <1>5. CASE RemoveStolen(h)
    <2>1. pc[h] = "steal_remove" /\ pc'[h] = "assign" /\ cur' = cur /\ obj' = obj
      BY <1>5 DEF RemoveStolen, Goto, call_vars, TypeOK
    <2>2. obj[h] = NoPid /\ cur[h] \in Allocated /\ Fits(cur[h], h)
      BY <1>l, <2>1, ZenonT(30) DEF HartInv, Locals, HandFits
    <2> QED
      BY <1>B, <2>1, <2>2
  <1>6. CASE PutBackPush(h)
    <2>1. pc[h] = "putback_push" /\ pc'[h] = "putback_insert" /\ cur' = cur /\ obj' = obj /\ scan' = scan
      BY <1>6, Zenon DEF PutBackPush, Goto, call_vars, TypeOK
    <2>2. /\ obj[h] = NoPid /\ cur[h] \in Allocated /\ Fits(cur[h], Head(scan[h]))
          /\ scan[h] # <<>> /\ Head(scan[h]) \notin {h, 0}
      BY <1>l, <2>1, ZenonT(30) DEF HartInv, Locals, HandFits
    <2> QED
      BY <1>E, <1>l, <2>1, <2>2
  <1>7. CASE PutBackInsert(h) \/ OneShotReturns(h)
    <2>1. pc[h] \in {"putback_insert", "running"} /\ pc'[h] \in {"scan", "pick"} /\ cur'[h] = NoPid /\ obj' = obj
      BY <1>7, ZenonT(30) DEF PutBackInsert, OneShotReturns, Goto, call_vars, TypeOK
    <2>2. obj[h] = NoPid
      BY <1>l, <2>1, Zenon DEF HartInv, Locals
    <2> QED
      BY <1>A, <1>l, <2>1, <2>2
  <1>8. CASE Assign(h)
    <2>1. pc[h] = "assign" /\ pc'[h] = "running" /\ cur' = cur /\ obj' = obj
      BY <1>8, Zenon DEF Assign, Goto, call_vars, TypeOK
    <2>2. obj[h] = NoPid /\ cur[h] \in Allocated /\ Fits(cur[h], h)
      BY <1>l, <2>1, Zenon DEF HartInv, Locals, HandFits
    <2>3. proc'[cur[h]].state = "Running"
      BY <1>8, <1>f, <2>2, SMTT(30), ZenonT(30) DEF Assign, SetState, TypeOK, ProcessType
    <2> QED
      BY <1>B, <2>1, <2>2, <2>3, Zenon
  <1>9. CASE DaemonReturns(h)
    <2>1. /\ pc[h] = "running" /\ pc'[h] = "enqueue_push" /\ back'[h] = "pick" /\ cur'[h] = NoPid /\ obj'[h] = cur[h]
          /\ target'[h] = IF proc[cur[h]].affinity = AnyCpu THEN LeastLoaded ELSE proc[cur[h]].affinity
      BY <1>9, Zenon DEF DaemonReturns, CallEnqueue, Goto, TypeOK
    <2>2. cur[h] \in Allocated
      BY <1>l, <2>1, ZenonT(30) DEF HartInv, Locals, HandFits
    <2>3. proc[cur[h]].affinity \in {AnyCpu, target'[h]}
      BY <2>1
    <2> QED
      BY <1>D, <1>k, <1>l, <2>1, <2>2, <2>3, ZenonT(30) DEF Kept
  <1>10. CASE EnqueuePush(h)
    <2>1. /\ pc[h] = "enqueue_push" /\ pc'[h] = "enqueue_insert"
          /\ cur' = cur /\ obj' = obj /\ target' = target /\ back' = back
      BY <1>10 DEF EnqueuePush, Goto, call_vars, TypeOK
    <2>2. obj[h] \in Allocated /\ Fits(obj[h], target[h])
      BY <1>l, <2>1, ZenonT(30) DEF HartInv, Locals, HandFits
    <2>3. CASE back[h] = "running"
      <3>1. cur[h] # NoPid
        BY <1>l, <2>1, <2>3, ZenonT(30) DEF HartInv, Locals
      <3> QED
        BY <1>C, <1>k, <1>l, <1>r, <2>1, <2>2, <2>3, <3>1, ZenonT(30)
    <2>4. CASE back[h] # "running"
      <3>1. cur[h] = NoPid
        BY <1>l, <2>1, <2>4 DEF HartInv, Locals
      <3> QED
        BY <1>D, <1>k, <1>l, <2>1, <2>2, <2>4, <3>1, SMTT(30), ZenonT(30)
    <2> QED
      BY <2>3, <2>4
  <1>11. CASE EnqueueInsert(h)
    <2>1. /\ pc[h] = "enqueue_insert" /\ pc'[h] = back[h] /\ cur' = cur /\ obj'[h] = NoPid
      BY <1>11 DEF EnqueueInsert, Goto, TypeOK
    <2>3. CASE back[h] = "running"
      <3>1. cur[h] # NoPid
        BY <1>l, <2>1, <2>3 DEF HartInv, Locals
      <3> QED
        BY <1>B, <1>l, <1>r, <2>1, <2>3, <3>1, SMTT(30), ZenonT(30)
    <2>4. CASE back[h] # "running"
      <3>1. cur[h] = NoPid
        BY <1>l, <2>1, <2>4 DEF HartInv, Locals
      <3>2. back[h] \in Looking
        BY <1>l, <2>4, ZenonT(30) DEF TypeOK
      <3> QED
        BY <1>A, <2>1, <3>1, <3>2, ZenonT(30)
    <2> QED
      BY <2>3, <2>4, Zenon
  <1>12. CASE KillRemove(h)
    <2>1. pc[h] = "kill_remove" /\ cur' = cur
      BY <1>12, ZenonT(30) DEF KillRemove
    <2>2. cur[h] # NoPid /\ obj[h] \in killed /\ obj[h] \in Allocated
      BY <2>1, ZenonT(30) DEF HartInv, Locals, HomeInv, Recorded
    <2>3. CASE target[h] < NumCpus - 1
      <3>1. pc' = pc /\ obj' = obj
        BY <1>12, <2>3, ZenonT(30) DEF KillRemove
      <3> QED
        BY <1>F, <1>r, <2>1, <2>2, <3>1, ZenonT(30)
    <2>4. CASE ~ (target[h] < NumCpus - 1)
      <3>1. pc'[h] = "running" /\ obj'[h] = NoPid
        BY <1>12, <2>4, ZenonT(30) DEF KillRemove, Goto, TypeOK
      <3> QED
        BY <1>B, <1>r, <2>1, <2>2, <3>1
    <2> QED
      BY <2>3, <2>4
  <1>13. ASSUME pc[h] = "running"
         PROVE  /\ cur[h] \in Allocated /\ Fits(cur[h], h) /\ obj[h] = NoPid
                /\ ~ proc'[cur[h]].daemon => proc'[cur[h]].state # "Ready"
    <2>1. cur[h] # NoPid /\ obj[h] = NoPid
      BY <1>13, <1>l, ZenonT(30) DEF HartInv, Locals
    <2> QED
      BY <1>13, <1>r, <2>1, Zenon
  <1>14. ASSUME NEW cpu \in Cpus, NEW m, SpawnOnCpu(h, cpu, m)
         PROVE  HartInv(h)'
    <2>1. PICK n \in Pids : n = next_pid
      BY <1>14 DEF SpawnOnCpu
    <2>2. /\ pc[h] = "running" /\ pc'[h] = "enqueue_push" /\ back'[h] = "running" /\ obj'[h] = n /\ target'[h] = cpu
          /\ proc'[n].affinity = cpu /\ next_pid' = next_pid + 1 /\ cur' = cur
      BY <1>14, <2>1, SMTT(30), ZenonT(30) DEF SpawnOnCpu, CallEnqueue, Goto, Register, Process, TypeOK
    <2>3. n \in Allocated' /\ n # NoPid
      BY <1>f, <1>n, <2>1, <2>2
    <2> QED
      BY <1>C, <1>l, <1>13, <2>2, <2>3, ZenonT(30)
  <1>15. ASSUME NEW p \in Pids, ExitOther(h, p)
         PROVE  HartInv(h)'
    <2>1. CASE proc[p].daemon
      <3>1. PICK n \in Pids : n = next_pid
        BY <1>15, <2>1 DEF ExitOther
      <3>2. /\ pc[h] = "running" /\ pc'[h] = "enqueue_push" /\ back'[h] = "running" /\ obj'[h] = n
            /\ next_pid' = next_pid + 1 /\ cur' = cur
        BY <1>15, <2>1, <3>1 DEF ExitOther, CallEnqueue, Goto, Register, TypeOK
      <3>3. proc' = [proc EXCEPT ![p].state = "Zombie", ![n] = Process(AnyCpu, proc[p].priority, TRUE)]
        BY <1>15, <2>1, <3>1, Zenon DEF ExitOther
      <3>4. proc'[n].affinity = AnyCpu
        BY <3>3, Zenon DEF TypeOK, Process
      <3>5. n \in Allocated' /\ n # NoPid
        BY <1>f, <1>n, <3>1, <3>2, Zenon
      <3> QED
        BY <1>C, <1>l, <1>13, <3>2, <3>4, <3>5, Zenon
    <2>2. CASE ~ proc[p].daemon
      BY <1>15, <2>2, OthersInv DEF ExitOther, Untouched, call_vars
    <2> QED
      BY <2>1, <2>2, SMTT(30), ZenonT(30)
  <1>16. ASSUME NEW p \in Pids, Kill(h, p)
         PROVE  HartInv(h)'
    <2>1. /\ pc[h] = "running" /\ pc'[h] = "kill_remove" /\ cur' = cur /\ obj'[h] = p /\ p \in killed'
      BY <1>16 DEF Kill, Goto, TypeOK
    <2>2. p \in Allocated
      BY <1>16, ZenonT(30) DEF Kill, HomeInv, Recorded
    <2> QED
      BY <1>F, <1>13, <2>1, <2>2, Zenon
  <1>17. CASE ReapZombies(h)
    BY <1>17, OthersInv, ZenonT(30) DEF ReapZombies, Untouched, call_vars
  <1> QED
    BY <1>1, <1>2, <1>3, <1>4, <1>5, <1>6, <1>7, <1>8, <1>9, <1>10, <1>11, <1>12, <1>14, <1>15, <1>16, <1>17, ZenonT(30)
       DEF Loop, Calls, Pick


----------------------------------------------------------------------------
(* Where a hart goes: out of the boot, and with a process in hand. *)
LEMMA ControlStep ==
    ASSUME TypeOK, NEW h \in Cpus, HartInv(h), Loop(h) \/ Calls(h), ~ BootReady(h)
    PROVE  /\ pc[h] = "boot" => h = 0
           /\ pc'[h] = "boot" => pc[h] = "boot" \/ (pc[h] \in Enqueuing /\ back[h] = "boot")
           /\ pc'[h] \in Enqueuing /\ back'[h] = "boot" =>
                (h = 0 /\ pc[h] = "boot") \/ (pc[h] \in Enqueuing /\ back[h] = "boot")
           /\ cur'[h] # NoPid =>
                \/ cur'[h] = cur[h] /\ (pc[h] \in PuttingBack => pc'[h] \in PuttingBack)
                \/ PickOwn(h) \/ StealFits(h) \/ pc'[h] \in PuttingBack
  <1> DEFINE Goal ==
           /\ pc[h] = "boot" => h = 0
           /\ pc'[h] = "boot" => pc[h] = "boot" \/ (pc[h] \in Enqueuing /\ back[h] = "boot")
           /\ pc'[h] \in Enqueuing /\ back'[h] = "boot" =>
                (h = 0 /\ pc[h] = "boot") \/ (pc[h] \in Enqueuing /\ back[h] = "boot")
           /\ cur'[h] # NoPid =>
                \/ cur'[h] = cur[h] /\ (pc[h] \in PuttingBack => pc'[h] \in PuttingBack)
                \/ PickOwn(h) \/ StealFits(h) \/ pc'[h] \in PuttingBack
  <1> USE DEF Enqueuing, PuttingBack, Goto
  <1>1. CASE ScheduleService(h)
    BY <1>1 DEF ScheduleService, CallEnqueue, TypeOK
  <1>2. CASE PickOwn(h) \/ PickNone(h) \/ StealFails(h) \/ RemoveStolen(h)
    BY <1>2, Zenon DEF PickOwn, PickNone, StealFails, RemoveStolen, TypeOK
  <1>3. CASE PutBackPush(h) \/ PutBackInsert(h)
    BY <1>3, ZenonT(30) DEF PutBackPush, PutBackInsert, TypeOK
  <1>4. CASE StealFits(h) \/ StealMisfits(h)
    BY <1>4, SMTT(30), ZenonT(30) DEF StealFits, StealMisfits, Steal, TypeOK
  <1>5. CASE Idle(h) \/ Wake(h) \/ Assign(h) \/ OneShotReturns(h) \/ ReapZombies(h)
    BY <1>5 DEF Idle, Wake, Assign, OneShotReturns, ReapZombies, TypeOK
  <1>6. CASE DaemonReturns(h)
    BY <1>6, ZenonT(30) DEF DaemonReturns, CallEnqueue, TypeOK
  <1>7. CASE EnqueuePush(h) \/ EnqueueInsert(h)
    BY <1>7 DEF EnqueuePush, EnqueueInsert, call_vars, TypeOK
  <1>8. CASE KillRemove(h)
    BY <1>8 DEF KillRemove, TypeOK
  <1>9. ASSUME NEW cpu \in Cpus, NEW n, SpawnOnCpu(h, cpu, n)
        PROVE  Goal
    BY <1>9 DEF SpawnOnCpu, CallEnqueue, TypeOK
  <1>10. ASSUME NEW p \in Pids, ExitOther(h, p)
         PROVE  Goal
    BY <1>10, Zenon DEF ExitOther, CallEnqueue, TypeOK
  <1>11. ASSUME NEW p \in Pids, Kill(h, p)
         PROVE  Goal
    BY <1>11, Zenon DEF Kill, TypeOK
  <1> QED
    BY <1>1, <1>2, <1>3, <1>4, <1>5, <1>6, <1>7, <1>8, <1>9, <1>10, <1>11, ZenonT(30) DEF Loop, Calls, Pick

(* The harts other than 0 wait until it has booted. *)
LEMMA BootStep ==
    ASSUME TypeOK, \A g \in Cpus : HartInv(g), BootsAlone, NEW h \in Cpus, Loop(h) \/ Calls(h)
    PROVE  BootsAlone'
  <1>z. 0 \in Cpus
    BY TypeFacts, Zenon
  <1>1. CASE BootReady(h)
    BY <1>1, <1>z DEF BootReady, BootsAlone, Booting, Enqueuing
  <1>2. CASE ~ BootReady(h)
    <2>1. Booting' => Booting
      <3>1. CASE h = 0
        BY <1>2, <3>1, ControlStep DEF Booting
      <3>2. CASE h # 0
        BY <1>2, <1>z, <3>2, OthersStep DEF Booting, Untouched
      <3> QED
        BY <3>1, <3>2, Zenon
    <2>2. ASSUME NEW g \in Cpus \ {0}
          PROVE  (Booting' => pc'[g] = "boot") /\ (pc'[g] \in Enqueuing => back'[g] # "boot")
      <3>1. CASE g = h
        BY <1>2, <2>1, <2>2, <3>1, ControlStep, SMTT(30), ZenonT(30) DEF BootsAlone
      <3>2. CASE g # h
        BY <1>2, <2>1, <2>2, <3>2, OthersStep DEF BootsAlone, Untouched
      <3> QED
        BY <3>1, <3>2
    <2> QED
      BY <2>2, Zenon DEF BootsAlone
  <1> QED
    BY <1>1, <1>2

LEMMA HartsStep ==
    ASSUME TypeOK, \A g \in Cpus : HartInv(g), BootsAlone, HomeInv, Kept, killed \subseteq killed',
           NEW h \in Cpus, Loop(h) \/ Calls(h), NEW g \in Cpus
    PROVE  HartInv(g)'
  <1>1. CASE g = h
    BY <1>1, OwnStep
  <1>2. CASE g # h /\ ~ BootReady(h)
    BY <1>2, OthersStep, OthersInv, SMTT(30), ZenonT(30)
  <1>3. CASE g # h /\ BootReady(h)
    <2>1. pc[g] = "boot" /\ pc'[g] = "pick" /\ cur' = cur /\ obj' = obj
      BY <1>3, Zenon DEF BootReady, BootsAlone, Booting, call_vars
    <2>2. cur[g] = NoPid /\ obj[g] = NoPid
      BY <2>1, ZenonT(30) DEF HartInv, Locals, Looking, Enqueuing
    <2> QED
      BY <2>1, <2>2 DEF HartInv, Locals, HandFits, TickNotReady, Looking, Enqueuing, Stealing, PuttingBack
  <1> QED
    BY <1>1, <1>2, <1>3

----------------------------------------------------------------------------
(* A finished process stays finished: it is on no run queue as a Ready process, and it is
   pinned, so that no thief can keep it and no other hart had it when it finished. *)
LEMMA FinishedStep ==
    ASSUME TypeOK, \A g \in Cpus : HartInv(g), BootsAlone, HomeInv, FinishedOnce, Kept,
           NEW h \in Cpus, Loop(h) \/ Calls(h)
    PROVE  FinishedOnce'
  <1>f. NoPid \notin Pids /\ Allocated \subseteq Pids
    BY TypeFacts, Zenon
  <1>o. \A p \in Allocated, c, d \in Cpus : ~ proc[p].daemon /\ Fits(p, c) /\ Fits(p, d) => c = d
    BY Zenon DEF HomeInv, OneShotsPinned, Fits
  <1>h. Histories(h)
    BY HistoryStep, ZenonT(30)
  <1>g. ASSUME NEW g \in Cpus, g # h
        PROVE  cur'[g] = cur[g] /\ (cur[g] # NoPid => pc'[g] = pc[g])
    <2>1. BootReady(h) => cur[g] = NoPid
      BY <1>g, Zenon DEF BootReady, BootsAlone, Booting, HartInv, Locals, Looking
    <2> QED
      BY <1>g, <2>1, OthersStep DEF Untouched
  <1>1. ASSUME NEW p \in finished
        PROVE  /\ ~ proc'[p].daemon /\ proc'[p].state # "Ready"
               /\ \A g \in Cpus : cur'[g] = p => pc'[g] \in PuttingBack
    <2>1. p \in Allocated /\ p # NoPid /\ ~ proc[p].daemon /\ proc[p].state # "Ready"
      BY <1>1, <1>f DEF HomeInv, Recorded, FinishedOnce
    <2>2. ~ proc'[p].daemon /\ proc'[p].state # "Ready"
      BY <2>1, Zenon DEF Kept
    <2>3. ASSUME NEW g \in Cpus, g # h, cur'[g] = p
          PROVE  pc'[g] \in PuttingBack
      BY <1>g, <1>1, <2>1, <2>3, SMTT(30), ZenonT(30) DEF FinishedOnce
    <2>4. ASSUME cur'[h] = p
          PROVE  pc'[h] \in PuttingBack
      <3>1. CASE BootReady(h)
        BY <1>1, <2>1, <2>4, <3>1 DEF BootReady, HartInv, Locals, Looking
      <3>2. CASE cur'[h] = cur[h] /\ (pc[h] \in PuttingBack => pc'[h] \in PuttingBack)
        BY <1>1, <2>4, <3>2 DEF FinishedOnce
      <3>3. CASE PickOwn(h)
        <4>1. PICK i \in FirstRunnable(queues[h]) : cur' = [cur EXCEPT ![h] = queues[h][i]]
          BY <3>3, Zenon DEF PickOwn
        <4>2. proc[queues[h][i]].state = "Ready" /\ cur'[h] = queues[h][i]
          BY <4>1 DEF FirstRunnable, Runnable, TypeOK
        <4> QED
          BY <2>1, <2>4, <4>2
      <3>4. CASE StealFits(h)
        <4>1. /\ scan[h] # <<>> /\ Head(scan[h]) # h /\ steal_queues[Head(scan[h])] # <<>>
              /\ p = Head(steal_queues[Head(scan[h])]) /\ Fits(p, h)
          BY <2>4, <3>4 DEF StealFits, Steal, CanRunOnCpu, Fits, TypeOK
        <4>2. PICK v \in Cpus : v = Head(scan[h])
          BY <4>1 DEF TypeOK
        <4>3. steal_queues[v] \in Seq(Pids) /\ steal_queues[v] # <<>> /\ p = Head(steal_queues[v]) /\ p \in Pids
          BY <1>f, <2>1, <4>1, <4>2, Zenon DEF TypeOK
        <4>4. Contains(steal_queues[v], p)
          BY <4>3, EndsContain, Zenon
        <4>5. Fits(p, v)
          BY <4>3, <4>4, Zenon DEF HomeInv, StealFitsHome
        <4> QED
          BY <1>o, <2>1, <4>1, <4>2, <4>5, ZenonT(30)
      <3> QED
        BY <2>1, <2>4, <3>1, <3>2, <3>3, <3>4, ControlStep, SMTT(30), ZenonT(30)
    <2> QED
      BY <2>2, <2>3, <2>4, SMTT(30), ZenonT(30)
  <1>2. ASSUME OneShotReturns(h), NEW p, p = cur[h]
        PROVE  /\ ~ proc'[p].daemon /\ proc'[p].state # "Ready"
               /\ \A g \in Cpus : cur'[g] = p => pc'[g] \in PuttingBack
    <2>1. pc[h] = "running" /\ ~ proc[p].daemon /\ cur'[h] = NoPid
      BY <1>2, SMTT(30), ZenonT(30) DEF OneShotReturns, TypeOK
    <2>2. p # NoPid /\ p \in Allocated /\ Fits(p, h)
      BY <1>2, <2>1, SMTT(30), ZenonT(30) DEF HartInv, Locals, HandFits, PuttingBack
    <2>3. proc[p].state # "Ready"
      BY <1>2, <2>1, <2>2, ZenonT(30), SMTT(30) DEF HartInv, TickNotReady
    <2>4. ~ proc'[p].daemon /\ proc'[p].state # "Ready"
      BY <2>1, <2>2, <2>3, SMTT(30), ZenonT(30) DEF Kept
    <2>5. ASSUME NEW g \in Cpus, cur'[g] = p
          PROVE  pc'[g] \in PuttingBack
      <3>1. g # h /\ cur[g] = p /\ pc'[g] = pc[g]
        BY <1>g, <2>1, <2>2, <2>5
      <3>2. pc[g] \notin PuttingBack => Fits(p, g)
        BY <2>2, <3>1, ZenonT(30) DEF HartInv, HandFits
      <3> QED
        BY <1>o, <2>1, <2>2, <3>1, <3>2, SMTT(30), ZenonT(30)
    <2> QED
      BY <2>4, <2>5, Zenon
  <1> QED
    BY <1>h, <1>1, <1>2 DEF Histories, FinishedOnce

----------------------------------------------------------------------------
(* A process leaves a hart's hands only for a run queue, unless it was killed or is no
   longer there to be run. *)
LEMMA HandsStep ==
    ASSUME TypeOK, HomeInv, NEW h \in Cpus, HartInv(h), Loop(h) \/ Calls(h),
           NEW p \in Pids, cur[h] = p \/ obj[h] = p
    PROVE  \/ \E c \in Cpus : Contains(queues'[c], p)
           \/ cur'[h] = p \/ obj'[h] = p \/ p \in killed \/ p \notin table' \/ proc'[p].state # "Ready"
  <1> DEFINE Goal ==
           \/ \E c \in Cpus : Contains(queues'[c], p)
           \/ cur'[h] = p \/ obj'[h] = p \/ p \in killed \/ p \notin table' \/ proc'[p].state # "Ready"
  <1>t. NoPid \notin Pids
    BY TypeFacts
  <1>o. pc[h] \notin Enqueuing \cup {"kill_remove"} => obj[h] = NoPid
    BY ZenonT(30) DEF HartInv, Locals
  <1>l. pc[h] \notin Looking
    <2>1. Looking \cap (Enqueuing \cup {"kill_remove"}) = {}
      BY DEF Looking, Enqueuing
    <2>2. ASSUME pc[h] \in Looking
          PROVE  FALSE
      <3>1. cur[h] = NoPid
        BY <2>2, Zenon DEF HartInv, Locals
      <3>2. obj[h] = NoPid
        BY <1>o, <2>1, <2>2, ZenonT(30)
      <3> QED
        BY <1>t, <3>1, <3>2, Zenon
    <2> QED
      BY <2>2, Zenon
  <1>i. ASSUME NEW c \in Cpus, queues' = [queues EXCEPT ![c] = Insert(queues[c], p, Priority)]
        PROVE  Goal
    <2>1. Contains(Insert(queues[c], p, Priority), p)
      BY InsertContains DEF TypeOK
    <2> QED
      BY <1>i, <2>1, Zenon DEF TypeOK
  <1>1. CASE EnqueueInsert(h)
    <2>1. cur' = cur
      BY <1>1, Zenon DEF EnqueueInsert
    <2>2. PICK c \in Cpus : c = target[h]
      BY Zenon DEF TypeOK
    <2>3. obj[h] = p => queues' = [queues EXCEPT ![c] = Insert(queues[c], p, Priority)]
      BY <1>1, <2>2, Zenon DEF EnqueueInsert, TypeOK
    <2> QED
      BY <1>i, <2>1, <2>3, Zenon
  <1>2. CASE PutBackInsert(h)
    <2>1. obj' = obj
      BY <1>2, ZenonT(30) DEF PutBackInsert, call_vars
    <2>2. PICK c \in Cpus : c = Head(scan[h])
      BY <1>2 DEF PutBackInsert, HartInv, Locals, Stealing, PuttingBack, TypeOK
    <2>3. cur[h] = p => queues' = [queues EXCEPT ![c] = Insert(queues[c], p, Priority)]
      BY <1>2, <2>2, Zenon DEF PutBackInsert, TypeOK
    <2> QED
      BY <1>i, <2>1, <2>3, ZenonT(30)
  <1>3. CASE cur' = cur /\ obj' = obj
    BY <1>3, ZenonT(30)
  <1>4. CASE \/ BootReady(h) \/ PickNone(h) \/ StealFails(h) \/ RemoveStolen(h) \/ PutBackPush(h) \/ Idle(h) \/ Wake(h)
             \/ Assign(h) \/ EnqueuePush(h) \/ ReapZombies(h)
    BY <1>3, <1>4, ZenonT(30) DEF BootReady, PickNone, StealFails, RemoveStolen, PutBackPush, Idle, Wake, Assign, EnqueuePush,
        ReapZombies, call_vars
  <1>5. CASE PickOwn(h) \/ StealFits(h) \/ StealMisfits(h)
    <2>1. pc[h] \in {"pick", "scan"}
      BY <1>5, ZenonT(30) DEF PickOwn, StealFits, StealMisfits, Steal
    <2>2. pc[h] \in Looking
      BY <2>1, ZenonT(30) DEF Looking
    <2> QED
      BY <1>l, <2>2, Zenon
  <1>6. CASE DaemonReturns(h)
    <2>1. pc[h] = "running" /\ obj'[h] = cur[h]
      BY <1>6, SMTT(30), ZenonT(30) DEF DaemonReturns, CallEnqueue, TypeOK
    <2> QED
      BY <1>o, <1>t, <2>1, Zenon DEF Enqueuing
  <1>7. CASE OneShotReturns(h)
    <2>1. pc[h] = "running" /\ table' = table
      BY <1>7, Zenon DEF OneShotReturns
    <2>2. cur[h] = p
      BY <1>o, <1>t, <2>1, Zenon DEF Enqueuing
    <2>3. p \in table => proc'[p].state = "Zombie"
      BY <1>7, <2>2, ZenonT(30) DEF OneShotReturns, SetState, TypeOK, ProcessType
    <2> QED
      BY <2>1, <2>3, SMTT(30), ZenonT(30)
  <1>8. CASE KillRemove(h)
    BY <1>8, ZenonT(30) DEF KillRemove, HartInv, Locals
  <1>9. CASE ScheduleService(h)
    <2>1. pc[h] = "boot"
      BY <1>9, Zenon DEF ScheduleService
    <2>2. pc[h] \in Looking
      BY <2>1, Zenon DEF Looking
    <2> QED
      BY <1>l, <2>2, Zenon
  <1>10. ASSUME NEW cpu \in Cpus, NEW n, SpawnOnCpu(h, cpu, n)
         PROVE  Goal
    BY <1>10, <1>o, <1>t, Zenon DEF SpawnOnCpu, Enqueuing
  <1>11. ASSUME NEW x \in Pids, ExitOther(h, x) \/ Kill(h, x)
         PROVE  Goal
    BY <1>11, <1>o, <1>t, Zenon DEF ExitOther, Kill, Enqueuing
  <1> QED
    BY <1>1, <1>2, <1>4, <1>5, <1>6, <1>7, <1>8, <1>9, <1>10, <1>11, ZenonT(30) DEF Loop, Calls, Pick

(* Only a daemon's return from its tick makes a process Ready again. *)
LEMMA ReadiedStep ==
    ASSUME TypeOK, HomeInv, NEW h \in Cpus, HartInv(h), Loop(h) \/ Calls(h),
           NEW p \in Allocated, proc'[p].state = "Ready"
    PROVE  proc[p].state = "Ready" \/ obj'[h] = p
  <1>f. Allocated \subseteq Pids /\ next_pid \notin Allocated /\ p \in Pids
    BY TypeFacts
  <1>s. ASSUME NEW x \in Pids, NEW s \in States, s # "Ready", proc' = [proc EXCEPT ![x].state = s]
        PROVE  proc[p].state = "Ready"
    BY <1>s, <1>f, ZenonT(30) DEF TypeOK, ProcessType
  <1>c. ASSUME pc[h] \in {"assign", "running"}
        PROVE  cur[h] \in Pids
    BY <1>c, Zenon DEF HartInv, Locals, TypeOK
  <1>1. CASE Assign(h)
    BY <1>1, <1>c, <1>s DEF Assign, SetState, States
  <1>2. CASE OneShotReturns(h)
    BY <1>2, <1>c, <1>s DEF OneShotReturns, SetState, States
  <1>3. CASE DaemonReturns(h)
    <2>1. proc' = [proc EXCEPT ![cur[h]].state = "Ready"] /\ obj'[h] = cur[h]
      BY <1>3 DEF DaemonReturns, CallEnqueue, SetState, TypeOK
    <2> QED
      BY <1>f, <2>1 DEF TypeOK
  <1>4. CASE ScheduleService(h)
    BY <1>4, <1>f, Zenon DEF ScheduleService, TypeOK
  <1>5. ASSUME NEW cpu \in Cpus, NEW n, SpawnOnCpu(h, cpu, n)
        PROVE  proc[p].state = "Ready"
    BY <1>5, <1>f, Zenon DEF SpawnOnCpu, TypeOK
  <1>6. ASSUME NEW x \in Pids, Kill(h, x)
        PROVE  proc[p].state = "Ready"
    BY <1>6, <1>s DEF Kill, SetState, States
  <1>7. ASSUME NEW x \in Pids, ExitOther(h, x)
        PROVE  proc[p].state = "Ready"
    <2>1. CASE proc[x].daemon
      <3>1. PICK n \in Pids : /\ n # p
                              /\ proc' = [proc EXCEPT ![x].state = "Zombie",
                                                      ![n] = Process(AnyCpu, proc[x].priority, TRUE)]
        BY <1>7, <1>f, <2>1, Zenon DEF ExitOther
      <3>2. CASE p = x
        <4>1. proc'[p] = [proc[p] EXCEPT !.state = "Zombie"]
          BY <1>f, <3>1, <3>2, ZenonT(30) DEF TypeOK
        <4>2. proc[p] \in ProcessType
          BY <1>f DEF TypeOK
        <4> QED
          BY <4>1, <4>2 DEF ProcessType
      <3>3. CASE p # x
        BY <1>f, <3>1, <3>3, ZenonT(30) DEF TypeOK
      <3> QED
        BY <3>2, <3>3
    <2>2. CASE ~ proc[x].daemon
      BY <1>7, <1>s, <2>2 DEF ExitOther, SetState, States
    <2> QED
      BY <2>1, <2>2
  <1>8. CASE \/ BootReady(h) \/ Pick(h) \/ Idle(h) \/ Wake(h) \/ EnqueuePush(h) \/ EnqueueInsert(h) \/ KillRemove(h)
             \/ ReapZombies(h)
    BY <1>8, Zenon DEF BootReady, Pick, PickOwn, PickNone, StealFails, StealFits, StealMisfits, Steal, RemoveStolen,
        PutBackPush, PutBackInsert, Idle, Wake, EnqueuePush, EnqueueInsert, KillRemove, ReapZombies
  <1> QED
    BY <1>1, <1>2, <1>3, <1>4, <1>5, <1>6, <1>7, <1>8, ZenonT(30) DEF Loop, Calls

(* No step loses a Ready process. *)
LEMMA ReadyStep ==
    ASSUME TypeOK, \A g \in Cpus : HartInv(g), HomeInv, ReadyIsQueued, killed \subseteq killed',
           NEW h \in Cpus, Loop(h) \/ Calls(h)
    PROVE  ReadyIsQueued'
  <1>f. Allocated \subseteq Pids
    BY TypeFacts
  <1>a. Departures(h) /\ Births(h)
    BY QueueStep, BirthStep, SMTT(30), ZenonT(30) DEF HomeInv
  <1>1. ASSUME NEW p \in table' \ killed', proc'[p].state = "Ready"
        PROVE  \/ \E c \in Cpus : Contains(queues'[c], p)
               \/ \E g \in Cpus : cur'[g] = p \/ obj'[g] = p
    <2>1. CASE p \notin table
      BY <1>a, <2>1, SMTT(30), ZenonT(30) DEF Births
    <2>2. CASE p \in table
      <3>1. p \in Allocated /\ p \in Pids /\ p \notin killed
        BY <1>f, <1>1, <2>2 DEF HomeInv, Recorded
      <3>2. CASE obj'[h] = p
        BY <3>2, SMTT(30), ZenonT(30)
      <3>3. CASE obj'[h] # p
        <4>1. proc[p].state = "Ready"
          BY <1>1, <3>1, <3>3, ReadiedStep, SMTT(30), ZenonT(30)
        <4>2. Queued(p) \/ InHand(p)
          BY <2>2, <3>1, <4>1, SMTT(30), ZenonT(30) DEF ReadyIsQueued
        <4>3. CASE Queued(p)
          BY <1>a, <3>1, <4>3, SMTT(30), ZenonT(30) DEF Queued, Departures
        <4>4. CASE cur[h] = p \/ obj[h] = p
          BY <1>1, <3>1, <4>4, HandsStep, SMTT(30), ZenonT(30)
        <4>5. ASSUME NEW g \in Cpus, g # h, cur[g] = p \/ obj[g] = p
              PROVE  cur'[g] = p \/ obj'[g] = p
          BY <4>5, OthersStep DEF Untouched
        <4> QED
          BY <4>2, <4>3, <4>4, <4>5 DEF InHand
      <3> QED
        BY <3>2, <3>3
    <2> QED
      BY <2>1, <2>2
  <1> QED
    BY <1>1 DEF ReadyIsQueued, Queued, InHand

----------------------------------------------------------------------------
LEMMA InitIInv == Init => IInv
  <1> SUFFICES ASSUME Init
               PROVE  IInv
    BY Zenon
  <1>c. 0 \in Cpus
    BY SchedulerAssumption DEF Cpus
  <1>u. Unborn \in ProcessType
    BY Zenon DEF Unborn, ProcessType, States
  <1>1. TypeOK
    <2>1. next_pid \in 1 .. MAX_PID + 1
      BY SchedulerAssumption DEF Init
    <2> QED
      BY <1>c, <1>u, <2>1 DEF Init, TypeOK, Labels, Looking
  <1>a. Allocated = {} /\ NoPid \notin Pids
    BY DEF Init, Allocated, Pids, NoPid
  <1>2. \A h \in Cpus : HartInv(h)
    BY DEF Init, HartInv, Locals, HandFits, TickNotReady, Looking, Enqueuing, Stealing, PuttingBack
  <1>3. BootsAlone
    BY Zenon DEF Init, BootsAlone, Enqueuing
  <1>4. HomeInv
    <2>1. Recorded /\ OneShotsPinned
      BY <1>a, Zenon DEF Init, Recorded, OneShotsPinned
    <2>2. \A x : ~ Contains(<<>>, x)
      BY DEF Contains
    <2>3. \A c \in Cpus : queues[c] = <<>> /\ steal_queues[c] = <<>>
      BY Zenon DEF Init
    <2> QED
      BY <2>1, <2>2, <2>3 DEF HomeInv, QueueFits, StealFitsHome
  <1>5. FinishedOnce /\ ReadyIsQueued
    BY Zenon DEF Init, FinishedOnce, ReadyIsQueued
  <1> QED
    BY <1>1, <1>2, <1>3, <1>4, <1>5 DEF IInv

LEMMA NextIInv == IInv /\ [Next]_vars => IInv'
  <1> SUFFICES ASSUME IInv, [Next]_vars
               PROVE  IInv'
    BY Zenon
  <1>i. TypeOK /\ (\A h \in Cpus : HartInv(h)) /\ BootsAlone /\ HomeInv /\ FinishedOnce /\ ReadyIsQueued
    BY Zenon DEF IInv
  <1>l. (\A h \in Cpus : Locals(h)) /\ Recorded
    BY <1>i DEF HartInv, HomeInv
  <1>t. TypeOK' /\ Kept
    BY <1>i, <1>l, TypeStep, KeptStep
  <1>1. ASSUME NEW h \in Cpus, Loop(h) \/ Calls(h)
        PROVE  IInv'
    <2>1. killed \subseteq killed'
      BY <1>1, HistoryStep DEF Histories
    <2>2. \A g \in Cpus : HartInv(g)'
      BY <1>i, <1>t, <1>1, <2>1, HartsStep
    <2>3. BootsAlone'
      BY <1>i, <1>1, BootStep
    <2>4. HomeInv'
      BY <1>i, <1>t, <1>1, HomeStep
    <2>5. FinishedOnce'
      BY <1>i, <1>t, <1>1, FinishedStep
    <2>6. ReadyIsQueued'
      BY <1>i, <1>1, <2>1, ReadyStep, SMTT(30), ZenonT(30)
    <2> QED
      BY <1>t, <2>2, <2>3, <2>4, <2>5, <2>6 DEF IInv
  <1>2. CASE UNCHANGED vars
    <2>1. UNCHANGED <<queues, steal_queues, proc, table, next_pid, pc, cur, scan, obj, target, back, killed, finished>>
      BY <1>2, ZenonT(30) DEF vars, queue_vars, call_vars, history
    <2>2. \A h \in Cpus : HartInv(h)'
      BY <1>i, <2>1, ZenonT(30) DEF HartInv, Locals, HandFits, TickNotReady, Fits, Allocated
    <2>3. HomeInv'
      BY <1>i, <2>1, ZenonT(30) DEF HomeInv, Recorded, OneShotsPinned, QueueFits, StealFitsHome, Fits, Allocated
    <2>4. BootsAlone' /\ FinishedOnce'
      BY <1>i, <2>1, Zenon DEF BootsAlone, Booting, FinishedOnce
    <2>5. ReadyIsQueued'
      BY <1>i, <2>1, Zenon DEF ReadyIsQueued, Queued, InHand
    <2> QED
      BY <1>t, <2>2, <2>3, <2>4, <2>5 DEF IInv
  <1> QED
    BY <1>1, <1>2 DEF Next

(* What relates queues, hands, pins and histories holds in every state of the scheduler
   under hart_loop, whatever the number of harts, daemons and processes. *)
THEOREM SchedulerInvariant == Spec => []IInv
  BY InitIInv, NextIInv, PTL DEF Spec

(* A Ready process that was not killed is always on a run queue or in some hart's hands:
   enqueue(), requeue(), pick_next() with its steals and put-backs, and kill() lose none. *)
THEOREM SchedulerLosesNoProcess == Spec => []ReadyIsQueued
  BY SchedulerInvariant, PTL DEF IInv

(* A pinned process never ticks on another hart than its own, and a one-shot process that
   returned never ticks again, in spite of the stale entries steal queues keep. *)
THEOREM SchedulerTicksAreDue == Spec => []TicksAreDue
  <1>1. IInv => TicksAreDue
    <2> SUFFICES ASSUME IInv, NEW p \in Pids
                 PROVE  /\ proc[p].affinity # AnyCpu => RunningOn(p) \subseteq {proc[p].affinity}
                        /\ p \in finished => RunningOn(p) = {}
      BY Zenon DEF TicksAreDue
    <2>1. NoPid \notin Pids
      BY TypeFacts, Zenon DEF IInv
    <2>2. \A h \in RunningOn(p) : h \in Cpus /\ cur[h] = p /\ p # NoPid /\ pc[h] \notin PuttingBack
      BY <2>1, Zenon DEF RunningOn, PuttingBack
    <2>3. \A h \in RunningOn(p) : Fits(p, h)
      BY <2>2, Zenon DEF IInv, HartInv, HandFits
    <2>4. p \in finished => RunningOn(p) = {}
      BY <2>2, Zenon DEF IInv, FinishedOnce
    <2> QED
      BY <2>3, <2>4 DEF Fits
  <1> QED
    BY <1>1, SchedulerInvariant, PTL
=============================================================================
