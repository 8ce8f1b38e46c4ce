--------------------------- MODULE IoRouterProofs ---------------------------
(***************************************************************************)
(* Proofs about IoRouter: each hart's requests are handled in order, no    *)
(* request belongs to two harts and, until an id is drawn while one a      *)
(* whole table older is live, the slots and callbacks of live requests are *)
(* not mixed up, for any number of harts, slots and requests.              *)
(***************************************************************************)
EXTENDS IoRouter, TLAPS

Submitting == {"reset_flag", "reset_result", "register", "push"}
Waiting == {"wait", "take", "take_clear"}

TypeOK ==
    /\ next_id \in Nat \ {0}
    /\ queues \in [Harts -> Seq(Request)]
    /\ complete \in [Slots -> BOOLEAN]
    /\ result \in [Slots -> Ids \cup {NoId}]
    /\ callbacks \in [Slots -> Ids \cup {NoId}]
    /\ cursor \in Harts
    /\ pc \in [Requesters -> {"idle"} \cup Submitting \cup Waiting]
    /\ req \in [Requesters -> Ids \cup {NoId}]
    /\ kind \in [Requesters -> Kinds]
    /\ got \in [Requesters -> Ids \cup {NoId}]
    /\ dpc \in {"scan", "handle", "fs_wait", "store_result", "store_flag", "callback"}
    /\ dreq \in Request \cup {NoRequest}
    /\ handled \in [Requesters -> Ids \cup {NoId}]
    /\ overrun \in BOOLEAN

(* Hart h's request with id i is with its caller, in its queue or in hart 0's hands. *)
Calling(h, i) == pc[h] # "idle" /\ i = req[h]
Queues(h, i) == \E k \in DOMAIN queues[h] : i = queues[h][k].id
Dispatching(h, i) == dpc # "scan" /\ h = dreq.source /\ i = dreq.id
Works(h, i) == Calling(h, i) \/ Queues(h, i) \/ Dispatching(h, i)

(* Hart 0 queues nothing, and has a request in hand outside its scan. *)
Shape ==
    /\ queues[0] = <<>>
    /\ dpc = "scan" <=> dreq = NoRequest
    /\ \A h \in Requesters :
        /\ pc[h] # "idle" => req[h] \in Ids
        /\ pc[h] \in Waiting => kind[h] # "callback"
        /\ pc[h] = "register" => kind[h] = "callback"

(* The requests of a hart, oldest to youngest: the one handled last, the one hart 0 has
   in hand, the queue, and the one being submitted. *)
InOrder(h) ==
    /\ handled[h] < next_id
    /\ \A i \in Ids : Works(h, i) => i < next_id
    /\ \A k \in DOMAIN queues[h] :
        /\ queues[h][k].source = h
        /\ handled[h] < queues[h][k].id
        /\ \A l \in DOMAIN queues[h] : k < l => queues[h][k].id < queues[h][l].id
        /\ pc[h] \in Submitting => queues[h][k].id < req[h]
    /\ pc[h] \in Submitting => handled[h] < req[h]
    /\ dpc # "scan" /\ h = dreq.source =>
        /\ dpc \in {"handle", "fs_wait"} => handled[h] < dreq.id
        /\ \A k \in DOMAIN queues[h] : dreq.id < queues[h][k].id
        /\ pc[h] \in Submitting => dreq.id < req[h]

Ordered == \A h \in Requesters : InOrder(h)

(* No request belongs to two harts. *)
Owned == \A g, h \in Requesters, i \in Ids : Works(g, i) /\ Works(h, i) => g = h

(* Before an id overruns the table, live requests are less than a table apart. *)
Near == \A g, h \in Requesters, i, j \in Ids : Works(g, i) /\ Works(h, j) => j - i < MAX_PENDING_REQUESTS

OrderIInv == TypeOK /\ Shape /\ Ordered

----------------------------------------------------------------------------
(* Remainders: they are below the modulus, and numbers closer than it differ in them. *)
LEMMA Quotient ==
    ASSUME NEW n \in Nat \ {0}, NEW i \in Nat
    PROVE  i = n * (i \div n) + (i % n) /\ i \div n \in Int /\ i % n \in 0 .. n - 1
  OBVIOUS

LEMMA MultipleApart ==
    ASSUME NEW n \in Nat \ {0}, NEW d \in Int
    PROVE  n * d <= 0 \/ n * d >= n
  <1>1. CASE d <= 0
    BY <1>1
  <1>2. CASE d >= 1
    BY <1>2
  <1> QED
    BY <1>1, <1>2

LEMMA RemaindersDiffer ==
    ASSUME NEW n \in Nat \ {0}, NEW i \in Nat, NEW j \in Nat, i < j, j - i < n
    PROVE  i % n # j % n
  <1> SUFFICES ASSUME i % n = j % n
               PROVE  FALSE
    BY Zenon
  <1>1. PICK r \in Int : r = i % n
    BY Quotient
  <1>2. PICK a \in Int : i = n * a + r
    BY <1>1, Quotient, Zenon
  <1>3. PICK b \in Int : j = n * b + r
    BY <1>1, Quotient, ZenonT(30)
  <1>4. PICK d \in Int : d = b - a
    OBVIOUS
  <1>5. j - i = n * d
    BY <1>2, <1>3, <1>4
  <1> QED
    BY <1>5, MultipleApart

LEMMA SlotTyped == \A i \in Ids : Slot(i) \in Slots
  BY IoRouterAssumption, Quotient DEF Ids, Slot, Slots

(* Two requests less than a table apart have different slots. *)
LEMMA SlotsApart ==
    ASSUME NEW i \in Ids, NEW j \in Ids, i # j,
           i - j < MAX_PENDING_REQUESTS, j - i < MAX_PENDING_REQUESTS
    PROVE  Slot(i) # Slot(j)
  <1>1. i \in Nat /\ j \in Nat /\ MAX_PENDING_REQUESTS \in Nat \ {0}
    BY IoRouterAssumption DEF Ids
  <1>2. CASE i < j
    BY <1>1, <1>2, RemaindersDiffer, Zenon DEF Slot
  <1>3. CASE j < i
    BY <1>1, <1>3, RemaindersDiffer, Zenon DEF Slot
  <1> QED
    BY <1>1, <1>2, <1>3

(* What the types say of the parts of requests. *)
Facts ==
    /\ Ids \subseteq Nat /\ NoId = 0 /\ 0 \notin Ids /\ NoRequest \notin Request
    /\ next_id \in Nat
    /\ \A h \in Requesters : handled[h] \in Nat
    /\ \A r \in Request : r.id \in Ids /\ r.source \in Requesters /\ r.kind \in Kinds
    /\ \A h \in Requesters : \A k \in DOMAIN queues[h] : queues[h][k] \in Request
    /\ Requesters \subseteq Harts /\ 0 \in Harts /\ 0 \notin Requesters

LEMMA TypeFacts == TypeOK => Facts
  <1> SUFFICES ASSUME TypeOK
               PROVE  Facts
    BY Zenon
  <1> USE IoRouterAssumption
  <1>1. Ids \subseteq Nat /\ NoId = 0 /\ 0 \notin Ids /\ NoRequest \notin Request
    BY DEF Ids, NoId, NoRequest, Request
  <1>2. \A r \in Request : r.id \in Ids /\ r.source \in Requesters /\ r.kind \in Kinds
    BY Zenon DEF Request
  <1>3. Requesters \subseteq Harts /\ 0 \in Harts /\ 0 \notin Requesters
    BY DEF Requesters, Harts
  <1>4. \A h \in Requesters : \A k \in DOMAIN queues[h] : queues[h][k] \in Request
    BY <1>3 DEF TypeOK
  <1>5. next_id \in Nat /\ \A h \in Requesters : handled[h] \in Nat
    BY DEF TypeOK, Ids, NoId
  <1> QED
    BY <1>1, <1>2, <1>3, <1>4, <1>5, Zenon DEF Facts

(* Every step keeps the types. *)
LEMMA TypeStep == TypeOK /\ Shape /\ [Next]_vars => TypeOK'
  <1> SUFFICES ASSUME TypeOK, Shape, [Next]_vars
               PROVE  TypeOK'
    BY Zenon
  <1> USE IoRouterAssumption, SlotTyped
  <1>1. ASSUME NEW h \in Requesters, NEW k \in Calls, NewRequest(h, k)
        PROVE  TypeOK'
    BY <1>1 DEF TypeOK, NewRequest, Goto, Submitting, dispatcher
  <1>2. ASSUME NEW h \in Requesters, ResetFlag(h) \/ ResetResult(h) \/ RegisterCallback(h)
        PROVE  TypeOK'
    BY <1>2, ZenonT(30) DEF TypeOK, ResetFlag, ResetResult, RegisterCallback, Goto, Submitting, dispatcher, NoId
  <1>3. ASSUME NEW h \in Requesters, Push(h)
        PROVE  TypeOK'
    <2>1. [id |-> req[h], source |-> h, kind |-> kind[h]] \in Request
      BY <1>3, Zenon DEF TypeOK, Push, Request, Shape
    <2>2. queues' \in [Harts -> Seq(Request)]
      BY <1>3, <2>1 DEF TypeOK, Push, Requesters
    <2>3. pc' \in [Requesters -> {"idle"} \cup Submitting \cup Waiting]
      BY <1>3, Zenon DEF TypeOK, Push, Return, Goto, Waiting
    <2>4. /\ req' \in [Requesters -> Ids \cup {NoId}] /\ kind' \in [Requesters -> Kinds]
          /\ got' \in [Requesters -> Ids \cup {NoId}]
      BY <1>3, Zenon DEF TypeOK, Push, Return, NoId, Kinds
    <2> QED
      BY <1>3, <2>2, <2>3, <2>4, Zenon DEF TypeOK, Push, Return, dispatcher
  <1>4. ASSUME NEW h \in Requesters, Take(h) \/ Timeout(h)
        PROVE  TypeOK'
    <2>1. CASE TakeLoad(h)
      BY <2>1, Zenon DEF TypeOK, TakeLoad, Goto, Waiting, dispatcher
    <2>2. CASE TakeResult(h)
      <3>1. Slot(req[h]) \in Slots
        BY <2>2, Zenon DEF TakeResult, Shape
      <3> QED
        BY <2>2, <3>1, ZenonT(30) DEF TypeOK, TakeResult, Goto, Waiting, dispatcher, NoId
    <2>3. CASE TakeClear(h)
      BY <2>3, Zenon DEF TypeOK, TakeClear, Return, Goto, dispatcher, NoId, Kinds
    <2>4. CASE Timeout(h)
      BY <2>4, Zenon DEF TypeOK, Timeout, Return, Goto, dispatcher, NoId, Kinds
    <2> QED
      BY <1>4, <2>1, <2>2, <2>3, <2>4, Zenon DEF Take
  <1>5. CASE Dequeue
    <2>1. cursor' \in Harts
      BY <1>5 DEF Dequeue, TypeOK, Harts
    <2>2. CASE queues[cursor] = <<>>
      BY <1>5, <2>1, <2>2, Zenon DEF Dequeue, TypeOK, requester
    <2>3. CASE queues[cursor] # <<>>
      <3>1. queues[cursor] \in Seq(Request)
        BY Zenon DEF TypeOK
      <3>2. Head(queues[cursor]) \in Request /\ Tail(queues[cursor]) \in Seq(Request)
        BY <2>3, <3>1
      <3>3. dreq' \in Request /\ queues' \in [Harts -> Seq(Request)]
        BY <1>5, <2>3, <3>2, Zenon DEF Dequeue, TypeOK
      <3> QED
        BY <1>5, <2>1, <2>3, <3>3, Zenon DEF Dequeue, TypeOK, requester
    <2> QED
      BY <2>2, <2>3, Zenon
  <1>6. CASE HandleStarts \/ Handle \/ StoreResult \/ StoreFlag \/ InvokeCallback
    <2>1. dpc # "scan" => dreq \in Request
      BY Zenon DEF TypeOK, Shape
    <2> QED
      BY <1>6, <2>1, ZenonT(30) DEF TypeOK, HandleStarts, Handle, StoreResult, StoreFlag, InvokeCallback,
                        requester, Request, NoId
  <1>7. CASE UNCHANGED vars
    BY <1>7, Zenon DEF TypeOK, vars, requester, dispatcher
  <1> QED
    BY <1>1, <1>2, <1>3, <1>4, <1>5, <1>6, <1>7, Zenon DEF Next, Submit, DispatchStep

(* Requests come into being with the id drawn for them. *)
OldWork ==
    \A h \in Requesters, i \in Ids :
        Works(h, i)' => Works(h, i) \/ (i = next_id /\ \E k \in Calls : NewRequest(h, k))

(* Every step keeps the order of each hart's requests, and makes no other request. *)
LEMMA OrderStep == OrderIInv /\ [Next]_vars => Shape' /\ Ordered' /\ OldWork
  <1> SUFFICES ASSUME TypeOK, Shape, Ordered, [Next]_vars
               PROVE  Shape' /\ Ordered' /\ OldWork
    BY Zenon DEF OrderIInv
  <1>t. TypeOK'
    BY TypeStep, Zenon
  <1>0. Facts
    BY TypeFacts, Zenon
  <1> USE DEF Facts
  <1>1. ASSUME NEW h \in Requesters, NEW k \in Calls, NewRequest(h, k)
        PROVE  Shape' /\ Ordered' /\ OldWork
    <2>1. Shape'
      BY <1>0, <1>1, Zenon DEF Shape, NewRequest, Goto, TypeOK, dispatcher, Submitting, Waiting
    <2>2. ASSUME NEW g \in Requesters, NEW i \in Ids, Works(g, i)'
          PROVE  i < next_id'
      BY <1>0, <1>1, <2>2 DEF Ordered, InOrder, NewRequest, Goto, TypeOK, dispatcher, Works, Calling, Queues, Dispatching
    <2>3. \A g \in Requesters : \A i \in DOMAIN queues[g] : queues[g][i].id \in Ids /\ queues[g][i].id < next_id
      BY <1>0, Zenon DEF Ordered, InOrder, Works, Queues
    <2>4. dpc # "scan" => dreq.id \in Ids /\ dreq.source \in Requesters /\ dreq.id < next_id
      <3>1. dpc # "scan" => dreq \in Request
        BY Zenon DEF Shape, TypeOK
      <3> QED
        BY <1>0, <3>1, Zenon DEF Ordered, InOrder, Works, Dispatching
    <2>5. \A g \in Requesters : handled[g] \in Nat /\ handled[g] < next_id
      BY <1>0, Zenon DEF TypeOK, Ordered, InOrder
    <2>6. /\ next_id \in Nat /\ next_id' = next_id + 1
          /\ queues' = queues /\ handled' = handled /\ dpc' = dpc /\ dreq' = dreq
          /\ \A g \in Requesters : pc'[g] = (IF g = h THEN "reset_flag" ELSE pc[g])
          /\ \A g \in Requesters : req'[g] = (IF g = h THEN next_id ELSE req[g])
      BY <1>1, Zenon DEF NewRequest, Goto, TypeOK, dispatcher
    <2>7. OldWork
      BY <1>1, <2>6, Zenon DEF OldWork, Works, Calling, Queues, Dispatching
    <2> QED
      BY <1>0, <2>1, <2>2, <2>3, <2>4, <2>5, <2>6, <2>7 DEF Ordered, InOrder
  <1>2. ASSUME NEW h \in Requesters, ResetFlag(h) \/ ResetResult(h) \/ RegisterCallback(h)
        PROVE  Shape' /\ Ordered' /\ OldWork
    <2>1. /\ next_id' = next_id /\ queues' = queues /\ handled' = handled
          /\ dpc' = dpc /\ dreq' = dreq /\ req' = req /\ kind' = kind
          /\ pc[h] \in Submitting /\ pc'[h] \in Submitting
          /\ \A g \in Requesters : g # h => pc'[g] = pc[g]
      BY <1>2, Zenon DEF ResetFlag, ResetResult, RegisterCallback, Goto, TypeOK, dispatcher, Submitting
    <2>2. \A g \in Requesters : pc'[g] = "register" => kind[g] = "callback"
      BY <1>2, Zenon DEF ResetFlag, ResetResult, RegisterCallback, Goto, TypeOK, Shape
    <2>3. Shape'
      BY <2>1, <2>2, Zenon DEF Shape, Submitting, Waiting
    <2>4. \A g \in Requesters, i \in Ids : Works(g, i)' => Works(g, i)
      BY <2>1, Zenon DEF Works, Calling, Queues, Dispatching, Submitting
    <2> QED
      BY <1>0, <2>1, <2>3, <2>4 DEF Ordered, InOrder, OldWork
  <1>3. ASSUME NEW h \in Requesters, Push(h)
        PROVE  Shape' /\ Ordered' /\ OldWork
    <2> DEFINE r == [id |-> req[h], source |-> h, kind |-> kind[h]]
    <2>1. /\ next_id' = next_id /\ handled' = handled /\ dpc' = dpc /\ dreq' = dreq
          /\ pc[h] = "push" /\ pc'[h] \in {"idle", "wait"}
          /\ \A g \in Requesters \ {h} : pc'[g] = pc[g] /\ req'[g] = req[g] /\ kind'[g] = kind[g]
          /\ pc'[h] # "idle" => req'[h] = req[h] /\ kind'[h] # "callback"
          /\ \A g \in Harts \ {h} : queues'[g] = queues[g]
          /\ queues'[h] = Append(queues[h], r)
      BY <1>0, <1>3 DEF Push, Return, Goto, TypeOK, dispatcher
    <2>2. Shape'
      BY <1>0, <2>1, ZenonT(30) DEF Shape, Waiting
    <2>3. /\ queues[h] \in Seq(Request) /\ r.id = req[h] /\ r.source = h /\ req[h] \in Ids
      BY <1>0, <2>1, Zenon DEF TypeOK, Shape
    <2>4. /\ DOMAIN queues'[h] = 1 .. Len(queues[h]) + 1
          /\ Len(queues[h]) \in Nat /\ DOMAIN queues[h] = 1 .. Len(queues[h])
          /\ queues'[h][Len(queues[h]) + 1] = r
          /\ \A k \in DOMAIN queues[h] : queues'[h][k] = queues[h][k]
      BY <2>1, <2>3
    <2> HIDE DEF r
    <2>5. \A g \in Requesters, i \in Ids : Works(g, i)' => Works(g, i)
      <3>1. ASSUME NEW i \in Ids, Works(h, i)'
            PROVE  Works(h, i)
        BY <1>0, <2>1, <2>3, <2>4, <3>1 DEF Works, Calling, Queues, Dispatching
      <3>2. ASSUME NEW g \in Requesters \ {h}, NEW i \in Ids, Works(g, i)'
            PROVE  Works(g, i)
        <4>1. queues'[g] = queues[g] /\ pc'[g] = pc[g] /\ req'[g] = req[g] /\ dpc' = dpc /\ dreq' = dreq
          BY <1>0, <2>1, Zenon
        <4> QED
          BY <3>2, <4>1, Zenon DEF Works, Calling, Queues, Dispatching
      <3> QED
        BY <3>1, <3>2, Zenon
    <2>6. ASSUME NEW k \in DOMAIN queues'[h]
          PROVE  /\ queues'[h][k].source = h /\ handled[h] < queues'[h][k].id
                 /\ \A l \in DOMAIN queues'[h] : k < l => queues'[h][k].id < queues'[h][l].id
                 /\ dpc # "scan" /\ h = dreq.source => dreq.id < queues'[h][k].id
      <3>1. CASE k \in DOMAIN queues[h]
        BY <1>0, <2>1, <2>3, <2>4, <3>1 DEF Ordered, InOrder, Submitting
      <3>2. CASE k = Len(queues[h]) + 1
        <4>1. queues'[h][k] = r /\ \A l \in DOMAIN queues'[h] : ~ (k < l)
          BY <2>4, <3>2
        <4> QED
          BY <2>1, <2>3, <4>1 DEF Ordered, InOrder, Submitting
      <3> QED
        BY <2>4, <3>1, <3>2
    <2>7. pc'[h] \notin Submitting
      BY <2>1, Zenon DEF Submitting
    <2>8. \A g \in Requesters \ {h} : queues'[g] = queues[g] /\ pc'[g] = pc[g] /\ req'[g] = req[g]
      BY <1>0, <2>1, Zenon
    <2>9. /\ handled[h] < next_id
          /\ \A g \in Requesters, i \in Ids : Works(g, i)' => i < next_id
      BY <2>5, Zenon DEF Ordered, InOrder
    <2>10. Ordered'
      <3>1. InOrder(h)'
        BY <2>1, <2>6, <2>7, <2>9, Zenon DEF Ordered, InOrder
      <3>2. ASSUME NEW g \in Requesters, g # h
            PROVE  InOrder(g)'
        BY <2>1, <2>8, <2>9, <3>2 DEF Ordered, InOrder
      <3> QED
        BY <3>1, <3>2, Zenon DEF Ordered
    <2> QED
      BY <2>2, <2>5, <2>10, Zenon DEF OldWork
  <1>4. ASSUME NEW h \in Requesters, Take(h) \/ Timeout(h)
        PROVE  Shape' /\ Ordered' /\ OldWork
    <2>1. /\ next_id' = next_id /\ queues' = queues /\ handled' = handled /\ dpc' = dpc /\ dreq' = dreq
          /\ \A g \in Requesters \ {h} : pc'[g] = pc[g] /\ req'[g] = req[g] /\ kind'[g] = kind[g]
          /\ pc[h] \in Waiting /\ pc'[h] \in Waiting \cup {"idle"}
          /\ pc'[h] # "idle" => req'[h] = req[h] /\ kind'[h] = kind[h]
      BY <1>4 DEF Take, TakeLoad, TakeResult, TakeClear, Timeout, Return, Goto, TypeOK, dispatcher, Waiting
    <2>2. \A g \in Requesters, i \in Ids : Works(g, i)' => Works(g, i)
      BY <2>1, Zenon DEF Works, Calling, Queues, Dispatching, Waiting
    <2> QED
      BY <1>0, <2>1, <2>2 DEF Ordered, InOrder, Shape, Submitting, Waiting, OldWork
  <1>5. CASE Dequeue
    <2>1. CASE queues[cursor] = <<>>
      <3>1. /\ next_id' = next_id /\ queues' = queues /\ handled' = handled /\ dpc' = dpc /\ dreq' = dreq
            /\ pc' = pc /\ req' = req /\ kind' = kind
        BY <1>5, <2>1, Zenon DEF Dequeue, requester
      <3>2. \A g \in Requesters, i \in Ids : Works(g, i)' => Works(g, i)
        BY <3>1, Zenon DEF Works, Calling, Queues, Dispatching
      <3> QED
        BY <1>0, <3>1, <3>2 DEF Ordered, InOrder, Shape, OldWork
    <2>2. CASE queues[cursor] # <<>>
      <3>0. PICK h \in Requesters, q \in Seq(Request) : h = cursor /\ q = queues[cursor] /\ q # <<>>
        BY <2>2, Zenon DEF TypeOK, Shape, Requesters
      <3>1. q = queues[h]
        BY <3>0, Zenon
      <3>2. /\ next_id' = next_id /\ handled' = handled /\ dpc = "scan" /\ dpc' = "handle" /\ dreq' = Head(q)
            /\ pc' = pc /\ req' = req /\ kind' = kind
            /\ queues'[h] = Tail(q)
            /\ \A g \in Harts \ {h} : queues'[g] = queues[g]
        BY <1>5, <2>2, <3>0, Zenon DEF Dequeue, requester, TypeOK
      <3>3. /\ DOMAIN q = 1 .. Len(q) /\ Len(q) \in Nat \ {0} /\ 1 \in DOMAIN q
            /\ dreq' = q[1] /\ q[1] \in Request
            /\ DOMAIN Tail(q) = 1 .. Len(q) - 1
            /\ \A k \in DOMAIN Tail(q) : Tail(q)[k] = q[k + 1] /\ k + 1 \in DOMAIN q /\ 1 < k + 1
        BY <3>0, <3>2
      <3>4. q[1].source = h /\ q[1].id \in Ids
        BY <1>0, <3>1, <3>3, Zenon DEF Ordered, InOrder
      <3>5. Shape'
        BY <1>0, <3>1, <3>2, <3>3 DEF Shape
      <3>6. \A g \in Requesters : g # h => queues'[g] = queues[g]
        BY <1>0, <3>2, Zenon
      <3>7. \A g \in Requesters, i \in Ids : Works(g, i)' => Works(g, i)
        <4>1. ASSUME NEW g \in Requesters, g # h, NEW i \in Ids, Works(g, i)'
              PROVE  Works(g, i)
          BY <3>2, <3>3, <3>4, <3>6, <4>1, Zenon DEF Works, Calling, Queues, Dispatching
        <4>2. ASSUME NEW i \in Ids, Works(h, i)'
              PROVE  Works(h, i)
          BY <3>1, <3>2, <3>3, <4>2 DEF Works, Calling, Queues, Dispatching
        <4> QED
          BY <4>1, <4>2, Zenon
      <3>8. InOrder(h)'
        <4>1. \A k \in DOMAIN queues'[h] : queues'[h][k] = q[k + 1] /\ k + 1 \in DOMAIN q /\ 1 < k + 1
          BY <3>2, <3>3, Zenon
        <4>2. \A k, l \in DOMAIN queues'[h] : k < l => k + 1 < l + 1
          BY <3>2, <3>3
        <4>3. InOrder(h)
          BY <3>1, Zenon DEF Ordered
        <4>4. \A i \in Ids : Works(h, i)' => i < next_id
          BY <3>1, <3>7, <4>3, Zenon DEF InOrder
        <4> QED
          BY <3>1, <3>2, <3>3, <4>1, <4>2, <4>3, <4>4 DEF InOrder
      <3>9. ASSUME NEW g \in Requesters, g # h
            PROVE  InOrder(g)'
        <4>1. InOrder(g) /\ dreq'.source # g
          BY <3>3, <3>4, <3>9, Zenon DEF Ordered
        <4> QED
          BY <3>2, <3>6, <3>7, <3>9, <4>1, Zenon DEF InOrder
      <3> QED
        BY <3>5, <3>7, <3>8, <3>9, Zenon DEF Ordered, OldWork
    <2> QED
      BY <2>1, <2>2, Zenon
  <1>6. CASE HandleStarts \/ Handle \/ StoreResult \/ StoreFlag
    <2>1. /\ next_id' = next_id /\ queues' = queues /\ dreq' = dreq
          /\ pc' = pc /\ req' = req /\ kind' = kind
          /\ dpc # "scan" /\ dpc' # "scan"
          /\ dpc' \in {"handle", "fs_wait"} => dpc \in {"handle", "fs_wait"} /\ handled' = handled
          /\ dreq \in Request /\ dreq.id \in Ids /\ dreq.source \in Requesters
      BY <1>0, <1>6, Zenon DEF HandleStarts, Handle, StoreResult, StoreFlag, requester, TypeOK, Shape
    <2>2. \/ handled' = handled
          \/ dpc \in {"handle", "fs_wait"} /\ handled' = [handled EXCEPT ![dreq.source] = dreq.id]
      BY <1>6, Zenon DEF HandleStarts, Handle, StoreResult, StoreFlag
    <2>3. \A g \in Requesters : handled'[g] # handled[g] =>
             g = dreq.source /\ dpc' \notin {"handle", "fs_wait"} /\ handled'[g] = dreq.id
      BY <2>1, <2>2, Zenon DEF TypeOK
    <2>4. \A g \in Requesters, i \in Ids : Works(g, i)' <=> Works(g, i)
      BY <2>1, Zenon DEF Works, Calling, Queues, Dispatching
    <2>5. Shape'
      BY <2>1, Zenon DEF Shape
    <2>6. ASSUME NEW g \in Requesters
          PROVE  InOrder(g)'
      <3>1. InOrder(g)
        BY Zenon DEF Ordered
      <3>2. CASE handled'[g] = handled[g]
        BY <2>1, <2>4, <3>1, <3>2, Zenon DEF InOrder
      <3>3. CASE handled'[g] # handled[g]
        <4>1. Works(g, dreq.id)
          BY <2>1, <2>3, <3>3, Zenon DEF Works, Dispatching
        <4> QED
          BY <2>1, <2>3, <2>4, <3>1, <3>3, <4>1, Zenon DEF InOrder
      <3> QED
        BY <3>2, <3>3, Zenon
    <2> QED
      BY <2>4, <2>5, <2>6, Zenon DEF Ordered, OldWork
  <1>8. CASE InvokeCallback
    <2>1. /\ next_id' = next_id /\ queues' = queues /\ handled' = handled
          /\ pc' = pc /\ req' = req /\ kind' = kind
          /\ dpc' = "scan" /\ dreq' = NoRequest
      BY <1>8, Zenon DEF InvokeCallback, requester
    <2>2. \A g \in Requesters, i \in Ids : Works(g, i)' => Works(g, i)
      BY <2>1, Zenon DEF Works, Calling, Queues, Dispatching
    <2>3. ASSUME NEW g \in Requesters, InOrder(g)
          PROVE  InOrder(g)'
      BY <2>1, <2>2, <2>3, Zenon DEF InOrder
    <2>4. Shape'
      BY <2>1, Zenon DEF Shape
    <2> QED
      BY <2>2, <2>3, <2>4, Zenon DEF Ordered, OldWork
  <1>7. CASE UNCHANGED vars
    <2>1. /\ next_id' = next_id /\ queues' = queues /\ handled' = handled
          /\ pc' = pc /\ req' = req /\ kind' = kind /\ dpc' = dpc /\ dreq' = dreq
      BY <1>7, Zenon DEF vars, requester, dispatcher
    <2>2. \A g \in Requesters, i \in Ids : Works(g, i)' => Works(g, i)
      BY <2>1, Zenon DEF Works, Calling, Queues, Dispatching
    <2>3. ASSUME NEW g \in Requesters, InOrder(g)
          PROVE  InOrder(g)'
      BY <2>1, <2>2, <2>3, Zenon DEF InOrder
    <2>4. Shape'
      BY <2>1, Zenon DEF Shape
    <2> QED
      BY <2>2, <2>3, <2>4, Zenon DEF Ordered, OldWork
  <1> QED
    BY <1>1, <1>2, <1>3, <1>4, <1>5, <1>6, <1>7, <1>8, Zenon DEF Next, Submit, DispatchStep

(* Initially nothing is requested. *)
LEMMA OrderInit == Init => OrderIInv
  <1> SUFFICES ASSUME Init
               PROVE  OrderIInv
    BY Zenon
  <1> USE IoRouterAssumption
  <1>1. TypeOK
    <2>1. 0 \in Harts /\ queues \in [Harts -> Seq(Request)]
      BY DEF Init, Harts
    <2>2. /\ complete \in [Slots -> BOOLEAN] /\ overrun \in BOOLEAN
          /\ result \in [Slots -> Ids \cup {NoId}] /\ callbacks \in [Slots -> Ids \cup {NoId}]
      BY Zenon DEF Init
    <2>3. /\ pc \in [Requesters -> {"idle"} \cup Submitting \cup Waiting]
          /\ req \in [Requesters -> Ids \cup {NoId}] /\ got \in [Requesters -> Ids \cup {NoId}]
          /\ handled \in [Requesters -> Ids \cup {NoId}] /\ kind \in [Requesters -> Kinds]
      BY Zenon DEF Init, Kinds
    <2> QED
      BY <2>1, <2>2, <2>3 DEF Init, TypeOK
  <1>2. Shape
    BY DEF Init, Shape, Harts, Waiting
  <1>3. \A h \in Requesters : queues[h] = <<>> /\ handled[h] = 0 /\ pc[h] = "idle"
    BY Zenon DEF Init, Requesters, NoId
  <1>4. Ordered
    BY <1>3 DEF Init, Ordered, InOrder, Works, Calling, Queues, Dispatching, Submitting
  <1> QED
    BY <1>1, <1>2, <1>4, Zenon DEF OrderIInv

(* Handle takes the oldest request of a hart. *)
LEMMA HandleInOrder ==
    OrderIInv /\ [Next]_vars => \A h \in Requesters : handled'[h] # handled[h] => handled'[h] > handled[h]
  <1> SUFFICES ASSUME OrderIInv, [Next]_vars, NEW h \in Requesters, handled'[h] # handled[h]
               PROVE  handled'[h] > handled[h]
    BY Zenon
  <1>1. Handle
    BY Zenon DEF Next, NewRequest, Submit, ResetFlag, ResetResult, RegisterCallback, Push, Take, TakeLoad,
           TakeResult, TakeClear, Timeout, DispatchStep, Dequeue, HandleStarts, StoreResult, StoreFlag,
           InvokeCallback, vars
  <1>2. dreq.source = h /\ handled'[h] = dreq.id /\ dpc \in {"handle", "fs_wait"}
    BY <1>1, Zenon DEF Handle, OrderIInv, TypeOK
  <1>3. handled[h] \in Nat /\ dreq.id \in Nat
    BY <1>2 DEF OrderIInv, TypeOK, Shape, Ids, NoId, Request
  <1> QED
    BY <1>2, <1>3, Zenon DEF OrderIInv, Ordered, InOrder

(* The requests of a hart are handled in the order it made them and none twice, for any
   number of harts, slots and requests: dequeue_request_round_robin takes the front of
   a queue, and a caller that gave up submits the next request after the last. *)
THEOREM IoRouterInOrder == Spec => HandledInOrder
  <1>1. Init => OrderIInv
    BY OrderInit, Zenon
  <1>2. OrderIInv /\ [Next]_vars => OrderIInv'
    BY TypeStep, OrderStep, Zenon DEF OrderIInv
  <1>3. OrderIInv /\ [Next]_vars
        => [\A h \in Requesters : handled'[h] # handled[h] => handled'[h] > handled[h]]_vars
    BY HandleInOrder, Zenon
  <1> QED
    BY <1>1, <1>2, <1>3, PTL DEF Spec, HandledInOrder

----------------------------------------------------------------------------
(* Who works on a request is what the model calls live. *)
LEMMA WorkIsLive ==
    ASSUME TypeOK, NEW h \in Requesters, NEW i \in Ids, Works(h, i)
    PROVE  i \in Live
  <1>1. h \in Harts /\ i # NoId
    BY DEF Requesters, Ids, NoId
  <1>2. CASE Calling(h, i)
    <2>1. h \in {g \in Requesters : pc[g] # "idle"} /\ i = req[h]
      BY <1>2, Zenon DEF Calling
    <2>2. i \in {req[g] : g \in {g \in Requesters : pc[g] # "idle"}}
      BY <2>1, Zenon
    <2> QED
      BY <2>2, Zenon DEF Live
  <1>3. CASE Queues(h, i)
    <2>1. i \in Queued(h)
      BY <1>3, Zenon DEF Queues, Queued
    <2>2. i \in UNION {Queued(g) : g \in Harts}
      BY <1>1, <2>1, Zenon
    <2> QED
      BY <2>2, Zenon DEF Live
  <1>4. CASE Dispatching(h, i)
    <2>1. i = dreq.id /\ dreq.id # NoId
      BY <1>1, <1>4, Zenon DEF Dispatching
    <2> QED
      BY <2>1, Zenon DEF Live
  <1> QED
    BY <1>2, <1>3, <1>4, Zenon DEF Works

(* Drawing a new id keeps requests apart. *)
LEMMA OwnedStep ==
    OrderIInv /\ Owned /\ (~ overrun => Near) /\ [Next]_vars =>
        Owned' /\ (~ overrun' => ~ overrun /\ Near')
  <1> SUFFICES ASSUME OrderIInv, Owned, ~ overrun => Near, [Next]_vars
               PROVE  Owned' /\ (~ overrun' => ~ overrun /\ Near')
    BY Zenon
  <1>1. OldWork /\ TypeOK'
    BY OrderStep, TypeStep, Zenon DEF OrderIInv
  <1>2. \A h \in Requesters, i \in Ids : Works(h, i) => i < next_id
    BY Zenon DEF OrderIInv, Ordered, InOrder
  <1>3. next_id \in Nat /\ Ids \subseteq Nat /\ MAX_PENDING_REQUESTS \in Nat \ {0}
    BY IoRouterAssumption DEF OrderIInv, TypeOK, Ids
  <1>4. ASSUME NEW g \in Requesters, NEW h \in Requesters, NEW k \in Calls, NEW l \in Calls,
               NewRequest(g, k), NewRequest(h, l)
        PROVE  g = h
    BY <1>4, Zenon DEF NewRequest, Goto, OrderIInv, TypeOK
  <1>5. Owned'
    <2> SUFFICES ASSUME NEW g \in Requesters, NEW h \in Requesters, NEW i \in Ids,
                        Works(g, i)', Works(h, i)'
                 PROVE  g = h
      BY Zenon DEF Owned
    <2>1. CASE i = next_id
      BY <1>1, <1>2, <1>3, <1>4, <2>1 DEF OldWork
    <2>2. CASE i # next_id
      BY <1>1, <2>2, Zenon DEF OldWork, Owned
    <2> QED
      BY <2>1, <2>2, Zenon
  <1>6. ~ overrun' => ~ overrun
    BY Zenon DEF Next, NewRequest, Submit, ResetFlag, ResetResult, RegisterCallback, Push, Take, TakeLoad,
           TakeResult, TakeClear, Timeout, DispatchStep, Dequeue, HandleStarts, Handle, StoreResult,
           StoreFlag, InvokeCallback, vars
  <1>7. ASSUME ~ overrun', NEW g \in Requesters, NEW h \in Requesters, NEW i \in Ids, NEW j \in Ids,
               Works(g, i)', Works(h, j)'
        PROVE  j - i < MAX_PENDING_REQUESTS
    <2>1. CASE Works(g, i) /\ Works(h, j)
      BY <1>6, <1>7, <2>1, Zenon DEF Near
    <2>2. CASE i = next_id
      BY <1>1, <1>2, <1>3, <1>7, <2>2 DEF OldWork
    <2>3. CASE Works(g, i) /\ j = next_id /\ \E k \in Calls : NewRequest(h, k)
      <3>1. i \in Live
        BY <2>3, WorkIsLive, Zenon DEF OrderIInv
      <3>2. ~ (next_id - i >= MAX_PENDING_REQUESTS)
        BY <1>7, <2>3, <3>1, Zenon DEF NewRequest
      <3> QED
        BY <1>3, <2>3, <3>2
    <2> QED
      BY <1>1, <1>7, <2>1, <2>2, <2>3, Zenon DEF OldWork
  <1> QED
    BY <1>5, <1>6, <1>7, Zenon DEF Near

-----------------------------------------------------------------------------
(* What the tables hold then.  The slot of a caller has its own result or none... *)
ResultsOwn ==
    \A h \in Requesters :
        /\ pc[h] \in {"register", "push", "wait", "take"} => result[Slot(req[h])] \in {NoId, req[h]}
        /\ pc[h] = "take_clear" => got[h] = req[h]

Registered(id, k) == callbacks[Slot(id)] = IF k = "callback" THEN id ELSE NoId

(* ... and there is a callback for each live request that wants one: for one being
   submitted, for one in the queue and for the one in hand... *)
CallOwn(h) ==
    /\ pc[h] # "idle" /\ kind[h] # "callback" => callbacks[Slot(req[h])] = NoId
    /\ pc[h] = "push" => Registered(req[h], kind[h])
QueueOwn(h) == \A k \in DOMAIN queues[h] : Registered(queues[h][k].id, queues[h][k].kind)
DispatchOwn == dpc # "scan" => Registered(dreq.id, dreq.kind)
(* ... and no other. *)
NoStray == \A s \in Slots, c \in Ids : callbacks[s] = c => s = Slot(c) /\ \E h \in Requesters : Works(h, c)

CallbacksOwn == (\A h \in Requesters : CallOwn(h) /\ QueueOwn(h)) /\ DispatchOwn /\ NoStray

IInv == OrderIInv /\ Owned /\ (~ overrun => Near /\ ResultsOwn /\ CallbacksOwn)

----------------------------------------------------------------------------
(* Live requests that are not the same have different slots. *)
LEMMA LiveSlots ==
    ASSUME TypeOK, Near, NEW g \in Requesters, NEW h \in Requesters, NEW i \in Ids, NEW j \in Ids,
           Works(g, i), Works(h, j), i # j
    PROVE  Slot(i) # Slot(j)
  <1>1. j - i < MAX_PENDING_REQUESTS /\ i - j < MAX_PENDING_REQUESTS
    BY Zenon DEF Near
  <1> QED
    BY <1>1, SlotsApart, Zenon

(* Every step keeps results with their requests. *)
LEMMA ResultsStep == OrderIInv /\ Near /\ ResultsOwn /\ [Next]_vars => ResultsOwn'
  <1> SUFFICES ASSUME TypeOK, Shape, Ordered, Near, ResultsOwn, [Next]_vars
               PROVE  ResultsOwn'
    BY Zenon DEF OrderIInv
  <1> USE SlotTyped
  <1>1. \A h \in Requesters : pc[h] # "idle" => req[h] \in Ids /\ Slot(req[h]) \in Slots
    BY Zenon DEF Shape
  <1>2. ASSUME NEW h \in Requesters, NEW k \in Calls, NewRequest(h, k)
        PROVE  ResultsOwn'
    BY <1>2, Zenon DEF NewRequest, Goto, ResultsOwn, TypeOK
  <1>3. ASSUME NEW h \in Requesters, ResetFlag(h) \/ RegisterCallback(h)
        PROVE  ResultsOwn'
    <2>1. /\ result' = result /\ req' = req /\ got' = got
          /\ pc[h] \in {"reset_flag", "register"} /\ pc'[h] \in {"reset_result", "push"}
          /\ \A g \in Requesters \ {h} : pc'[g] = pc[g]
      BY <1>3, Zenon DEF ResetFlag, RegisterCallback, Goto, TypeOK
    <2>2. pc'[h] = "push" => pc[h] = "register"
      BY <1>3, Zenon DEF ResetFlag, RegisterCallback, Goto, TypeOK
    <2> QED
      BY <2>1, <2>2, Zenon DEF ResultsOwn
  <1>4. ASSUME NEW h \in Requesters, ResetResult(h)
        PROVE  ResultsOwn'
    BY <1>1, <1>4 DEF ResetResult, Goto, ResultsOwn, TypeOK
  <1>5. ASSUME NEW h \in Requesters, Push(h)
        PROVE  ResultsOwn'
    <2>1. CASE kind[h] = "callback"
      <3>1. /\ result' = result /\ pc'[h] = "idle"
            /\ \A g \in Requesters \ {h} : pc'[g] = pc[g]
        BY <1>5, <2>1 DEF Push, Return, Goto, TypeOK
      <3>2. \A g \in Requesters \ {h} : req'[g] = req[g] /\ got'[g] = got[g]
        BY <1>5, <2>1, Zenon DEF Push, Return, TypeOK
      <3> QED
        BY <3>1, <3>2, Zenon DEF ResultsOwn
    <2>2. CASE kind[h] # "callback"
      BY <1>5, <2>2 DEF Push, Goto, ResultsOwn, TypeOK
    <2> QED
      BY <2>1, <2>2, Zenon
  <1>6. ASSUME NEW h \in Requesters, TakeLoad(h)
        PROVE  ResultsOwn'
    BY <1>6, Zenon DEF TakeLoad, Goto, ResultsOwn, TypeOK
  <1>7. ASSUME NEW h \in Requesters, TakeResult(h)
        PROVE  ResultsOwn'
    BY <1>1, <1>7 DEF TakeResult, Goto, ResultsOwn, TypeOK
  <1>8. ASSUME NEW h \in Requesters, TakeClear(h) \/ Timeout(h)
        PROVE  ResultsOwn'
    BY <1>8 DEF TakeClear, Timeout, Return, Goto, ResultsOwn, TypeOK
  <1>9. CASE StoreResult
    <2>1. dreq \in Request /\ dreq.id \in Ids /\ dreq.source \in Requesters /\ Slot(dreq.id) \in Slots
      BY <1>9, Zenon DEF StoreResult, TypeOK, Shape, Request
    <2>2. Works(dreq.source, dreq.id)
      BY <1>9, Zenon DEF StoreResult, Works, Dispatching
    <2>3. ASSUME NEW h \in Requesters, pc[h] # "idle", Slot(req[h]) = Slot(dreq.id)
          PROVE  req[h] = dreq.id
      <3>1. Works(h, req[h]) /\ req[h] \in Ids
        BY <1>1, <2>3, Zenon DEF Works, Calling
      <3> QED
        BY <2>1, <2>2, <2>3, <3>1, LiveSlots, Zenon
    <2> QED
      BY <1>1, <1>9, <2>1, <2>3 DEF StoreResult, ResultsOwn, TypeOK, requester
  <1>10. CASE \/ Dequeue \/ HandleStarts \/ Handle \/ StoreFlag \/ InvokeCallback \/ UNCHANGED vars
    BY <1>10, Zenon DEF Dequeue, HandleStarts, Handle, StoreFlag, InvokeCallback, vars, requester, ResultsOwn
  <1> QED
    BY <1>2, <1>3, <1>4, <1>5, <1>6, <1>7, <1>8, <1>9, <1>10, Zenon DEF Next, Submit, Take, DispatchStep

(* Every step keeps callbacks with their requests. *)
LEMMA CallbacksStep == OrderIInv /\ Near /\ Near' /\ Owned /\ CallbacksOwn /\ [Next]_vars => CallbacksOwn'
  <1> SUFFICES ASSUME TypeOK, Shape, Ordered, Near, Near', Owned, CallbacksOwn, [Next]_vars
               PROVE  CallbacksOwn'
    BY Zenon DEF OrderIInv
  <1>f. Facts
    BY TypeFacts, Zenon
  <1>l. \A i, j \in Ids : i < j => i # j
    BY DEF Ids
  <1>o. /\ \A h \in Requesters : CallOwn(h) /\ QueueOwn(h)
        /\ DispatchOwn
        /\ NoStray
    BY Zenon DEF CallbacksOwn
  <1>w. ASSUME \A h \in Requesters : CallOwn(h)', \A h \in Requesters : QueueOwn(h)',
               DispatchOwn', NoStray'
        PROVE  CallbacksOwn'
    BY <1>w, Zenon DEF CallbacksOwn
  <1>0. /\ \A h \in Requesters : pc[h] # "idle" => req[h] \in Ids
        /\ \A h \in Requesters : \A k \in DOMAIN queues[h] : queues[h][k].id \in Ids
        /\ dpc # "scan" => dreq.id \in Ids /\ dreq.source \in Requesters
    BY <1>f, Zenon DEF Facts, Shape, TypeOK
  <1>c. ASSUME NEW g \in Requesters, callbacks' = callbacks,
               pc'[g] = pc[g], req'[g] = req[g], kind'[g] = kind[g]
        PROVE  CallOwn(g)'
    BY <1>c, <1>o, Zenon DEF CallOwn, Registered
  <1>q. ASSUME NEW g \in Requesters, callbacks' = callbacks, queues'[g] = queues[g]
        PROVE  QueueOwn(g)'
    BY <1>o, <1>q DEF QueueOwn, Registered
  <1>d. ASSUME callbacks' = callbacks, dreq' = dreq, dpc' = "scan" <=> dpc = "scan"
        PROVE  DispatchOwn'
    BY <1>d, <1>o, Zenon DEF DispatchOwn, Registered
  <1>n. ASSUME callbacks' = callbacks, \A g \in Requesters, i \in Ids : Works(g, i) => Works(g, i)'
        PROVE  NoStray'
    BY <1>n, <1>o, Zenon DEF NoStray
  <1>1. ASSUME NEW h \in Requesters, NEW k \in Calls, NewRequest(h, k)
        PROVE  CallbacksOwn'
    <2>0. PICK n \in Ids : n = next_id
      BY <1>1, Zenon DEF NewRequest
    <2>1. /\ callbacks' = callbacks /\ queues' = queues /\ dpc' = dpc /\ dreq' = dreq
          /\ pc[h] = "idle" /\ pc'[h] = "reset_flag" /\ req'[h] = n
          /\ \A g \in Requesters \ {h} : pc'[g] = pc[g] /\ req'[g] = req[g] /\ kind'[g] = kind[g]
      BY <1>1, <2>0, Zenon DEF NewRequest, Goto, TypeOK, dispatcher
    <2>2. \A g \in Requesters, i \in Ids : Works(g, i) => Works(g, i)'
      BY <2>1 DEF Works, Calling, Queues, Dispatching
    <2>3. callbacks[Slot(n)] = NoId
      <3>1. ASSUME NEW i \in Ids, callbacks[Slot(n)] = i
            PROVE  FALSE
        <4>1. PICK g \in Requesters : Slot(n) = Slot(i) /\ Works(g, i)
          BY <1>o, <3>1, SlotTyped, Zenon DEF NoStray
        <4>2. Works(g, i)' /\ i < n
          BY <2>0, <2>2, <4>1, Zenon DEF Ordered, InOrder
        <4>3. Works(h, n)'
          BY <2>1, Zenon DEF Works, Calling
        <4>4. n - i < MAX_PENDING_REQUESTS /\ i - n < MAX_PENDING_REQUESTS
          BY <4>2, <4>3, Zenon DEF Near
        <4>5. n # i
          BY <1>l, <4>2, Zenon
        <4> QED
          BY <4>1, <4>4, <4>5, SlotsApart, Zenon
      <3> QED
        BY <3>1, SlotTyped, Zenon DEF TypeOK
    <2>4. CallOwn(h)'
      BY <2>1, <2>3, Zenon DEF CallOwn
    <2>5. \A g \in Requesters \ {h} : CallOwn(g)'
      BY <1>c, <2>1, Zenon
    <2> QED
      BY <1>d, <1>n, <1>q, <1>w, <2>1, <2>2, <2>4, <2>5, Zenon
  <1>2. ASSUME NEW h \in Requesters, ResetFlag(h) \/ ResetResult(h)
        PROVE  CallbacksOwn'
    <2>1. /\ callbacks' = callbacks /\ queues' = queues /\ dpc' = dpc /\ dreq' = dreq
          /\ req' = req /\ kind' = kind /\ pc[h] # "idle" /\ pc'[h] # "idle"
          /\ pc'[h] = "push" => kind[h] # "callback"
          /\ \A g \in Requesters \ {h} : pc'[g] = pc[g]
      BY <1>2 DEF ResetFlag, ResetResult, Goto, TypeOK, dispatcher
    <2>2. \A g \in Requesters, i \in Ids : Works(g, i) => Works(g, i)'
      BY <2>1, Zenon DEF Works, Calling, Queues, Dispatching
    <2>3. CallOwn(h)'
      BY <1>o, <2>1, Zenon DEF CallOwn, Registered
    <2>4. \A g \in Requesters \ {h} : CallOwn(g)'
      BY <1>c, <2>1, Zenon
    <2> QED
      BY <1>d, <1>n, <1>q, <1>w, <2>1, <2>2, <2>3, <2>4, Zenon
  <1>3. ASSUME NEW h \in Requesters, RegisterCallback(h)
        PROVE  CallbacksOwn'
    <2>1. /\ queues' = queues /\ dpc' = dpc /\ dreq' = dreq
          /\ req' = req /\ kind' = kind /\ pc[h] = "register" /\ pc'[h] = "push" /\ kind[h] = "callback"
          /\ \A g \in Requesters \ {h} : pc'[g] = pc[g]
          /\ callbacks' = [callbacks EXCEPT ![Slot(req[h])] = req[h]]
      BY <1>3, Zenon DEF RegisterCallback, Goto, TypeOK, Shape, dispatcher
    <2>0. PICK n \in Ids : n = req[h]
      BY <1>0, <2>1, Zenon
    <2>t. Slot(n) \in Slots /\ \A s \in Slots : callbacks'[s] = IF s = Slot(n) THEN n ELSE callbacks[s]
      BY <2>0, <2>1, SlotTyped, Zenon DEF TypeOK
    <2>2. \A g \in Requesters, i \in Ids : Works(g, i) => Works(g, i)'
      BY <2>1, Zenon DEF Works, Calling, Queues, Dispatching
    <2>3. Works(h, n)
      BY <2>0, <2>1, Zenon DEF Works, Calling
    <2>4. ASSUME NEW g \in Requesters, NEW i \in Ids, Works(g, i), i # n
          PROVE  callbacks'[Slot(i)] = callbacks[Slot(i)]
      <3>1. Slot(i) # Slot(n) /\ Slot(i) \in Slots
        BY <2>3, <2>4, LiveSlots, SlotTyped, Zenon
      <3> QED
        BY <2>t, <3>1, Zenon
    <2>5. ASSUME NEW g \in Requesters, g # h
          PROVE  CallOwn(g)'
      <3>1. CASE pc[g] = "idle"
        BY <2>1, <2>5, <3>1, Zenon DEF CallOwn
      <3>2. CASE pc[g] # "idle"
        <4>1. PICK i \in Ids : i = req[g] /\ Works(g, i)
          BY <1>0, <3>2, Zenon DEF Works, Calling
        <4>2. i # n
          BY <2>3, <2>5, <4>1, Zenon DEF Owned
        <4>3. callbacks'[Slot(req[g])] = callbacks[Slot(req[g])]
          BY <2>4, <4>1, <4>2, Zenon
        <4> QED
          BY <1>o, <2>1, <2>5, <4>3, Zenon DEF CallOwn, Registered
      <3> QED
        BY <3>1, <3>2, Zenon
    <2>6. CallOwn(h)'
      BY <2>0, <2>1, <2>t, Zenon DEF CallOwn, Registered
    <2>7. ASSUME NEW g \in Requesters
          PROVE  QueueOwn(g)'
      <3>1. ASSUME NEW k \in DOMAIN queues[g]
            PROVE  callbacks'[Slot(queues[g][k].id)] = callbacks[Slot(queues[g][k].id)]
        <4>1. PICK i \in Ids : i = queues[g][k].id /\ Works(g, i)
          BY <1>0, Zenon DEF Works, Queues
        <4>2. CASE g = h
          <5>1. InOrder(g) /\ pc[g] \in Submitting
            BY <2>1, <4>2, Zenon DEF Ordered, Submitting
          <5>2. i < n
            BY <2>0, <4>1, <4>2, <5>1, Zenon DEF InOrder
          <5> QED
            BY <1>l, <2>4, <4>1, <5>2, Zenon
        <4>3. CASE g # h
          <5>1. i # n
            BY <2>3, <4>1, <4>3, Zenon DEF Owned
          <5> QED
            BY <2>4, <4>1, <5>1, Zenon
        <4> QED
          BY <4>2, <4>3, Zenon
      <3> QED
        BY <1>o, <2>1, <3>1 DEF QueueOwn, Registered
    <2>8. DispatchOwn'
      <3>1. CASE dpc = "scan"
        BY <2>1, <3>1, Zenon DEF DispatchOwn
      <3>2. CASE dpc # "scan"
        <4>1. PICK g \in Requesters, i \in Ids : g = dreq.source /\ i = dreq.id /\ Works(g, i)
          BY <1>0, <3>2, Zenon DEF Works, Dispatching
        <4>2. CASE g = h
          <5>1. InOrder(g) /\ pc[g] \in Submitting
            BY <2>1, <4>2, Zenon DEF Ordered, Submitting
          <5>2. i < n
            BY <2>0, <3>2, <4>1, <4>2, <5>1, Zenon DEF InOrder
          <5> QED
            BY <1>l, <1>o, <2>1, <2>4, <3>2, <4>1, <5>2 DEF DispatchOwn, Registered
        <4>3. CASE g # h
          <5>1. i # n
            BY <2>3, <4>1, <4>3, Zenon DEF Owned
          <5> QED
            BY <1>o, <2>1, <2>4, <3>2, <4>1, <5>1 DEF DispatchOwn, Registered
        <4> QED
          BY <4>2, <4>3, Zenon
      <3> QED
        BY <3>1, <3>2, Zenon
    <2>9. ASSUME NEW s \in Slots, NEW c \in Ids, callbacks'[s] = c
          PROVE  s = Slot(c) /\ \E g \in Requesters : Works(g, c)'
      <3>1. CASE s = Slot(n)
        BY <2>2, <2>3, <2>9, <2>t, <3>1, Zenon
      <3>2. CASE s # Slot(n)
        BY <1>o, <2>2, <2>9, <2>t, <3>2, Zenon DEF NoStray
      <3> QED
        BY <3>1, <3>2, Zenon
    <2>10. NoStray'
      BY <2>9, Zenon DEF NoStray
    <2> QED
      BY <1>w, <2>5, <2>6, <2>7, <2>8, <2>10, Zenon
  <1>4. ASSUME NEW h \in Requesters, Push(h)
        PROVE  CallbacksOwn'
    <2>0. PICK r \in Request : r = [id |-> req[h], source |-> h, kind |-> kind[h]]
      BY <1>0, <1>4, Zenon DEF Push, TypeOK, Request
    <2>1. /\ callbacks' = callbacks /\ dpc' = dpc /\ dreq' = dreq
          /\ pc[h] = "push" /\ pc'[h] \in {"idle", "wait"}
          /\ \A g \in Requesters \ {h} : pc'[g] = pc[g] /\ req'[g] = req[g] /\ kind'[g] = kind[g]
          /\ pc'[h] # "idle" => req'[h] = req[h] /\ kind'[h] = kind[h]
          /\ \A g \in Requesters \ {h} : queues'[g] = queues[g]
          /\ queues'[h] = Append(queues[h], r)
      BY <1>f, <1>4, <2>0 DEF Push, Return, Goto, TypeOK, dispatcher, Facts
    <2>2. queues[h] \in Seq(Request) /\ r.id = req[h] /\ r.kind = kind[h]
      BY <1>f, <2>0, Zenon DEF TypeOK, Facts
    <2>3. /\ DOMAIN queues'[h] = 1 .. Len(queues[h]) + 1
          /\ Len(queues[h]) \in Nat /\ DOMAIN queues[h] = 1 .. Len(queues[h])
          /\ queues'[h][Len(queues[h]) + 1] = r
          /\ \A k \in DOMAIN queues[h] : queues'[h][k] = queues[h][k]
      BY <2>1, <2>2
    <2>4. ASSUME NEW g \in Requesters, NEW i \in Ids, Works(g, i)
          PROVE  Works(g, i)'
      <3>1. CASE g = h
        <4>1. \E k \in DOMAIN queues'[h] : queues'[h][k].id = req[h]
          BY <2>2, <2>3
        <4>2. \A k \in DOMAIN queues[h] : k \in DOMAIN queues'[h]
          BY <2>3
        <4>3. CASE Calling(h, i)
          BY <4>1, <4>3, <3>1, Zenon DEF Works, Calling, Queues
        <4>4. CASE Queues(h, i)
          BY <2>3, <4>2, <4>4, <3>1, Zenon DEF Works, Queues
        <4>5. CASE Dispatching(h, i)
          BY <2>1, <4>5, <3>1, Zenon DEF Works, Dispatching
        <4> QED
          BY <2>4, <3>1, <4>3, <4>4, <4>5, Zenon DEF Works
      <3>2. CASE g # h
        BY <2>1, <2>4, <3>2, ZenonT(30) DEF Works, Calling, Queues, Dispatching
      <3> QED
        BY <3>1, <3>2, Zenon
    <2>5. QueueOwn(h)'
      <3>1. Registered(req[h], kind[h])
        BY <1>o, <2>1, Zenon DEF CallOwn
      <3> QED
        BY <1>o, <2>1, <2>2, <2>3, <3>1 DEF QueueOwn, Registered
    <2>6. \A g \in Requesters \ {h} : QueueOwn(g)' /\ CallOwn(g)'
      BY <1>c, <1>q, <2>1, Zenon
    <2>7. CallOwn(h)'
      BY <1>o, <2>1, Zenon DEF CallOwn
    <2>8. DispatchOwn'
      BY <1>d, <2>1, Zenon
    <2>9. NoStray'
      BY <1>n, <2>1, <2>4, Zenon
    <2> QED
      BY <1>w, <2>5, <2>6, <2>7, <2>8, <2>9, Zenon
  <1>5. ASSUME NEW h \in Requesters, TakeLoad(h) \/ TakeResult(h)
        PROVE  CallbacksOwn'
    <2>1. /\ callbacks' = callbacks /\ queues' = queues /\ dpc' = dpc /\ dreq' = dreq
          /\ req' = req /\ kind' = kind /\ pc[h] # "idle" /\ pc'[h] \notin {"idle", "push"}
          /\ \A g \in Requesters \ {h} : pc'[g] = pc[g]
      BY <1>5, Zenon DEF TakeLoad, TakeResult, Goto, TypeOK, dispatcher
    <2>2. \A g \in Requesters, i \in Ids : Works(g, i) => Works(g, i)'
      BY <2>1, Zenon DEF Works, Calling, Queues, Dispatching
    <2>3. CallOwn(h)'
      BY <1>o, <2>1, Zenon DEF CallOwn
    <2>4. \A g \in Requesters \ {h} : CallOwn(g)'
      BY <1>c, <2>1, Zenon
    <2> QED
      BY <1>d, <1>n, <1>q, <1>w, <2>1, <2>2, <2>3, <2>4, Zenon
  <1>6. ASSUME NEW h \in Requesters, TakeClear(h) \/ Timeout(h)
        PROVE  CallbacksOwn'
    <2>1. /\ callbacks' = callbacks /\ queues' = queues /\ dpc' = dpc /\ dreq' = dreq
          /\ pc[h] \in Waiting /\ pc'[h] = "idle"
          /\ \A g \in Requesters \ {h} : pc'[g] = pc[g] /\ req'[g] = req[g] /\ kind'[g] = kind[g]
      BY <1>6 DEF TakeClear, Timeout, Return, Goto, TypeOK, dispatcher, Waiting
    <2>0. PICK n \in Ids : n = req[h] /\ callbacks[Slot(n)] = NoId
      BY <1>0, <1>o, <2>1, Zenon DEF CallOwn, Shape, Waiting
    <2>3. \A g \in Requesters, i \in Ids : Works(g, i) /\ i # n => Works(g, i)'
      BY <2>0, <2>1, Zenon DEF Works, Calling, Queues, Dispatching
    <2>4. ASSUME NEW s \in Slots, NEW c \in Ids, callbacks[s] = c
          PROVE  s = Slot(c) /\ \E g \in Requesters : Works(g, c)'
      <3>1. s = Slot(c) /\ \E g \in Requesters : Works(g, c)
        BY <1>o, <2>4, Zenon DEF NoStray
      <3>2. c # n
        BY <1>f, <2>0, <2>4, <3>1, Zenon DEF Facts
      <3> QED
        BY <2>3, <3>1, <3>2, Zenon
    <2>5. NoStray'
      BY <2>1, <2>4, Zenon DEF NoStray
    <2>6. CallOwn(h)'
      BY <2>1, Zenon DEF CallOwn
    <2>7. \A g \in Requesters \ {h} : CallOwn(g)'
      BY <1>c, <2>1, Zenon
    <2> QED
      BY <1>d, <1>q, <1>w, <2>1, <2>5, <2>6, <2>7, Zenon
  <1>7. CASE Dequeue /\ queues[cursor] # <<>>
    <2>0. PICK h \in Requesters, q \in Seq(Request) : h = cursor /\ q = queues[cursor] /\ q # <<>>
      BY <1>7, Zenon DEF TypeOK, Shape, Requesters
    <2>1. /\ callbacks' = callbacks /\ dpc = "scan" /\ dpc' = "handle" /\ dreq' = Head(q)
          /\ pc' = pc /\ req' = req /\ kind' = kind
          /\ queues[h] = q /\ queues'[h] = Tail(q)
          /\ \A g \in Requesters \ {h} : queues'[g] = queues[g]
      BY <1>f, <1>7, <2>0, Zenon DEF Dequeue, requester, TypeOK, Facts
    <2>2. /\ Len(q) \in Nat /\ DOMAIN q = 1 .. Len(q) /\ 1 \in DOMAIN q /\ dreq' = q[1] /\ q[1] \in Request
          /\ DOMAIN Tail(q) = 1 .. Len(q) - 1
          /\ \A k \in DOMAIN Tail(q) : k + 1 \in DOMAIN q /\ Tail(q)[k] = q[k + 1]
      BY <2>0, <2>1
    <2>3. q[1].source = h
      BY <2>0, <2>1, <2>2 DEF Ordered, InOrder
    <2>4. ASSUME NEW g \in Requesters, NEW i \in Ids, Works(g, i)
          PROVE  Works(g, i)'
      <3>1. CASE g = h
        <4>1. ASSUME NEW k \in DOMAIN q, i = q[k].id
              PROVE  Queues(h, i)' \/ Dispatching(h, i)'
          <5>1. CASE k = 1
            BY <2>1, <2>2, <2>3, <4>1, <5>1, Zenon DEF Dispatching
          <5>2. CASE k # 1
            <6>1. k - 1 \in DOMAIN Tail(q) /\ (k - 1) + 1 = k
              BY <2>2, <5>2
            <6>2. Tail(q)[k - 1].id = i
              BY <2>2, <4>1, <6>1, Zenon
            <6> QED
              BY <2>1, <6>1, <6>2, Zenon DEF Queues
          <5> QED
            BY <5>1, <5>2, Zenon
        <4>2. Calling(h, i) => Calling(h, i)'
          BY <2>1, Zenon DEF Calling
        <4>3. Queues(h, i) => Queues(h, i)' \/ Dispatching(h, i)'
          BY <2>1, <4>1, Zenon DEF Queues
        <4>4. ~ Dispatching(h, i)
          BY <2>1, Zenon DEF Dispatching
        <4> QED
          BY <2>4, <3>1, <4>2, <4>3, <4>4, Zenon DEF Works
      <3>2. CASE g # h
        BY <2>1, <2>4, <3>2, Zenon DEF Works, Calling, Queues, Dispatching
      <3> QED
        BY <3>1, <3>2, Zenon
    <2>5. \A k \in DOMAIN q : Registered(q[k].id, q[k].kind)
      BY <1>o, <2>1, Zenon DEF QueueOwn
    <2>6. QueueOwn(h)'
      BY <2>1, <2>2, <2>5 DEF QueueOwn, Registered
    <2>7. \A g \in Requesters \ {h} : QueueOwn(g)'
      BY <1>q, <2>1, Zenon
    <2>8. DispatchOwn'
      BY <2>1, <2>2, <2>5, ZenonT(30) DEF DispatchOwn, Registered
    <2>9. \A g \in Requesters : CallOwn(g)'
      BY <1>c, <2>1, Zenon
    <2>10. NoStray'
      BY <1>n, <2>1, <2>4, Zenon
    <2> QED
      BY <1>w, <2>6, <2>7, <2>8, <2>9, <2>10, Zenon
  <1>8. CASE \/ Dequeue /\ queues[cursor] = <<>>
             \/ HandleStarts \/ Handle \/ StoreResult \/ StoreFlag \/ UNCHANGED vars
    <2>1. /\ callbacks' = callbacks /\ queues' = queues /\ dreq' = dreq
          /\ pc' = pc /\ req' = req /\ kind' = kind /\ (dpc' = "scan" <=> dpc = "scan")
      BY <1>8, Zenon DEF Dequeue, HandleStarts, Handle, StoreResult, StoreFlag, requester, dispatcher, vars, TypeOK
    <2>2. \A g \in Requesters, i \in Ids : Works(g, i) => Works(g, i)'
      BY <2>1, Zenon DEF Works, Calling, Queues, Dispatching
    <2> QED
      BY <1>c, <1>d, <1>n, <1>q, <1>w, <2>1, <2>2, Zenon
  <1>9. CASE InvokeCallback
    <2>0. PICK d \in Ids, h \in Requesters : d = dreq.id /\ h = dreq.source /\ Works(h, d) /\ Dispatching(h, d)
      BY <1>0, <1>9, Zenon DEF InvokeCallback, Works, Dispatching
    <2>1. /\ callbacks' = [callbacks EXCEPT ![Slot(d)] = NoId] /\ queues' = queues
          /\ pc' = pc /\ req' = req /\ kind' = kind /\ dpc' = "scan"
      BY <1>9, <2>0, Zenon DEF InvokeCallback, requester
    <2>t. Slot(d) \in Slots /\ \A s \in Slots : callbacks'[s] = IF s = Slot(d) THEN NoId ELSE callbacks[s]
      BY <2>1, SlotTyped, Zenon DEF TypeOK
    <2>2. \A g \in Requesters, i \in Ids : Works(g, i) /\ i # d => Works(g, i)'
      BY <2>0, <2>1, Zenon DEF Works, Calling, Queues, Dispatching
    <2>3. ASSUME NEW g \in Requesters, NEW i \in Ids, Works(g, i), i # d
          PROVE  callbacks'[Slot(i)] = callbacks[Slot(i)]
      <3>1. Slot(i) # Slot(d) /\ Slot(i) \in Slots
        BY <2>0, <2>3, LiveSlots, SlotTyped, Zenon
      <3> QED
        BY <2>t, <3>1, Zenon
    <2>4. ASSUME NEW g \in Requesters
          PROVE  QueueOwn(g)'
      <3>1. ASSUME NEW k \in DOMAIN queues[g]
            PROVE  callbacks'[Slot(queues[g][k].id)] = callbacks[Slot(queues[g][k].id)]
        <4>1. PICK i \in Ids : i = queues[g][k].id /\ Works(g, i)
          BY <1>0, Zenon DEF Works, Queues
        <4>2. CASE g = h
          <5>1. InOrder(g)
            BY Zenon DEF Ordered
          <5>2. d < i
            BY <2>0, <4>1, <4>2, <5>1, Zenon DEF InOrder, Dispatching
          <5> QED
            BY <1>l, <2>3, <4>1, <5>2, Zenon
        <4>3. CASE g # h
          <5>1. i # d
            BY <2>0, <4>1, <4>3, Zenon DEF Owned
          <5> QED
            BY <2>3, <4>1, <5>1, Zenon
        <4> QED
          BY <4>2, <4>3, Zenon
      <3> QED
        BY <1>o, <2>1, <3>1 DEF QueueOwn, Registered
    <2>5. ASSUME NEW g \in Requesters
          PROVE  CallOwn(g)'
      <3>1. CASE pc[g] = "idle"
        BY <2>1, <3>1, Zenon DEF CallOwn
      <3>2. CASE pc[g] # "idle"
        <4>1. PICK i \in Ids : i = req[g] /\ Works(g, i) /\ Slot(i) \in Slots
          BY <1>0, <3>2, SlotTyped, Zenon DEF Works, Calling
        <4>2. kind[g] # "callback" => callbacks'[Slot(i)] = NoId
          BY <1>o, <2>t, <3>2, <4>1, Zenon DEF CallOwn
        <4>3. ASSUME pc[g] = "push"
              PROVE  callbacks'[Slot(i)] = callbacks[Slot(i)]
          <5>1. CASE g = h
            <6>1. InOrder(g) /\ pc[g] \in Submitting
              BY <4>3, Zenon DEF Ordered, Submitting
            <6>2. d < i
              BY <2>0, <4>1, <5>1, <6>1, Zenon DEF InOrder, Dispatching
            <6> QED
              BY <1>l, <2>3, <4>1, <6>2, Zenon
          <5>2. CASE g # h
            <6>1. i # d
              BY <2>0, <4>1, <5>2, Zenon DEF Owned
            <6> QED
              BY <2>3, <4>1, <6>1, Zenon
          <5> QED
            BY <5>1, <5>2, Zenon
        <4> QED
          BY <1>o, <2>1, <4>1, <4>2, <4>3, Zenon DEF CallOwn, Registered
      <3> QED
        BY <3>1, <3>2, Zenon
    <2>6. DispatchOwn'
      BY <2>1, Zenon DEF DispatchOwn
    <2>7. ASSUME NEW s \in Slots, NEW c \in Ids, callbacks'[s] = c
          PROVE  s = Slot(c) /\ \E g \in Requesters : Works(g, c)'
      <3>1. s # Slot(d) /\ callbacks[s] = c
        BY <1>f, <2>7, <2>t, Zenon DEF Facts
      <3>2. s = Slot(c) /\ \E g \in Requesters : Works(g, c)
        BY <1>o, <3>1, Zenon DEF NoStray
      <3> QED
        BY <2>2, <3>1, <3>2, Zenon
    <2>8. NoStray'
      BY <2>7, Zenon DEF NoStray
    <2> QED
      BY <1>w, <2>4, <2>5, <2>6, <2>8, Zenon
  <1> QED
    BY <1>1, <1>2, <1>3, <1>4, <1>5, <1>6, <1>7, <1>8, <1>9, Zenon DEF Next, Submit, Take, DispatchStep

(* The inductive invariant of the completion slots and the callback table. *)
THEOREM IoRouterInvariant == Spec => []IInv
  <1>1. Init => IInv
    <2> SUFFICES ASSUME Init
                 PROVE  IInv
      BY Zenon
    <2>1. OrderIInv
      BY OrderInit, Zenon
    <2>2. \A h \in Requesters : pc[h] = "idle" /\ queues[h] = <<>>
      BY Zenon DEF Init, Requesters
    <2>3. \A h \in Requesters, i \in Ids : ~ Works(h, i)
      BY <2>2 DEF Init, Works, Calling, Queues, Dispatching
    <2>4. Owned /\ Near /\ ResultsOwn
      BY <2>2, <2>3, Zenon DEF Owned, Near, ResultsOwn
    <2>5. CallbacksOwn
      <3>1. \A s \in Slots : callbacks[s] \notin Ids
        BY DEF Init, Ids, NoId
      <3> QED
        BY <2>2, <3>1 DEF Init, CallbacksOwn, CallOwn, QueueOwn, DispatchOwn, NoStray
    <2> QED
      BY <2>1, <2>4, <2>5, Zenon DEF IInv
  <1>2. IInv /\ [Next]_vars => IInv'
    <2> SUFFICES ASSUME IInv, [Next]_vars
                 PROVE  IInv'
      BY Zenon
    <2>1. OrderIInv'
      BY TypeStep, OrderStep, Zenon DEF IInv, OrderIInv
    <2>2. Owned' /\ (~ overrun' => ~ overrun /\ Near')
      BY OwnedStep, Zenon DEF IInv
    <2>3. ~ overrun' => ResultsOwn' /\ CallbacksOwn'
      BY <2>2, ResultsStep, CallbacksStep, Zenon DEF IInv
    <2> QED
      BY <2>1, <2>2, <2>3, Zenon DEF IInv
  <1> QED
    BY <1>1, <1>2, PTL DEF Spec

(* A caller takes the result of its own request and hart 0 calls the callback of the
   request it completes, for any number of harts and slots, until an id is drawn while
   one a whole table older is live: request_io and complete_request agree on who a
   slot belongs to although nothing but the distance of ids keeps them apart. *)
THEOREM IoRouterAnswers == Spec => []AnswerMatches
  <1>1. IInv => AnswerMatches
    BY Zenon DEF IInv, ResultsOwn, CallbacksOwn, DispatchOwn, Registered, AnswerMatches
  <1> QED
    BY <1>1, IoRouterInvariant, PTL
=============================================================================
