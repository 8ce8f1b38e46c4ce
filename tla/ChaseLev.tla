------------------------------ MODULE ChaseLev ------------------------------
(***************************************************************************)
(* WorkStealingDeque of kernel/src/cpu/chase_lev.rs: bottom, top and a     *)
(* pointer to a circular buffer that is allocated by the first push and    *)
(* doubled when full.  Old buffers are never freed and a slot keeps its    *)
(* last value, so a slow thief reads a stale slot, not a freed one.  One   *)
(* step per access of a shared word; memory is sequentially consistent.    *)
(*                                                                         *)
(* The deque's own contract has one pusher, its owner.  The scheduler also *)
(* pushes from other harts: Pushers says which harts do.                   *)
(***************************************************************************)
EXTENDS Integers, Sequences, FiniteSets

CONSTANTS
    DequeHarts,
    Owner,              \* the only caller of pop()
    Pushers,            \* callers of push()
    INITIAL_CAPACITY,   \* 32 in the code
    MAX_PUSHES          \* bound: number of push() calls of a behaviour

ASSUME ChaseLevAssumption ==
    /\ Owner \in DequeHarts
    /\ Pushers \subseteq DequeHarts
    /\ INITIAL_CAPACITY \in Nat \ {0}
    /\ MAX_PUSHES \in Nat

Items == 1 .. MAX_PUSHES        \* the k-th call of push() pushes item k
Uninit == 0                     \* MaybeUninit::uninit()
NoBuffer == 0                   \* the null pointer

VARIABLES
    bottom, top,
    buffer,             \* which of the allocated buffers is current
    buffers,            \* every buffer allocated so far; pointer = index
    point, b, t, buf, value,   \* program counter and locals of each hart
    pushed,             \* history: number of push() calls so far
    delivered           \* history: values returned by pop() and steal()

shared == <<bottom, top, buffer, buffers>>
deque_vars == <<shared, point, b, t, buf, value, pushed, delivered>>

NewBuffer(capacity) == [i \in 0 .. capacity - 1 |-> Uninit]
Capacity(p) == Cardinality(DOMAIN buffers[p])
Get(p, i) == buffers[p][i % Capacity(p)]
Put(p, i, x) == [buffers EXCEPT ![p][i % Capacity(p)] = x]

(* Buffer::grow: twice the size, with the elements from top to bottom. *)
Grown(p, bot, tp) ==
    LET capacity == 2 * Capacity(p)
    IN  [s \in 0 .. capacity - 1 |->
            IF \E i \in tp .. bot - 1 : i % capacity = s
            THEN Get(p, CHOOSE i \in tp .. bot - 1 : i % capacity = s)
            ELSE Uninit]

DequeInit ==
    /\ bottom = 0 /\ top = 0
    /\ buffer = NoBuffer /\ buffers = <<>>
    /\ point = [h \in DequeHarts |-> "idle"]
    /\ b = [h \in DequeHarts |-> 0] /\ t = [h \in DequeHarts |-> 0]
    /\ buf = [h \in DequeHarts |-> NoBuffer] /\ value = [h \in DequeHarts |-> Uninit]
    /\ pushed = 0 /\ delivered = <<>>

DequeGoto(h, label) == point' = [point EXCEPT ![h] = label]
Local(var, h, x) == [var EXCEPT ![h] = x]

(* Back at the caller: the locals are gone. *)
DequeReturn(h) ==
    /\ DequeGoto(h, "idle")
    /\ b' = Local(b, h, 0) /\ t' = Local(t, h, 0)
    /\ buf' = Local(buf, h, NoBuffer) /\ value' = Local(value, h, Uninit)

Deliver(x) == delivered' = Append(delivered, x)

----------------------------------------------------------------------------
(* push() *)
PushBottom(h) ==
    /\ point[h] = "idle"
    /\ pushed < MAX_PUSHES
    /\ pushed' = pushed + 1
    /\ value' = Local(value, h, pushed + 1)
    /\ b' = Local(b, h, bottom)
    /\ DequeGoto(h, "push_top")
    /\ UNCHANGED <<shared, t, buf, delivered>>

PushTop(h) ==
    /\ point[h] = "push_top"
    /\ t' = Local(t, h, top)
    /\ DequeGoto(h, "push_ensure")
    /\ UNCHANGED <<shared, b, buf, value, pushed, delivered>>

(* ensure_buffer(): load, and allocate behind a CAS when it is null.  The
   buffer of a losing CAS is dropped unseen, so load and CAS are one step. *)
PushEnsure(h) ==
    /\ point[h] = "push_ensure"
    /\ IF buffer = NoBuffer
       THEN /\ buffers' = Append(buffers, NewBuffer(INITIAL_CAPACITY))
            /\ buffer' = Len(buffers')
       ELSE UNCHANGED <<buffer, buffers>>
    /\ buf' = Local(buf, h, buffer')
    /\ DequeGoto(h, "push_check")
    /\ UNCHANGED <<bottom, top, b, t, value, pushed, delivered>>

(* Fault: the buffer grows one element too late. *)
NearlyFullLate(h) == b[h] - t[h] > Capacity(buf[h])

NearlyFull(h) == b[h] - t[h] >= Capacity(buf[h]) - 1

(* Growing copies out of a buffer the pusher alone writes, then publishes. *)
PushGrow(h) ==
    /\ point[h] = "push_check"
    /\ NearlyFull(h)
    /\ buffers' = Append(buffers, Grown(buf[h], b[h], t[h]))
    /\ buffer' = Len(buffers')
    /\ buf' = Local(buf, h, Len(buffers'))
    /\ DequeGoto(h, "push_put")
    /\ UNCHANGED <<bottom, top, b, t, value, pushed, delivered>>

PushPut(h) ==
    /\ point[h] = "push_put" \/ (point[h] = "push_check" /\ ~ NearlyFull(h))
    /\ buffers' = Put(buf[h], b[h], value[h])
    /\ DequeGoto(h, "push_publish")
    /\ UNCHANGED <<bottom, top, buffer, b, t, buf, value, pushed, delivered>>

PushPublish(h) ==
    /\ point[h] = "push_publish"
    /\ bottom' = b[h] + 1
    /\ DequeReturn(h)
    /\ UNCHANGED <<top, buffer, buffers, pushed, delivered>>

----------------------------------------------------------------------------
(* pop() *)
PopLoad(h) ==
    /\ point[h] = "idle"
    /\ b' = Local(b, h, bottom - 1)
    /\ DequeGoto(h, "pop_reserve")
    /\ UNCHANGED <<shared, t, buf, value, pushed, delivered>>

PopReserve(h) ==
    /\ point[h] = "pop_reserve"
    /\ bottom' = b[h]
    /\ DequeGoto(h, "pop_top")
    /\ UNCHANGED <<top, buffer, buffers, b, t, buf, value, pushed, delivered>>

(* Nothing left (or no buffer yet): bottom goes back to top. *)
PopEmpty(h) ==
    /\ point[h] = "pop_top"
    /\ top > b[h] \/ buffer = NoBuffer
    /\ t' = Local(t, h, top)
    /\ DequeGoto(h, "pop_restore")
    /\ UNCHANGED <<shared, b, buf, value, pushed, delivered>>

PopRestore(h) ==
    /\ point[h] = "pop_restore"
    /\ bottom' = t[h]
    /\ DequeReturn(h)
    /\ UNCHANGED <<top, buffer, buffers, pushed, delivered>>

(* More than one element: the last one is the owner's without a CAS. *)
PopTake(h) ==
    /\ point[h] = "pop_top"
    /\ top < b[h] /\ buffer # NoBuffer
    /\ Deliver(Get(buffer, b[h]))
    /\ DequeReturn(h)
    /\ UNCHANGED <<shared, pushed>>

PopLast(h) ==
    /\ point[h] = "pop_top"
    /\ top = b[h] /\ buffer # NoBuffer
    /\ t' = Local(t, h, top)
    /\ value' = Local(value, h, Get(buffer, b[h]))
    /\ DequeGoto(h, "pop_cas")
    /\ UNCHANGED <<shared, b, buf, pushed, delivered>>

(* Won or lost, bottom becomes top + 1. *)
PopCas(h) ==
    /\ point[h] = "pop_cas"
    /\ IF top = t[h]
       THEN top' = t[h] + 1 /\ Deliver(value[h])
       ELSE UNCHANGED <<top, delivered>>
    /\ t' = Local(t, h, t[h] + 1)
    /\ DequeGoto(h, "pop_restore")
    /\ UNCHANGED <<bottom, buffer, buffers, b, buf, value, pushed>>

----------------------------------------------------------------------------
(* steal() *)
StealTop(h) ==
    /\ point[h] = "idle"
    /\ t' = Local(t, h, top)
    /\ DequeGoto(h, "steal_bottom")
    /\ UNCHANGED <<shared, b, buf, value, pushed, delivered>>

StealBottom(h) ==
    /\ point[h] = "steal_bottom"
    /\ IF t[h] >= bottom
       THEN DequeReturn(h)                              \* Empty
       ELSE DequeGoto(h, "steal_buffer") /\ UNCHANGED <<b, t, buf, value>>
    /\ UNCHANGED <<shared, pushed, delivered>>

StealBuffer(h) ==
    /\ point[h] = "steal_buffer"
    /\ IF buffer = NoBuffer
       THEN DequeReturn(h)                              \* Empty
       ELSE /\ buf' = Local(buf, h, buffer)
            /\ DequeGoto(h, "steal_get")
            /\ UNCHANGED <<b, t, value>>
    /\ UNCHANGED <<shared, pushed, delivered>>

StealGet(h) ==
    /\ point[h] = "steal_get"
    /\ value' = Local(value, h, Get(buf[h], t[h]))
    /\ DequeGoto(h, "steal_cas")
    /\ UNCHANGED <<shared, b, t, buf, pushed, delivered>>

StealCas(h) ==
    /\ point[h] = "steal_cas"
    /\ IF top = t[h]
       THEN top' = t[h] + 1 /\ Deliver(value[h])   \* Success
       ELSE UNCHANGED <<top, delivered>>           \* Retry
    /\ DequeReturn(h)
    /\ UNCHANGED <<bottom, buffer, buffers, pushed>>

Pushing(h) ==
    PushBottom(h) \/ PushTop(h) \/ PushEnsure(h) \/ PushGrow(h) \/ PushPut(h) \/ PushPublish(h)
Popping(h) ==
    PopLoad(h) \/ PopReserve(h) \/ PopEmpty(h) \/ PopRestore(h) \/ PopTake(h) \/ PopLast(h) \/ PopCas(h)
Stealing(h) ==
    StealTop(h) \/ StealBottom(h) \/ StealBuffer(h) \/ StealGet(h) \/ StealCas(h)

DequeNext ==
    \/ \E h \in Pushers : Pushing(h)
    \/ Popping(Owner)
    \/ \E h \in DequeHarts \ {Owner} : Stealing(h)

DequeSpec == DequeInit /\ [][DequeNext]_deque_vars

----------------------------------------------------------------------------
(* While pop() has lowered bottom and not yet decided, the item it reserved
   still belongs to the deque. *)
Reserving == point[Owner] \in {"pop_top", "pop_cas"}
Contents ==
    [i \in 1 .. (IF Reserving /\ b[Owner] >= top THEN b[Owner] + 1 ELSE bottom) - top |->
        Get(buffer, top + i - 1)]

(* With one pusher the deque hands out each item once, thieves in the order the
   items came, the owner in the opposite one, through any interleaving of the
   three operations and any number of buffer growths. *)
Deque == INSTANCE WorkDeque WITH deque <- Contents
ImplementsWorkDeque == Deque!Spec

(* get() clones what it takes for an initialised slot (assume_init_ref,
   chase_lev.rs:66): the slot was written before it is read. *)
ClonesInitialisedSlots == \A h \in DequeHarts : point[h] = "steal_cas" => value[h] # Uninit
=============================================================================
