------------------------------ MODULE IoRouter ------------------------------
(***************************************************************************)
(* Device requests routed to hart 0 (kernel/src/cpu/io_router.rs) and the  *)
(* proxies that make them (cpu/{fs,net,display,audio}_proxy.rs).  A hart   *)
(* draws a request id, resets the completion slot the id falls on, pushes  *)
(* the request onto its own queue and waits for the slot; hart 0 takes     *)
(* requests round robin, handles them and stores the result in the slot.   *)
(* Slot and flag are accessed one at a time.  A result is represented by   *)
(* the id of the request it answers.                                       *)
(***************************************************************************)
EXTENDS Integers, Sequences, FiniteSets

CONSTANTS
    NumHarts,               \* get_expected_harts(); hart 0 dispatches
    MAX_PENDING_REQUESTS,   \* completion slots, 64 in the code
    Calls,                  \* kinds of request the callers make
    MAX_ID                  \* bound: request ids that can be drawn

Harts == 0 .. NumHarts - 1
Requesters == Harts \ {0}
Ids == 1 .. MAX_ID
NoId == 0
Slots == 0 .. MAX_PENDING_REQUESTS - 1

(* What the request asks for: a device operation, a file operation, the directory
   listing sys_fs_is_dir asks for while it has FS_STATE read-locked, or a device
   operation with a callback. *)
Kinds == {"device", "file", "locked", "callback"}

(* The handlers of file operations take FS_STATE for writing. *)
TakesFs(k) == k \in {"file", "locked"}

(* The slot of a request. *)
Slot(id) == id % MAX_PENDING_REQUESTS

ASSUME IoRouterAssumption ==
    /\ NumHarts \in Nat \ {0}
    /\ MAX_PENDING_REQUESTS \in Nat \ {0}
    /\ Calls \subseteq Kinds
    /\ MAX_ID \in Nat

VARIABLES
    next_id,        \* NEXT_REQUEST_ID
    queues,         \* IO_QUEUES: requests in order of submission
    complete,       \* CompletionSlot.complete
    result,         \* CompletionSlot.result
    callbacks,      \* IO_CALLBACKS: the request whose callback is registered
    cursor,         \* DISPATCH_CURSOR, modulo the number of harts
    pc, req, kind,  \* per requester: where it is, its request and the call's kind
    got,            \* per requester: the result it took
    dpc, dreq,      \* hart 0: where it is in dispatch_io, and the request in hand
    handled,        \* history: last request of each hart that was handled
    overrun         \* history: an id was drawn while one a whole table older was live

requester == <<pc, req, kind, got>>
dispatcher == <<dpc, dreq>>
vars == <<next_id, queues, complete, result, callbacks, cursor, requester, dispatcher,
          handled, overrun>>

Request == [id : Ids, source : Requesters, kind : Kinds]
NoRequest == [id |-> NoId, source |-> 0, kind |-> "device"]

Init ==
    /\ next_id = 1
    /\ queues = [h \in Harts |-> <<>>]
    /\ complete = [s \in Slots |-> FALSE]
    /\ result = [s \in Slots |-> NoId]
    /\ callbacks = [s \in Slots |-> NoId]
    /\ cursor = 0
    /\ pc = [h \in Requesters |-> "idle"]
    /\ req = [h \in Requesters |-> NoId]
    /\ kind = [h \in Requesters |-> "device"]
    /\ got = [h \in Requesters |-> NoId]
    /\ dpc = "scan" /\ dreq = NoRequest
    /\ handled = [h \in Requesters |-> NoId]
    /\ overrun = FALSE

(* Requests somebody still works on: a caller, a queue or hart 0. *)
Queued(h) == {queues[h][i].id : i \in DOMAIN queues[h]}
Live ==
    {req[h] : h \in {g \in Requesters : pc[g] # "idle"}}
    \cup (UNION {Queued(h) : h \in Harts})
    \cup ({dreq.id} \ {NoId})

Goto(h, label) == pc' = [pc EXCEPT ![h] = label]

(* The call returns: its locals, and the guard of sys_fs_is_dir, are gone. *)
Return(h) ==
    /\ Goto(h, "idle")
    /\ req' = [req EXCEPT ![h] = NoId]
    /\ kind' = [kind EXCEPT ![h] = "device"]
    /\ got' = [got EXCEPT ![h] = NoId]

----------------------------------------------------------------------------
(* request_io, request_io_async with IoFuture::wait, and
   submit_async_io_with_callback on a secondary hart. *)

NewRequest(h, k) ==
    /\ pc[h] = "idle"
    /\ next_id \in Ids
    /\ k = "locked" => dpc # "fs_wait"      \* a waiting writer keeps readers out
    /\ next_id' = next_id + 1
    /\ req' = [req EXCEPT ![h] = next_id]
    /\ kind' = [kind EXCEPT ![h] = k]
    /\ overrun' = (overrun \/ \E l \in Live : next_id - l >= MAX_PENDING_REQUESTS)
    /\ Goto(h, "reset_flag")
    /\ UNCHANGED <<queues, complete, result, callbacks, cursor, got, dispatcher, handled>>

(* Fault: the slot is not reset. *)
ResetSkipped(h) ==
    /\ pc[h] = "reset_flag"
    /\ Goto(h, IF kind[h] = "callback" THEN "register" ELSE "push")
    /\ UNCHANGED <<next_id, queues, complete, result, callbacks, cursor, req, kind, got,
                   dispatcher, handled, overrun>>

ResetFlag(h) ==
    /\ pc[h] = "reset_flag"
    /\ complete' = [complete EXCEPT ![Slot(req[h])] = FALSE]
    /\ Goto(h, "reset_result")
    /\ UNCHANGED <<next_id, queues, result, callbacks, cursor, req, kind, got, dispatcher,
                   handled, overrun>>

ResetResult(h) ==
    /\ pc[h] = "reset_result"
    /\ result' = [result EXCEPT ![Slot(req[h])] = NoId]
    /\ Goto(h, IF kind[h] = "callback" THEN "register" ELSE "push")
    /\ UNCHANGED <<next_id, queues, complete, callbacks, cursor, req, kind, got, dispatcher,
                   handled, overrun>>

RegisterCallback(h) ==
    /\ pc[h] = "register"
    /\ callbacks' = [callbacks EXCEPT ![Slot(req[h])] = req[h]]
    /\ Goto(h, "push")
    /\ UNCHANGED <<next_id, queues, complete, result, cursor, req, kind, got, dispatcher,
                   handled, overrun>>

(* A call with a callback returns once the request is queued. *)
Push(h) ==
    /\ pc[h] = "push"
    /\ queues' = [queues EXCEPT ![h] = Append(@, [id |-> req[h], source |-> h, kind |-> kind[h]])]
    /\ IF kind[h] = "callback"
       THEN Return(h)
       ELSE Goto(h, "wait") /\ UNCHANGED <<req, kind, got>>
    /\ UNCHANGED <<next_id, complete, result, callbacks, cursor, dispatcher, handled, overrun>>

(* take(): the flag, then the result, then the flag again. *)
TakeLoad(h) ==
    /\ pc[h] = "wait"
    /\ complete[Slot(req[h])]
    /\ Goto(h, "take")
    /\ UNCHANGED <<next_id, queues, complete, result, callbacks, cursor, req, kind, got,
                   dispatcher, handled, overrun>>

TakeResult(h) ==
    /\ pc[h] = "take"
    /\ IF result[Slot(req[h])] = NoId
       THEN Goto(h, "wait") /\ UNCHANGED <<result, got>>
       ELSE /\ got' = [got EXCEPT ![h] = result[Slot(req[h])]]
            /\ result' = [result EXCEPT ![Slot(req[h])] = NoId]
            /\ Goto(h, "take_clear")
    /\ UNCHANGED <<next_id, queues, complete, callbacks, cursor, req, kind, dispatcher,
                   handled, overrun>>

TakeClear(h) ==
    /\ pc[h] = "take_clear"
    /\ complete' = [complete EXCEPT ![Slot(req[h])] = FALSE]
    /\ Return(h)
    /\ UNCHANGED <<next_id, queues, result, callbacks, cursor, dispatcher, handled, overrun>>

(* The caller gives up after take() found nothing, whatever happened since. *)
Timeout(h) ==
    /\ pc[h] = "wait"
    /\ Return(h)
    /\ UNCHANGED <<next_id, queues, complete, result, callbacks, cursor, dispatcher, handled,
                   overrun>>

----------------------------------------------------------------------------
(* dispatch_io on hart 0 *)

(* Fault: the newest request of the queue is taken. *)
DequeueNewest ==
    /\ dpc = "scan"
    /\ cursor' = IF cursor = NumHarts - 1 THEN 0 ELSE cursor + 1
    /\ IF queues[cursor] = <<>>
       THEN UNCHANGED <<queues, dreq, dpc>>
       ELSE /\ dreq' = queues[cursor][Len(queues[cursor])]
            /\ queues' = [queues EXCEPT ![cursor] = SubSeq(@, 1, Len(@) - 1)]
            /\ dpc' = "handle"
    /\ UNCHANGED <<next_id, complete, result, callbacks, requester, handled, overrun>>

(* dequeue_request_round_robin looks at one queue.  After a round of empty queues
   dispatch_io returns, and hart_loop calls it again with the cursor where it was. *)
Dequeue ==
    /\ dpc = "scan"
    /\ cursor' = IF cursor = NumHarts - 1 THEN 0 ELSE cursor + 1
    /\ IF queues[cursor] = <<>>
       THEN UNCHANGED <<queues, dreq, dpc>>
       ELSE /\ dreq' = Head(queues[cursor])
            /\ queues' = [queues EXCEPT ![cursor] = Tail(@)]
            /\ dpc' = "handle"
    /\ UNCHANGED <<next_id, complete, result, callbacks, requester, handled, overrun>>

(* handle_request: a file operation first announces itself as a writer of FS_STATE. *)
HandleStarts ==
    /\ dpc = "handle"
    /\ TakesFs(dreq.kind)
    /\ dpc' = "fs_wait"
    /\ UNCHANGED <<next_id, queues, complete, result, callbacks, cursor, requester, dreq,
                   handled, overrun>>

(* It goes on when no call holds the read guard. *)
Handle ==
    /\ dpc = (IF TakesFs(dreq.kind) THEN "fs_wait" ELSE "handle")
    /\ TakesFs(dreq.kind) => \A h \in Requesters : kind[h] # "locked"
    /\ handled' = [handled EXCEPT ![dreq.source] = dreq.id]
    /\ dpc' = "store_result"
    /\ UNCHANGED <<next_id, queues, complete, result, callbacks, cursor, requester, dreq,
                   overrun>>

(* complete_request: the slot's result, its flag, then the registered callback. *)
StoreResult ==
    /\ dpc = "store_result"
    /\ result' = [result EXCEPT ![Slot(dreq.id)] = dreq.id]
    /\ dpc' = "store_flag"
    /\ UNCHANGED <<next_id, queues, complete, callbacks, cursor, requester, dreq,
                   handled, overrun>>

(* Fault: the flag is left for the callback to set. *)
StoreFlagForgotten ==
    /\ dpc = "store_flag"
    /\ dpc' = "callback"
    /\ UNCHANGED <<next_id, queues, complete, result, callbacks, cursor, requester, dreq,
                   handled, overrun>>

StoreFlag ==
    /\ dpc = "store_flag"
    /\ complete' = [complete EXCEPT ![Slot(dreq.id)] = TRUE]
    /\ dpc' = "callback"
    /\ UNCHANGED <<next_id, queues, result, callbacks, cursor, requester, dreq,
                   handled, overrun>>

(* The callback runs with the request's id and result, and the loop goes on. *)
InvokeCallback ==
    /\ dpc = "callback"
    /\ callbacks' = [callbacks EXCEPT ![Slot(dreq.id)] = NoId]
    /\ dpc' = "scan" /\ dreq' = NoRequest
    /\ UNCHANGED <<next_id, queues, complete, result, cursor, requester, handled, overrun>>

----------------------------------------------------------------------------
Submit(h) == ResetFlag(h) \/ ResetResult(h) \/ RegisterCallback(h) \/ Push(h)
Take(h) == TakeLoad(h) \/ TakeResult(h) \/ TakeClear(h)
DispatchStep ==
    \/ Dequeue \/ HandleStarts \/ Handle \/ StoreResult \/ StoreFlag \/ InvokeCallback

Next ==
    \/ \E h \in Requesters :
        \/ \E k \in Calls : NewRequest(h, k)
        \/ Submit(h) \/ Take(h) \/ Timeout(h)
    \/ DispatchStep

Spec == Init /\ [][Next]_vars

(* Hart 0 comes back to dispatch_io after every tick, a call runs on, and the clock
   ends the wait of the call that holds FS_STATE.  No other wait is assumed to
   end by its timeout. *)
FairSpec ==
    /\ Spec
    /\ WF_vars(DispatchStep)
    /\ \A h \in Requesters :
        WF_vars(Submit(h)) /\ WF_vars(Take(h)) /\ SF_vars(kind[h] = "locked" /\ Timeout(h))

----------------------------------------------------------------------------
(* "Unique request ID (for matching responses)" (io_router.rs:172): the result a call
   takes from its slot answers its own request, and hart 0 calls the callback
   registered with the request it completes and only if there is one, through
   time-outs and late results, until an id has been drawn while a live request was
   MAX_PENDING_REQUESTS ids older. *)
AnswerMatches ==
    ~ overrun =>
        /\ \A h \in Requesters : pc[h] = "take_clear" => got[h] = req[h]
        /\ dpc = "callback" =>
              callbacks[Slot(dreq.id)] = (IF dreq.kind = "callback" THEN dreq.id ELSE NoId)

(* Requests of one hart are handled in the order it made them and none twice,
   also when the caller gave up on one and made the next. *)
HandledInOrder == [][\A h \in Requesters : handled'[h] # handled[h] => handled'[h] > handled[h]]_vars

(* A call that waits gets its result (its own timeout apart, which only ends the
   wait of a caller holding FS_STATE), unless a request id overran the table. *)
EveryCallReturns ==
    \A h \in Requesters : (pc[h] = "wait") ~> (pc[h] = "idle" \/ overrun)
=============================================================================
