-------------------------------- MODULE Net --------------------------------
(***************************************************************************)
(* User programs on the network: the programs of mkfs/src/bin that use it  *)
(* (ping, nslookup, telnet, wget), the system calls they make              *)
(* (kernel/src/syscall.rs for native programs, wasm.rs for WASM ones), the *)
(* one NetState they share (lock/state/net.rs, dns.rs), the daemon that    *)
(* polls it (services/netd.rs) and the Ethernet driver (d1_emac.rs).       *)
(*                                                                         *)
(* A system call that does not wait is one step; it needs NET_STATE free.  *)
(* dns_resolve and http_get keep NET_STATE locked while they wait;         *)
(* send_ping takes it for each poll.  A deadline may pass at any moment.   *)
(* An address is named after the host it belongs to.                       *)
(***************************************************************************)
EXTENDS TcpSocket, Emac, FiniteSets, SequencesExt

CONSTANTS
    Procs,      \* processes that run network programs
    Wasm,       \* those that are WASM programs
    Commands,   \* what is run: a process, a program and the host it is given, whose
                \* address has the same name
    PINGS,      \* echo requests a run of ping sends: 4 in the code
    QUEUE,      \* packets the ICMP and UDP sockets buffer: 8 in the code
    TXIDS,      \* DNS transaction ids: 2^16 in the code
    LOAD        \* frames that fit, on their way to this machine, or not yet polled, at one time

ASSUME NetAssumption ==
    /\ Wasm \subseteq Procs
    /\ \A c \in Commands :
          c.proc \in Procs /\ c.prog \in {"ping", "nslookup", "telnet", "wget"}
    /\ PINGS \in Nat \ {0} /\ QUEUE \in Nat \ {0} /\ TXIDS \in Nat \ {0}
    /\ LOAD \in Nat

VARIABLES
    lock,   \* who holds NET_STATE across steps
    net,    \* the NetState
    dma,    \* the DMA engine's positions in the rings
    wire,   \* frames on their way to this machine
    reg,    \* EMAC_IP_CONFIG holds an address
    txid,   \* DNS_TRANSACTION_ID
    proc    \* the processes

vars == <<lock, net, dma, wire, reg, txid, proc>>

Free == "free"
NoHost == "none"
Frame(kind, host, n) == [kind |-> kind, host |-> host, n |-> n]

IdleProc == [pc |-> "idle", prog |-> "ping", host |-> NoHost, ip |-> NoHost,
             seq |-> 0, alone |-> TRUE, mixed |-> FALSE]

Init ==
    /\ lock = Free
    /\ net = [emac |-> alloc_dma_resources, ip |-> FALSE, icmp |-> <<>>, udp |-> <<>>,
              sock |-> ClosedSocket, stop |-> FALSE]
    /\ dma = [rx |-> 0, tx |-> 0]
    /\ wire = {}
    /\ reg = FALSE
    /\ txid = 0
    /\ proc = [p \in Procs |-> IdleProc]

----------------------------------------------------------------------------
(* NetState. *)

IsTcp(f) == f.kind \in {"synack", "data", "fin", "rst"}

(* smoltcp hands a frame to the socket it is for; a full socket drops it. *)
Queued(q, f) == IF Len(q) < QUEUE THEN Append(q, f) ELSE q
Deliver(n, f) ==
    CASE f.kind = "reply" -> [n EXCEPT !.icmp = Queued(@, f)]
      [] f.kind = "answer" -> [n EXCEPT !.udp = Queued(@, f)]
      [] f.kind \in {"jumbo", "old"} -> n
      [] f.kind = "synack" -> [n EXCEPT !.sock = IF @.st = "SynSent" THEN Accepted(@) ELSE @]
      [] f.kind = "data" -> [n EXCEPT !.sock = IF @.st \in {"Established", "FinWait"} THEN Arrives(@, @.conn) ELSE @]
      [] f.kind = "fin" -> [n EXCEPT !.sock = IF @.st \in {"Established", "FinWait"} THEN PeerCloses(@) ELSE @]
      [] f.kind = "rst" -> [n EXCEPT !.sock = PeerResets(@)]

(* iface.poll takes frames until the device has none, or one that is too long. *)
PollOne(n, i) ==
    IF n.stop \/ ~has_packet(n.emac) THEN n
    ELSE LET f == n.emac.rx[n.emac.rx_head]
         IN  Deliver([n EXCEPT !.emac = receive(@), !.stop = (f.kind = "jumbo")], f)
iface_poll(n) ==
    [FoldLeft(PollOne, n, [i \in 1 .. RX_DESC_COUNT |-> i]) EXCEPT !.stop = FALSE]

(* poll first takes over the address the relay has assigned. *)
poll(n) == iface_poll([n EXCEPT !.ip = @ \/ reg])

(* A packet is handed to the driver; without an address of ours nobody answers it. *)
Emit(n, f) == IF n.ip THEN [n EXCEPT !.emac = transmit(@, f)] ELSE n

udp_send(n, f) == Emit(iface_poll(n), f)

(* A ping of another machine; a ping of this one is answered from a list in NetState. *)
send_ping(n, host, seq) == Emit(iface_poll(n), Frame("echo", host, seq))
check_ping_reply(n) == IF n.icmp # <<>> THEN [n EXCEPT !.icmp = Tail(@)] ELSE n

----------------------------------------------------------------------------
(* The world outside: the DMA engine, the network and the servers. *)

(* A frame that finds the receive ring full is lost. *)
DmaPut(f) ==
    IF DmaCanReceive(net.emac, dma.rx)
    THEN /\ net' = [net EXCEPT !.emac = DmaReceives(@, dma.rx, f)]
         /\ dma' = [dma EXCEPT !.rx = (@ + 1) % RX_DESC_COUNT]
    ELSE UNCHANGED <<net, dma>>

InFlight ==
    Cardinality(wire)
    + Cardinality({i \in RxSlots : net.emac.rx[i].kind \notin {NoFrame.kind, "jumbo"}})

(* Frames arrive in any order, late, or never. *)
FrameArrives ==
    /\ \E f \in wire : DmaPut(f) /\ wire' = wire \ {f}
    /\ UNCHANGED <<lock, reg, txid, proc>>

(* A frame longer than the driver's receive buffer; one at a time is in the ring. *)
JumboArrives ==
    /\ IF \E i \in RxSlots : net.emac.rx[i].kind = "jumbo" THEN UNCHANGED <<net, dma>>
       ELSE DmaPut(Frame("jumbo", NoHost, 0))
    /\ UNCHANGED <<lock, wire, reg, txid, proc>>

(* TCP segments arrive in order, data when the last was read; the peer may accept, send,
   close or reset. *)
SegmentArrives ==
    /\ \E k \in (CASE net.sock.st = "SynSent" -> {"synack", "rst"}
                   [] net.sock.st \in {"Established", "FinWait"} -> {"data", "fin", "rst"}
                   [] OTHER -> {}) :
          (k = "data" => net.sock.rx = <<>>) /\ DmaPut(Frame(k, NoHost, 0))
    /\ \A i \in RxSlots : ~IsTcp(net.emac.rx[i])
    /\ InFlight < LOAD
    /\ UNCHANGED <<lock, wire, reg, txid, proc>>

(* What a sent frame leads to; either may be lost. *)
Replies(f) ==
    CASE f.kind = "echo" -> {Frame("reply", f.host, f.n)}
      [] f.kind = "old" -> {}
      [] f.kind = "query" -> {Frame("answer", f.host, f.n)}
FrameLeaves ==
    /\ DmaCanSend(net.emac, dma.tx)
    /\ \/ \E g \in Replies(net.emac.tx[dma.tx]) :
              InFlight < LOAD /\ wire' = wire \cup {g}
       \/ UNCHANGED wire
    /\ net' = [net EXCEPT !.emac = DmaSends(@, dma.tx)]
    /\ dma' = [dma EXCEPT !.tx = (@ + 1) % TX_DESC_COUNT]
    /\ UNCHANGED <<lock, reg, txid, proc>>

RelayAssigns == ~reg /\ reg' = TRUE /\ UNCHANGED <<lock, net, dma, wire, txid, proc>>

----------------------------------------------------------------------------
(* netd_service polls, in poll_network and, until it has seen an address, in try_get_ip. *)
netd_service ==
    /\ lock = Free
    /\ net' = poll(net)
    /\ UNCHANGED <<lock, dma, wire, reg, txid, proc>>

----------------------------------------------------------------------------
(* Programs and their system calls. *)

Set(p, r) == proc' = [proc EXCEPT ![p] = r]
Goto(p, label) == Set(p, [proc[p] EXCEPT !.pc = label])
Exit(p) == Set(p, IdleProc)
At(p, label) == proc[p].pc = label
Calls(p, label) == At(p, label) /\ lock = Free
Untouched == UNCHANGED <<dma, wire, reg>>

(* main of telnet, and the like of the others: net_available, the arguments, a name to look up. *)
main(p) ==
    /\ Calls(p, "idle")
    /\ \E c \in Commands :
          /\ c.proc = p
          /\ Set(p, [IdleProc EXCEPT !.prog = c.prog, !.host = c.host, !.pc = "resolve"])
    /\ UNCHANGED <<lock, net, txid>> /\ Untouched

(* next_transaction_id.  Ids repeat after TXIDS queries; nothing is left to answer a
   query that old. *)
next_transaction_id == (txid + 1) % TXIDS
IsDns(f) == f.kind \in {"query", "answer"}
Aged(f, id) == IF f # NoFrame /\ IsDns(f) /\ f.n = id THEN Frame("old", NoHost, 0) ELSE f
Forget(n, id) ==
    [n EXCEPT !.udp = SelectSeq(@, LAMBDA f : f.n # id),
              !.emac.rx = [i \in RxSlots |-> Aged(@[i], id)],
              !.emac.tx = [i \in TxSlots |-> Aged(@[i], id)]]

(* dns::resolve sends the query... *)
build_query(p) ==
    /\ Calls(p, "resolve")
    /\ lock' = p
    /\ txid' = next_transaction_id
    /\ wire' = {f \in wire : ~IsDns(f) \/ f.n # txid'}
    /\ net' = udp_send(Forget(net, txid'), Frame("query", proc[p].host, txid'))
    /\ Goto(p, "resolving")
    /\ UNCHANGED <<dma, reg>>

(* ...and what it was asked for goes on with the address, or the program ends.  http_get
   keeps the lock and connects. *)
Resolved(p, addr) ==
    /\ lock' = (IF proc[p].prog = "wget" THEN p ELSE Free)
    /\ Set(p, [proc[p] EXCEPT !.ip = addr,
                 !.pc = CASE proc[p].prog = "ping" -> "ping"
                          [] proc[p].prog = "telnet" -> "connect"
                          [] proc[p].prog = "wget" -> "http"
                          [] proc[p].prog = "nslookup" -> "exit"])
Unresolved(p) == lock' = Free /\ Exit(p)

(* Fault: any answer will do. *)
parse_response_any_id(p, f) ==
    Resolved(p, f.host)

(* An answer to another query is ignored.  Any other ends the call: with an address, or
   without one, when it says there is none or does not parse. *)
parse_response(p, f) ==
    IF f.n # txid THEN UNCHANGED <<lock, proc>>
    ELSE Resolved(p, f.host) \/ Unresolved(p)

resolve(p) ==
    /\ At(p, "resolving")
    /\ LET n == poll(net)
       IN  IF n.udp = <<>> THEN net' = n /\ UNCHANGED <<lock, proc>>
           ELSE net' = [n EXCEPT !.udp = Tail(@)] /\ parse_response(p, Head(n.udp))
    /\ UNCHANGED txid /\ Untouched

(* Fault: a query that times out returns without the guard being dropped. *)
ResolveTimeoutKeepsLock(p) ==
    /\ At(p, "resolving")
    /\ Exit(p)
    /\ UNCHANGED <<lock, net, txid>> /\ Untouched

ResolveTimeout(p) ==
    /\ At(p, "resolving")
    /\ Unresolved(p)
    /\ UNCHANGED <<net, txid>> /\ Untouched

nslookup(p) ==
    /\ At(p, "exit")
    /\ Exit(p)
    /\ UNCHANGED <<lock, net, txid>> /\ Untouched

(* ping: PINGS echo requests, one after the other. *)
sys_send_ping(p) ==
    /\ Calls(p, "ping")
    /\ net' = send_ping(net, proc[p].ip, proc[p].seq)
    /\ Goto(p, "pinging")
    /\ UNCHANGED <<lock, txid>> /\ Untouched

NextPing(p) ==
    IF proc[p].seq + 1 < PINGS THEN Set(p, [proc[p] EXCEPT !.seq = @ + 1, !.pc = "ping"])
                               ELSE Exit(p)

(* The reply a poll takes is reported if it is the one waited for, and dropped if not. *)
PingPoll(p) ==
    /\ Calls(p, "pinging")
    /\ LET n == poll(net)
       IN  /\ net' = check_ping_reply(n)
           /\ IF n.icmp # <<>> /\ Head(n.icmp) = Frame("reply", proc[p].ip, proc[p].seq)
              THEN NextPing(p) ELSE UNCHANGED proc
    /\ UNCHANGED <<lock, txid>> /\ Untouched

PingTimeout(p) ==
    /\ At(p, "pinging")
    /\ NextPing(p)
    /\ UNCHANGED <<lock, net, txid>> /\ Untouched

(* telnet.  A connection is named after the process that made it; mixed says that telnet has
   shown data of another one although nobody has connected since.  A connect takes the one client socket away from whoever used it; what is still
   to be polled for the old connection reaches nobody. *)
InSession(q) == proc[q].pc \in {"waiting", "session", "recv", "input", "disconnect"}
Connects(p, label) ==
    [q \in Procs |-> IF q = p THEN [proc[p] EXCEPT !.pc = label]
                              ELSE [proc[q] EXCEPT !.alone = @ /\ ~InSession(q)]]
Reconnected(n, s) ==
    [n EXCEPT !.sock = s,
              !.emac.rx = [i \in RxSlots |-> IF IsTcp(@[i]) THEN Frame("old", NoHost, 0) ELSE @[i]]]

(* Fault: the socket keeps what the last connection left unread. *)
ConnectedDirty(n, p) ==
    Reconnected(n, [tcp_connect(n.sock, p) EXCEPT !.rx = [i \in DOMAIN n.sock.rx |-> "old"]])

Connected(n, p) == Reconnected(n, tcp_connect(n.sock, p))

sys_tcp_connect(p) ==
    /\ Calls(p, "connect")
    /\ net' = poll(iface_poll(Connected(net, p)))
    /\ proc' = Connects(p, "waiting")
    /\ UNCHANGED <<lock, txid>> /\ Untouched

(* tcp_status.  The native call does not poll, and takes any other state for connecting; the
   WASM call polls five times, and takes it for closed. *)
sys_tcp_status(s) ==
    CASE tcp_is_connected(s) -> "connected" [] tcp_connection_failed(s) -> "failed" [] OTHER -> "connecting"
wasm_tcp_status(s) ==
    CASE tcp_is_connected(s) -> "connected" [] tcp_is_connecting(s) -> "connecting"
      [] tcp_connection_failed(s) -> "failed" [] OTHER -> "closed"
StatusPolls(p) == IF p \in Wasm THEN poll(poll(poll(poll(poll(net))))) ELSE net
tcp_get_status(p, n) == IF p \in Wasm THEN wasm_tcp_status(n.sock) ELSE sys_tcp_status(n.sock)

WaitConnected(p) ==
    /\ Calls(p, "waiting")
    /\ net' = StatusPolls(p)
    /\ LET status == tcp_get_status(p, net')
       IN  \/ status = "connected" /\ Goto(p, "session")
           \/ status = "failed" /\ Goto(p, "disconnect")
           \/ status = "closed" /\ Exit(p)
           \/ status = "connecting" /\ UNCHANGED proc
           \/ status = "connecting" /\ Goto(p, "disconnect")
    /\ UNCHANGED <<lock, txid>> /\ Untouched

SessionStatus(p) ==
    /\ Calls(p, "session")
    /\ net' = StatusPolls(p)
    /\ Goto(p, IF tcp_get_status(p, net') \in {"closed", "failed"} THEN "disconnect" ELSE "recv")
    /\ UNCHANGED <<lock, txid>> /\ Untouched

sys_tcp_recv(p) ==
    /\ Calls(p, "recv")
    /\ LET n == iface_poll(poll(net))
       IN  /\ net' = [n EXCEPT !.sock = tcp_recv(@, Len(@.rx))]
           /\ Set(p, [proc[p] EXCEPT !.pc = "input", !.mixed = @ \/ (proc[p].alone /\ ToSet(n.sock.rx) \ {p} # {})])
    /\ UNCHANGED <<lock, txid>> /\ Untouched

(* A line of input is sent if the socket may send; a failure to send is ignored. *)
SessionInput(p) ==
    /\ At(p, "input")
    /\ \/ UNCHANGED net
       \/ lock = Free /\ MaySend(net.sock) /\ net' = poll(iface_poll(net))
    /\ Goto(p, "session")
    /\ UNCHANGED <<lock, txid>> /\ Untouched

(* should_cancel, or the ESC or q key. *)
SessionQuit(p) ==
    /\ At(p, "session") \/ At(p, "input")
    /\ Goto(p, "disconnect")
    /\ UNCHANGED <<lock, net, txid>> /\ Untouched

sys_tcp_close(p) ==
    /\ Calls(p, "disconnect")
    /\ net' = iface_poll([net EXCEPT !.sock = tcp_close(@)])
    /\ Exit(p)
    /\ UNCHANGED <<lock, txid>> /\ Untouched

(* wget: http_get keeps the lock for the whole request (module Fetch has its steps); the
   program then saves or prints the response and ends. *)
sys_http_get(p) ==
    /\ At(p, "http")
    /\ net' = iface_poll(Connected(net, p))
    /\ proc' = Connects(p, "fetching")
    /\ UNCHANGED <<lock, txid>> /\ Untouched

HttpPolls(p) ==
    /\ At(p, "fetching")
    /\ net' = LET n == poll(net) IN [n EXCEPT !.sock = tcp_recv(@, Len(@.rx))]
    /\ UNCHANGED <<lock, txid, proc>> /\ Untouched

HttpReturns(p) ==
    /\ At(p, "fetching")
    /\ \E s \in {tcp_close(net.sock), tcp_abort(net.sock)} : net' = iface_poll([net EXCEPT !.sock = s])
    /\ lock' = Free
    /\ Exit(p)
    /\ UNCHANGED txid /\ Untouched

----------------------------------------------------------------------------
ProcStep(p) ==
    \/ main(p) \/ build_query(p) \/ resolve(p) \/ ResolveTimeout(p) \/ nslookup(p)
    \/ sys_send_ping(p) \/ PingPoll(p) \/ PingTimeout(p)
    \/ sys_tcp_connect(p) \/ WaitConnected(p) \/ SessionStatus(p) \/ sys_tcp_recv(p)
    \/ SessionInput(p) \/ SessionQuit(p) \/ sys_tcp_close(p)
    \/ sys_http_get(p) \/ HttpPolls(p) \/ HttpReturns(p)

Next ==
    \/ \E p \in Procs : ProcStep(p)
    \/ netd_service
    \/ FrameArrives \/ JumboArrives \/ SegmentArrives \/ FrameLeaves \/ RelayAssigns

Spec == Init /\ [][Next]_vars

(* The deadlines of resolve and of a request pass. *)
FairSpec == Spec /\ \A p \in Procs : WF_vars(ResolveTimeout(p)) /\ WF_vars(sys_http_get(p))
                                     /\ WF_vars(HttpReturns(p))

----------------------------------------------------------------------------
(* dns::resolve returns an address of the host it was asked for, whatever answers to earlier
   queries, of this or another process, arrive late or are left in the UDP socket. *)
ResolvedForHost ==
    \A p \in Procs : proc[p].ip # NoHost => proc[p].ip = proc[p].host

(* The driver reads and fills the descriptor rings where the DMA engine fills and reads them,
   after any frame, one too long to be received included. *)
RingsInStep == RxRingInStep(net.emac, dma.rx) /\ TxRingInStep(net.emac, dma.tx)

(* What telnet shows was sent on the connection it made, unless another process has since
   taken the one client socket with a tcp_connect of its own. *)
SessionDataIsOwn ==
    \A p \in Procs : ~proc[p].mixed

(* A call that waits with NET_STATE locked releases it, so netd and the other programs get to
   the network again. *)
LockIsReleased == []<>(lock = Free)
============================================================================
