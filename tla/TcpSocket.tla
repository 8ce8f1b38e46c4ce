----------------------------- MODULE TcpSocket -----------------------------
(***************************************************************************)
(* The kernel's one TCP client socket, as the methods of NetState in       *)
(* kernel/src/lock/state/net.rs use it.  The socket itself is smoltcp's;   *)
(* a record holds what the callers can tell apart: the state, the          *)
(* connection it belongs to, and what has arrived and was not read.        *)
(***************************************************************************)
EXTENDS Naturals, Sequences

States == {"Closed", "SynSent", "Established", "CloseWait", "FinWait", "LastAck"}

ClosedSocket == [st |-> "Closed", conn |-> 0, rx |-> <<>>]

(* smoltcp: data may be queued while our side of the connection is open, and read
   while the peer's side is open or something unread is left. *)
MaySend(s) == s.st \in {"Established", "CloseWait"}
MayRecv(s) == s.st \in {"Established", "FinWait"} \/ s.rx # <<>>

(* tcp_abort closes the socket at once; what it had received stays until the next
   connect resets the socket. *)
tcp_abort(s) == [s EXCEPT !.st = "Closed"]

(* tcp_connect drops whatever connection the socket had and starts a new one. *)
tcp_connect(s, conn) == [st |-> "SynSent", conn |-> conn, rx |-> <<>>]

tcp_close(s) ==
    [s EXCEPT !.st = CASE s.st = "SynSent" -> "Closed"
                       [] s.st = "Established" -> "FinWait"
                       [] s.st = "CloseWait" -> "LastAck"
                       [] OTHER -> s.st]

(* tcp_recv returns Ok(0) where smoltcp may not receive, so n = 0 is no error. *)
tcp_recv(s, n) == [s EXCEPT !.rx = SubSeq(s.rx, n + 1, Len(s.rx))]

tcp_is_connected(s) == s.st = "Established"
tcp_is_connecting(s) == s.st = "SynSent"
tcp_connection_failed(s) == s.st = "Closed"

(* What the peer's segments do to the socket. *)
Accepted(s) == [s EXCEPT !.st = "Established"]
Arrives(s, unit) == [s EXCEPT !.rx = Append(s.rx, unit)]
PeerCloses(s) == [s EXCEPT !.st = IF s.st = "Established" THEN "CloseWait" ELSE "Closed"]
PeerResets(s) == [s EXCEPT !.st = "Closed"]
============================================================================
