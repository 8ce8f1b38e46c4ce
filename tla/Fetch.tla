------------------------------- MODULE Fetch -------------------------------
(***************************************************************************)
(* Fetching a URL: kernel/src/commands/http/mod.rs (requests, redirects,   *)
(* the plain client), tls.rs (TLS 1.3 over a blocking socket; the protocol *)
(* itself is embedded-tls) and tls12.rs (the kernel's own TLS 1.2, tried   *)
(* on a new connection when TLS 1.3 fails).                                *)
(*                                                                         *)
(* The client is one hart that holds NET_STATE for the whole fetch; the    *)
(* peer accepts, refuses, sends, closes or resets at any moment, and time  *)
(* passes.  A stream is a sequence of units: a unit is a TLS record or, in *)
(* a plain stream, one piece of the response.  The pieces of a response    *)
(* are "h" and "e" (the headers; "e" ends them), "b" (a piece of body),    *)
(* "c" (a chunk's size line) and "z" (the last chunk).                     *)
(***************************************************************************)
EXTENDS TcpSocket, SequencesExt

CONSTANTS
    Urls,           \* the URLs that are asked for or redirected to
    Replies,        \* what a server may answer
    MAX_REDIRECTS,  \* 10 in the code
    BUF,            \* pieces that fit the 1024-byte receive buffers
    TIMEOUT         \* timeout_ms, in ticks

ASSUME FetchAssumption ==
    /\ MAX_REDIRECTS \in Nat
    /\ BUF \in Nat \ {0}
    /\ TIMEOUT \in Nat

VARIABLES
    pc, via,        \* where the client is; "plain", "tls13" or "tls12"
    url, redirects, \* the current request and the redirects counter
    sock,           \* the client socket
    elapsed,        \* time since start_time, up to TIMEOUT + 1
    got, from,      \* response_buf, and the connections its bytes came from
    tls,            \* the Tls12Connection: handshake step, sequence numbers
    answer,         \* what the caller was given: "none", "ok" or "err"
    reply, out,     \* the server's answer, and what of it has not arrived
    cut,            \* history: the peer ended the connection before sending it all
    requests        \* history: connections the current fetch has asked for

client == <<pc, via, url, redirects, elapsed, got, from, tls, answer, requests>>
peer == <<reply, out, cut>>
vars == <<client, sock, peer>>

Vias == {"plain", "tls13", "tls12"}
NoReply == [status |-> "none", loc |-> [form |-> "none", url |-> CHOOSE u \in Urls : TRUE],
            framing |-> "close", n |-> 0, rec |-> 1]
FreshTls == [step |-> 1, client_seq |-> 0, server_seq |-> 0, nonces |-> <<>>]

Init ==
    /\ pc = "done" /\ via = "plain"
    /\ url \in Urls
    /\ redirects = 0 /\ elapsed = 0
    /\ sock = ClosedSocket
    /\ got = <<>> /\ from = {}
    /\ tls = FreshTls
    /\ answer = "none"
    /\ reply = NoReply /\ out = <<>> /\ cut = FALSE
    /\ requests = 0

----------------------------------------------------------------------------
(* Responses. *)

(* The pieces of a response, in the order the server sends them. *)
Pieces(r) ==
    <<"h", "e">> \o
    (IF r.framing = "chunked" THEN FlattenSeq([i \in 1 .. r.n |-> <<"c", "b">>]) \o <<"z">>
                              ELSE [i \in 1 .. r.n |-> "b"])

HeadersIn(s) == Contains(s, "e")

(* The bytes after the headers, and what decode_chunked leaves of them. *)
RawBody(s) == SelectSeq(s, LAMBDA x : x \in {"b", "c", "z"})
Body(s) == SelectSeq(s, LAMBDA x : x = "b")

(* Fault: the last byte of a Content-Length body is not waited for. *)
AnnouncedTooEarly(s, r) ==
    \/ r.framing = "cl" /\ Len(RawBody(s)) + 1 >= r.n
    \/ r.framing = "chunked" /\ via # "plain" /\ Last(s) = "z"

(* What each client takes for a complete response.  The plain one knows Content-Length
   only, and TLS 1.3's takes the first byte of a body without a length for all of it. *)
Announced(s, r) ==
    \/ r.framing = "cl" /\ Len(RawBody(s)) >= r.n
    \/ r.framing = "chunked" /\ via # "plain" /\ Last(s) = "z"

Complete(s, r) ==
    /\ HeadersIn(s)
    /\ \/ Announced(s, r)
       \/ r.framing = "close" /\ via = "tls13" /\ RawBody(s) # <<>>

(* parse_url: the only way a URL is refused is a port that is no number. *)
ParsesUrl(u) == u.port # "bad"

(* resolve_redirect_url: a location is absolute (a URL), or keeps the scheme ("//"), or
   keeps scheme, host and port (a path). *)
resolve_redirect_url(u, loc) ==
    CASE loc.form = "absolute" -> loc.url
      [] loc.form = "scheme" -> [loc.url EXCEPT !.https = u.https]
      [] loc.form = "path" -> u

----------------------------------------------------------------------------
(* What the peer sends. *)

Unit(ct, m, seq, toks) == [conn |-> sock.conn, ct |-> ct, m |-> m, seq |-> seq, toks |-> toks]
Alert == Unit("alert", "", 0, <<>>)
App(seq, toks) == Unit("app", "", seq, toks)

PlainStream(r) == [i \in DOMAIN Pieces(r) |-> App(0, <<Pieces(r)[i]>>)]
Tls13Stream(r) == <<Unit("opened", "", 0, <<>>)>> \o PlainStream(r) \o <<Alert>>

(* A TLS 1.2 server packs r.rec pieces into a record; its Finished is record 0. *)
Least(m, n) == IF m < n THEN m ELSE n
Records(s, k) ==
    [i \in 1 .. (Len(s) + k - 1) \div k |-> SubSeq(s, (i - 1) * k + 1, Least(i * k, Len(s)))]
Tls12Stream(r) ==
    LET recs == Records(Pieces(r), r.rec)
    IN  <<Unit("handshake", "ServerHello", 0, <<>>), Unit("handshake", "Certificate", 0, <<>>),
          Unit("handshake", "ServerKeyExchange", 0, <<>>), Unit("handshake", "ServerHelloDone", 0, <<>>),
          Unit("ccs", "", 0, <<>>), Unit("handshake", "Finished", 0, <<>>)>>
        \o [i \in DOMAIN recs |-> App(i, recs[i])]
        \o <<[Alert EXCEPT !.seq = Len(recs) + 1]>>

Stream(r) == CASE via = "plain" -> PlainStream(r)
               [] via = "tls13" -> Tls13Stream(r)
               [] via = "tls12" -> Tls12Stream(r)

PeerAccepts == sock.st = "SynSent" /\ sock' = Accepted(sock) /\ UNCHANGED <<client, peer>>

(* A server answers the request, not the handshake, with application data. *)
PeerSends ==
    /\ out # <<>> /\ sock.st \in {"Established", "FinWait"}
    /\ Head(out).ct = "app" => pc = "recv"
    /\ sock' = Arrives(sock, Head(out))
    /\ out' = Tail(out)
    /\ UNCHANGED <<client, reply, cut>>

(* A server that does not like the handshake sends a plain alert, or a message the client
   cannot use: another cipher or curve, two messages in one record. *)
PeerRejects ==
    /\ out # <<>> /\ sock.st = "Established" /\ pc \in {"open", "handshake"}
    /\ \E u \in {Alert, Unit("handshake", "unsuitable", 0, <<>>)} : sock' = Arrives(sock, u)
    /\ out' = <<>>
    /\ UNCHANGED <<client, reply, cut>>

PeerEnds ==
    /\ sock.st \in {"Established", "FinWait"}
    /\ sock' = PeerCloses(sock)
    /\ cut' = (out # <<>>) /\ out' = <<>>
    /\ UNCHANGED <<client, reply>>

PeerAborts ==
    /\ sock.st # "Closed"
    /\ sock' = PeerResets(sock)
    /\ cut' = (cut \/ out # <<>>) /\ out' = <<>>
    /\ UNCHANGED <<client, reply>>

Tick ==
    /\ pc \in {"wait", "send", "recv", "open", "handshake"}
    /\ elapsed <= TIMEOUT
    /\ elapsed' = elapsed + 1
    /\ UNCHANGED <<pc, via, url, redirects, got, from, tls, answer, requests, sock, peer>>

TimedOut == elapsed > TIMEOUT

----------------------------------------------------------------------------
(* The request loop of http_request_follow_redirects. *)

(* HttpRequest::new and the call. *)
StartFetch(u) ==
    /\ pc = "done"
    /\ url' = u /\ redirects' = 0 /\ requests' = 0
    /\ IF ParsesUrl(u) THEN pc' = "resolve" /\ answer' = "none"
                       ELSE pc' = "done" /\ answer' = "err"
    /\ UNCHANGED <<via, elapsed, got, from, tls, sock, peer>>

Finish(a) == pc' = "done" /\ answer' = a

(* resolve_host either finds the address or gives the fetch up. *)
Resolve ==
    /\ pc = "resolve"
    /\ \/ pc' = "connect" /\ via' = (IF url.https THEN "tls13" ELSE "plain") /\ UNCHANGED answer
       \/ Finish("err") /\ UNCHANGED via
    /\ UNCHANGED <<url, redirects, elapsed, got, from, tls, requests, sock, peer>>

(* A redirect that is followed starts a new request; any other response is the answer. *)
Redirect(r) ==
    /\ redirects' = redirects + 1
    /\ IF redirects' > MAX_REDIRECTS \/ r.loc.form = "none"
          \/ ~ParsesUrl(resolve_redirect_url(url, r.loc))
       THEN Finish("err") /\ UNCHANGED url
       ELSE /\ url' = resolve_redirect_url(url, r.loc)
            /\ pc' = "resolve" /\ UNCHANGED answer

(* parse_response: no headers, no response. *)
Parse ==
    /\ pc = "parse"
    /\ IF ~HeadersIn(got) THEN Finish("err") /\ UNCHANGED <<url, redirects>>
       ELSE IF reply.status = "redirect" THEN Redirect(reply)
       ELSE Finish("ok") /\ UNCHANGED <<url, redirects>>
    /\ UNCHANGED <<via, elapsed, got, from, tls, requests, sock, peer>>

(* A failed attempt: TLS 1.3 falls back to TLS 1.2, the others end the fetch. *)
Fail ==
    IF via = "tls13" THEN via' = "tls12" /\ pc' = "connect" /\ UNCHANGED answer
                     ELSE Finish("err") /\ UNCHANGED via

----------------------------------------------------------------------------
(* Connecting, the same for the three clients. *)

Connect ==
    /\ pc = "connect"
    /\ sock' = tcp_connect(sock, (sock.conn + 1) % 3)
    /\ pc' = "wait" /\ elapsed' = 0
    /\ got' = <<>> /\ from' = {} /\ tls' = FreshTls
    /\ requests' = requests + (IF via = "tls12" THEN 0 ELSE 1)
    /\ reply' = NoReply /\ out' = <<>> /\ cut' = FALSE
    /\ UNCHANGED <<via, url, redirects, answer>>

Connected ==
    /\ pc = "wait" /\ ~TimedOut
    /\ IF tcp_is_connected(sock)
       THEN /\ pc' = (CASE via = "plain" -> "send" [] via = "tls13" -> "open" [] via = "tls12" -> "handshake")
            /\ elapsed' = (IF via = "plain" THEN elapsed ELSE 0)
            /\ UNCHANGED <<via, answer>>
       ELSE tcp_connection_failed(sock) /\ Fail /\ UNCHANGED elapsed
    /\ UNCHANGED <<url, redirects, got, from, tls, requests, sock, peer>>

ConnectTimeout ==
    /\ pc = "wait" /\ TimedOut
    /\ sock' = tcp_abort(sock) /\ out' = <<>>
    /\ Fail
    /\ UNCHANGED <<url, redirects, elapsed, got, from, tls, requests, reply, cut>>

----------------------------------------------------------------------------
(* The plain client: one start_time for connecting, sending and receiving. *)

SendRequest ==
    /\ pc = "send" /\ via = "plain"
    /\ IF TimedOut \/ ~MaySend(sock)
       THEN /\ sock' = tcp_abort(sock)
            /\ Finish("err") /\ UNCHANGED <<reply, out>>
       ELSE /\ pc' = "recv"
            /\ \E r \in Replies : reply' = r /\ out' = Stream(r)
            /\ UNCHANGED <<sock, answer>>
    /\ UNCHANGED <<via, url, redirects, elapsed, got, from, tls, requests, cut>>

(* tcp_recv into response_buf, up to the size of the buffer. *)
Take == Least(Len(sock.rx), BUF)
Taken(n) == FlattenSeq([i \in 1 .. n |-> sock.rx[i].toks])
Receive(n) ==
    /\ got' = got \o Taken(n)
    /\ from' = from \cup {sock.rx[i].conn : i \in 1 .. n}

(* Fault: the clock is restarted while there is nothing to read. *)
RecvPlainRestartsClock ==
    /\ pc = "recv" /\ via = "plain" /\ ~TimedOut
    /\ \/ /\ sock.rx # <<>>
          /\ Receive(Take)
          /\ IF Complete(got', reply)
             THEN pc' = "parse" /\ sock' = tcp_close(tcp_recv(sock, Take))
             ELSE sock' = tcp_recv(sock, Take) /\ UNCHANGED pc
       \/ sock.rx = <<>> /\ UNCHANGED <<pc, sock, got, from>>
    /\ elapsed' = 0
    /\ UNCHANGED <<via, url, redirects, tls, answer, requests, peer>>

(* The loop ends when the announced length is there, or the socket is Closed. *)
RecvPlain ==
    /\ pc = "recv" /\ via = "plain" /\ ~TimedOut
    /\ \/ /\ sock.rx # <<>>
          /\ Receive(Take)
          /\ IF Complete(got', reply)
             THEN pc' = "parse" /\ sock' = tcp_close(tcp_recv(sock, Take))
             ELSE sock' = tcp_recv(sock, Take) /\ UNCHANGED pc
       \/ /\ sock.rx = <<>> /\ tcp_connection_failed(sock)
          /\ pc' = "parse" /\ UNCHANGED <<sock, got, from>>
    /\ UNCHANGED <<via, url, redirects, elapsed, tls, answer, requests, peer>>

RecvTimeout ==
    /\ pc = "recv" /\ via = "plain" /\ TimedOut
    /\ sock' = tcp_abort(sock) /\ out' = <<>>
    /\ Finish("err")
    /\ UNCHANGED <<via, url, redirects, elapsed, got, from, tls, requests, reply, cut>>

----------------------------------------------------------------------------
(* BlockingTcpSocket: a write ends early without an error when something was sent;
   every byte of progress restarts the clock. *)

WriteEnds(done) ==
    \/ ~TimedOut /\ MaySend(sock) /\ done /\ elapsed' = 0
    \/ (TimedOut \/ ~MaySend(sock)) /\ (done \/ Fail) /\ UNCHANGED elapsed

(* The server has the client's hello, unless the connection is already gone. *)
ServerChooses(label) ==
    IF pc' = label /\ sock.st = "Established" /\ ~TimedOut
    THEN \E r \in Replies : reply' = r /\ out' = Stream(r)
    ELSE UNCHANGED <<reply, out>>

(* A read that finds nothing fails at the timeout or once the socket is Closed. *)
ReadFails == TimedOut \/ (sock.rx = <<>> /\ tcp_connection_failed(sock))

(* tls.open: embedded-tls's handshake, on the server's terms. *)
Open13 ==
    /\ pc = "open"
    /\ WriteEnds(pc' = "handshake" /\ UNCHANGED <<via, answer>>)
    /\ ServerChooses("handshake")
    /\ UNCHANGED <<url, redirects, got, from, tls, requests, sock, cut>>

Opened13 ==
    /\ pc = "handshake" /\ via = "tls13"
    /\ \/ /\ ~TimedOut /\ sock.rx # <<>>
          /\ sock' = tcp_recv(sock, 1) /\ elapsed' = 0
          /\ IF Head(sock.rx).ct = "opened" THEN pc' = "send" /\ UNCHANGED <<via, answer>>
                                             ELSE Fail
       \/ ReadFails /\ Fail /\ UNCHANGED <<sock, elapsed>>
    /\ UNCHANGED <<url, redirects, got, from, tls, requests, peer>>

Send13 ==
    /\ pc = "send" /\ via = "tls13"
    /\ WriteEnds(pc' = "recv" /\ UNCHANGED <<via, answer>>)
    /\ UNCHANGED <<url, redirects, got, from, tls, requests, sock, peer>>

(* tls.close of embedded-tls leaves the TCP connection open.  What it makes of a connection
   that ends without an alert is the library's choice. *)
Recv13 ==
    /\ pc = "recv" /\ via = "tls13"
    /\ \/ /\ ~TimedOut /\ sock.rx # <<>>
          /\ elapsed' = 0
          /\ CASE Head(sock.rx).ct = "app" ->
                   LET n == Len(SelectSeq(SubSeq(sock.rx, 1, Take), LAMBDA x : x.ct = "app"))
                   IN  /\ Receive(n)
                       /\ sock' = tcp_recv(sock, n)
                       /\ pc' = (IF Complete(got', reply) THEN "parse" ELSE "recv")
                       /\ UNCHANGED <<via, answer>>
               [] Head(sock.rx).ct = "alert" ->
                   pc' = "parse" /\ sock' = tcp_recv(sock, 1) /\ UNCHANGED <<via, answer, got, from>>
               [] OTHER -> Fail /\ UNCHANGED <<sock, got, from>>
       \/ /\ ReadFails
          /\ Fail \/ (~TimedOut /\ pc' = "parse" /\ UNCHANGED <<via, answer>>)
          /\ UNCHANGED <<sock, elapsed, got, from>>
    /\ UNCHANGED <<url, redirects, tls, requests, peer>>

----------------------------------------------------------------------------
(* Tls12Connection.  Each side's flight of the handshake, one record per message. *)

Send(ct, m) == [dir |-> "send", ct |-> ct, m |-> m]
Recv(ct, m) == [dir |-> "recv", ct |-> ct, m |-> m]
send_client_hello == Send("handshake", "ClientHello")
recv_server_hello == Recv("handshake", "ServerHello")
recv_certificate == Recv("handshake", "Certificate")
recv_server_key_exchange == Recv("handshake", "ServerKeyExchange")
recv_server_hello_done == Recv("handshake", "ServerHelloDone")
send_client_key_exchange == Send("handshake", "ClientKeyExchange")
compute_keys == [dir |-> "local", ct |-> "", m |-> ""]
send_change_cipher_spec == Send("ccs", "")
send_finished == Send("handshake", "Finished")
recv_change_cipher_spec == Recv("ccs", "")
recv_finished == Recv("handshake", "Finished")
handshake ==
    <<send_client_hello, recv_server_hello, recv_certificate, recv_server_key_exchange,
      recv_server_hello_done, send_client_key_exchange, compute_keys,
      send_change_cipher_spec, send_finished, recv_change_cipher_spec, recv_finished>>

(* Fault: the sequence number is not advanced. *)
send_encrypted_record_unnumbered(t) == [t EXCEPT !.nonces = Append(@, t.client_seq)]

(* send_encrypted_record numbers a record before it is written: a failed write has used
   its nonce. *)
send_encrypted_record(t) ==
    [t EXCEPT !.client_seq = @ + 1, !.nonces = Append(@, t.client_seq)]

(* recv_encrypted_record: the sequence number is authenticated with the record. *)
Decrypts(r) == r.seq = tls.server_seq
recv_encrypted_record(t) == [t EXCEPT !.server_seq = @ + 1]

(* The two Finished messages are the handshake's encrypted records. *)
Encrypted(s) == s.m = "Finished"
NextStep(t) == [t EXCEPT !.step = @ + 1]

HandshakeSends ==
    /\ pc = "handshake" /\ via = "tls12"
    /\ LET s == handshake[tls.step]
       IN  /\ s.dir = "send"
           /\ tls' = NextStep(IF Encrypted(s) THEN send_encrypted_record(tls) ELSE tls)
           /\ WriteEnds(UNCHANGED <<pc, via, answer>>)
           /\ IF s.m = "ClientHello" THEN ServerChooses("handshake") ELSE UNCHANGED <<reply, out>>
    /\ UNCHANGED <<url, redirects, got, from, requests, sock, cut>>

(* Anything but the message that is due ends the handshake, and nothing is closed. *)
HandshakeReceives ==
    /\ pc = "handshake" /\ via = "tls12" /\ handshake[tls.step].dir = "recv"
    /\ LET s == handshake[tls.step]
       IN  \/ /\ ~TimedOut /\ sock.rx # <<>>
              /\ sock' = tcp_recv(sock, 1) /\ elapsed' = 0
              /\ LET r == Head(sock.rx)
                 IN  IF r.ct = s.ct /\ r.m = s.m /\ (Encrypted(s) => Decrypts(r))
                     THEN /\ tls' = NextStep(IF Encrypted(s) THEN recv_encrypted_record(tls) ELSE tls)
                          /\ pc' = (IF tls.step = Len(handshake) THEN "send" ELSE "handshake")
                          /\ UNCHANGED <<via, answer>>
                     ELSE Fail /\ UNCHANGED tls
           \/ ReadFails /\ Fail /\ UNCHANGED <<sock, elapsed, tls>>
    /\ UNCHANGED <<url, redirects, got, from, requests, peer>>

(* compute_keys fails when the server's point is not on the curve. *)
HandshakeComputes ==
    /\ pc = "handshake" /\ via = "tls12" /\ handshake[tls.step].dir = "local"
    /\ \/ tls' = NextStep(tls) /\ UNCHANGED <<pc, via, answer>>
       \/ Fail /\ UNCHANGED tls
    /\ UNCHANGED <<url, redirects, elapsed, got, from, requests, sock, peer>>

Send12 ==
    /\ pc = "send" /\ via = "tls12"
    /\ tls' = send_encrypted_record(tls)
    /\ WriteEnds(pc' = "recv" /\ UNCHANGED <<via, answer>>)
    /\ UNCHANGED <<url, redirects, got, from, requests, sock, peer>>

(* close: a last encrypted record, whose fate does not matter, and the socket's close. *)
close(t) ==
    /\ tls' = send_encrypted_record(t)
    /\ sock' = tcp_close(sock)

(* One record per read; what exceeds the caller's buffer is dropped. *)
Recv12 ==
    /\ pc = "recv" /\ via = "tls12"
    /\ \/ /\ ~TimedOut /\ sock.rx # <<>>
          /\ elapsed' = 0
          /\ LET r == Head(sock.rx)
                 rest == tcp_recv(sock, 1)
             IN  IF ~Decrypts(r) \/ r.ct \notin {"app", "alert"}
                 THEN /\ Fail /\ UNCHANGED <<got, from>>
                      /\ tls' = send_encrypted_record(tls) /\ sock' = tcp_close(rest)
                 ELSE /\ got' = got \o SubSeq(r.toks, 1, Least(Len(r.toks), BUF))
                      /\ from' = from \cup {r.conn}
                      /\ IF r.toks = <<>> \/ Complete(got', reply)
                         THEN /\ pc' = "parse"
                              /\ tls' = send_encrypted_record(recv_encrypted_record(tls))
                              /\ sock' = tcp_close(rest)
                         ELSE /\ tls' = recv_encrypted_record(tls) /\ sock' = rest
                              /\ UNCHANGED pc
                      /\ UNCHANGED <<via, answer>>
       \/ /\ ReadFails
          /\ close(tls)
          /\ IF TimedOut THEN Fail ELSE pc' = "parse" /\ UNCHANGED <<via, answer>>
          /\ UNCHANGED <<elapsed, got, from>>
    /\ UNCHANGED <<url, redirects, requests, peer>>

----------------------------------------------------------------------------
Client ==
    \/ Resolve \/ Connect \/ Connected \/ ConnectTimeout \/ Parse
    \/ SendRequest \/ RecvPlain \/ RecvTimeout
    \/ Open13 \/ Opened13 \/ Send13 \/ Recv13
    \/ HandshakeSends \/ HandshakeReceives \/ HandshakeComputes
    \/ Send12 \/ Recv12
Peer == PeerAccepts \/ PeerSends \/ PeerRejects \/ PeerEnds \/ PeerAborts
Next == (\E u \in Urls : StartFetch(u)) \/ Client \/ Peer \/ Tick

Spec == Init /\ [][Next]_vars

(* The hart that fetches keeps running and time passes; of the peer nothing is assumed. *)
FairSpec == Spec /\ WF_vars(Client) /\ WF_vars(Tick)

----------------------------------------------------------------------------
(* All bytes of a response come from the connection made for this request, nothing is left
   over from the connection before a redirect or from the TLS 1.3 attempt, and a body whose
   end the server announced (Content-Length or chunks) is handed to the caller whole, unless
   the peer ended the connection early or a TLS 1.2 record was larger than the buffer it is
   read into. *)
ResponseIsWhole ==
    /\ from \subseteq {sock.conn}
    /\ answer = "ok" /\ reply.framing # "close" =>
          \/ Len(Body(got)) = reply.n
          \/ cut
          \/ via = "tls12" /\ reply.rec > BUF

(* AES-GCM: under the keys of one TLS 1.2 connection no nonce encrypts two records, failed
   writes and the closing alert included (send_encrypted_record). *)
NoncesAreFresh == IsInjective(tls.nonces)

(* A fetch makes at most MAX_REDIRECTS requests after the first
   (http_request_follow_redirects). *)
RequestsBounded == requests <= MAX_REDIRECTS + 1

(* A fetch returns whatever the peer does, every wait having a timeout and the fallback being
   tried once, and it does so within its bound on requests. *)
FetchReturns == (pc = "resolve" ~> pc = "done") /\ []RequestsBounded
============================================================================
