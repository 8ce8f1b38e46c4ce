---------------------------- MODULE FetchProofs ----------------------------
(***************************************************************************)
(* Theorems about Fetch, for any servers, replies, buffer size, timeout    *)
(* and limit of redirects.                                                 *)
(***************************************************************************)
EXTENDS Fetch, TLAPS

(* A Tls12Connection. *)
Tls == [step : Nat, client_seq : Nat, server_seq : Nat, nonces : Seq(Nat)]

(* Every nonce used so far is smaller than the next one. *)
NonceIInv ==
    /\ tls \in Tls
    /\ \A i \in DOMAIN tls.nonces : tls.nonces[i] < tls.client_seq
    /\ NoncesAreFresh

(* What a step makes of a TLS connection t. *)
TlsSteps(t) ==
    {t, FreshTls, NextStep(t), recv_encrypted_record(t), send_encrypted_record(t),
     NextStep(send_encrypted_record(t)), NextStep(recv_encrypted_record(t)),
     send_encrypted_record(recv_encrypted_record(t))}

(* Every action leaves the TLS connection alone, makes a new one, or takes a step of the
   handshake with at most one record encrypted and one decrypted. *)
LEMMA TlsStep == [Next]_vars => tls' \in TlsSteps(tls)
<1> SUFFICES ASSUME [Next]_vars PROVE tls' \in TlsSteps(tls)
  OBVIOUS
<1> USE DEF TlsSteps
<1>1. ASSUME NEW u \in Urls, StartFetch(u) PROVE tls' \in TlsSteps(tls)
  BY <1>1 DEF StartFetch
<1>2. CASE Resolve
  BY <1>2 DEF Resolve
<1>3. CASE Connect
  BY <1>3 DEF Connect
<1>4. CASE Connected \/ ConnectTimeout
  BY <1>4 DEF Connected, ConnectTimeout
<1>5. CASE Parse
  BY <1>5 DEF Parse
<1>6. CASE SendRequest \/ RecvPlain \/ RecvTimeout
  BY <1>6, SMTT(30), ZenonT(30) DEF SendRequest, RecvPlain, RecvTimeout
<1>7. CASE Open13 \/ Opened13 \/ Send13 \/ Recv13
  BY <1>7 DEF Open13, Opened13, Send13, Recv13
<1>8. CASE HandshakeSends
  BY <1>8, Zenon DEF HandshakeSends
<1>9. CASE HandshakeReceives
  BY <1>9, Zenon DEF HandshakeReceives
<1>10. CASE HandshakeComputes
  BY <1>10, ZenonT(30) DEF HandshakeComputes
<1>11. CASE Send12
  BY <1>11 DEF Send12
<1>12. CASE Recv12
  BY <1>12, ZenonT(30) DEF Recv12, close
<1>13. CASE Peer
  BY <1>13 DEF Peer, PeerAccepts, PeerSends, PeerRejects, PeerEnds, PeerAborts, client
<1>14. CASE Tick
  BY <1>14 DEF Tick
<1>15. CASE UNCHANGED vars
  BY <1>15 DEF vars, client
<1> QED
  BY <1>1, <1>2, <1>3, <1>4, <1>5, <1>6, <1>7, <1>8, <1>9, <1>10, <1>11, <1>12, <1>13,
     <1>14, <1>15 DEF Next, Client

(* A connection whose nonces are below its counter, and what the next record adds. *)
LEMMA RecordKeepsFresh ==
    ASSUME NEW t \in Tls,
           \A i \in DOMAIN t.nonces : t.nonces[i] < t.client_seq,
           IsInjective(t.nonces),
           NEW s \in TlsSteps(t)
    PROVE  /\ s \in Tls
           /\ \A i \in DOMAIN s.nonces : s.nonces[i] < s.client_seq
           /\ IsInjective(s.nonces)
<1> DEFINE Used == Append(t.nonces, t.client_seq)
<1>0. t.step \in Nat /\ t.client_seq \in Nat /\ t.server_seq \in Nat /\ t.nonces \in Seq(Nat)
  BY DEF Tls
<1>1. /\ Used \in Seq(Nat)
      /\ \A i \in DOMAIN Used : Used[i] < t.client_seq + 1
      /\ IsInjective(Used)
  <2>1. /\ Used \in Seq(Nat) /\ Len(Used) = Len(t.nonces) + 1
        /\ \A i \in 1 .. Len(t.nonces) : Used[i] = t.nonces[i]
        /\ Used[Len(t.nonces) + 1] = t.client_seq
    BY <1>0
  <2>2. DOMAIN Used = 1 .. Len(t.nonces) + 1 /\ DOMAIN t.nonces = 1 .. Len(t.nonces)
        /\ Len(t.nonces) \in Nat
    BY <1>0, <2>1
  <2>3. \A i \in 1 .. Len(t.nonces) : t.nonces[i] \in Nat /\ t.nonces[i] < t.client_seq
    BY <1>0, <2>2, SMTT(30), ZenonT(30)
  <2> HIDE DEF Used
  <2>4. \A i \in DOMAIN Used : Used[i] < t.client_seq + 1
    <3> SUFFICES ASSUME NEW i \in 1 .. Len(t.nonces) + 1 PROVE Used[i] < t.client_seq + 1
      BY <2>2
    <3>1. CASE i \in 1 .. Len(t.nonces)
      <4>1. Used[i] \in Nat /\ Used[i] < t.client_seq
        BY <2>1, <2>3, <3>1, SMTT(30), ZenonT(30)
      <4> QED
        BY <1>0, <4>1
    <3>2. CASE i = Len(t.nonces) + 1
      BY <1>0, <2>1, <3>2, SMTT(30), ZenonT(30)
    <3> QED
      BY <2>2, <3>1, <3>2, SMTT(30), ZenonT(30)
  <2>5. IsInjective(Used)
    <3> SUFFICES ASSUME NEW i \in 1 .. Len(t.nonces) + 1, NEW j \in 1 .. Len(t.nonces) + 1,
                        Used[i] = Used[j]
                 PROVE  i = j
      BY <2>2 DEF IsInjective
    <3>1. CASE i \in 1 .. Len(t.nonces) /\ j \in 1 .. Len(t.nonces)
      BY <2>1, <2>2, <3>1, ZenonT(30) DEF IsInjective
    <3>2. CASE i = Len(t.nonces) + 1 /\ j \in 1 .. Len(t.nonces)
      BY <1>0, <2>1, <2>3, <3>2, SMTT(30)
    <3>3. CASE i \in 1 .. Len(t.nonces) /\ j = Len(t.nonces) + 1
      BY <1>0, <2>1, <2>3, <3>3, SMTT(30)
    <3> QED
      BY <2>2, <3>1, <3>2, <3>3, SMTT(30)
  <2> QED
    BY <2>1, <2>4, <2>5, SMTT(30), ZenonT(30)
<1> HIDE DEF Used
<1>2. CASE s = FreshTls
  BY <1>2 DEF Tls, FreshTls, IsInjective
<1>3. ASSUME NEW u \in {t, recv_encrypted_record(t)}, s \in {u, NextStep(u)}
      PROVE  s \in Tls /\ s.nonces = t.nonces /\ s.client_seq = t.client_seq
  <2>1. u \in Tls /\ u.nonces = t.nonces /\ u.client_seq = t.client_seq
    BY <1>0, <1>3, SMTT(30), ZenonT(30) DEF Tls, recv_encrypted_record
  <2> QED
    BY <1>3, <2>1 DEF Tls, NextStep
<1>4. ASSUME NEW u \in {t, recv_encrypted_record(t)},
             s \in {send_encrypted_record(u), NextStep(send_encrypted_record(u))}
      PROVE  s \in Tls /\ s.nonces = Used /\ s.client_seq = t.client_seq + 1
  <2>1. u \in Tls /\ u.nonces = t.nonces /\ u.client_seq = t.client_seq
    BY <1>0, <1>4 DEF Tls, recv_encrypted_record
  <2>2. /\ send_encrypted_record(u) \in Tls
        /\ send_encrypted_record(u).nonces = Used
        /\ send_encrypted_record(u).client_seq = t.client_seq + 1
    <3>1. Append(u.nonces, u.client_seq) = Used /\ Used \in Seq(Nat)
      BY <1>1, <2>1 DEF Used
    <3>2. send_encrypted_record(u) = [u EXCEPT !.client_seq = t.client_seq + 1, !.nonces = Used]
      BY <2>1, <3>1 DEF send_encrypted_record, Tls
    <3>3. PICK n, q : n = t.client_seq + 1 /\ q = Used
      OBVIOUS
    <3>4. n \in Nat /\ q \in Seq(Nat)
      BY <1>0, <3>1, <3>3, SMTT(30), ZenonT(30)
    <3>5. send_encrypted_record(u) = [u EXCEPT !.client_seq = n, !.nonces = q]
      BY <3>2, <3>3, ZenonT(30)
    <3>6. /\ send_encrypted_record(u) \in Tls
          /\ send_encrypted_record(u).nonces = q
          /\ send_encrypted_record(u).client_seq = n
      BY <2>1, <3>4, <3>5, ZenonT(30) DEF Tls
    <3> QED
      BY <3>3, <3>6, ZenonT(30)
  <2> QED
    BY <1>4, <2>2, SMTT(30) DEF Tls, NextStep
<1>5. CASE s \in {t, NextStep(t), recv_encrypted_record(t), NextStep(recv_encrypted_record(t))}
  <2>1. s \in Tls /\ s.nonces = t.nonces /\ s.client_seq = t.client_seq
    BY <1>3, <1>5
  <2> QED
    BY <2>1
<1>6. CASE s \in {send_encrypted_record(t), NextStep(send_encrypted_record(t)),
                  send_encrypted_record(recv_encrypted_record(t))}
  <2>1. s \in Tls /\ s.nonces = Used /\ s.client_seq = t.client_seq + 1
    BY <1>4, <1>6
  <2> QED
    BY <1>1, <2>1, SMTT(30), ZenonT(30)
<1> QED
  BY <1>2, <1>5, <1>6, SMTT(30), ZenonT(30) DEF TlsSteps

(* AES-GCM: no nonce encrypts two records of a TLS 1.2 connection, whatever the peer does
   and however writes fail (send_encrypted_record, close). *)
THEOREM FetchNonces == Spec => []NoncesAreFresh
<1>1. Init => NonceIInv
  BY DEF Init, NonceIInv, NoncesAreFresh, Tls, FreshTls, IsInjective
<1>2. NonceIInv /\ [Next]_vars => NonceIInv'
  BY TlsStep, RecordKeepsFresh DEF NonceIInv, NoncesAreFresh
<1>3. NonceIInv => NoncesAreFresh
  BY DEF NonceIInv
<1> QED
  BY <1>1, <1>2, <1>3, PTL DEF Spec

-----------------------------------------------------------------------------
(* A request has been made per redirect followed, and one more once the connection of the
   current one is being made; the TLS 1.2 attempt is no new request. *)
RedirectIInv ==
    /\ redirects \in Nat /\ requests \in Nat /\ via \in Vias
    /\ pc # "done" => redirects <= MAX_REDIRECTS /\ requests <= redirects + 1
    /\ pc = "resolve" \/ (pc = "connect" /\ via # "tls12") => requests <= redirects
    /\ RequestsBounded

(* Steps that follow no redirect and make no request go on with the current request. *)
SameRequest ==
    /\ UNCHANGED <<redirects, requests>>
    /\ via' \in Vias
    /\ pc' # "done" => pc # "done"
    /\ pc' # "resolve"
    /\ pc' = "connect" /\ via' # "tls12" => pc = "resolve" \/ (pc = "connect" /\ via # "tls12")

LEMMA SameRequestKeeps == RedirectIInv /\ SameRequest => RedirectIInv'
  BY DEF RedirectIInv, SameRequest, RequestsBounded

(* A failed attempt goes on with TLS 1.2 or ends the fetch. *)
LEMMA FailGoesOn ==
    Fail => \/ pc' = "done" /\ via' = via
            \/ pc' = "connect" /\ via' = "tls12"
  BY SMTT(30) DEF Fail, Finish

(* However servers redirect, a fetch makes at most MAX_REDIRECTS requests after the first
   (http_request_follow_redirects). *)
THEOREM FetchRequests == Spec => []RequestsBounded
<1>1. Init => RedirectIInv
  BY FetchAssumption DEF Init, RedirectIInv, RequestsBounded, Vias
<1>2. RedirectIInv /\ [Next]_vars => RedirectIInv'
  <2> SUFFICES ASSUME RedirectIInv, [Next]_vars PROVE RedirectIInv'
    OBVIOUS
  <2>0. via \in Vias
    BY DEF RedirectIInv
  <2>1. ASSUME NEW u \in Urls, StartFetch(u) PROVE RedirectIInv'
    BY <2>1, FetchAssumption DEF StartFetch, RedirectIInv, RequestsBounded
  <2>2. CASE Resolve
    BY <2>2 DEF Resolve, Finish, RedirectIInv, RequestsBounded, Vias
  <2>3. CASE Connect
    BY <2>3, FetchAssumption DEF Connect, RedirectIInv, RequestsBounded
  <2>4. CASE Parse
    BY <2>4, FetchAssumption DEF Parse, Redirect, Finish, RedirectIInv, RequestsBounded
  <2>5. CASE Connected \/ ConnectTimeout
    <3>1. SameRequest
      BY <2>5, <2>0, FailGoesOn, SMTT(30) DEF Connected, ConnectTimeout, SameRequest, Vias
    <3> QED
      BY <3>1, SameRequestKeeps
  <2>6. CASE SendRequest \/ RecvPlain \/ RecvTimeout
    BY <2>6, <2>0, SameRequestKeeps, SMTT(30) DEF SendRequest, RecvPlain, RecvTimeout, Finish, SameRequest, Vias
  <2>7. CASE Open13 \/ Send13
    BY <2>7, <2>0, FailGoesOn, SameRequestKeeps, SMTT(30) DEF Open13, Send13, WriteEnds, SameRequest, Vias
  <2>8. CASE Opened13
    BY <2>8, <2>0, FailGoesOn, SameRequestKeeps, SMTT(30) DEF Opened13, SameRequest, Vias
  <2>9. CASE Recv13
    BY <2>9, <2>0, FailGoesOn, SameRequestKeeps, SMTT(30), ZenonT(30) DEF Recv13, SameRequest, Vias
  <2>10. CASE HandshakeSends
    BY <2>10, <2>0, FailGoesOn, SameRequestKeeps, SMTT(30) DEF HandshakeSends, WriteEnds, SameRequest, Vias
  <2>11. CASE HandshakeReceives
    BY <2>11, <2>0, FailGoesOn, SameRequestKeeps, SMTT(30) DEF HandshakeReceives, SameRequest, Vias
  <2>12. CASE HandshakeComputes
    BY <2>12, <2>0, FailGoesOn, SameRequestKeeps, SMTT(30) DEF HandshakeComputes, SameRequest, Vias
  <2>13. CASE Send12
    BY <2>13, <2>0, FailGoesOn, SameRequestKeeps, SMTT(30) DEF Send12, WriteEnds, SameRequest, Vias
  <2>14. CASE Recv12
    BY <2>14, <2>0, FailGoesOn, SameRequestKeeps, SMTT(30) DEF Recv12, SameRequest, Vias
  <2>15. CASE Peer \/ UNCHANGED vars
    BY <2>15 DEF Peer, PeerAccepts, PeerSends, PeerRejects, PeerEnds, PeerAborts, vars, client,
                 RedirectIInv, RequestsBounded
  <2>16. CASE Tick
    BY <2>16 DEF Tick, RedirectIInv, RequestsBounded
  <2> QED
    BY <2>1, <2>2, <2>3, <2>4, <2>5, <2>6, <2>7, <2>8, <2>9, <2>10, <2>11, <2>12, <2>13,
       <2>14, <2>15, <2>16 DEF Next, Client
<1>3. RedirectIInv => RequestsBounded
  BY Zenon DEF RedirectIInv
<1> QED
  BY <1>1, <1>2, <1>3, PTL DEF Spec
============================================================================
