----------------------------- MODULE DtlsSession -----------------------------
(***************************************************************************)
(* libdtlssrtp/dtls_srtp.c: two peers that use the library to agree on     *)
(* SRTP keys over a network that loses, repeats and reorders datagrams.    *)
(*                                                                         *)
(* The SSL object is external: the four flights of a DTLS handshake       *)
(* ("hello" and "finish" from the connecting side, "offer" and "done" from *)
(* the accepting side), their retransmission, and a fresh random number    *)
(* for every connection.  The keys are what the two random numbers give.   *)
(***************************************************************************)
EXTENDS Integers

CONSTANTS
  Peers,          \* the two endpoints
  InitialStates,  \* the con_states the two may start with
  MaxConn,        \* bound on the connections of a peer
  Resets          \* the peers that call dtls_sess_reset

\* dtls_con_state; HOLDCONN has no user and no code of its own.
ConStates == {"ACT", "PASS", "ACTPASS"}

ASSUME PeersAssumption ==
  (\E a, b \in Peers : a # b /\ Peers = {a, b}) /\ Resets \subseteq Peers
ASSUME StatesAssumption == InitialStates \subseteq [Peers -> ConStates]
ASSUME ConnAssumption == MaxConn \in Nat \ {0}

VARIABLES
  state,  \* sess->state
  type,   \* sess->type
  ssl,    \* sess->ssl
  net,    \* the datagrams under way
  shut    \* history: the peers that were reset and have not been set up since

vars == <<state, type, ssl, net, shut>>

Other(p) == CHOOSE q \in Peers : q # p

Roles == {"connect", "accept"}
Steps == {"idle", "waiting", "finished", "failed"}
Kinds == {"hello", "offer", "finish", "done"}
Randoms == 0..MaxConn
Datagrams == [to : Peers, kind : Kinds, client : Randoms, server : Randoms]

-----------------------------------------------------------------------------
(* The SSL object.  A connecting side waits for the offer while it knows no  *)
(* random number of the other side (0), and for "done" from then on.         *)

Finished(s) == s.at = "finished"

\* SSL_new or SSL_clear, then SSL_set_connect_state or SSL_set_accept_state
Fresh(role, own) == [role |-> role, at |-> "idle", own |-> own, peer |-> 0]

\* The flight that s sent last, as it is retransmitted; none before the first.
Flight(p, s) ==
  LET m(kind, c, v) == {[to |-> Other(p), kind |-> kind, client |-> c, server |-> v]}
  IN  IF s.at = "idle" THEN {}
      ELSE IF s.role = "accept"
           THEN m(IF Finished(s) THEN "done" ELSE "offer", s.peer, s.own)
           ELSE IF s.peer = 0 THEN m("hello", s.own, 0)
                              ELSE m("finish", s.own, s.peer)

\* SSL_do_handshake of a connecting side that has not begun
Begin(s) ==
  IF s.role = "connect" /\ s.at = "idle" THEN [s EXCEPT !.at = "waiting"] ELSE s

\* SSL_read of a datagram: the object afterwards.  A datagram of another
\* connection or of an earlier flight changes nothing.
Read(s, m) ==
  IF s.role = "accept"
  THEN CASE m.kind = "hello" /\ s.at = "idle" ->
              [s EXCEPT !.at = "waiting", !.peer = m.client]
         [] m.kind = "finish" /\ s.at = "waiting"
              /\ m.client = s.peer /\ m.server = s.own ->
              [s EXCEPT !.at = "finished"]
         [] OTHER -> s
  ELSE CASE m.kind \in {"hello", "finish"} /\ ~Finished(s) ->
              [s EXCEPT !.at = "failed"]
         [] m.kind = "offer" /\ s.at = "waiting" /\ s.peer = 0
              /\ m.client = s.own ->
              [s EXCEPT !.peer = m.server]
         [] m.kind = "done" /\ s.at = "waiting" /\ s.peer # 0
              /\ m.client = s.own /\ m.server = s.peer ->
              [s EXCEPT !.at = "finished"]
         [] OTHER -> s

\* The connecting side has retransmitted the flight that s has answered.
Repeated(s, m) ==
  /\ s.role = "accept"
  /\ m.client = s.peer
  /\ \/ m.kind = "hello" /\ s.at = "waiting"
     \/ m.kind = "finish" /\ s.at = "finished" /\ m.server = s.own

\* What SSL_read sends: the next flight, or the last one again.
Answer(p, s, t, m) ==
  IF (t # s /\ ~(t.role = "connect" /\ Finished(t))) \/ Repeated(s, m)
  THEN Flight(p, t)
  ELSE {}

-----------------------------------------------------------------------------
(* The library *)

\* dtls_sess_new: every state but PASS begins on the connecting side.
dtls_sess_new(con_state) ==
  Fresh(IF con_state = "PASS" THEN "accept" ELSE "connect", 1)

\* put_packet of a session that may still take either role: accept.
Accepting(p) ==
  IF state[p] = "ACTPASS" THEN Fresh("accept", ssl[p].own) ELSE ssl[p]

\* Mutant of dtls_sess_put_packet: the type is looked at before the datagram is
\* read.
dtls_sess_put_packetEarly(p, m) ==
  LET s == Begin(Accepting(p))
      t == Read(s, m)
  IN  /\ state' = [state EXCEPT ![p] = IF @ = "ACTPASS" THEN "PASS" ELSE @]
      /\ ssl' = [ssl EXCEPT ![p] = t]
      /\ type' = [type EXCEPT ![p] = IF Finished(s) THEN "EXISTING" ELSE @]
      /\ net' = net \cup Answer(p, s, t, m)
                   \cup (IF s # Accepting(p) THEN Flight(p, s) ELSE {})

\* dtls_sess_put_packet.  Reading makes a connecting side begin.  After an SSL
\* error it returns early: nothing is sent and the type stays.  What the SSL
\* object has written, the hello of a side that has just begun, stays pending.
dtls_sess_put_packet(p, m) ==
  LET s == Begin(Accepting(p))
      t == Read(s, m)
  IN  /\ state' = [state EXCEPT ![p] = IF @ = "ACTPASS" THEN "PASS" ELSE @]
      /\ ssl' = [ssl EXCEPT ![p] = t]
      /\ type' = [type EXCEPT ![p] = IF Finished(t) THEN "EXISTING" ELSE @]
      /\ \E kept \in SUBSET {m} :
           net' = (net \ {m}) \cup kept
                    \cup (IF t.at = "failed" THEN {}
                          ELSE Answer(p, s, t, m)
                                 \cup (IF s # Accepting(p) THEN Flight(p, s)
                                                           ELSE {}))

Deliver(p, m) ==
  /\ m.to = p
  /\ dtls_sess_put_packet(p, m)
  /\ UNCHANGED shut

\* Mutant of dtls_do_handshake: the session takes the wrong one of its two roles.
dtls_do_handshakePassive(p) ==
  /\ state[p] \in {"ACT", "ACTPASS"}
  /\ state' = [state EXCEPT ![p] = IF @ = "ACTPASS" THEN "PASS" ELSE @]
  /\ ssl' = [ssl EXCEPT ![p] = Begin(@)]
  /\ net' = net \cup (IF ssl'[p] # ssl[p] THEN Flight(p, ssl'[p]) ELSE {})
  /\ UNCHANGED <<type, shut>>

\* dtls_do_handshake: a session that may take either role connects.
dtls_do_handshake(p) ==
  /\ state[p] \in {"ACT", "ACTPASS"}
  /\ state' = [state EXCEPT ![p] = "ACT"]
  /\ ssl' = [ssl EXCEPT ![p] = Begin(@)]
  /\ net' = net \cup (IF ssl'[p] # ssl[p] THEN Flight(p, ssl'[p]) ELSE {})
  /\ UNCHANGED <<type, shut>>

\* Mutant of dtls_sess_handle_timeout: nothing is retransmitted.
dtls_sess_handle_timeoutIdle(p) == ~Finished(ssl[p]) /\ UNCHANGED vars

\* dtls_sess_handle_timeout: retransmit while the handshake is not finished.
\* After an SSL error this also stands for the start of the next put_packet or
\* dtls_do_handshake, which send what was left pending.
dtls_sess_handle_timeout(p) ==
  /\ ~Finished(ssl[p])
  /\ net' = net \cup Flight(p, ssl[p])
  /\ UNCHANGED <<state, type, ssl, shut>>

\* Mutant of dtls_sess_setup: the type stays.
dtls_sess_setupKeepsType(p) ==
  /\ Finished(ssl[p])
  /\ ssl[p].own < MaxConn
  /\ ssl' = [ssl EXCEPT ![p] =
               Fresh(IF state[p] = "PASS" THEN "accept" ELSE "connect", @.own + 1)]
  /\ shut' = shut \ {p}
  /\ UNCHANGED <<state, type, net>>

\* dtls_sess_setup: a finished session starts over, in the role it has.
dtls_sess_setup(p) ==
  /\ Finished(ssl[p])
  /\ ssl[p].own < MaxConn
  /\ ssl' = [ssl EXCEPT ![p] =
               Fresh(IF state[p] = "PASS" THEN "accept" ELSE "connect", @.own + 1)]
  /\ type' = [type EXCEPT ![p] = "NEW"]
  /\ shut' = shut \ {p}
  /\ UNCHANGED <<state, net>>

\* dtls_sess_reset: SSL_shutdown leaves the handshake finished.
dtls_sess_reset(p) ==
  /\ p \in Resets
  /\ Finished(ssl[p])
  /\ type' = [type EXCEPT ![p] = "NEW"]
  /\ shut' = shut \cup {p}
  /\ UNCHANGED <<state, ssl, net>>

Lose(m) == net' = net \ {m} /\ UNCHANGED <<state, type, ssl, shut>>

Init ==
  /\ state \in InitialStates
  /\ type = [p \in Peers |-> "NEW"]
  /\ ssl = [p \in Peers |-> dtls_sess_new(state[p])]
  /\ net = {}
  /\ shut = {}

Next ==
  \/ \E p \in Peers :
       \/ dtls_do_handshake(p)
       \/ dtls_sess_handle_timeout(p)
       \/ dtls_sess_setup(p)
       \/ dtls_sess_reset(p)
       \/ \E m \in net : Deliver(p, m)
  \/ \E m \in net : Lose(m)

Spec == Init /\ [][Next]_vars

\* The application starts the handshake, its timer fires, and a datagram that
\* is sent again and again arrives.
FairSpec ==
  /\ Spec
  /\ \A p \in Peers :
       /\ WF_vars(dtls_do_handshake(p))
       /\ WF_vars(dtls_sess_handle_timeout(p))
  /\ \A k \in Kinds :
       SF_vars(\E p \in Peers, m \in net : m.kind = k /\ Deliver(p, m))

-----------------------------------------------------------------------------
(* Key material *)

Key(p) ==
  IF ssl[p].role = "connect" THEN <<ssl[p].own, ssl[p].peer>>
                             ELSE <<ssl[p].peer, ssl[p].own>>

\* Mutant of localkey: the parts are swapped.
localkeyFirst(p) == <<Key(p), "client">>

\* srtp_key_material_extract: the client's part comes first.
localkey(p) == <<Key(p), IF state[p] = "ACT" THEN "client" ELSE "server">>
remotekey(p) == <<Key(p), IF state[p] = "ACT" THEN "server" ELSE "client">>

-----------------------------------------------------------------------------
(* Properties *)

\* The types of the sessions and of the datagrams; a session is reported as
\* existing (dtls_srtp.c:242) only while its handshake is finished, so that
\* srtp_get_key_material has keys to export.
TypeOK ==
  /\ state \in [Peers -> ConStates]
  /\ type \in [Peers -> {"NEW", "EXISTING"}]
  /\ ssl \in [Peers -> [role : Roles, at : Steps, own : 1..MaxConn, peer : Randoms]]
  /\ net \subseteq Datagrams
  /\ shut \subseteq Peers
  /\ \A p \in Peers : type[p] = "EXISTING" => Finished(ssl[p])

\* When both ends have established the same connection, the key one encrypts
\* with is the key the other decrypts with, whichever of them called
\* dtls_do_handshake or was called first (dtls_srtp.h:303, dtls_srtp.c:225,
\* :265, :321).
KeysComplementary ==
  \A p, q \in Peers :
    (p # q /\ type[p] = "EXISTING" /\ type[q] = "EXISTING" /\ Key(p) = Key(q))
      => localkey(p) = remotekey(q) /\ remotekey(p) = localkey(q)

\* Two ends never report a connection in the same role, and neither reports one
\* before it has settled on its role: ends that may take either and both connect
\* (dtls_srtp.c:265), or both accept (dtls_srtp.c:225), get no connection at all.
RolesOpposite ==
  \A p, q \in Peers :
    (p # q /\ type[p] = "EXISTING") => {state[p], state[q]} = {"ACT", "PASS"}

\* The connecting end never reports a connection (dtls_srtp.c:242) that the
\* other end has not finished: unless that end has started over since, it has
\* the same keys and reports them too.
ClientFinishesLast ==
  \A p, q \in Peers :
    (p # q /\ type[p] = "EXISTING" /\ ssl[p].role = "connect"
       /\ ssl[q].own = ssl[p].peer)
      => Key(q) = Key(p) /\ (type[q] = "EXISTING" \/ q \in shut)

\* An end that accepts and one that connects, or may do either, both establish
\* the connection in the end, however many datagrams are lost, the last flight
\* included (dtls_srtp.c:283): unless the other end has started over meanwhile
\* and no longer answers for the first connection.
BothEstablish ==
  (\E p \in Peers : state[p] = "PASS" /\ state[Other(p)] # "PASS")
    => \A p \in Peers : <>(type[p] = "EXISTING" \/ ssl[Other(p)].own > 1)
=============================================================================
