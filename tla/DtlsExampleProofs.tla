-------------------------- MODULE DtlsExampleProofs --------------------------
(***************************************************************************)
(* What main of example.c has acquired when it ends and what it may rely   *)
(* on when it returns 0, for both programs and whatever the environment    *)
(* does.                                                                   *)
(***************************************************************************)
EXTENDS DtlsExample, DtlsSessionProofs, TLAPS

Resources == {"openssl", "cert", "pkey", "ctx", "fd", "session"}
Stages == {"main", "certificate", "key", "context", "address", "socket",
           "mainloop", "loop", "close", "cleanup", "exited", "refused", "crashed"}

\* What Cleanup does not release, mainloop and CloseSocket have released
\* before it: the session is held only inside of the loop, the socket only
\* until it is closed.
Released(q) ==
  /\ held[q] \subseteq Resources
  /\ "session" \in held[q] => pc[q] \in {"loop", "crashed"}
  /\ "fd" \in held[q] => pc[q] \in {"mainloop", "loop", "close", "crashed"}
  /\ pc[q] = "exited" => held[q] = {}

Inv ==
  /\ pc \in [Peers -> Stages]
  /\ held \in [Peers -> SUBSET Resources]
  /\ \A q \in Peers : Released(q)

LEMMA InitInv == ExampleInit => Inv
<1> SUFFICES ASSUME ExampleInit PROVE Inv
  OBVIOUS
<1>1. pc \in [Peers -> Stages] /\ held \in [Peers -> SUBSET Resources]
  BY DEF ExampleInit, Stages, Resources
<1>2. ASSUME NEW q \in Peers PROVE held[q] = {} /\ pc[q] = "main"
  BY DEF ExampleInit
<1>3. ASSUME NEW q \in Peers PROVE Released(q)
  BY <1>2 DEF Released
<1>4. QED
  BY <1>1, <1>3 DEF Inv

\* A step of main on its way to mainloop.
LEMMA AcquireInv ==
  ASSUME Inv, NEW p \in Peers, NEW at, NEW resource, NEW next,
         <<at, resource, next>> \in {<<"certificate", "cert", "key">>,
                                     <<"key", "pkey", "context">>,
                                     <<"context", "ctx", "address">>},
         Acquire(p, at, resource, next)
  PROVE  Inv'
<1>1. CASE held' = [held EXCEPT ![p] = @ \cup {resource}] /\ GoTo(p, next)
  BY <1>1 DEF Inv, Released, Resources, Stages, Acquire, At, GoTo
<1>2. CASE GoTo(p, "cleanup") /\ UNCHANGED held
  BY <1>2 DEF Inv, Released, Resources, Stages, Acquire, At, GoTo
<1>3. QED
  BY <1>1, <1>2 DEF Acquire

\* A step that leaves held alone and ends nothing.
LEMMA KeepInv ==
  ASSUME Inv, NEW p \in Peers, UNCHANGED held,
         \/ UNCHANGED pc
         \/ GoTo(p, "crashed")
         \/ At(p, "address") /\ (GoTo(p, "socket") \/ GoTo(p, "cleanup"))
  PROVE  Inv'
  BY DEF Inv, Released, Resources, Stages, GoTo, At

\* Out of the loop.
LEMMA BreakInv ==
  ASSUME Inv, NEW p \in Peers, Break(p)
  PROVE  Inv'
  BY DEF Inv, Released, Resources, Stages, GoTo, Break, At

LEMMA StepInv ==
  ASSUME Inv, [ExampleNext]_exampleVars
  PROVE  Inv'
<1>1. CASE UNCHANGED exampleVars
  BY <1>1 DEF exampleVars, process, Inv, Released
<1>2. ASSUME NEW p \in Peers, ParseOptions(p)  PROVE Inv'
  BY <1>2 DEF Inv, Released, Resources, Stages, ParseOptions, GoTo, At
<1>3. ASSUME NEW p \in Peers,
             ReadCertificate(p) \/ ReadPrivateKey(p) \/ dtls_ctx_init(p)
      PROVE  Inv'
  <2>1. CASE ReadCertificate(p)
    BY <2>1, AcquireInv DEF ReadCertificate
  <2>2. CASE ReadPrivateKey(p)
    BY <2>2, AcquireInv DEF ReadPrivateKey
  <2>3. CASE dtls_ctx_init(p)
    BY <2>3, AcquireInv DEF dtls_ctx_init
  <2>4. QED
    BY <1>3, <2>1, <2>2, <2>3
<1>4. ASSUME NEW p \in Peers, prepare_udp_socket(p)  PROVE Inv'
  BY <1>4 DEF Inv, Released, Resources, Stages, prepare_udp_socket, GoTo, At
<1>5. ASSUME NEW p \in Peers, BeginMainloop(p)  PROVE Inv'
  BY <1>5 DEF Inv, Released, Resources, Stages, BeginMainloop, GoTo, At
<1>6. ASSUME NEW p \in Peers,
             LeaveLoop(p) \/ SocketError(p) \/ PutPacketFails(p)
      PROVE  Inv'
  BY <1>6, BreakInv DEF LeaveLoop, SocketError, PutPacketFails
<1>7. ASSUME NEW p \in Peers, CloseSocket(p)  PROVE Inv'
  BY <1>7 DEF Inv, Released, Resources, Stages, CloseSocket, GoTo, At
<1>8. ASSUME NEW p \in Peers, Cleanup(p)  PROVE Inv'
  BY <1>8 DEF Inv, Released, Resources, Stages, Cleanup, GoTo, At
<1>9. ASSUME NEW p \in Peers,
             Crash(p) \/ LoopAgain(p) \/ setexit(p) \/ makesockaddr(p)
      PROVE  Inv'
  BY <1>9, KeepInv DEF Crash, LoopAgain, setexit, makesockaddr, exampleVars, process
<1>10. ASSUME NEW p \in Peers, NEW m \in net, PutPacket(p, m)  PROVE Inv'
  BY <1>10, BreakInv, KeepInv DEF PutPacket
<1>11. ASSUME NEW m \in net, LoseDatagram(m)  PROVE Inv'
  BY <1>11 DEF LoseDatagram, process, Inv, Released
<1>12. QED
  BY <1>1, <1>2, <1>3, <1>4, <1>5, <1>6, <1>7, <1>8, <1>9, <1>10, <1>11
     DEF ExampleNext, Run

\* Whichever of its calls fails, in whatever order packets, errors and signals
\* come, main of example.c leaves nothing acquired when it gets to its end
\* (example.c:348, :461 to :469).
THEOREM EverythingReleased == ExampleSpec => []NothingLeft
<1>1. Inv => NothingLeft
  BY DEF Inv, Released, NothingLeft, At
<1>2. QED
  BY <1>1, InitInv, StepInv, PTL DEF ExampleSpec

-----------------------------------------------------------------------------
(* What the client's exit status says *)

\* What a client that has printed keys and is about to return 0 relies on; p is the
\* server.
Vouched(p) ==
  /\ type[p] = "EXISTING"
  /\ printed[Client] = <<remotekey(p), localkey(p)>>

Early == {"main", "certificate", "key", "context", "address", "socket", "mainloop"}

\* The client has sent nothing, so that the server has nothing to answer.
Silent ==
  /\ net = {}
  /\ \A p \in Peers : ssl[p].at \in {"idle", "failed"}

\* Nothing has been sent before the client's mainloop, nor by a client whose
\* handshake has returned 0 and that has printed nothing.
StatusOK ==
  /\ pc[Client] \in Early => printed[Client] = NotPrinted /\ ret[Client] # "zero"
  /\ (pc[Client] \in Early \/ (ret[Client] = "zero" /\ printed[Client] = NotPrinted))
       => Silent
  /\ (ret[Client] = "zero" /\ printed[Client] # NotPrinted) => Vouched(Server)

\* Neither program starts over or shuts down, and both leave the loop with the
\* datagram that finishes their handshake, before anything else can be read.
ExitInv ==
  /\ Inv
  /\ SessionInv
  /\ FirstConnection
  /\ state[Server] = "PASS" /\ state[Client] = "ACT"
  /\ \A p \in Peers : Finished(ssl[p]) => pc[p] \in {"close", "cleanup", "exited"}
  /\ DOMAIN ret = Peers /\ DOMAIN printed = Peers
  /\ StatusOK

LEMMA Programs ==
  /\ Peers = {Client, Server} /\ Client # Server
  /\ Other(Client) = Server /\ Other(Server) = Client
  BY ProgramsAssumption, TwoPeers

LEMMA ExitInitInv == ExampleInit => ExitInv
<1> SUFFICES ASSUME ExampleInit PROVE ExitInv
  OBVIOUS
<1>1. Init /\ Inv
  BY InitInv DEF ExampleInit
<1>2. SessionInv /\ FirstConnection
  BY <1>1, SessionInitInv, FirstInit
<1>3. state[Server] = "PASS" /\ state[Client] = "ACT"
  BY <1>1, RolesAssumption DEF Init
<1>4. \A p \in Peers : ~Finished(ssl[p])
  BY <1>1 DEF Init, dtls_sess_new, Fresh, Finished
<1>5. DOMAIN ret = Peers /\ DOMAIN printed = Peers /\ StatusOK
  <2>1. ret[Client] # "zero" /\ printed[Client] = NotPrinted
    BY Programs DEF ExampleInit
  <2>2. Silent
    BY <1>1 DEF Init, dtls_sess_new, Fresh, Silent
  <2>3. QED
    BY <2>1, <2>2 DEF StatusOK, ExampleInit
<1>6. QED
  BY <1>1, <1>2, <1>3, <1>4, <1>5 DEF ExitInv

\* A step that keeps the connections keeps what they say.
LEMMA CoreKept ==
  ASSUME ExitInv, Inv', NEW p \in Peers, KeepsConnection(p),
         DOMAIN ret' = Peers, DOMAIN printed' = Peers, StatusOK',
         \A q \in Peers : Finished(ssl'[q]) => pc'[q] \in {"close", "cleanup", "exited"}
  PROVE  ExitInv'
<1>1. SessionInv' /\ FirstConnection'
  BY SameConnection, FirstKept DEF ExitInv
<1>2. state'[Server] = "PASS" /\ state'[Client] = "ACT"
  BY Programs, ConnectionKept DEF ExitInv
<1>3. QED
  BY <1>1, <1>2 DEF ExitInv, Finished

\* A step that keeps the connections and does not make the client succeed, or send
\* anything before its mainloop or after a handshake that has returned 0.
LEMMA ExitKept ==
  ASSUME ExitInv, Inv', NEW p \in Peers, KeepsConnection(p),
         DOMAIN ret' = Peers, DOMAIN printed' = Peers,
         printed'[Client] = printed[Client],
         ret'[Client] # ret[Client] => ret'[Client] # "zero" /\ pc'[Client] \notin Early,
         pc'[Client] \in Early => pc[Client] \in Early,
         Silent => Silent' \/ (ret'[Client] # "zero" /\ pc'[Client] \notin Early),
         \A q \in Peers : Finished(ssl'[q]) => pc'[q] \in {"close", "cleanup", "exited"}
  PROVE  ExitInv'
<1>1. /\ state'[Server] = "PASS"
      /\ type[Server] = "EXISTING" => type'[Server] = "EXISTING"
      /\ Finished(ssl[Server]) => ssl'[Server] = ssl[Server]
  BY Programs, ConnectionKept DEF ExitInv
<1>2. type[Server] = "EXISTING" => Finished(ssl[Server])
  BY Programs DEF ExitInv, SessionInv, TypeOK
<1>3. Vouched(Server) => Vouched(Server)'
  <2> SUFFICES ASSUME Vouched(Server) PROVE Vouched(Server)'
    OBVIOUS
  <2>1. /\ type'[Server] = "EXISTING" /\ ssl'[Server] = ssl[Server]
        /\ state'[Server] = state[Server]
    BY <1>1, <1>2 DEF Vouched, ExitInv
  <2>2. QED
    BY <2>1 DEF Vouched, remotekey, localkey, Key
<1>4. StatusOK'
  <2>1. StatusOK
    BY DEF ExitInv
  <2>2. QED
    BY <1>3, <2>1 DEF StatusOK, NotPrinted
<1>5. QED
  BY <1>4, CoreKept

\* A step that leaves the sessions and the network alone.
LEMMA QuietKept ==
  ASSUME ExitInv, Inv', UNCHANGED <<vars, ret, printed>>, NEW p \in Peers,
         \/ UNCHANGED pc
         \/ ~Finished(ssl[p]) /\ \E stage : GoTo(p, stage)
         \/ GoTo(p, "cleanup") \/ GoTo(p, "exited"),
         pc'[Client] \in Early => pc[Client] \in Early
  PROVE  ExitInv'
<1>1. KeepsConnection(p)
  <2>1. UNCHANGED <<state, type, ssl, shut>> /\ net' \subseteq net
    BY DEF vars
  <2>2. QED
    BY <2>1, StillKeeps DEF ExitInv
<1>2. \A q \in Peers : Finished(ssl'[q]) => pc'[q] \in {"close", "cleanup", "exited"}
  BY DEF ExitInv, Inv, vars, GoTo
<1>3. Silent => Silent'
  BY DEF Silent, vars
<1>4. QED
  BY <1>1, <1>2, <1>3, ExitKept DEF ExitInv

\* Inside of mainloop's loop, and before it, no handshake is finished.
LEMMA LoopUnfinished ==
  ASSUME ExitInv, NEW p \in Peers, pc[p] \notin {"close", "cleanup", "exited"}
  PROVE  ~Finished(ssl[p])
  BY DEF ExitInv

\* The client's first flight is lost: its object has begun all the same.
LEMMA LostKeeps ==
  ASSUME SessionInv, NEW p \in Peers, state[p] = "ACT", ~Finished(ssl[p]),
         ssl' = [ssl EXCEPT ![p] = Begin(@)],
         UNCHANGED <<state, type, net, shut>>
  PROVE  KeepsConnection(p) /\ ~Finished(ssl'[p])
<1> DEFINE t == Begin(ssl[p])
<1>1. /\ ssl[p] \in Objects /\ RoleOK(p) /\ type[p] \in {"NEW", "EXISTING"}
      /\ type[p] = "EXISTING" => Finished(ssl[p])
      /\ ssl'[p] = t
  BY DEF SessionInv, TypeOK, Objects
<1>2. /\ t \in Objects /\ t.role = ssl[p].role /\ t.own = ssl[p].own
      /\ ~Finished(t)
  BY <1>1, BeginFacts DEF Finished
<1>3. /\ state' = [state EXCEPT ![p] = "ACT"] /\ type' = [type EXCEPT ![p] = type[p]]
      /\ ssl' = [ssl EXCEPT ![p] = t]
  BY DEF SessionInv, TypeOK
<1> HIDE DEF t
<1>4. Keeps(p, "ACT", type[p], t, {})
  BY <1>1, <1>2, <1>3 DEF Keeps, RoleOK, ConStates
<1>5. Finishes(p, "ACT", type[p], t)
  BY <1>2 DEF Finishes
<1>6. KeepsConnection(p)
  BY <1>4, <1>5 DEF KeepsConnection
<1>7. QED
  BY <1>1, <1>2, <1>6

\* OpenSSL refuses a datagram: the object fails and nothing is sent.
LEMMA FailKeeps ==
  ASSUME SessionInv, NEW p \in Peers, state[p] # "ACTPASS", ~Finished(ssl[p]),
         ssl' = [ssl EXCEPT ![p].at = "failed"],
         UNCHANGED <<state, type, net, shut>>
  PROVE  KeepsConnection(p) /\ ~Finished(ssl'[p])
<1> DEFINE t == [ssl[p] EXCEPT !.at = "failed"]
<1>1. /\ ssl[p] \in Objects /\ RoleOK(p) /\ type[p] \in {"NEW", "EXISTING"}
      /\ type[p] = "EXISTING" => Finished(ssl[p])
      /\ state[p] \in ConStates
  BY DEF SessionInv, TypeOK, Objects
<1>2. /\ t \in Objects /\ t.role = ssl[p].role /\ t.own = ssl[p].own
      /\ ~Finished(t)
  BY <1>1 DEF Finished, Objects, Steps
<1>3. /\ state' = [state EXCEPT ![p] = state[p]]
      /\ type' = [type EXCEPT ![p] = type[p]]
      /\ ssl' = [ssl EXCEPT ![p] = t]
      /\ ssl'[p] = t
  BY DEF SessionInv, TypeOK
<1> HIDE DEF t
<1>4. Keeps(p, state[p], type[p], t, {})
  BY <1>1, <1>2, <1>3 DEF Keeps, RoleOK
<1>5. Finishes(p, state[p], type[p], t)
  BY <1>2 DEF Finishes
<1>6. KeepsConnection(p)
  BY <1>4, <1>5 DEF KeepsConnection
<1>7. QED
  BY <1>2, <1>3, <1>6

\* The client begins: ret is what dtls_do_handshake returns, and 0 only if nothing
\* was sent.
LEMMA BeginExit ==
  ASSUME ExitInv, Inv', NEW p \in Peers, BeginMainloop(p)
  PROVE  ExitInv'
<1>1. /\ ~Finished(ssl[p]) /\ pc' = [pc EXCEPT ![p] = "loop"] /\ pc \in [Peers -> Stages]
      /\ pc[p] \in Early
  BY LoopUnfinished DEF BeginMainloop, At, GoTo, ExitInv, Inv, Early
<1>2. UNCHANGED printed /\ DOMAIN ret' = Peers
  BY DEF BeginMainloop, HandshakeReturns, udp_sendto, NothingPending, ExitInv
<1>3. CASE p = Server
  <2>1. ret' = [ret EXCEPT ![Server] = "zero"] /\ UNCHANGED vars
    BY <1>3, Programs DEF BeginMainloop, HandshakeReturns
  <2>2. UNCHANGED <<state, type, ssl, shut>> /\ net' \subseteq net
    BY <2>1 DEF vars
  <2>3. KeepsConnection(p)
    BY <2>2, StillKeeps DEF ExitInv
  <2>4. ret'[Client] = ret[Client] /\ pc'[Client] = pc[Client]
    BY <1>1, <1>3, <2>1, Programs DEF ExitInv
  <2>5. \A q \in Peers : Finished(ssl'[q]) => pc'[q] \in {"close", "cleanup", "exited"}
    BY <1>1, <2>2 DEF ExitInv
  <2>6. Silent => Silent'
    BY <2>1 DEF Silent, vars
  <2>7. QED
    BY <1>2, <2>3, <2>4, <2>5, <2>6, ExitKept DEF ExitInv
<1>4. CASE p = Client
  <2>1. udp_sendto(p)
    BY <1>4, Programs DEF BeginMainloop
  <2>2. pc'[Client] \notin Early /\ Silent /\ printed'[Client] = NotPrinted
    BY <1>1, <1>2, <1>4 DEF Early, ExitInv, StatusOK
  <2>3. KeepsConnection(p) /\ ~Finished(ssl'[p])
    <3>1. CASE dtls_do_handshake(p)
      <4>1. KeepsConnection(p)
        BY <3>1, HandshakeKeeps DEF ExitInv
      <4>2. ssl'[p] = Begin(ssl[p]) /\ ssl[p] \in Objects
        BY <3>1 DEF dtls_do_handshake, ExitInv, SessionInv, TypeOK, Objects
      <4>3. QED
        BY <4>1, <4>2, <1>1, BeginFacts DEF Finished
    <3>2. CASE /\ ssl' = [ssl EXCEPT ![p] = Begin(@)]
               /\ UNCHANGED <<state, type, net, shut>>
      BY <3>2, <1>1, <1>4, LostKeeps DEF ExitInv
    <3>3. CASE /\ \E at \in {ssl[p].at, "failed"} : ssl' = [ssl EXCEPT ![p].at = at]
               /\ UNCHANGED <<state, type, net, shut>>
      <4>1. CASE ssl' = [ssl EXCEPT ![p].at = ssl[p].at]
        <5>1. ssl' = ssl
          BY <4>1 DEF ExitInv, SessionInv, TypeOK
        <5>2. QED
          BY <3>3, <5>1, <1>1, StillKeeps DEF ExitInv
      <4>2. CASE ssl' = [ssl EXCEPT ![p].at = "failed"]
        BY <3>3, <4>2, <1>1, <1>4, FailKeeps DEF ExitInv
      <4>3. QED
        BY <3>3, <4>1, <4>2
    <3>4. QED
      BY <2>1, <3>1, <3>2, <3>3 DEF udp_sendto, NothingPending
  <2>4. \A q \in Peers : q # p => ssl'[q] = ssl[q]
    BY <2>3, ConnectionKept DEF ExitInv
  <2>5. \A q \in Peers : Finished(ssl'[q]) => pc'[q] \in {"close", "cleanup", "exited"}
    BY <1>1, <2>3, <2>4 DEF ExitInv
  <2>6. CASE ret'[Client] # "zero"
    BY <1>2, <2>2, <2>3, <2>5, <2>6, ExitKept DEF ExitInv
  <2>7. CASE ret'[Client] = "zero"
    <3>1. /\ \E at \in {ssl[p].at, "failed"} : ssl' = [ssl EXCEPT ![p].at = at]
          /\ UNCHANGED net
      BY <2>1, <2>7, <1>4, Programs
         DEF udp_sendto, NothingPending, HandshakeReturns, ExitInv
    <3>2. ssl'[p].at \in {ssl[p].at, "failed"}
      BY <3>1 DEF ExitInv, SessionInv, TypeOK
    <3>3. Silent'
      BY <2>2, <2>4, <3>1, <3>2 DEF Silent
    <3>4. StatusOK'
      BY <2>2, <3>3 DEF StatusOK
    <3>5. QED
      BY <1>2, <2>3, <2>5, <3>4, CoreKept DEF ExitInv
  <2>8. QED
    BY <2>6, <2>7
<1>5. QED
  BY <1>3, <1>4, Programs

\* A datagram is read.  The client that is satisfied by it prints keys that the
\* server has, too: the server has finished first.
LEMMA PutExit ==
  ASSUME ExitInv, Inv', NEW p \in Peers, NEW m \in net, PutPacket(p, m)
  PROVE  ExitInv'
<1>1. KeepsConnection(p)
  BY PutKeeps DEF PutPacket, ExitInv
<1>2. SessionInv' /\ FirstConnection'
  BY <1>1, SameConnection, FirstKept DEF ExitInv
<1>3. \A q \in Peers : q # p => ssl'[q] = ssl[q]
  BY <1>1, ConnectionKept DEF ExitInv
<1>4. pc \in [Peers -> Stages] /\ DOMAIN ret' = Peers /\ DOMAIN printed' = Peers
  BY DEF ExitInv, Inv, PutPacket, fprintkeymat
<1>5. \A q \in Peers : Finished(ssl'[q]) => pc'[q] \in {"close", "cleanup", "exited"}
  <2>1. ~Finished(ssl'[p]) \/ pc' = [pc EXCEPT ![p] = "close"]
    BY <1>2 DEF PutPacket, Break, GoTo, FirstConnection
  <2>2. pc' = [pc EXCEPT ![p] = "close"] \/ UNCHANGED pc
    BY DEF PutPacket, Break, GoTo
  <2>3. QED
    BY <1>3, <1>4, <2>1, <2>2 DEF ExitInv
<1>6. ~Silent /\ pc'[Client] \notin Early
  <2>1. ~Silent
    BY DEF Silent
  <2>2. pc[Client] \notin Early
    BY <2>1 DEF ExitInv, StatusOK
  <2>3. pc' = [pc EXCEPT ![p] = "close"] \/ UNCHANGED pc
    BY DEF PutPacket, Break, GoTo
  <2>4. QED
    BY <2>1, <2>2, <2>3, <1>4, Programs DEF Early
<1>7. CASE UNCHANGED <<ret, printed>>
  BY <1>1, <1>4, <1>5, <1>6, <1>7, ExitKept DEF ExitInv
<1>8. CASE ~UNCHANGED <<ret, printed>>
  <2>1. type'[p] = "EXISTING" /\ ssl'[p].role = "connect" /\ fprintkeymat(p)
    BY <1>8 DEF PutPacket, PeerCertificate
  <2>2. state'[Server] = "PASS" /\ state'[Client] = "ACT"
    BY <1>1, Programs, ConnectionKept DEF ExitInv
  <2>3. p = Client
    BY <1>2, <2>1, <2>2, Programs DEF SessionInv, RoleOK
  <2>4. ClientKnows'
    BY <1>2, FirstClientKnows, PTL
  <2>5. PeerConnected(Client)'
    BY <2>1, <2>3, <2>4 DEF ClientKnows
  <2>6. Vouched(Server)'
    BY <2>1, <2>2, <2>3, <2>5, Programs
       DEF PeerConnected, Vouched, fprintkeymat, localkey, remotekey, ExitInv
  <2>7. StatusOK'
    BY <1>6, <2>1, <2>3, <2>6, Programs DEF StatusOK, fprintkeymat, NotPrinted, ExitInv
  <2>8. QED
    BY <1>2, <1>4, <1>5, <2>2, <2>7 DEF ExitInv
<1>9. QED
  BY <1>7, <1>8

LEMMA ExitStepInv == ExitInv /\ [ExampleNext]_exampleVars => ExitInv'
<1> SUFFICES ASSUME ExitInv, [ExampleNext]_exampleVars PROVE ExitInv'
  OBVIOUS
<1>1. Inv'
  BY StepInv DEF ExitInv
<1>2. CASE UNCHANGED exampleVars
  BY <1>1, <1>2, Programs, QuietKept DEF exampleVars, process
<1>3. ASSUME NEW p \in Peers,
             \/ ReadCertificate(p) \/ ReadPrivateKey(p) \/ dtls_ctx_init(p)
             \/ ParseOptions(p) \/ makesockaddr(p) \/ prepare_udp_socket(p)
             \/ Crash(p) \/ LeaveLoop(p) \/ SocketError(p)
      PROVE  ExitInv'
  <2>1. UNCHANGED <<vars, ret, printed>> /\ \E stage : GoTo(p, stage)
    BY <1>3 DEF ReadCertificate, ReadPrivateKey, dtls_ctx_init, Acquire, ParseOptions,
                makesockaddr, prepare_udp_socket, Crash, LeaveLoop, SocketError, Break
  <2>2. pc[p] \notin {"close", "cleanup", "exited"}
    BY <1>3 DEF ReadCertificate, ReadPrivateKey, dtls_ctx_init, Acquire, ParseOptions,
                makesockaddr, prepare_udp_socket, Crash, LeaveLoop, SocketError, At
  <2>3. pc'[Client] \in Early => pc[Client] \in Early
    <3>1. p = Client => pc[p] \in Early \/ pc'[p] \notin Early
      BY <1>3 DEF ReadCertificate, ReadPrivateKey, dtls_ctx_init, Acquire, ParseOptions,
                  makesockaddr, prepare_udp_socket, Crash, LeaveLoop, SocketError, Break,
                  At, GoTo, Early, ExitInv, Inv
    <3>2. QED
      BY <2>1, <3>1, Programs DEF GoTo, ExitInv, Inv
  <2>4. QED
    BY <1>1, <2>1, <2>2, <2>3, LoopUnfinished, QuietKept
<1>4. ASSUME NEW p \in Peers, CloseSocket(p) \/ Cleanup(p)  PROVE ExitInv'
  <2>1. /\ UNCHANGED <<vars, ret, printed>>
        /\ GoTo(p, "cleanup") \/ GoTo(p, "exited")
    BY <1>4 DEF CloseSocket, Cleanup
  <2>2. pc'[Client] \in Early => pc[Client] \in Early
    BY <2>1, Programs DEF GoTo, Early, ExitInv, Inv
  <2>3. QED
    BY <1>1, <2>1, <2>2, QuietKept
<1>5. ASSUME NEW p \in Peers, LoopAgain(p) \/ setexit(p)  PROVE ExitInv'
  BY <1>1, <1>5, QuietKept DEF LoopAgain, setexit, exampleVars, process
<1>6. ASSUME NEW p \in Peers, BeginMainloop(p)  PROVE ExitInv'
  BY <1>1, <1>6, BeginExit
<1>7. ASSUME NEW p \in Peers, PutPacketFails(p)  PROVE ExitInv'
  <2>1. ~Finished(ssl[p]) /\ pc[p] = "loop"
    BY <1>7, LoopUnfinished DEF PutPacketFails, At
  <2>2. state[p] # "ACTPASS"
    BY Programs DEF ExitInv
  <2>3. KeepsConnection(p) /\ ~Finished(ssl'[p])
    BY <1>7, <2>1, <2>2, FailKeeps DEF PutPacketFails, ExitInv
  <2>4. \A q \in Peers : q # p => ssl'[q] = ssl[q]
    BY <2>3, ConnectionKept DEF ExitInv
  <2>5. pc' = [pc EXCEPT ![p] = "close"] /\ UNCHANGED <<ret, printed>>
    BY <1>7 DEF PutPacketFails, Break, GoTo
  <2>6. \A q \in Peers : Finished(ssl'[q]) => pc'[q] \in {"close", "cleanup", "exited"}
    BY <2>3, <2>4, <2>5 DEF ExitInv, Inv
  <2>7. Silent => Silent'
    BY <1>7, <2>4 DEF PutPacketFails, Silent, ExitInv, SessionInv, TypeOK
  <2>8. pc'[Client] \in Early => pc[Client] \in Early
    BY <2>5, Programs DEF Early, ExitInv, Inv
  <2>9. QED
    BY <1>1, <2>3, <2>5, <2>6, <2>7, <2>8, ExitKept DEF ExitInv
<1>8. ASSUME NEW p \in Peers, NEW m \in net, PutPacket(p, m)  PROVE ExitInv'
  BY <1>1, <1>8, PutExit
<1>9. ASSUME NEW m \in net, LoseDatagram(m)  PROVE ExitInv'
  <2>1. /\ UNCHANGED <<state, type, ssl, shut>> /\ net' \subseteq net
        /\ UNCHANGED <<pc, ret, printed>>
    BY <1>9 DEF LoseDatagram, Lose, process
  <2>2. KeepsConnection(Client)
    BY <2>1, Programs, StillKeeps DEF ExitInv
  <2>3. ~Silent
    BY DEF Silent
  <2>4. QED
    BY <1>1, <2>1, <2>2, <2>3, Programs, ExitKept DEF ExitInv
<1>10. QED
  BY <1>2, <1>3, <1>4, <1>5, <1>6, <1>7, <1>8, <1>9 DEF ExampleNext, Run

\* What the exit status 0 of the client says, whichever calls failed, datagrams were
\* lost or repeated, or signals came, and although ret holds other calls' results in
\* between (example.c:269, :314): with keys printed, the server has finished the same
\* connection and has those keys, the other way round; without, the server is not
\* connected, since the client whose SSL_do_handshake left nothing to send
\* (dtls_srtp.c:268, :188) has sent nothing at all.
THEOREM ExitStatusTrue == ExampleSpec => []SuccessMeansConnected
<1>1. ExitInv => SuccessMeansConnected
  <2> SUFFICES ASSUME ExitInv, ret[Client] = "zero"
               PROVE  IF printed[Client] # NotPrinted
                      THEN /\ type[Server] = "EXISTING"
                           /\ printed[Client] = <<remotekey(Server), localkey(Server)>>
                      ELSE type[Server] = "NEW"
    BY DEF SuccessMeansConnected
  <2>1. CASE printed[Client] # NotPrinted
    BY <2>1 DEF ExitInv, StatusOK, Vouched
  <2>2. CASE printed[Client] = NotPrinted
    <3>1. ~Finished(ssl[Server]) /\ type[Server] \in {"NEW", "EXISTING"}
      BY <2>2, Programs DEF ExitInv, StatusOK, Silent, Finished, SessionInv, TypeOK
    <3>2. QED
      BY <2>2, <3>1, Programs DEF ExitInv, SessionInv, TypeOK
  <2>3. QED
    BY <2>1, <2>2
<1>2. QED
  BY <1>1, ExitInitInv, ExitStepInv, PTL DEF ExampleSpec
=============================================================================
