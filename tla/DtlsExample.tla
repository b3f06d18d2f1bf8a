----------------------------- MODULE DtlsExample -----------------------------
(***************************************************************************)
(* libdtlssrtp/example.c: the library's demonstration program, run once    *)
(* with -s and once with the address of the other, over the UDP sink of    *)
(* dsink_udp.c.  main acquires what mainloop needs one thing after the     *)
(* other, and releases what it got on every way out.                       *)
(*                                                                         *)
(* Composed with DtlsSession: the sessions, their flights and the network. *)
(* The sink has no sched callback and mainloop never calls                 *)
(* dtls_sess_handle_timeout: nothing is retransmitted.  dtls_ctx_init      *)
(* ignores the verify mode it is given and sets SSL_VERIFY_NONE, so the    *)
(* accepting side asks for no certificate.  The files, the options, the    *)
(* sockets and the signals are the environment: each call may fail.        *)
(***************************************************************************)
EXTENDS DtlsSession

CONSTANTS Client, Server

ASSUME ProgramsAssumption == Peers = {Client, Server} /\ Client # Server

\* dtls_sess_new(cfg, dsink_udp_getsink(), (peer == NULL))
ASSUME RolesAssumption ==
  \A s \in InitialStates : s[Server] = "PASS" /\ s[Client] = "ACT"

VARIABLES
  pc,        \* where main is, or how the process has ended
  held,      \* what main and mainloop have acquired and not released
  ret,       \* the value main returns
  exitflag,  \* set by the handler of SIGINT
  printed,   \* the key material mainloop has printed, <<local, remote>>
  fault      \* history: something in the environment has failed

process == <<pc, held, ret, exitflag, printed>>
exampleVars == <<vars, process, fault>>

NotPrinted == <<>>

At(p, stage) == pc[p] = stage
GoTo(p, stage) == pc' = [pc EXCEPT ![p] = stage]
Fault == fault' = TRUE

-----------------------------------------------------------------------------
(* main, up to mainloop *)

\* One step of main: it gets the resource and goes on, or breaks out.
Acquire(p, at, resource, next) ==
  /\ At(p, at)
  /\ \/ /\ held' = [held EXCEPT ![p] = @ \cup {resource}]
        /\ GoTo(p, next)
        /\ UNCHANGED fault
     \/ /\ GoTo(p, "cleanup")
        /\ Fault
        /\ UNCHANGED held
  /\ UNCHANGED <<vars, ret, exitflag, printed>>

\* dtls_init_openssl, and the options: the two early returns of main release
\* nothing.
ParseOptions(p) ==
  /\ At(p, "main")
  /\ \/ /\ held' = [held EXCEPT ![p] = {"openssl"}]
        /\ \/ GoTo(p, "certificate") /\ UNCHANGED fault
           \/ GoTo(p, "refused") /\ Fault
     \/ /\ GoTo(p, "refused")
        /\ Fault
        /\ UNCHANGED held
  /\ UNCHANGED <<vars, ret, exitflag, printed>>

ReadCertificate(p) == Acquire(p, "certificate", "cert", "key")
ReadPrivateKey(p) == Acquire(p, "key", "pkey", "context")

\* The profile, the certificate, the key and the ciphers are accepted, or the
\* context is freed again.
dtls_ctx_init(p) == Acquire(p, "context", "ctx", "address")

\* The local address, and the peer's for a client.
makesockaddr(p) ==
  /\ At(p, "address")
  /\ \/ GoTo(p, "socket") /\ UNCHANGED fault
     \/ GoTo(p, "cleanup") /\ Fault
  /\ UNCHANGED <<vars, held, ret, exitflag, printed>>

\* prepare_udp_socket, whose result is not looked at: without a socket mainloop
\* gets -1.  Nor is that of bind: then whatever is sent to the socket is lost.
prepare_udp_socket(p) ==
  /\ At(p, "socket")
  /\ GoTo(p, "mainloop")
  /\ \/ held' = [held EXCEPT ![p] = @ \cup {"fd"}] /\ UNCHANGED fault
     \/ Fault /\ UNCHANGED held
  /\ UNCHANGED <<vars, ret, exitflag, printed>>

-----------------------------------------------------------------------------
(* mainloop *)

\* Mutant of HandshakeReturns: the result of the send is dropped.
HandshakeReturnsNothing(p, r) == ret' = [ret EXCEPT ![p] = "zero"]

\* ret = dtls_do_handshake(...) overwrites EXIT_FAILURE.
HandshakeReturns(p, r) == ret' = [ret EXCEPT ![p] = r]

\* dtls_do_handshake does not look at the result of SSL_do_handshake: when that
\* fails and leaves nothing to send, dtls_sess_send_pending returns 0.
NothingPending(p) ==
  /\ \E at \in {ssl[p].at, "failed"} : ssl' = [ssl EXCEPT ![p].at = at]
  /\ HandshakeReturns(p, "zero")
  /\ Fault
  /\ UNCHANGED <<state, type, net, shut>>

\* The client's first flight over the sink: sent, lost because sendto fails or
\* the server has no socket yet, or never written.
udp_sendto(p) ==
  \/ /\ "fd" \in held[p] /\ "fd" \in held[Server]
     /\ dtls_do_handshake(p)
     /\ HandshakeReturns(p, "bytes")
     /\ UNCHANGED fault
  \/ /\ ssl' = [ssl EXCEPT ![p] = Begin(@)]
     /\ \E r \in {"bytes", "error"} : HandshakeReturns(p, r)
     /\ Fault
     /\ UNCHANGED <<state, type, net, shut>>
  \/ NothingPending(p)

\* dtls_sess_new and dtls_do_handshake, in which the server sends nothing.
BeginMainloop(p) ==
  /\ At(p, "mainloop")
  /\ \/ p = Server /\ HandshakeReturns(p, "zero") /\ UNCHANGED <<vars, fault>>
     \/ p = Client /\ udp_sendto(p)
  /\ held' = [held EXCEPT ![p] = @ \cup {"session"}]
  /\ GoTo(p, "loop")
  /\ UNCHANGED <<exitflag, printed>>

\* dtls_sess_new returns NULL, which dtls_do_handshake dereferences; or
\* FD_SET(-1) writes outside of the set.
Crash(p) ==
  /\ \/ At(p, "mainloop")
     \/ At(p, "loop") /\ "fd" \notin held[p]
  /\ GoTo(p, "crashed")
  /\ Fault
  /\ UNCHANGED <<vars, held, ret, exitflag, printed>>

\* Out of the loop: dtls_sess_free.
Break(p) ==
  /\ GoTo(p, "close")
  /\ held' = [held EXCEPT ![p] = @ \ {"session"}]

\* Mutant of PeerCertificate: a client gets none either.
PeerCertificateNone(s) == FALSE

\* The certificate of a server is part of every handshake, that of a client only
\* when the server asks for it, which SSL_VERIFY_NONE does not.
PeerCertificate(s) == s.role = "connect"

fprintkeymat(p) == printed' = [printed EXCEPT ![p] = <<localkey(p)', remotekey(p)'>>]

\* A DTLS datagram.  The missing certificate of the peer and missing key material
\* end the loop; otherwise the keys are printed and the client succeeds.  (Where
\* a server would start over with dtls_sess_setup it has left the loop already,
\* for want of a certificate.)
PutPacket(p, m) ==
  /\ At(p, "loop")
  /\ "fd" \in held[p]
  /\ Deliver(p, m)
  /\ \/ /\ type'[p] # "EXISTING"
        /\ UNCHANGED <<pc, held, ret, printed, fault>>
     \/ /\ type'[p] = "EXISTING" /\ ~PeerCertificate(ssl'[p])
        /\ Break(p)
        /\ UNCHANGED <<ret, printed, fault>>
     \/ /\ type'[p] = "EXISTING" /\ PeerCertificate(ssl'[p])
        /\ fprintkeymat(p)
        /\ ret' = [ret EXCEPT ![p] = "zero"]
        /\ Break(p)
        /\ UNCHANGED fault
     \/ /\ type'[p] = "EXISTING" /\ PeerCertificate(ssl'[p])
        /\ Break(p)
        /\ Fault
        /\ UNCHANGED <<ret, printed>>
  /\ UNCHANGED exitflag

\* A DTLS datagram that OpenSSL refuses with SSL_ERROR_SSL.
PutPacketFails(p) ==
  /\ At(p, "loop")
  /\ "fd" \in held[p]
  /\ ssl' = [ssl EXCEPT ![p].at = "failed"]
  /\ Break(p)
  /\ Fault
  /\ UNCHANGED <<state, type, net, shut, ret, exitflag, printed>>

\* Five seconds without a packet, a packet that is not DTLS, an error of
\* recvfrom that handle_socket_error ignores: another turn.
LoopAgain(p) == At(p, "loop") /\ UNCHANGED exampleVars

\* select fails, or recvfrom with an error that must close the connection.
SocketError(p) ==
  /\ At(p, "loop")
  /\ Break(p)
  /\ Fault
  /\ UNCHANGED <<vars, ret, exitflag, printed>>

\* The handler is installed once the options are read.
setexit(p) ==
  /\ pc[p] \notin {"main", "exited", "refused", "crashed"}
  /\ ~exitflag[p]
  /\ exitflag' = [exitflag EXCEPT ![p] = TRUE]
  /\ Fault
  /\ UNCHANGED <<vars, pc, held, ret, printed>>

\* while(*toexit == false); a signal that comes between this test and select
\* is seen a turn later.
LeaveLoop(p) ==
  /\ At(p, "loop")
  /\ exitflag[p]
  /\ Break(p)
  /\ UNCHANGED <<vars, ret, exitflag, printed, fault>>

-----------------------------------------------------------------------------
(* main, after mainloop *)

CloseSocket(p) ==
  /\ At(p, "close")
  /\ GoTo(p, "cleanup")
  /\ held' = [held EXCEPT ![p] = @ \ {"fd"}]
  /\ UNCHANGED <<vars, ret, exitflag, printed, fault>>

\* Mutant of Cleanup: without a context nothing is released but OpenSSL.
CleanupForgets(p) ==
  /\ At(p, "cleanup")
  /\ GoTo(p, "exited")
  /\ held' = [held EXCEPT ![p] = IF "ctx" \in @ THEN {} ELSE @ \ {"openssl"}]
  /\ UNCHANGED <<vars, ret, exitflag, printed, fault>>

\* SSL_CTX_free, X509_free, EVP_PKEY_free, dtls_uninit_openssl, return
Cleanup(p) ==
  /\ At(p, "cleanup")
  /\ GoTo(p, "exited")
  /\ held' = [held EXCEPT ![p] = @ \ {"ctx", "cert", "pkey", "openssl"}]
  /\ UNCHANGED <<vars, ret, exitflag, printed, fault>>

LoseDatagram(m) ==
  /\ Lose(m)
  /\ Fault
  /\ UNCHANGED process

-----------------------------------------------------------------------------
ExampleInit ==
  /\ Init
  /\ pc = [p \in Peers |-> "main"]
  /\ held = [p \in Peers |-> {}]
  /\ ret = [p \in Peers |-> "EXIT_FAILURE"]
  /\ exitflag = [p \in Peers |-> FALSE]
  /\ printed = [p \in Peers |-> NotPrinted]
  /\ fault = FALSE

\* What p does by itself.
Run(p) ==
  \/ ParseOptions(p)
  \/ ReadCertificate(p)
  \/ ReadPrivateKey(p)
  \/ dtls_ctx_init(p)
  \/ makesockaddr(p)
  \/ prepare_udp_socket(p)
  \/ BeginMainloop(p)
  \/ LeaveLoop(p)
  \/ CloseSocket(p)
  \/ Cleanup(p)

ExampleNext ==
  \/ \E p \in Peers :
       \/ Run(p)
       \/ Crash(p)
       \/ PutPacketFails(p)
       \/ LoopAgain(p)
       \/ SocketError(p)
       \/ setexit(p)
       \/ \E m \in net : PutPacket(p, m)
  \/ \E m \in net : LoseDatagram(m)

ExampleSpec == ExampleInit /\ [][ExampleNext]_exampleVars

\* Processes run, and a datagram that is not lost arrives.
ExampleFairSpec ==
  /\ ExampleSpec
  /\ \A p \in Peers : WF_exampleVars(Run(p))
  /\ \A k \in Kinds, p \in Peers :
       SF_exampleVars(\E m \in net : m.kind = k /\ PutPacket(p, m))

-----------------------------------------------------------------------------
(* Properties *)

\* On every way out of main but the two early returns for wrong options
\* (example.c:362, :393), whichever call failed or signal came, everything that
\* was acquired has been released (example.c:348, :461 to :469).
NothingLeft == \A p \in Peers : At(p, "exited") => held[p] = {}

\* What the exit status 0 of a client says, although ret is overwritten by what
\* dtls_do_handshake returns (example.c:269), and whatever was lost, repeated or
\* interrupted.  If it has printed keys, they are those of a connection that the
\* server has finished too, and the server's are the same, the other way round.
\* If it has not, SSL_do_handshake had left nothing to send before the client was
\* interrupted, and the server has no connection either: the two ends never
\* disagree behind a 0.
SuccessMeansConnected ==
  (At(Client, "exited") /\ ret[Client] = "zero") =>
    IF printed[Client] # NotPrinted
    THEN /\ type[Server] = "EXISTING"
         /\ printed[Client] = <<remotekey(Server), localkey(Server)>>
    ELSE type[Server] = "NEW"

\* If nothing fails, no datagram is lost and no signal comes, the client
\* connects, prints its keys and exits with 0, although nothing is ever
\* retransmitted and the server leaves its loop as soon as it has finished its
\* side (example.c:314).
ClientConnects ==
  <>(fault \/ (At(Client, "exited") /\ ret[Client] = "zero"
                 /\ printed[Client] # NotPrinted))
=============================================================================
