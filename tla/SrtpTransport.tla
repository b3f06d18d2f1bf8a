---------------------------- MODULE SrtpTransport ----------------------------
(***************************************************************************)
(* Transport::SRTP (transport/srtp.cr): the DTLS session, the two SRTP     *)
(* sessions made of its keys, and the demultiplexing of what arrives on    *)
(* the socket, for one call with one browser.  It is composed with         *)
(* DtlsSession, in which the server accepts and the browser, which is      *)
(* external, connects, and with the JitterBuffer that is fed what arrives  *)
(* as media; the browser sends media once it is connected.                 *)
(***************************************************************************)
EXTENDS DtlsSession, JitterBuffer

CONSTANTS
  Server,
  Browser,
  MaxMedia,  \* bound on the media packets the browser sends
  MaxStarts  \* bound on the starts of the call

ASSUME EndsAssumption == Peers = {Server, Browser} /\ Server # Browser
ASSUME MediaAssumption == MaxMedia \in Nat /\ MaxStarts \in Nat \ {0}

\* dtls_sess_new(..., DTLS_CONSTATE_PASS) in Transport::SRTP#initialize
ASSUME ServerAssumption == \A s \in InitialStates : s[Server] = "PASS"

VARIABLES
  session,    \* what @dtls points to: "live" or "freed"
  incoming,   \* @srtp_incoming: nil, created without a key, or its key
  outgoing,   \* @srtp_outgoing
  starts,     \* how often :start_call was queued
  listener,   \* the fiber that calls process
  media,      \* the number of SRTP packets the browser has sent
  nilMet,     \* history: whose packet met a nil session in handle_srtp
  touched     \* history: whose datagram reached the freed DTLS session

keys == <<session, incoming, outgoing, starts>>
allVars == <<vars, keys, listener, media, nilMet, touched, bufferVars>>

Nil == <<>>
Unkeyed == <<"created">>
Alien == <<"freed memory">>      \* key material read from memory that was freed
scmk(material) == <<material, "client">>  \* key_slice[0, 16] and [32, 14]
ssmk(material) == <<material, "server">>  \* key_slice[16, 16] and [46, 14]

\* A datagram is the browser's, or comes from anywhere else: process looks at its
\* first byte only.
Senders == {"browser", "stray"}

Running == listener = "running"

-----------------------------------------------------------------------------
(* handle_dtls *)

\* Mutants of Establish: the keys of the two directions are swapped; the DTLS
\* session stays.
EstablishSwapped(material) ==
  /\ session' = "freed"
  /\ outgoing' = scmk(material)
  /\ incoming' = ssmk(material)
  /\ starts' = starts + 1
  /\ UNCHANGED listener
EstablishAgain(material) ==
  /\ outgoing' = ssmk(material)
  /\ incoming' = scmk(material)
  /\ starts' = starts + 1
  /\ UNCHANGED <<session, listener>>

\* Once the handshake is finished: export the keys, free the DTLS session,
\* create and key both SRTP sessions, queue :start_call.  It raises before the
\* session is freed when the peer has no certificate (ssl_context.cr asks for
\* one and does not insist) or no keys can be exported, and after that when
\* either srtp_setkey fails.
Establish(material) ==
  \/ /\ session' = "freed"
     /\ outgoing' = ssmk(material)
     /\ incoming' = scmk(material)
     /\ starts' = starts + 1
     /\ UNCHANGED listener
  \/ /\ listener' = "dead"
     /\ UNCHANGED keys
  \/ /\ session' = "freed"
     /\ outgoing' = Unkeyed
     /\ listener' = "dead"
     /\ UNCHANGED <<incoming, starts>>
  \/ /\ session' = "freed"
     /\ outgoing' = ssmk(material)
     /\ incoming' = Unkeyed
     /\ listener' = "dead"
     /\ UNCHANGED starts

\* A DTLS datagram while the session lives.
handle_dtls(m) ==
  /\ Running
  /\ session = "live"
  /\ Deliver(Server, m)
  /\ IF type'[Server] = "EXISTING"
     THEN Establish(Key(Server)')
     ELSE UNCHANGED <<keys, listener>>
  /\ UNCHANGED <<media, nilMet, touched, bufferVars>>

\* A datagram that SSL_read fails on, other than by "want read": raise.
handle_dtlsRaises ==
  /\ Running
  /\ session = "live"
  /\ listener' = "dead"
  /\ UNCHANGED <<vars, keys, media, nilMet, touched, bufferVars>>

\* put_packet of freed memory: as if the session still were there, or nothing.
PutFreed(sender) ==
  \/ sender = "browser" /\ \E m \in net : Deliver(Server, m)
  \/ UNCHANGED vars

\* A DTLS datagram after the session was freed: put_packet and the rest of the
\* handler work on freed memory, which is undefined.  It ends in an exception
\* or in the end of the process, nothing comes of it, or the type still reads
\* EXISTING and the sessions are made once more, of the same keys or of others.
handle_dtlsFreed(sender) ==
  /\ Running
  /\ session = "freed"
  /\ sender = "browser" => \E m \in net : m.to = Server
  /\ touched' = touched \cup {sender}
  /\ PutFreed(sender)
  /\ \/ /\ listener' \in {"running", "dead"}
        /\ UNCHANGED keys
     \/ /\ starts < MaxStarts
        /\ \E material \in {Key(Server), Alien} : Establish(material)
  /\ UNCHANGED <<media, nilMet, bufferVars>>

-----------------------------------------------------------------------------
(* handle_srtp *)

\* A sender report: return.
handle_srtpReport == Running /\ UNCHANGED allVars

\* Generic#handle_rtp.  A packet without a whole header raises; any other is
\* fed to the jitter buffer, and decoding the payload that this pumps may raise.
handle_rtp ==
  \/ /\ listener' = "dead"
     /\ UNCHANGED bufferVars
  \/ /\ BufferNext
     /\ listener' \in (IF pumped' = pumped THEN {"running"} ELSE {"running", "dead"})

\* Without a session srtp_recv dereferences a null pointer.  With one, the
\* packet goes to handle_rtp whatever srtp_recv returns.
handle_srtp(sender) ==
  /\ Running
  /\ sender = "browser" => media > 0
  /\ IF incoming = Nil
     THEN /\ nilMet' = nilMet \cup {sender}
          /\ listener' = "dead"
          /\ UNCHANGED bufferVars
     ELSE handle_rtp /\ UNCHANGED nilMet
  /\ UNCHANGED <<vars, keys, media, touched>>

-----------------------------------------------------------------------------
(* What else reaches the listener, and the browser *)

\* A STUN request is answered, or its handler raises (no attributes, or
\* malformed ones).
handle_stun ==
  /\ Running
  /\ listener' \in {"running", "dead"}
  /\ UNCHANGED <<vars, keys, media, nilMet, touched, bufferVars>>

\* The socket is silent for 5 seconds, the call was torn down, or a datagram has
\* no first byte.
ListenEnds ==
  /\ Running
  /\ listener' = "dead"
  /\ UNCHANGED <<vars, keys, media, nilMet, touched, bufferVars>>

BrowserHandshakes ==
  /\ \/ dtls_do_handshake(Browser)
     \/ dtls_sess_handle_timeout(Browser)
     \/ \E m \in net : Deliver(Browser, m) \/ Lose(m)
  /\ UNCHANGED <<keys, listener, media, nilMet, touched, bufferVars>>

BrowserSends ==
  /\ type[Browser] = "EXISTING"
  /\ media < MaxMedia
  /\ media' = media + 1
  /\ UNCHANGED <<vars, keys, listener, nilMet, touched, bufferVars>>

TransportInit ==
  /\ Init
  /\ BufferInit
  /\ session = "live"
  /\ incoming = Nil
  /\ outgoing = Nil
  /\ starts = 0
  /\ listener = "running"
  /\ media = 0
  /\ nilMet = {}
  /\ touched = {}

TransportNext ==
  \/ \E m \in net : handle_dtls(m)
  \/ handle_dtlsRaises
  \/ \E sender \in Senders : handle_dtlsFreed(sender) \/ handle_srtp(sender)
  \/ handle_srtpReport
  \/ handle_stun
  \/ ListenEnds
  \/ BrowserHandshakes
  \/ BrowserSends

TransportSpec == TransportInit /\ [][TransportNext]_allVars

-----------------------------------------------------------------------------
(* Properties *)

KeyParts == ([1..2 -> Randoms] \cup {Alien}) \X {"client", "server"}

\* The types of the transport's state.
TransportTypeOK ==
  /\ TypeOK
  /\ BufferTypeOK
  /\ session \in {"live", "freed"}
  /\ incoming \in {Nil, Unkeyed} \cup KeyParts
  /\ outgoing \in {Nil, Unkeyed} \cup KeyParts
  /\ starts \in 0..MaxStarts
  /\ listener \in {"running", "dead"}
  /\ media \in 0..MaxMedia
  /\ nilMet \subseteq Senders
  /\ touched \subseteq Senders

\* The server has its keys before the browser can send media: a packet of the
\* browser never meets a nil session in handle_srtp (srtp.cr:61), and nothing is
\* heard, from the browser or from anyone, before the call was told to start,
\* although the last flight leaves put_packet before the sessions are created.
\* What is heard is decrypted with the browser's key, unless a datagram has met
\* the freed session.
KeyedBeforeMedia ==
  /\ "browser" \notin nilMet
  /\ fed # <<>> =>
       /\ starts >= 1
       /\ touched = {} => incoming = <<Key(Server), "client">>

\* A browser that is connected talks to a call that has been told to start, once
\* however datagrams are lost, repeated or overtake each other, and that decrypts
\* with the key the browser encrypts with, and the other way round (srtp.cr:103 to
\* :128 against dtls_srtp.h:303), unless an exception or a timeout has ended the
\* listener or a datagram has met the freed session.
ConnectedIsStarted ==
  (type[Browser] = "EXISTING" /\ Running /\ touched = {})
    => /\ starts = 1
       /\ incoming = localkey(Browser)
       /\ outgoing = remotekey(Browser)

\* The end of the DTLS session's life (dtls_srtp.h:140 "End the life of a dtls_sess
\* object.", srtp.cr:109 "we done. we out."): no datagram of the browser's
\* handshake reaches the session after that.
NotUsedAfterFree == "browser" \notin touched
=============================================================================
