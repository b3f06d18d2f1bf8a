------------------------- MODULE SrtpTransportProofs -------------------------
(***************************************************************************)
(* The safety properties of the jitter buffer, for every Room and every    *)
(* stream, and of the SRTP transport, composed with the DTLS sessions and  *)
(* the buffer, for any browser and any number of media packets.            *)
(***************************************************************************)
EXTENDS SrtpTransport, DtlsSessionProofs, SequenceTheorems, FiniteSetTheorems,
        TLAPS

-----------------------------------------------------------------------------
(* The jitter buffer *)

\* What has been pumped followed by what is held back is what was fed.
ArrivalOrder == pumped \o buffer = fed

BufferInv == BufferTypeOK /\ ArrivalOrder /\ HoldsBackRoom

\* Moving the head of the right sequence to the end of the left one, as pull
\* and the callback do, leaves their concatenation as it is.
LEMMA MoveHead ==
  ASSUME NEW S, NEW s \in Seq(S), NEW t \in Seq(S), t # <<>>
  PROVE  Append(s, Head(t)) \o Tail(t) = s \o t
  OBVIOUS

\* Pushing on the right sequence pushes on the concatenation.
LEMMA PushRight ==
  ASSUME NEW S, NEW s \in Seq(S), NEW t \in Seq(S), NEW e \in S
  PROVE  s \o Append(t, e) = Append(s \o t, e)
  OBVIOUS

\* The invariant of the buffer, for every Room and every stream of packets
\* (JitterBuffer#feed).
THEOREM JitterBufferCorrect == BufferSpec => []BufferInv
<1>1. BufferInit => BufferInv
  BY BufferAssumption DEF BufferInit, BufferInv, BufferTypeOK, ArrivalOrder, HoldsBackRoom
<1>2. BufferInv /\ [BufferNext]_bufferVars => BufferInv'
  <2> SUFFICES ASSUME BufferInv, [BufferNext]_bufferVars PROVE BufferInv'
    OBVIOUS
  <2>1. CASE UNCHANGED bufferVars
    BY <2>1 DEF BufferInv, BufferTypeOK, ArrivalOrder, HoldsBackRoom, bufferVars
  <2>2. ASSUME NEW data \in Payloads, NEW seq_no \in SeqNos, feed(data, seq_no)
        PROVE  BufferInv'
    <3> DEFINE p == <<seq_no, data>>
               b == Append(buffer, p)
    <3>1. p \in Packets
      BY DEF Packets
    <3>2. /\ buffer \in Seq(Packets) /\ fed \in Seq(Packets)
          /\ pumped \in Seq(Packets) /\ pumped \o buffer = fed
      BY DEF BufferInv, BufferTypeOK, ArrivalOrder
    <3>3. /\ b \in Seq(Packets) /\ b # <<>> /\ Len(b) = Len(buffer) + 1
      BY <3>1, <3>2, AppendProperties
    <3>4. pumped \o b = Append(fed, p)
      BY <3>1, <3>2, PushRight
    <3>5. /\ fed' = Append(fed, p) /\ fed' \in Seq(Packets)
          /\ Len(fed') = Len(fed) + 1
      BY <2>2, <3>1, <3>2 DEF feed
    <3>6. CASE ready(b)
      <4>1. buffer' = Tail(b) /\ pumped' = Append(pumped, Head(b))
        BY <2>2, <3>6 DEF feed, Sorted
      <4>2. ArrivalOrder'
        BY <4>1, <3>2, <3>3, <3>4, <3>5, MoveHead DEF ArrivalOrder
      <4>3. /\ buffer' \in Seq(Packets) /\ pumped' \in Seq(Packets)
            /\ Len(buffer') = Len(buffer)
        BY <4>1, <3>2, <3>3
      <4>4. HoldsBackRoom'
        BY <4>3, <3>2, <3>3, <3>5, <3>6, BufferAssumption
           DEF HoldsBackRoom, ready, BufferInv
      <4> QED
        BY <4>2, <4>3, <4>4, <3>5 DEF BufferInv, BufferTypeOK
    <3>7. CASE ~ready(b)
      <4>1. buffer' = b /\ pumped' = pumped
        BY <2>2, <3>7 DEF feed, Sorted
      <4>2. HoldsBackRoom'
        BY <4>1, <3>2, <3>3, <3>5, <3>7, BufferAssumption
           DEF HoldsBackRoom, ready, BufferInv
      <4> QED
        BY <4>1, <4>2, <3>2, <3>3, <3>4, <3>5 DEF BufferInv, BufferTypeOK, ArrivalOrder
    <3> QED
      BY <3>6, <3>7
  <2> QED
    BY <2>1, <2>2 DEF BufferNext
<1> QED
  BY <1>1, <1>2, PTL DEF BufferSpec

\* A concatenation holds an element as often as its parts together.
LEMMA CountConcat ==
  ASSUME NEW S, NEW s \in Seq(S), NEW t \in Seq(S), NEW e
  PROVE  Count(s \o t, e) = Count(s, e) + Count(t, e)
<1> DEFINE A == {k \in 1..Len(s) : s[k] = e}
           B == {k \in 1..Len(t) : t[k] = e}
           C == {k \in 1..Len(s \o t) : (s \o t)[k] = e}
           D == {k \in C : k > Len(s)}
           f == [k \in B |-> Len(s) + k]
<1>1. /\ Len(s) \in Nat /\ Len(t) \in Nat /\ Len(s \o t) = Len(s) + Len(t)
      /\ \A k \in 1..Len(s \o t) :
           (s \o t)[k] = IF k <= Len(s) THEN s[k] ELSE t[k - Len(s)]
  BY ConcatProperties
<1>2. IsFiniteSet(A) /\ IsFiniteSet(B) /\ IsFiniteSet(D)
  <2>1. IsFiniteSet(1..Len(s)) /\ IsFiniteSet(1..Len(t)) /\ IsFiniteSet(1..Len(s \o t))
    BY <1>1, FS_Interval
  <2>2. A \in SUBSET (1..Len(s)) /\ B \in SUBSET (1..Len(t)) /\ D \in SUBSET (1..Len(s \o t))
    OBVIOUS
  <2>3. QED
    BY <2>1, <2>2, FS_Subset
<1>3. C = A \cup D /\ A \cap D = {}
  BY <1>1
<1>4. f \in Bijection(B, D)
  <2>1. f \in [B -> D] /\ \A j, k \in B : f[j] = f[k] => j = k
    BY <1>1
  <2>2. \A d \in D : \E k \in B : f[k] = d
    <3> SUFFICES ASSUME NEW d \in D PROVE d - Len(s) \in B /\ f[d - Len(s)] = d
      OBVIOUS
    <3> QED
      BY <1>1
  <2>3. QED
    BY <2>1, <2>2 DEF Bijection, Injection, Surjection, IsInjective
<1>5. Cardinality(D) = Cardinality(B)
  BY <1>2, <1>4, FS_Bijection DEF ExistsBijection
<1>6. Cardinality(C) = Cardinality(A) + Cardinality(B)
  <2>1. Cardinality(A) \in Nat /\ Cardinality(B) \in Nat
    BY <1>2, FS_CardinalityType
  <2>2. Cardinality(A \cup D) = Cardinality(A) + Cardinality(D) - Cardinality(A \cap D)
    BY <1>2, FS_Union
  <2>3. Cardinality(A \cap D) = 0
    BY <1>3, FS_EmptySet
  <2> HIDE DEF A, B, C, D
  <2>4. QED
    BY <2>1, <2>2, <2>3, <1>3, <1>5
<1>7. QED
  BY <1>6 DEF Count

\* No packet is lost or doubled, for every Room and every stream (JitterBuffer#feed,
\* with its push and its shift).
THEOREM BufferLosesNothing == BufferSpec => []NothingLost
<1>1. BufferInv => NothingLost
  <2> SUFFICES ASSUME BufferInv, NEW p \in Packets
               PROVE  Count(pumped, p) + Count(buffer, p) = Count(fed, p)
    BY DEF NothingLost
  <2>1. pumped \in Seq(Packets) /\ buffer \in Seq(Packets) /\ fed = pumped \o buffer
    BY DEF BufferInv, BufferTypeOK, ArrivalOrder
  <2>2. QED
    BY <2>1, CountConcat
<1>2. QED
  BY <1>1, JitterBufferCorrect, PTL

\* A stream that arrives in order leaves in order, across any number of wraps of the
\* sequence number (JitterBuffer#pull).
THEOREM BufferKeepsOrder == BufferSpec => []InOrderKept
<1>1. BufferInv => InOrderKept
  <2> SUFFICES ASSUME BufferInv, NEW k \in 1..Len(pumped) PROVE pumped[k] = fed[k]
    BY DEF InOrderKept
  <2>1. pumped \in Seq(Packets) /\ buffer \in Seq(Packets) /\ fed = pumped \o buffer
    BY DEF BufferInv, BufferTypeOK, ArrivalOrder
  <2>2. QED
    BY <2>1, ConcatProperties
<1>2. QED
  BY <1>1, JitterBufferCorrect, PTL

\* A packet is pumped after exactly Room more have been fed: the buffer never
\* grows, for a stream of any length (JitterBuffer#pull).
THEOREM BufferIsBounded == BufferSpec => []HoldsBackRoom
  BY JitterBufferCorrect, PTL DEF BufferInv

-----------------------------------------------------------------------------
(* The transport *)

\* The parts of the key material as handle_dtls cuts them, in the server's state.
ClientPart == <<Key(Server), "client">>
ServerPart == <<Key(Server), "server">>

\* @dtls is freed with the datagram that finishes the handshake, and not before;
\* a listener that has survived that has keyed both sessions and started the call,
\* with the keys of the handshake as long as nothing has met the freed session.
KeysOK ==
  /\ session = "live" =>
       /\ incoming = Nil /\ outgoing = Nil /\ starts = 0 /\ touched = {}
       /\ Running => type[Server] = "NEW"
  /\ session = "freed" =>
       /\ type[Server] = "EXISTING"
       /\ Running => incoming # Nil /\ starts >= 1
       /\ touched = {} =>
            /\ starts <= 1
            /\ Running => incoming = ClientPart /\ outgoing = ServerPart

KeyTypes ==
  /\ session \in {"live", "freed"} /\ listener \in {"running", "dead"}
  /\ incoming \in {Nil, Unkeyed} \cup KeyParts
  /\ outgoing \in {Nil, Unkeyed} \cup KeyParts
  /\ starts \in 0..MaxStarts
  /\ nilMet \subseteq Senders /\ touched \subseteq Senders

MediaOK ==
  /\ media \in 0..MaxMedia
  /\ media > 0 => type[Browser] = "EXISTING"
  /\ "browser" \notin nilMet

\* Only what comes after the call was started is heard.
FedOK ==
  fed # <<>> =>
    /\ session = "freed" /\ starts >= 1
    /\ touched = {} => incoming = ClientPart

TransportInv ==
  /\ SessionInv
  /\ FirstConnection
  /\ state[Server] = "PASS"
  /\ KeyTypes
  /\ KeysOK
  /\ MediaOK
  /\ FedOK

LEMMA Ends ==
  /\ Peers = {Server, Browser} /\ Server # Browser
  /\ Other(Server) = Browser /\ Other(Browser) = Server
  BY EndsAssumption, TwoPeers

-----------------------------------------------------------------------------
(* The transport uses its components as DtlsSession and JitterBuffer say *)

\* Whatever handle_dtls, the listener's other branches and the browser do, to the
\* DTLS sessions it is a step of the library or none: all that DtlsSessionProofs
\* shows of two ends holds of the server and its browser.
THEOREM TransportUsesSession == TransportSpec => Spec
<1>1. TransportInit => Init
  BY DEF TransportInit
<1>2. TransportNext => [Next]_vars
  BY Ends DEF TransportNext, handle_dtls, handle_dtlsFreed, handle_dtlsRaises,
              PutFreed, handle_srtp, handle_srtpReport, handle_stun, ListenEnds,
              BrowserHandshakes, BrowserSends, Next, allVars
<1>3. UNCHANGED allVars => UNCHANGED vars
  BY DEF allVars
<1>4. QED
  BY <1>1, <1>2, <1>3, PTL DEF TransportSpec, Spec

\* And to the buffer it is a feed or no step at all (handle_rtp is its only caller):
\* what the listener hears of a call is neither lost, doubled nor taken out of its
\* order, through every handshake, exception and timeout.
THEOREM TransportUsesBuffer == TransportSpec => BufferSpec /\ [](NothingLost /\ InOrderKept)
<1>1. TransportInit => BufferInit
  BY DEF TransportInit
<1>2. TransportNext => [BufferNext]_bufferVars
  BY DEF TransportNext, handle_dtls, handle_dtlsFreed, handle_dtlsRaises,
         handle_srtp, handle_rtp, handle_srtpReport, handle_stun, ListenEnds,
         BrowserHandshakes, BrowserSends, allVars
<1>3. UNCHANGED allVars => UNCHANGED bufferVars
  BY DEF allVars
<1>4. TransportSpec => BufferSpec
  BY <1>1, <1>2, <1>3, PTL DEF TransportSpec, BufferSpec
<1>5. QED
  BY <1>4, BufferLosesNothing, BufferKeepsOrder, PTL

-----------------------------------------------------------------------------
(* The invariant *)

LEMMA TransportInitInv == TransportInit => TransportInv
<1> SUFFICES ASSUME TransportInit PROVE TransportInv
  OBVIOUS
<1>1. Init
  BY DEF TransportInit
<1>2. SessionInv /\ FirstConnection
  BY <1>1, SessionInitInv, FirstInit
<1>3. state[Server] = "PASS" /\ type[Server] = "NEW"
  BY <1>1, Ends, ServerAssumption DEF Init
<1>4. KeysOK /\ KeyTypes
  BY <1>3, MediaAssumption DEF TransportInit, KeysOK, KeyTypes
<1>5. MediaOK
  BY MediaAssumption DEF TransportInit, MediaOK
<1>6. FedOK
  BY DEF TransportInit, BufferInit, FedOK
<1>7. QED
  BY <1>2, <1>3, <1>4, <1>5, <1>6 DEF TransportInv

\* What a browser that is connected may rely on: the server has settled on the
\* other role and finished the same connection, with the datagram whose answer
\* the browser has had.
LEMMA BrowserKnows ==
  ASSUME TransportInv, type[Browser] = "EXISTING"
  PROVE  /\ Running => session = "freed"
         /\ Key(Browser) = Key(Server)
         /\ state[Browser] = "ACT"
<1>1. RoleOK(Browser) /\ Finished(ssl[Browser]) /\ ssl[Browser].role \in Roles
  BY Ends DEF TransportInv, SessionInv, TypeOK
<1>2. ssl[Browser].role = "connect"
  BY <1>1, Ends DEF RoleOK, Opposite, Roles, TransportInv
<1>3. PeerConnected(Browser)
  BY <1>2, Ends, FirstClientKnows DEF ClientKnows, TransportInv
<1>4. type[Server] = "EXISTING" /\ Key(Server) = Key(Browser) /\ state[Browser] = "ACT"
  BY <1>3, Ends DEF PeerConnected
<1>5. QED
  BY <1>4 DEF TransportInv, KeysOK, KeyTypes

\* The parts of the exported material, and of what is read from freed memory.
LEMMA Parts ==
  ASSUME SessionInv, NEW material \in {Key(Server), Alien}
  PROVE  scmk(material) \in KeyParts \ {Nil} /\ ssmk(material) \in KeyParts \ {Nil}
<1>1. ssl[Server].own \in Randoms /\ ssl[Server].peer \in Randoms
  BY Ends, ConnAssumption DEF SessionInv, TypeOK, Randoms
<1>2. Key(Server) \in [1..2 -> Randoms]
  BY <1>1 DEF Key
<1>3. QED
  BY <1>2 DEF scmk, ssmk, KeyParts, Nil

\* What a step of either end leaves of the invariant.
LEMMA EndsKept ==
  ASSUME TransportInv, NEW p \in Peers, KeepsConnection(p)
  PROVE  /\ SessionInv' /\ FirstConnection' /\ state'[Server] = "PASS"
         /\ type[Browser] = "EXISTING" => type'[Browser] = "EXISTING"
         /\ type'[Server] \in {"NEW", "EXISTING"}
         /\ session = "freed" => Key(Server)' = Key(Server) /\ type'[Server] = "EXISTING"
         /\ p = Browser => type'[Server] = type[Server]
<1>1. SessionInv' /\ FirstConnection'
  BY SameConnection, FirstKept DEF TransportInv
<1>2. /\ state'[Server] = "PASS"
      /\ type[Browser] = "EXISTING" => type'[Browser] = "EXISTING"
      /\ Finished(ssl[Server]) => ssl'[Server] = ssl[Server]
      /\ type[Server] = "EXISTING" => type'[Server] = "EXISTING"
      /\ p = Browser => type'[Server] = type[Server]
  BY Ends, ConnectionKept DEF TransportInv
<1>3. session = "freed" => Finished(ssl[Server]) /\ type[Server] = "EXISTING"
  BY Ends DEF TransportInv, KeysOK, SessionInv, TypeOK
<1>4. session = "freed" => Key(Server)' = Key(Server)
  BY <1>2, <1>3 DEF Key
<1>5. type'[Server] \in {"NEW", "EXISTING"}
  BY <1>1, Ends DEF SessionInv, TypeOK
<1>6. QED
  BY <1>1, <1>2, <1>3, <1>4, <1>5

\* A DTLS datagram while the session lives.
LEMMA HandleDtlsInv ==
  ASSUME TransportInv, NEW m \in net, handle_dtls(m)
  PROVE  TransportInv'
<1>1. KeepsConnection(Server)
  BY Ends, PutKeeps DEF handle_dtls, TransportInv
<1>2. /\ SessionInv' /\ FirstConnection' /\ state'[Server] = "PASS"
      /\ type[Browser] = "EXISTING" => type'[Browser] = "EXISTING"
      /\ type'[Server] \in {"NEW", "EXISTING"}
  BY <1>1, Ends, EndsKept
<1>3. UNCHANGED <<media, nilMet, touched, fed>> /\ session = "live" /\ Running
  BY DEF handle_dtls, bufferVars
<1>4. MediaOK'
  BY <1>2, <1>3 DEF MediaOK, TransportInv
<1>5. FedOK'
  BY <1>3 DEF FedOK, TransportInv
<1>6. /\ incoming = Nil /\ outgoing = Nil /\ starts = 0 /\ touched = {}
      /\ listener = "running" /\ nilMet \subseteq Senders
  BY <1>3 DEF TransportInv, KeysOK, KeyTypes, Running
<1>7. CASE type'[Server] = "EXISTING"
  <2>1. Establish(Key(Server)')
    BY <1>7 DEF handle_dtls
  <2>2. /\ ClientPart' = scmk(Key(Server)') /\ ServerPart' = ssmk(Key(Server)')
        /\ ClientPart' \in KeyParts \ {Nil} /\ ServerPart' \in KeyParts \ {Nil}
    <3>1. Key(Server)' \in [1..2 -> Randoms]
      <4>1. ssl'[Server].own \in Randoms /\ ssl'[Server].peer \in Randoms
        BY <1>2, Ends, ConnAssumption DEF SessionInv, TypeOK, Randoms
      <4>2. QED
        BY <4>1 DEF Key
    <3>2. QED
      BY <3>1 DEF ClientPart, ServerPart, scmk, ssmk, KeyParts, Nil
  <2>3. KeyTypes'
    BY <2>1, <2>2, <1>3, <1>6, MediaAssumption
       DEF Establish, KeyTypes, keys
  <2>4. KeysOK'
    BY <2>1, <2>2, <1>3, <1>6, <1>7 DEF Establish, KeysOK, Running, keys
  <2>5. QED
    BY <1>2, <1>4, <1>5, <2>3, <2>4 DEF TransportInv
<1>8. CASE type'[Server] # "EXISTING"
  <2>1. UNCHANGED <<keys, listener>>
    BY <1>8 DEF handle_dtls
  <2>2. KeysOK' /\ KeyTypes'
    BY <1>2, <1>3, <1>8, <2>1 DEF keys, KeysOK, KeyTypes, Running, TransportInv
  <2>3. QED
    BY <1>2, <1>4, <1>5, <2>2 DEF TransportInv
<1>9. QED
  BY <1>7, <1>8

\* A DTLS datagram after the session was freed: whatever comes of it, a listener
\* that survives has keyed sessions and has been started.
LEMMA FreedInv ==
  ASSUME TransportInv, NEW sender \in Senders, handle_dtlsFreed(sender)
  PROVE  TransportInv'
<1>1. KeepsConnection(Server)
  <2>1. CASE \E m \in net : Deliver(Server, m)
    BY <2>1, Ends, PutKeeps DEF TransportInv
  <2>2. CASE UNCHANGED vars
    <3>1. UNCHANGED <<state, type, ssl, shut>> /\ net' \subseteq net
      BY <2>2 DEF vars
    <3>2. QED
      BY <3>1, Ends, StillKeeps DEF TransportInv
  <2>3. QED
    BY <2>1, <2>2 DEF handle_dtlsFreed, PutFreed
<1>2. /\ SessionInv' /\ FirstConnection' /\ state'[Server] = "PASS"
      /\ type[Browser] = "EXISTING" => type'[Browser] = "EXISTING"
      /\ type'[Server] = "EXISTING"
  BY <1>1, Ends, EndsKept DEF handle_dtlsFreed
<1>3. /\ UNCHANGED <<media, nilMet, fed>> /\ session = "freed"
      /\ touched' # {} /\ touched' \subseteq Senders
      /\ listener = "running" /\ incoming # Nil /\ starts >= 1 /\ starts \in 0..MaxStarts
  BY DEF handle_dtlsFreed, bufferVars, TransportInv, KeysOK, KeyTypes, Running
<1>4. MediaOK'
  BY <1>2, <1>3 DEF MediaOK, TransportInv
<1>5. /\ session' = "freed" /\ starts' >= 1 /\ KeyTypes'
      /\ Running' => incoming' # Nil
  <2>1. CASE listener' \in {"running", "dead"} /\ UNCHANGED keys
    BY <2>1, <1>3 DEF keys, KeyTypes, TransportInv
  <2>2. CASE starts < MaxStarts
             /\ \E material \in {Key(Server), Alien} : Establish(material)
    <3>1. PICK material \in {Key(Server), Alien} : Establish(material)
      BY <2>2
    <3>2. scmk(material) \in KeyParts \ {Nil} /\ ssmk(material) \in KeyParts \ {Nil}
      BY Parts DEF TransportInv
    <3>3. starts + 1 \in 0..MaxStarts
      BY <2>2, <1>3, MediaAssumption
    <3>4. QED
      BY <3>1, <3>2, <3>3, <1>3 DEF Establish, keys, KeyTypes, TransportInv, Running
  <2>3. QED
    BY <2>1, <2>2 DEF handle_dtlsFreed
<1>6. KeysOK' /\ FedOK'
  BY <1>2, <1>3, <1>5 DEF KeysOK, FedOK
<1>7. QED
  BY <1>2, <1>4, <1>5, <1>6 DEF TransportInv

\* The browser's side of the handshake, and the network.
LEMMA BrowserInv ==
  ASSUME TransportInv, BrowserHandshakes
  PROVE  TransportInv'
<1>1. KeepsConnection(Browser)
  <2>1. CASE dtls_do_handshake(Browser)
    BY <2>1, Ends, HandshakeKeeps DEF TransportInv
  <2>2. CASE dtls_sess_handle_timeout(Browser)
    BY <2>2, Ends, StillKeeps DEF TransportInv, dtls_sess_handle_timeout
  <2>3. CASE \E m \in net : Deliver(Browser, m)
    BY <2>3, Ends, PutKeeps DEF TransportInv
  <2>4. CASE \E m \in net : Lose(m)
    <3>1. UNCHANGED <<state, type, ssl, shut>> /\ net' \subseteq net
      BY <2>4 DEF Lose
    <3>2. QED
      BY <3>1, Ends, StillKeeps DEF TransportInv
  <2>5. QED
    BY <2>1, <2>2, <2>3, <2>4 DEF BrowserHandshakes
<1>2. /\ SessionInv' /\ FirstConnection' /\ state'[Server] = "PASS"
      /\ type[Browser] = "EXISTING" => type'[Browser] = "EXISTING"
      /\ session = "freed" => Key(Server)' = Key(Server)
      /\ type'[Server] = type[Server]
  BY <1>1, Ends, EndsKept
<1>3. UNCHANGED <<session, incoming, outgoing, starts, listener, media, nilMet,
                  touched, fed>>
  BY DEF BrowserHandshakes, keys, bufferVars
<1>4. KeysOK' /\ KeyTypes'
  BY <1>2, <1>3 DEF KeysOK, KeyTypes, ClientPart, ServerPart, Running, TransportInv
<1>5. MediaOK'
  BY <1>2, <1>3 DEF MediaOK, TransportInv
<1>6. FedOK'
  BY <1>2, <1>3 DEF FedOK, ClientPart, TransportInv
<1>7. QED
  BY <1>2, <1>4, <1>5, <1>6 DEF TransportInv

\* What leaves the DTLS sessions and the keys alone; the listener may end.
LEMMA QuietInv ==
  ASSUME TransportInv, UNCHANGED <<vars, keys, touched>>,
         listener' \in {"running", "dead"}, Running' => Running,
         nilMet' \subseteq Senders, MediaOK', FedOK'
  PROVE  TransportInv'
<1>1. UNCHANGED <<state, type, ssl, shut>> /\ net' \subseteq net
  BY DEF vars
<1>2. KeepsConnection(Server)
  BY <1>1, Ends, StillKeeps DEF TransportInv
<1>3. SessionInv' /\ FirstConnection' /\ state'[Server] = "PASS"
  BY <1>2, Ends, EndsKept
<1>4. KeysOK' /\ KeyTypes'
  BY <1>1 DEF keys, KeysOK, KeyTypes, KeyParts, ClientPart, ServerPart, Key, TransportInv
<1>5. QED
  BY <1>3, <1>4 DEF TransportInv

LEMMA FedKept ==
  ASSUME TransportInv, UNCHANGED <<vars, keys, touched>>, fed' = fed
  PROVE  FedOK'
  BY DEF TransportInv, FedOK, ClientPart, Key, vars, keys

LEMMA TransportStepInv == TransportInv /\ [TransportNext]_allVars => TransportInv'
<1> SUFFICES ASSUME TransportInv, [TransportNext]_allVars PROVE TransportInv'
  OBVIOUS
<1>1. ASSUME NEW m \in net, handle_dtls(m)  PROVE TransportInv'
  BY <1>1, HandleDtlsInv
<1>2. ASSUME NEW sender \in Senders, handle_dtlsFreed(sender)  PROVE TransportInv'
  BY <1>2, FreedInv
<1>3. ASSUME BrowserHandshakes  PROVE TransportInv'
  BY <1>3, BrowserInv
<1>4. CASE \/ handle_dtlsRaises \/ handle_srtpReport \/ handle_stun \/ ListenEnds
           \/ UNCHANGED allVars
  <2>1. /\ UNCHANGED <<vars, keys, media, nilMet, touched, bufferVars>>
        /\ listener' \in {"running", "dead"} /\ (Running' => Running)
    BY <1>4 DEF handle_dtlsRaises, handle_srtpReport, handle_stun, ListenEnds,
                Running, allVars, TransportInv, KeyTypes
  <2>2. MediaOK' /\ nilMet' \subseteq Senders
    BY <2>1 DEF vars, MediaOK, TransportInv, KeyTypes
  <2>3. FedOK'
    BY <2>1, FedKept DEF bufferVars
  <2>4. QED
    BY <2>1, <2>2, <2>3, QuietInv
<1>5. ASSUME NEW sender \in Senders, handle_srtp(sender)  PROVE TransportInv'
  <2>1. UNCHANGED <<vars, keys, media, touched>> /\ Running
    BY <1>5 DEF handle_srtp
  <2>2. sender = "browser" => incoming # Nil
    <3> SUFFICES ASSUME sender = "browser" PROVE incoming # Nil
      OBVIOUS
    <3>1. media > 0
      BY <1>5 DEF handle_srtp
    <3>2. type[Browser] = "EXISTING"
      BY <3>1 DEF TransportInv, MediaOK
    <3>3. QED
      BY <2>1, <3>2, BrowserKnows DEF TransportInv, KeysOK
  <2>3. /\ listener' \in {"running", "dead"} /\ "browser" \notin nilMet'
        /\ nilMet' \subseteq Senders
    BY <1>5, <2>2 DEF handle_srtp, handle_rtp, TransportInv, MediaOK, KeyTypes
  <2>4. MediaOK'
    BY <2>1, <2>3 DEF vars, MediaOK, TransportInv
  <2>5. FedOK'
    <3>1. CASE incoming = Nil
      BY <1>5, <2>1, <3>1, FedKept DEF handle_srtp, bufferVars
    <3>2. CASE incoming # Nil
      <4>1. /\ session = "freed" /\ starts >= 1
            /\ touched = {} => incoming = ClientPart
        BY <2>1, <3>2 DEF TransportInv, KeysOK, KeyTypes
      <4>2. QED
        BY <2>1, <4>1 DEF vars, keys, FedOK, ClientPart, Key
    <3>3. QED
      BY <3>1, <3>2
  <2>6. QED
    BY <2>1, <2>3, <2>4, <2>5, QuietInv
<1>6. CASE BrowserSends
  <2>1. /\ UNCHANGED <<vars, keys, listener, nilMet, touched, bufferVars>>
        /\ type[Browser] = "EXISTING" /\ media < MaxMedia /\ media' = media + 1
    BY <1>6 DEF BrowserSends
  <2>2. MediaOK' /\ nilMet' \subseteq Senders
    BY <2>1, MediaAssumption DEF vars, MediaOK, TransportInv, KeyTypes
  <2>3. listener' \in {"running", "dead"} /\ (Running' => Running)
    BY <2>1 DEF TransportInv, KeyTypes, Running
  <2>4. FedOK'
    BY <2>1, FedKept DEF bufferVars
  <2>5. QED
    BY <2>1, <2>2, <2>3, <2>4, QuietInv
<1>7. QED
  BY <1>1, <1>2, <1>3, <1>4, <1>5, <1>6 DEF TransportNext

LEMMA TransportInvariance == TransportSpec => []TransportInv
  BY TransportInitInv, TransportStepInv, PTL DEF TransportSpec

-----------------------------------------------------------------------------
(* The properties *)

\* A packet of the browser never meets a nil session in handle_srtp (srtp.cr:61),
\* and whatever reaches the jitter buffer, from the browser or from anyone else,
\* comes after :start_call was queued: a browser that can send media has had an
\* answer that the server gave when it made its keys, however datagrams are lost,
\* repeated or overtake each other, and whatever comes of one that meets the freed
\* session.  (A stray packet may meet the nil session: nothing is claimed of it.)
THEOREM BrowserMeetsKeys == TransportSpec => []KeyedBeforeMedia
<1>1. TransportInv => KeyedBeforeMedia
  BY DEF TransportInv, MediaOK, FedOK, ClientPart, KeyedBeforeMedia
<1>2. QED
  BY <1>1, TransportInvariance, PTL

\* While the listener lives and no datagram has met the freed session, a connected
\* browser talks to a call that has been told to start once, and each of the two
\* decrypts with the key the other encrypts with (srtp.cr:103 to :128 against
\* dtls_srtp.h:303).
THEOREM ConnectedCallStarts == TransportSpec => []ConnectedIsStarted
<1>1. TransportInv => ConnectedIsStarted
  <2> SUFFICES ASSUME TransportInv, type[Browser] = "EXISTING", Running, touched = {}
               PROVE  /\ starts = 1
                      /\ incoming = localkey(Browser)
                      /\ outgoing = remotekey(Browser)
    BY DEF ConnectedIsStarted
  <2>1. session = "freed" /\ Key(Browser) = Key(Server) /\ state[Browser] = "ACT"
    BY BrowserKnows
  <2>2. incoming = ClientPart /\ outgoing = ServerPart /\ starts = 1
    BY <2>1, MediaAssumption DEF TransportInv, KeysOK, KeyTypes
  <2>3. QED
    BY <2>1, <2>2 DEF ClientPart, ServerPart, localkey, remotekey
<1>2. QED
  BY <1>1, TransportInvariance, PTL

\* The transport's state keeps its types, even after a datagram has met the freed
\* session.
THEOREM TransportTypes == TransportSpec => []TransportTypeOK
<1>1. TransportInv /\ BufferTypeOK => TransportTypeOK
  BY DEF TransportInv, KeyTypes, SessionInv, MediaOK, TransportTypeOK
<1>2. TransportSpec => []BufferTypeOK
  BY TransportUsesBuffer, JitterBufferCorrect, PTL DEF BufferInv
<1>3. QED
  BY <1>1, <1>2, TransportInvariance, PTL
=============================================================================
