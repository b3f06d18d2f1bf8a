---------------------------- MODULE CallControl ----------------------------
(***************************************************************************)
(* The life of a call: the SIP and WebSocket INVITE handlers, the BYE      *)
(* handler, the table of tracked calls, the table of reserved RTP ports    *)
(* and the fiber that listens on a call's RTP socket.                      *)
(*                                                                         *)
(* The program is a set of cooperative fibers on one thread: a fiber gives *)
(* up the processor only where it waits for I/O, sleeps or uses a channel. *)
(* An action is therefore the code between two such points.  One fiber     *)
(* (Sip) serves every UDP request; each WebSocket connection has a fiber   *)
(* of its own; both create calls through the same code.                    *)
(*                                                                         *)
(* A transport, its handler and its call are made together, one of each,   *)
(* so one element of Transports stands for the three of them.              *)
(***************************************************************************)
EXTENDS Integers, Sequences

CONSTANTS
  CallIds,       \* the Call-ID header values callers use
  Transports,    \* the transports that may be created (bounds the calls)
  WsConns,       \* the fibers of the WebSocket connections
  Sip,           \* the fiber of the SIP session
  RtpPortFirst,  \* Conf::RTP_PORT_RANGE
  RtpPortLast,
  Room,          \* packets the jitter buffer holds back
  Vanishing,     \* the callers that may fall silent for good
  None           \* nil

ASSUME FiberAssumption == Sip \notin WsConns
ASSUME NoneAssumption == None \notin Transports /\ None \notin Int
ASSUME PortAssumption == RtpPortFirst \in Nat /\ RtpPortLast \in Nat
ASSUME RoomAssumption == Room \in Nat

Fibers == {Sip} \cup WsConns

\* What `rand(range) & ~1` can return: an odd draw is rounded down.
RtpPorts == {n - (n % 2) : n \in RtpPortFirst..RtpPortLast}

VARIABLES
  calls,      \* Graph::Collection @@calls: the tracked calls, oldest first
  callId,     \* call.call_id
  used,       \* Transport::Generic @@used_rtp_ports
  port,       \* transport.rtp_port; None before the transport exists
  codec,      \* the class of transport.encoder
  owner,      \* the fiber whose INVITE created the transport
  finalized,  \* how often finalize ran; @teardown is finalized > 0
  responder,  \* the calls whose responder is set
  answered,   \* the calls whose 200 OK was sent
  started,    \* the calls whose handler ran :start_call
  listener,   \* the fiber running handler.listen
  buffered,   \* packets in the jitter buffer
  pc,         \* where each fiber waits
  work,       \* the transport a fiber is making a call of
  gone,       \* callers that send nothing more (environment)
  stalled     \* alloc_random_rtp_port draws for ever: the thread is lost

vars == <<calls, callId, used, port, codec, owner, finalized, responder,
          answered, started, listener, buffered, pc, work, gone, stalled>>

setup == <<callId, port, codec, owner>>
dialog == <<responder, answered, started>>
media == <<listener, buffered, gone>>

Codecs == {"opus", "mulaw"}
ListenerStates == {"none", "ready", "receiving", "returned", "dead"}
FiberStates == {"idle", "synthesizing", "replying", "queueing", "closed"}

Created == {i \in Transports : port[i] # None}
Tracked == {calls[k] : k \in 1..Len(calls)}

-----------------------------------------------------------------------------
(* Graph::Collection *)

\* find_by_call_id(c) is not nil.
Known(c) == \E k \in 1..Len(calls) : callId[calls[k]] = c

\* find_by_call_id(c) returns call i: the first match of the array.
find_by_call_id(c, i) ==
  \E k \in 1..Len(calls) :
    /\ calls[k] = i
    /\ callId[i] = c
    /\ \A j \in 1..(k - 1) : callId[calls[j]] # c

\* Mutant of Without: the call stays in the table.
WithoutKeeps(s, i) == s

\* Array#delete of a call, which the array holds at most once.
Without(s, i) ==
  IF \E k \in 1..Len(s) : s[k] = i
  THEN LET at == CHOOSE k \in 1..Len(s) : s[k] = i
       IN  [j \in 1..(Len(s) - 1) |-> IF j < at THEN s[j] ELSE s[j + 1]]
  ELSE s

\* Mutants of Destroy: handler.finalize is not called; the port stays reserved.
DestroyNoFinalize(i) ==
  /\ calls' = Without(calls, i)
  /\ UNCHANGED <<finalized, used>>
DestroyKeepsPort(i) ==
  /\ calls' = Without(calls, i)
  /\ finalized' = [finalized EXCEPT ![i] = @ + 1]
  /\ UNCHANGED used

\* Call#destroy: untrack the call, set @teardown, release the port.  The
\* audio timer is not cancelled and the socket stays open.
Destroy(i) ==
  /\ calls' = Without(calls, i)
  /\ finalized' = [finalized EXCEPT ![i] = @ + 1]
  /\ used' = used \ {port[i]}

-----------------------------------------------------------------------------
(* INVITE *)

Idle(f) == ~stalled /\ pc[f] = "idle"

\* An exception ends the handler: the SIP loop rescues it and serves the next
\* datagram; nothing rescues it in a WebSocket handler, whose connection ends.
Raise(f) == [pc EXCEPT ![f] = IF f = Sip THEN "idle" ELSE "closed"]

\* Mutant of MayInvite: duplicates are not looked for.
MayInviteAgain(f, c) == Idle(f)

\* Only the SIP handler looks for a call with this Call-ID first.
MayInvite(f, c) == Idle(f) /\ (f = Sip => ~Known(c))

\* A WebSocket offer without Opus raises before a transport is made.
Offered(f) == IF f = Sip THEN Codecs ELSE {"opus"}

\* Mutant of NewTransport: the draw is not checked against @@used_rtp_ports.
NewTransportAnyPort(f, c, i, p, k) ==
  /\ i \notin Created
  /\ p \in RtpPorts
  /\ k \in Offered(f)
  /\ used' = used \cup {p}
  /\ port' = [port EXCEPT ![i] = p]
  /\ callId' = [callId EXCEPT ![i] = c]
  /\ codec' = [codec EXCEPT ![i] = k]
  /\ owner' = [owner EXCEPT ![i] = f]

\* Transport::RTP.new draws a port that is not reserved and reserves it.
NewTransport(f, c, i, p, k) ==
  /\ i \notin Created
  /\ p \in RtpPorts \ used
  /\ k \in Offered(f)
  /\ used' = used \cup {p}
  /\ port' = [port EXCEPT ![i] = p]
  /\ callId' = [callId EXCEPT ![i] = c]
  /\ codec' = [codec EXCEPT ![i] = k]
  /\ owner' = [owner EXCEPT ![i] = f]

\* An INVITE is taken on; VoicemailHandler.new waits for the synthesized
\* prompt, and the other fibers run meanwhile.
AcceptInvite(f, c, i, p, k) ==
  /\ MayInvite(f, c)
  /\ NewTransport(f, c, i, p, k)
  /\ pc' = [pc EXCEPT ![f] = "synthesizing"]
  /\ work' = [work EXCEPT ![f] = i]
  /\ UNCHANGED <<calls, finalized, dialog, media, stalled>>

\* The port is reserved and then bind, media_port or the client's address
\* raises: nobody holds the transport any more, and nobody finalizes it.  Nor does
\* the collector: the block given to on_pump makes the transport reachable from
\* itself, and it does not finalize what is on such a cycle.
AbandonInvite(f, c, i, p, k) ==
  /\ MayInvite(f, c)
  /\ NewTransport(f, c, i, p, k)
  /\ pc' = Raise(f)
  /\ UNCHANGED <<calls, finalized, dialog, media, work, stalled>>

\* Every port is reserved: the draw is repeated for ever, on the only thread.
ExhaustPorts(f, c) ==
  /\ MayInvite(f, c)
  /\ RtpPorts \subseteq used
  /\ stalled' = TRUE
  /\ UNCHANGED <<calls, setup, used, finalized, dialog, media, pc, work>>

\* A SIP INVITE for a Call-ID that is tracked already: return.
IgnoreInvite(c) ==
  /\ Idle(Sip)
  /\ Known(c)
  /\ UNCHANGED vars

\* rtp_map["opus/48000/2"] raises KeyError in the WebSocket handler.
RefuseInvite(f) ==
  /\ f # Sip
  /\ Idle(f)
  /\ pc' = Raise(f)
  /\ UNCHANGED <<calls, setup, used, finalized, dialog, media, work, stalled>>

Waits(f, where) == ~stalled /\ pc[f] = where

\* The speech service fails: the call is never tracked, its port stays
\* reserved (the fibers that Handler#initialize has spawned before keep the
\* handler and its transport from the collector).
SynthesisFails(f) ==
  /\ Waits(f, "synthesizing")
  /\ pc' = Raise(f)
  /\ work' = [work EXCEPT ![f] = None]
  /\ UNCHANGED <<calls, setup, used, finalized, dialog, media, stalled>>

\* The prompt arrives: Collection.add, then FirstFlurry.new sets the
\* responder, and the replies are being sent.
TrackCall(f) ==
  /\ Waits(f, "synthesizing")
  /\ calls' = Append(calls, work[f])
  /\ responder' = responder \cup {work[f]}
  /\ pc' = [pc EXCEPT ![f] = "replying"]
  /\ UNCHANGED <<setup, used, finalized, answered, started, media, work,
                 stalled>>

\* As TrackCall, but a header read after Collection.add raises (the Via of a
\* SIP INVITE, the From or To of any): tracked, with no responder and no
\* listener.
TrackCallRaises(f) ==
  /\ Waits(f, "synthesizing")
  /\ calls' = Append(calls, work[f])
  /\ pc' = Raise(f)
  /\ work' = [work EXCEPT ![f] = None]
  /\ UNCHANGED <<setup, used, finalized, dialog, media, stalled>>

\* Mutant of FinishReply: nobody queues :start_call.
FinishReplyNoEvent(f) ==
  /\ Waits(f, "replying")
  /\ answered' \in {answered, answered \cup {work[f]}}
  /\ listener' = [listener EXCEPT ![work[f]] = "ready"]
  /\ pc' = [pc EXCEPT ![f] = "idle"]
  /\ work' = [work EXCEPT ![f] = None]
  /\ UNCHANGED <<calls, setup, used, finalized, responder, started, buffered,
                 gone, stalled>>

\* transmit ends, with the 200 OK sent or given up at an Errno, and the
\* listener is spawned.  The SIP handler goes on to queue_event(:start_call);
\* the WebSocket handler returns.
FinishReply(f) ==
  /\ Waits(f, "replying")
  /\ answered' \in {answered, answered \cup {work[f]}}
  /\ listener' = [listener EXCEPT ![work[f]] = "ready"]
  /\ pc' = [pc EXCEPT ![f] = IF f = Sip THEN "queueing" ELSE "idle"]
  /\ work' = IF f = Sip THEN work ELSE [work EXCEPT ![f] = None]
  /\ UNCHANGED <<calls, setup, used, finalized, responder, started, buffered,
                 gone, stalled>>

\* The WebSocket closes under transmit, which rescues Errno only.
ReplyRaises(f) ==
  /\ f # Sip
  /\ Waits(f, "replying")
  /\ pc' = Raise(f)
  /\ work' = [work EXCEPT ![f] = None]
  /\ UNCHANGED <<calls, setup, used, finalized, dialog, media, stalled>>

\* The handler's event fiber takes :start_call from the channel and starts
\* the audio timer; the sender goes on.
StartCall(f) ==
  /\ Waits(f, "queueing")
  /\ started' = started \cup {work[f]}
  /\ pc' = [pc EXCEPT ![f] = "idle"]
  /\ work' = [work EXCEPT ![f] = None]
  /\ UNCHANGED <<calls, setup, used, finalized, responder, answered, media,
                 stalled>>

-----------------------------------------------------------------------------
(* The other requests, which only the SIP fiber serves *)

\* BYE for a tracked call: reply (an Errno is ignored), then destroy.
Bye(c, i) ==
  /\ Idle(Sip)
  /\ find_by_call_id(c, i)
  /\ i \in responder
  /\ Destroy(i)
  /\ UNCHANGED <<setup, dialog, media, pc, work, stalled>>

\* BYE for no tracked call does nothing; for one without a responder it
\* raises before destroy, and the SIP loop goes on.
ByeIgnored(c) ==
  /\ Idle(Sip)
  /\ \A i \in Tracked : find_by_call_id(c, i) => i \notin responder
  /\ UNCHANGED vars

\* ACK, CANCEL, UPDATE, an unknown command or a message that does not parse.
OtherRequest == Idle(Sip) /\ UNCHANGED vars

-----------------------------------------------------------------------------
(* Transport::Generic#listen, in the fiber spawned for the call *)

\* `while (!@teardown)`: receive again, or return.
Loop(i) == IF finalized[i] > 0 THEN "returned" ELSE "receiving"

Receiving(i) == ~stalled /\ listener[i] = "receiving"
UnchangedButListener ==
  UNCHANGED <<calls, setup, used, finalized, dialog, gone, pc, work, stalled>>

ListenStart(i) ==
  /\ ~stalled
  /\ listener[i] = "ready"
  /\ listener' = [listener EXCEPT ![i] = Loop(i)]
  /\ UNCHANGED buffered
  /\ UnchangedButListener

\* A packet goes to the jitter buffer.  When one has to come out, it is
\* decoded: Codec::Opus has no decode, and the exception ends the fiber.
ListenPacket(i) ==
  /\ Receiving(i)
  /\ i \notin gone
  /\ IF buffered[i] < Room
     THEN /\ buffered' = [buffered EXCEPT ![i] = @ + 1]
          /\ listener' = [listener EXCEPT ![i] = Loop(i)]
     ELSE /\ UNCHANGED buffered
          /\ listener' = [listener EXCEPT
                            ![i] = IF codec[i] = "opus" THEN "dead"
                                                        ELSE Loop(i)]
  /\ UnchangedButListener

\* Fewer than 12 bytes: handle_rtp's slice raises, which ends the fiber.
ListenRunt(i) ==
  /\ Receiving(i)
  /\ i \notin gone
  /\ listener' = [listener EXCEPT ![i] = "dead"]
  /\ UNCHANGED buffered
  /\ UnchangedButListener

\* receive fails with an Errno: logged, and the loop goes on.
ListenErrno(i) ==
  /\ Receiving(i)
  /\ i \notin gone
  /\ listener' = [listener EXCEPT ![i] = Loop(i)]
  /\ UNCHANGED buffered
  /\ UnchangedButListener

\* Mutants of ListenTimeout: the loop goes on after destroy; nobody rescues.
ListenTimeoutGoesOn(i) ==
  /\ Receiving(i)
  /\ owner[i] = Sip
  /\ Destroy(i)
  /\ UNCHANGED <<setup, dialog, media, pc, work, stalled>>
ListenTimeoutNoRescue(i) ==
  /\ Receiving(i)
  /\ listener' = [listener EXCEPT ![i] = "dead"]
  /\ UNCHANGED buffered
  /\ UnchangedButListener

\* Nothing for 5 seconds: IO::Timeout leaves listen.  The fiber of a SIP call
\* rescues it and destroys the call, whether or not a BYE has done so before;
\* the fiber of a WebSocket call does not rescue it.
ListenTimeout(i) ==
  /\ Receiving(i)
  /\ IF owner[i] = Sip
     THEN /\ Destroy(i)
          /\ listener' = [listener EXCEPT ![i] = "returned"]
     ELSE /\ listener' = [listener EXCEPT ![i] = "dead"]
          /\ UNCHANGED <<calls, finalized, used>>
  /\ UNCHANGED <<setup, dialog, buffered, gone, pc, work, stalled>>

\* Environment: the caller of i falls silent for good (before its listener
\* runs it makes no difference).
PeerGone(i) ==
  /\ Receiving(i)
  /\ i \in Vanishing \ gone
  /\ gone' = gone \cup {i}
  /\ UNCHANGED <<calls, setup, used, finalized, dialog, listener, buffered,
                 pc, work, stalled>>

-----------------------------------------------------------------------------
Init ==
  /\ calls = <<>>
  /\ callId = [i \in Transports |-> None]
  /\ used = {}
  /\ port = [i \in Transports |-> None]
  /\ codec = [i \in Transports |-> None]
  /\ owner = [i \in Transports |-> None]
  /\ finalized = [i \in Transports |-> 0]
  /\ responder = {}
  /\ answered = {}
  /\ started = {}
  /\ listener = [i \in Transports |-> "none"]
  /\ buffered = [i \in Transports |-> 0]
  /\ pc = [f \in Fibers |-> "idle"]
  /\ work = [f \in Fibers |-> None]
  /\ gone = {}
  /\ stalled = FALSE

Invite(f) ==
  \/ \E c \in CallIds, i \in Transports, p \in RtpPorts, k \in Codecs :
       AcceptInvite(f, c, i, p, k) \/ AbandonInvite(f, c, i, p, k)
  \/ \E c \in CallIds : ExhaustPorts(f, c)
  \/ RefuseInvite(f)

SetUp(f) ==
  \/ SynthesisFails(f)
  \/ TrackCall(f)
  \/ TrackCallRaises(f)
  \/ FinishReply(f)
  \/ ReplyRaises(f)
  \/ StartCall(f)

Request ==
  \/ \E c \in CallIds : IgnoreInvite(c) \/ ByeIgnored(c)
  \/ \E c \in CallIds, i \in Transports : Bye(c, i)
  \/ OtherRequest

Listen(i) ==
  \/ ListenStart(i)
  \/ ListenPacket(i)
  \/ ListenRunt(i)
  \/ ListenErrno(i)
  \/ ListenTimeout(i)

Next ==
  \/ \E f \in Fibers : Invite(f) \/ SetUp(f)
  \/ Request
  \/ \E i \in Transports : Listen(i) \/ PeerGone(i)

Spec == Init /\ [][Next]_vars

\* The scheduler runs every fiber that is ready (a FIFO queue), a UDP send
\* ends, and a socket that stays silent times out.  Nothing is assumed of the
\* speech service, which is awaited without a read timeout, of a WebSocket
\* peer, or of the callers.
Fairness ==
  /\ WF_vars(FinishReply(Sip))
  /\ WF_vars(StartCall(Sip))
  /\ \A i \in Transports :
       /\ WF_vars(ListenStart(i))
       /\ WF_vars(i \in gone /\ ListenTimeout(i))

FairSpec == Spec /\ Fairness

-----------------------------------------------------------------------------
(* Properties *)

\* The type of every variable; in particular a transport is finalized at most
\* twice (Call#destroy from handle_bye and from the listener).
TypeOK ==
  /\ calls \in Seq(Transports)
  /\ callId \in [Transports -> CallIds \cup {None}]
  /\ used \subseteq RtpPorts
  /\ port \in [Transports -> RtpPorts \cup {None}]
  /\ codec \in [Transports -> Codecs \cup {None}]
  /\ owner \in [Transports -> Fibers \cup {None}]
  /\ finalized \in [Transports -> 0..2]
  /\ responder \subseteq Transports
  /\ answered \subseteq Transports
  /\ started \subseteq Transports
  /\ listener \in [Transports -> ListenerStates]
  /\ buffered \in [Transports -> 0..Room]
  /\ pc \in [Fibers -> FiberStates]
  /\ work \in [Fibers -> Transports \cup {None}]
  /\ gone \subseteq Transports
  /\ stalled \in BOOLEAN

\* The table of calls and the teardown flags agree, although add, destroy and
\* the second destroy of a late timeout (session.cr:79, :106) run in different
\* fibers: the table holds no call twice and none that was torn down, and a
\* call that was set up and is not in the table has been torn down.
CallsMatchTeardown ==
  /\ \A j, k \in 1..Len(calls) : calls[j] = calls[k] => j = k
  /\ \A i \in Tracked : i \in Created /\ finalized[i] = 0
  /\ \A i \in responder \ Tracked : finalized[i] > 0

Live(i) == i \in Created /\ finalized[i] = 0

\* A reserved port (generic.cr:69) always belongs to a transport that has not
\* been torn down: teardown leaves no reservation behind.
ReservedPortsHeld ==
  \A p \in used : \E i \in Transports : port[i] = p /\ Live(i)

\* The reservation check of generic.cr:66 keeps live transports on different
\* ports, except on a port one of whose former owners was destroyed twice (a
\* BYE, then the timeout of its listener): the second destroy releases a port
\* that may be another call's by then.
PortsExclusive ==
  \A i, j \in Transports :
    (Live(i) /\ (\A h \in Transports : port[h] = port[i] => finalized[h] < 2))
      => /\ port[i] \in used
         /\ (Live(j) /\ port[j] = port[i]) => i = j

\* A call is destroyed a second time only by the timeout of its own listener,
\* which then ends: the double release cannot repeat.
DestroyedTwiceByListener ==
  \A i \in Transports :
    finalized[i] = 2 => owner[i] = Sip /\ listener[i] = "returned"

\* "There's already a SIP conversation initiated with this Call ID! Let's just
\* ignore this duplicate INVITE..." (session.cr:39): no two tracked calls have
\* one Call-ID, although the check and Collection.add are far apart.
UniqueCallIds ==
  \A i, j \in Tracked : callId[i] = callId[j] => i = j

\* A SIP caller that vanishes without a BYE is noticed: if its listener runs,
\* the call is destroyed (session.cr:78), unless the whole server stalls.
SilentCallsEnd ==
  \A i \in Transports :
    (i \in gone /\ owner[i] = Sip /\ listener[i] \in {"ready", "receiving"})
      ~> (finalized[i] > 0 \/ stalled)

\* A call whose 200 OK was sent gets its audio: the handler is told that the
\* call has begun (session.cr:82, web_socket_server.cr:50), unless the call or
\* the server has ended by then.
AnsweredCallsStart ==
  \A i \in Transports :
    i \in answered ~> (i \in started \/ finalized[i] > 0 \/ stalled)
=============================================================================
