# A verification of Contest

Contest is an experimental VoIP server written in Crystal.  It answers calls
that arrive as SIP over UDP or as SIP over a WebSocket, plays a synthesized
prompt over RTP, and contains (not yet connected) the pieces of a WebRTC media
path: DTLS, SRTP and STUN.  Two C libraries come with it, `libsrtp_decrypt` and
`libdtlssrtp`.

This directory holds TLA+ modules translated from that code, the TLC
configurations that check them on small instances, and TLAPS proofs of the
properties that matter most for every instance.

    tlc -workers 2 -config CallControlMixed.cfg MCCallControl
    tlapm CallControlProofs.tla

`PROJECT.json` lists the runs, the source lines behind every definition, the
hazards and the theorems.

## 1. The system

The program is one process with one thread.  Crystal's fibers are cooperative:
a fiber gives up the processor only where it waits for I/O, sleeps, or uses a
channel.  Everything between two such points is atomic; everything across one is
a race.  The fibers are

| fiber | made by | loop |
|---|---|---|
| SIP session | `SipServer`, one | receive a datagram, handle it, rescue any exception |
| WebSocket connection | `WebSocketServer`, one per client | handle a message; an exception ends it |
| listener | both INVITE handlers, one per call | `Transport::Generic#listen` until torn down, 5 s read timeout |
| handler events | `Brain::Handler`, one per call | receive from an unbuffered channel |
| audio timer | `Util::Timer`, one per started call | every 20 ms, for ever |

### Components

| component | state | operations | talks to |
|---|---|---|---|
| Call control (`sip/session.cr`, `controllers/*`, `sip/first_flurry.cr`) | program counter of each fiber | INVITE, BYE, ACK, CANCEL, UPDATE | everything below |
| Call table (`graph/collection.cr`, `graph/call.cr`) | `@@calls` | add, find_by_call_id, find_by_username, remove, destroy | shared by all fibers |
| RTP transport (`transport/generic.cr`, `rtp.cr`) | `@@used_rtp_ports`, port, teardown flag, `@seq_no`, client address | reserve a port, listen, handle_rtp, send_audio, finalize | jitter buffer, codec |
| Handler (`brain/*.cr`) | event channel, timer, prompt | queue_event, schedule_audio, next_audio_frame | timer, transport, speech service |
| Timer (`util/timer.cr`) | start, drift | fire, cancel | handler's block |
| Prompt (`audio/*.cr`) | position | next frame | handler |
| Jitter buffer (`transport/jitter_buffer.cr`) | array of packets | feed, pull | on_pump callback |
| SRTP library (`libsrtp_decrypt/srtp.c`) | newest sequence number, roll-over counter, replay window, SRTCP index | srtp_send, srtp_recv, srtcp_send, srtcp_recv, RoC carry | SRTP transport |
| DTLS library (`libdtlssrtp`) | SSL object, role, type | new, free, put_packet, do_handshake, handle_timeout, setup, key material | SRTP transport |
| DTLS example (`libdtlssrtp/example.c`, `dsink_udp.c`) | what main holds, exit flag, exit status | a client and a server: acquire, handshake in a select loop, print the keys, release | DTLS library |
| SRTP transport (`transport/srtp.cr`) | DTLS session, two SRTP sessions | demultiplex STUN/DTLS/SRTP, send_audio | both libraries, STUN |
| STUN responder (`stun/*.cr`) | none | parse attributes, build a reply | call table |
| Mu-law codec (`codec/mu_law.cr`) | none | encode, decode | transport |
| SIP and SDP text | none | parse, format | call control |
| Speech client (`watson/tts.cr`) | none | one HTTP request, no read timeout | handler's constructor |

### What is hard about it

* *Check and act across a wait.*  `handle_invite` looks for a duplicate
  Call-ID, then waits for the speech service, then adds the call.
* *Two ways to end a call.*  A BYE destroys it at once; the listener, still
  waiting for a packet, destroys it again at its timeout.  `finalize` releases a
  port by number, and by then the number may be another call's.
* *Partial failure.*  An exception between reserving a port and tracking the
  call leaks the port; between tracking and spawning the listener it leaves a
  call nobody can end.
* *Blocking.*  There is one thread: a draw from an exhausted port range never
  ends and stops everything; the speech request may wait for ever and stops SIP.
* *Unreliable delivery and wrapping numbers.*  SRTP packets arrive late, twice
  and in any order, and both sides estimate the upper half of their index.
* *Undefined shifts.*  `window << diff` for `diff >= 64`, `-diff` for -0x8000.
* *Time.*  The audio timer may wake arbitrarily late and catches up.

The hazards, each at its line and with the properties that cover it, are in
`PROJECT.json`.

## 2. The modules

| module | models | proofs |
|---|---|---|
| `CallControl` | INVITE over both channels, BYE, the call table, the port table, the listeners | `CallControlProofs` |
| `Srtp` | srtp_send, srtp_recv, srtcp_send and srtcp_recv over an unreliable network, in every mode of authentication | `SrtpProofs` |
| `MediaChannel` | abstract: what the SRTP library promises to its user; `Srtp` implements it | `SrtpProofs` |
| `SrtpKeys` | srtp_setkey and srtp_setkeystring at both ends of a stream | `SrtpKeysProofs` |
| `DtlsSession` | two peers that use libdtlssrtp over an unreliable network | `DtlsSessionProofs` |
| `DtlsExample` | example.c as client and as server, composed with `DtlsSession` | `DtlsExampleProofs` |
| `SrtpTransport` | Transport::SRTP, composed with `DtlsSession` (the server accepts, the browser connects) and `JitterBuffer` | `SrtpTransportProofs` |
| `Stun` | the STUN responder | `StunProofs` |
| `MuLaw` | encode_sample and decode_sample | |
| `JitterBuffer` | feed and pull | `SrtpTransportProofs` |
| `AudioPump` | timer, handler block, prompt, packet numbering | `AudioPumpProofs` |

The modules whose names start with `MC` hold the definitions that only TLC's instances need
(sets of steps, of roles, of requests, the bytes of a salt).  Operators whose comment says "Mutant of" are
plausible mistakes in the code they stand beside; replacing the original by one
of them breaks the property that `PROJECT.json` pairs it with, which is how each
property is known to say something.

### CallControl

An action is the code between two points where a fiber may be switched out.
`pc[f]` says where the fiber of a SIP or WebSocket handler waits, `work[f]` the
transport it is making a call of.  A transport, its handler and its call are
created together, one of each, and one element of `Transports` stands for all
three.

| code | actions |
|---|---|
| `handle_invite` up to the speech request | `AcceptInvite`; `AbandonInvite` if bind or a header raises after the port is reserved; `IgnoreInvite` for a known Call-ID; `RefuseInvite` for a WebSocket offer without Opus; `ExhaustPorts` when no port is left |
| the request ends | `TrackCall`, `TrackCallRaises` (a header raises after `Collection.add`), `SynthesisFails` |
| replies sent, listener spawned | `FinishReply`, `ReplyRaises` |
| `queue_event(:start_call)` received | `StartCall` |
| `handle_bye` | `Bye`, `ByeIgnored` |
| ACK, CANCEL, UPDATE, garbage | `OtherRequest` |
| `Generic#listen` | `ListenStart`, `ListenPacket`, `ListenRunt`, `ListenErrno`, `ListenTimeout` |

`finalized[i]` counts how often `finalize` ran; `@teardown` is `finalized[i] > 0`.
The environment may make the callers in `Vanishing` fall silent for good
(`PeerGone`).  Text, addresses and the contents of packets are abstracted;
exceptions they may raise are choices.

*Properties.*  `CallsMatchTeardown`: the table holds no call twice and no
destroyed call, and a call that was set up leaves the table only by being
destroyed.  `ReservedPortsHeld`: teardown leaves no reservation behind.
`PortsExclusive`: two live transports never share a port, and a live transport's
port is reserved, unless a former owner of the port was destroyed twice.  The
exception is real: BYE, reallocation of the port, late timeout of the first
listener, and the second call's port is free for a third.
`DestroyedTwiceByListener`: a second destroy comes only from the call's own
listener, which then ends, so there is never a third.  `UniqueCallIds`,
`SilentCallsEnd`, `AnsweredCallsStart`: see the runs.

### Srtp

`Contexts` are the fields of `srtp_session_t` that matter: roll-over counter,
newest sequence number, replay window.  Counters have half-range `Half` (0x8000)
and the window `Width` bits (64).  `Shifted` is C's `<<`: for a count of `Width`
or more it may leave nothing or shift by the count modulo the width, which is
what compilers and processors do.  `Bit` is `-diff` with its overflow.  The
cipher and the tag are ideal.  Every packet sent stays in `sent`, from which any
may be delivered any number of times: that is loss, duplication and reordering.
The cipher may fail, `MaxFailures` times, after the context was changed.

`flags` is what the two sessions were created with.  In the RCC modes every
packet whose sequence number is a multiple of `rate` carries a roll-over counter
(`Carries`): not the packet's own but the one of the sender's newest packet.
The receiver checks the tag, if the mode has one (`Tagged`), against the carried
counter and moves its own by the difference (`Resynced`), before the replay
check may refuse the packet (`srtp_recvRefused`).  The program itself creates its
sessions without flags; the library's other modes are checked because they are
what is hard about it.

SRTCP shares the context.  `srtcp_send` records its reports in the RTP window,
as the code does, and `srtcp_recv` hands the report to `srtp_crypt`, which takes
its length field for a sequence number.  The run `srtp` shows that the RTP
stream keeps its guarantees all the same; what breaks is the use of RTCP, see
the observations.

*Properties.*  `NoKeystreamReuse` holds in every mode.  `AcceptedWasSent` is for
the sessions in which every packet has a tag; the others accept what they
decrypt with a wrong index.  `NoReplay` is for packets without counters: a
repeated packet that carries one may set the receiver's counter back, and then
the window, which has no turns, no longer remembers its neighbours.
`InSyncAuthenticates` says that the two estimates of the counter agree within
half a turn, `CarriedCounterResyncs` that a carried counter repairs them from any
distance.

### MediaChannel

A channel has indexes that were sent and indexes that were delivered, and two
switches: `authentic` (only what was sent is delivered) and `once` (nothing is
delivered twice).  `Srtp` implements it with its histories of encrypted and
accepted indexes, `authentic` where every packet has a tag and `once` outside of
the RCC modes.  What a user of the library may rely on is there in one page;
failures of the cipher, refusals, reports and lost synchronisation are steps
that the channel does not see.

### SrtpKeys

A derived key is the master key it comes from and the sixteen bytes with which the
counter mode begins: the salt, with the label and `r` XORed in by `do_derive`.
`NextBlock` is the counter of the next block, which carries through all sixteen
bytes.  The six derivations run in order and any of them may fail half-way;
a key whose length `gcry_cipher_setkey` refuses changes nothing.  `rtcp_index`
has 31 bits, moves with every report, whether the session is keyed or not, and
enters the RTCP keys.  `DerivationsDisjoint` is about the output blocks of the
pseudo-random function: `r` reaches into the block counter, the label's place
depends on the length of `r`, and the second block of an authentication key may
differ from the first in the index, the salt and the label.

### DtlsSession

`state`, `type` and `ssl` are the fields of `dtls_sess`; the SSL object is
external and reduced to its role, how far it is, and the random numbers of the
two ends, which stand for the connection and its keys.  There are four flights;
`net` keeps a datagram until it is lost, so it may be repeated and overtaken.  A
peer that may take either role accepts if a datagram comes first
(`dtls_sess_put_packet`) and connects if the application does
(`dtls_do_handshake`).  If both connect, both fail: the library has no rule
against it, and `BothEstablish` is stated for opposite roles.  It excuses an
end whose peer has started over: that peer answers for its new connection only,
and the library leaves noticing it to the application.  Bytes that an SSL error
left in the write BIO go out with the next call (`Flight` of a failed session,
sent by `dtls_sess_handle_timeout`).  `BothEstablish` relies on the timer that
dtls_srtp.h:181 asks of the application; OpenSSL itself gives up after about
twelve timeouts, and nothing in this repository runs such a timer.

`RolesOpposite` says the rest: whatever the two were created as, an end that
reports a connection and its peer have settled on opposite roles.

### DtlsExample

The demonstration program, once with `-s` and once without.  `pc` is where main
is, `held` what it has acquired, one step per call that may fail.  `BeginMainloop`
creates the session and starts the handshake, `PutPacket` is a turn of the loop
that a DTLS datagram wakes, `Break` the way out of it.  The sink has no timer, so
that `dtls_sess_handle_timeout` is never called and nothing is sent twice; a
first flight that finds no socket at the other end is lost (`udp_sendto`), and one
that OpenSSL does not write at all is not missed: the result of the handshake is
then 0 (`NothingPending`).  The
program crashes when `dtls_sess_new` returns NULL or there is no socket to select
on (`Crash`).  `fault` records that something outside of the two programs went
wrong, which is what `ClientConnects` excludes.  `SuccessMeansConnected` says what
the client's exit status 0, which mainloop overwrites twice, is worth: with the
keys printed, a connection that the server has too; without, no connection at
either end.

### SrtpTransport

The server's side of `DtlsSession` is driven by `handle_dtls`; `Establish` is the
part of it after the handshake: export, free, create and key two SRTP sessions,
`:start_call`, with the exceptions before and after the free.  `process` tells
datagrams apart by their first byte and knows no sender, so a datagram is the
browser's or a stray (`Senders`).  What comes of a datagram that meets the freed
session is undefined (`handle_dtlsFreed`): nothing, an exception or the end of the
process, or the stale type still reads EXISTING and `Establish` runs once more, with
the same keys or with others (`Alien`).  `touched` records whose datagram it was,
`nilMet` whose packet met the nil session in `handle_srtp`.

Of `handle_srtp` the model keeps whether there is a session and whether the listener
survives; what `srtp_recv` does is in `Srtp`.  `handle_rtp` is the rest of it: a runt
raises, anything else is a step of `JitterBuffer`, and what the buffer pumps is
decoded, which may raise.  `KeyedBeforeMedia` says that no packet of the browser
meets a nil session, that nothing, whoever sent it, is heard before the call was told
to start, and with which key it is decrypted.  `ConnectedIsStarted` is what a connected
browser may expect.  Both except by name what only a read of freed memory can do.
The class is complete but no code makes an instance of it at this commit, and it has
a `send_audio(Bytes)` where `Generic` calls `_send_audio`, so it would send no audio;
the sending side is therefore left out.

### Stun

A datagram is received, handled and forgotten.  After the header it is a number
of bytes with, at each multiple of 4, what a reader would find there (a type
and a length, or a name), so the attribute loop runs over real offsets and over
garbage.  Its turns are steps (`ReadAttribute`, `ReadOverrun`), between which no
other fiber runs.  Well-formed requests are laid out attribute by attribute
(`LayOut`) by the padding rule of RFC 5389, stated independently of the code's;
any other datagram comes from `ReceiveAny`.  A reply has a size, a length field and
the set of its attributes with offset, declared length and, for the two hashes,
the key and the length field at the moment of hashing.

### MuLaw

One sample through `encode_sample` and `decode_sample`, in the code's widths: in
particular `mantissa << n` is a `UInt8`.  The reference is the table of levels.
-32768 is among the samples, since `downsample_best` can give it; its negation wraps
(`Negated`), and `EncodesToLevel` names it as the one exception.

### JitterBuffer

`feed` pushes, sorts and pulls.  `Array#sort` returns a copy that the code drops, so
`Sorted` is the identity and nothing is ever reordered.  `NothingLost` and
`HoldsBackRoom` hold of any stream, `InOrderKept` of one that arrives in order; a
stream that does not is not put in order, see the observations.  The buffer is
checked as part of `SrtpTransport`, whose run feeds it across the wrap.

### AudioPump

A clock that anyone may advance, and the timer's fiber, which plans a tick,
sleeps and calls the block, at any time after its sleep is over.  The block
receives the time *before* the sleep, as in the code.  A packet is recorded with
the time it was sent at, its sequence number and its place in the prompt.

## 3. The runs

| run | instance | shows |
|---|---|---|
| `call_control_mixed` | one Call-ID, three transports on two ports, one WebSocket, no buffer | tables and flags stay consistent under every interleaving, exception and timeout |
| `call_control_sip` | two Call-IDs, two transports, three ports, one caller that may vanish | uniqueness of Call-IDs and liveness, no deadlock |
| `duplicate_invite` | SIP and WebSocket, one Call-ID | *violation*: two tracked calls with one Call-ID |
| `srtp` | all five modes, counters carried in every and in every third packet, half-range 4, window 3, three packets and a report, one failure, two turns of the counter | no key stream reuse, no replay, both ends agree and get back in step, the abstract channel is implemented |
| `audio_pump` | interval 2, pause 5, five samples in frames of 2, clock to 16 | never early, in order, complete |
| `srtp_keys` | two ends, two masters, bytes of three bits, four indexes (0, two before a carry, the last one), one failure | disjoint derivations, equal RTP keys |
| `dtls_session` | every pair of roles, two connections, one end that resets | keys fit, the connecting end finishes last, opposite ends connect in the end |
| `dtls_example` | one client, one server | everything is released, what exit status 0 is worth, the client connects unless something fails |
| `srtp_transport` | one browser and strays, one connection, one media packet, two starts, a buffer of room 2 that is fed four times across the wrap | keys before media, right directions, one start; nothing lost, order kept, bounded delay |
| `srtp_transport_freed` | the same | *violation*: a datagram of the handshake meets the freed session |
| `stun` | two calls, up to three attributes, arbitrary requests of two words, the three software names of program and tests | parsing, lengths, hashes, password |
| `mu_law` | all 65536 samples | levels and segments |

*Bounds.*  Three transports are what the port race needs (the destroyed twice,
the robbed, the one that shares); two ports make reallocation certain and
exhaustion possible.  In `stun`, lengths 0, 1, 4, 7 and 8, with 3 and 5 in the
requests nobody laid out, are on both sides of every boundary of a word, and
three attributes allow a repeated
type with another one between.  In `dtls_session` a second connection lets
datagrams of the first one arrive during it.  In `srtp_keys` bytes of three bits
give the index eleven and its wrap at 2048; at 2047 the block counter carries through
the whole index, and the salts of the two masters let it run on or stop it.  In
`srtp_transport` a second start is what a read of freed memory adds, and four packets
through a room of two show two of them pumped and two held back.  The window of 3 in a half-range of 4 lets gaps below, at
and above the width happen, together with -Half and wraps both ways.  A room of
0 in the mixed run means that every packet is pumped; the SIP run has room 1, so
that the buffering step happens too.  `MaxTime` 16 is three ticks more than the
prompt needs when every wake-up is on time, and lets the fiber miss several
ticks and catch up.

*Fairness.*  The scheduler's queue is FIFO, so a fiber that is ready runs:
weak fairness of `FinishReply(Sip)`, `StartCall(Sip)`, `ListenStart` and, for a
caller that is silent for good, `ListenTimeout` (libevent delivers the read
timeout).  Nothing is assumed of the speech service (no read timeout), of
WebSocket peers, or of callers.  In `AudioPump`, time passes and a due fiber
runs.  In `DtlsSession` the application
starts the handshake and its timer fires (weak fairness), and a kind of flight
that is sent again and again arrives at last (strong fairness): the usual
assumption on a lossy network, without which no protocol connects.  In
`DtlsExample` both processes run (weak fairness of what main does by itself) and
a datagram that is not lost arrives; no fault is assumed away but by the property
itself.
`CHECK_DEADLOCK FALSE` is set where a bound ends the run, and in the mixed
run, where the server may stall.

### Findings and observations

Two runs show what a comment rules out.  In `duplicate_invite` only the SIP
handler looks for a duplicate Call-ID, and neither handler can see a call that
still waits for its prompt.  In `srtp_transport_freed` the DTLS session whose life has
ended ("we done. we out.", srtp.cr:109) is used by the next datagram of the browser's
handshake: `@dtls` is neither cleared nor guarded, and a repeated datagram, or the
browser's second try after the server's last flight was lost, is enough.

The models also have, as the code does, the following; no run is about them.

* A WebSocket call is never started: its handler relies on a notification
  (web_socket_server.cr:50) that `Transport::RTP` never sends.
* `rand(49151..65535) & ~1` can be 49150, outside the range (generic.cr:65).
* The marker bit of the first packet (generic.cr:33) is never set: the silence
  before the prompt counts sequence numbers, so that number 1 is not sent.
* After a gap of 64 packets or more the undefined shift of srtp.c:498 may leave
  old bits in the window, and a packet that was never received is refused,
  where srtp.c:459 has "replayed packet or out-of-window or sync lost".
* A packet sent late across a wrap ("you can encrypt packet in disorder",
  srtp.c:526) carries the sender's counter instead of its own (srtp.c:594): its
  tag does not fit, and in RCC mode 3 it is decrypted with the wrong index.
* In the RCC modes a repeated packet is refused after its counter was taken
  (srtp.c:679): it can set the receiver back by a turn.
* `dtls_ctx_init` ignores the verify mode and the callback that dtls_srtp.h:93
  describes (dtls_srtp.c:65).  So the example's server gets no certificate, gives
  up after its first handshake (example.c:314) before it prints the keys, with
  exit status 0, and the code that would serve the next client (example.c:331)
  is not reached.
* The exit status of an example client that is interrupted is the number of bytes
  it sent first (example.c:269), and 0, as after a success, if OpenSSL had nothing to
  send (dtls_srtp.c:268 drops the result of SSL_do_handshake).
* An srtp_setkey that fails half-way leaves keys of two masters (srtp.c:296); the
  session can be used all the same.
* A report sent before the first packet marks sequence number 0 as sent
  (srtp.c:750 writes to the RTP window), and srtcp_recv ends in srtp_crypt
  (srtp.c:835), so that the second report of one length is a "replay".
* The RTCP keys depend on the number of reports sent (srtp.c:304), which the
  receiver does not follow: keying both ends again gives them different ones.
* A late datagram turns a session that was reset into an existing one
  (dtls_srtp.c:241), since SSL_shutdown leaves the handshake finished.
* A datagram whose first byte is between 128 and 191 is handed to `srtp_recv` before
  there is a session (srtp.cr:31 and :61), with a null pointer.  The browser cannot
  be the one that sends it (`KeyedBeforeMedia`).
* The jitter buffer puts nothing in order: the sorted copy of jitter_buffer.cr:18 is
  dropped.  A sort in place by the bare number would misplace packets at the wrap.
* A port that is reserved when `handle_invite` raises before the call is tracked
  (session.cr:46), or when the speech service fails, stays reserved for ever.
  `finalize` is also what the garbage collector calls, but it never gets there: the
  block given to `on_pump` (generic.cr:79) makes the transport reachable from itself,
  and the Boehm collector does not finalize objects on such a cycle; after the
  handler's constructor has begun, its two fibers hold the transport as well.
* When every port is reserved the draw of generic.cr:67 never ends, on the only
  thread.
* handle_srtp feeds the jitter buffer what srtp_recv has refused (srtp.cr:63).
* A STUN request without attributes raises (conv.cr:107) before the reply that
  exists for it (conv.cr:84).
* The mu-law decoder loses the upper bits of the mantissa in the six louder
  segments (mu_law.cr:93), a loss that its own test has written down;
  `DecodesInSegment` says how far it goes.  The encoder's table has 256 entries
  in 255 bytes (mu_law.cr:14).
* The loudest sample, -32768, is encoded as silence, 0x7f: Crystal 0.23.1 wraps its
  negation (mu_law.cr:110), and it passes the clipping.

## 4. The proofs

All proofs are for every value of the constants, under the assumptions each
module states (`FiberAssumption`, `NoneAssumption`, `PortAssumption`,
`RoomAssumption`, `ProgramsAssumption`, `RolesAssumption`, `SrtpAssumption`,
`EndsAssumption`, `ServerAssumption`, `MediaAssumption`, `MastersAssumption`,
`ByteAssumption`, `IndexAssumption`, `BoundsAssumption`, `PeersAssumption`, `StatesAssumption`, `ConnAssumption`,
`BufferAssumption`, `PumpAssumption`, `UsernamesAssumption`, `TypesAssumption`,
`WordsAssumption`, `MaxAssumption`, `NamesAssumption`); the bounds for TLC are constants too, so
they do not weaken the theorems.  Four of them fix what the code fixes:
`RolesAssumption` and `ServerAssumption` the con_state that example.c and srtp.cr
give `dtls_sess_new`, `ByteAssumption` what is needed of bytes and of XOR (it gives
bytes, 0 changes nothing, and it can be undone), `NamesAssumption` a software name in ASCII (the code counts characters and writes
bytes) that leaves room for the 16-bit length of the reply; the program's is
"Whatever".

* `CallControlProofs` proves `IInv`, the conjunction of the type invariant, the
  four safety properties and two strengthenings.  `FibersOK` says what a waiting
  fiber may rely on: its transport exists, is its own, and before it is tracked
  has neither listener nor responder nor teardown.  Without it `TrackCall` could
  add a call a second time, and `FinishReply` revive a listener that has
  destroyed its call.  `FreshOK` says that nothing is known of a transport not
  yet created, without which `NewTransport` could hand out one that is already
  finalized.  The interesting step is the second `Destroy`: `PortsExclusive`
  survives because it excuses exactly the ports with a twice-finalized owner.
  `SipCallIdsUnique` adds that, with the SIP fiber alone, the Call-ID being set
  up is not tracked.  `AnsweredCallNext` is what is safety in `AnsweredCallsStart`:
  from its 200 OK on, a SIP call has been started or the SIP fiber stands before
  that step; it needs that answered calls exist, so that their owner is settled.
  `SilentCallNoticed` is the same for `SilentCallsEnd`: nothing takes the listener
  of a vanished SIP caller out of the wait whose timeout destroys the call.
* `SrtpProofs` rests on `Remembers`: no index that passed is newer than the
  newest, those inside the window have their bit, and the one half a turn back,
  if it ever passed, has bit 0.  The last part is what makes the overflowing
  `-diff` harmless.  The lemma `IndexIsNewestPlusDiff` ties the signed 16-bit
  difference and the roll-over counter together.
  SRTCP's steps only add bit 0 to the sender's window and move the receiver's
  context as a packet does, which `ReportRemembers` carries over.  In the RCC
  modes the receiver's counter may jump, so its `Remembers` is part of the
  invariant only outside of them; the sender's always is.  `SentOK` ties each
  packet to its index and its tag, from which `AcceptedWasSent` follows; two
  indexes of one sequence number less than a turn apart are equal (`SameTurn`),
  which gives `InSyncAuthenticates` and, with `ResyncedEstimates`,
  `CarriedCounterResyncs`.  `SrtpImplementsChannel` maps every action to a step
  of `MediaChannel` or to a stutter.
* `DtlsSessionProofs` proves the four safety properties of `DtlsSession` from
  `SessionInv`.  The properties speak of the two ends; the strengthening speaks of the
  datagrams between them, which may be arbitrarily old.  `SenderOK` says that a
  flight tells the role its sender has taken for good, so that whoever finishes
  on it has a peer of the other role (`RoleOK`).  `DoneOK` says that whoever sent
  a "done" has finished that very connection or has started over since, with a
  larger random number; `ClientOK` is what the connecting end concludes from it.
  Four of the six actions keep the acting end's connection: `SameConnection`
  shows that what they have in common (`KeepsConnection`) preserves `SessionInv`,
  and each of them is shown to be an instance; `RestartInv` does the same for
  setup and reset.  `CompatibleNeverFail` is what is safety in `BothEstablish`: an
  end that has not settled faces one that has had nothing to answer (`Untouched`),
  so it always takes the connecting role, and no flight reaches an end of the role
  that would fail on it.  The last section is for the programs that use a session for
  one connection: `FirstConnection` is then invariant too, and with it a connecting
  end knows more of its peer, `ClientKnows`: the same connection, reported, in the
  opposite role.
* `DtlsExampleProofs` proves `NothingLeft` from `Released`: the session is held
  only in the loop, the socket only until it is closed.  `ExitInv` adds
  `SessionInv`, `FirstConnection`, that a finished handshake means the loop is left,
  and `StatusOK`: while `ret` is 0 and keys are printed, the server has finished with
  those keys (`Vouched`); while it is 0 and none are, nothing was ever sent (`Silent`).
  The first holds when the client prints by `ClientKnows`, and stays because a
  finished server reads nothing any more.  The steps that are not the library's (a
  first flight that is lost, a datagram that OpenSSL refuses) keep the connection
  as well (`LostKeeps`, `FailKeeps`).
* `SrtpTransportProofs` proves that the composition implements `DtlsSession`
  (`TransportUsesSession`) and the two properties of the transport, for a browser
  that starts in any state, whatever strays send and whatever a read of the freed
  session gives.  `KeysOK` ties the transport to its DTLS session: live exactly
  until the session exists, and from then on, while the listener runs, an incoming
  session and a start; both keys and one start as long as nothing has met the freed
  session.  `MediaOK` says that the browser's media come from a connected browser,
  which by `ClientKnows` has a connected server: hence no nil session for it.
  `FedOK` says that a buffer that was fed belongs to a call that was started.  The
  theorems of the jitter buffer, for every room and every stream, are in the same
  module, from `BufferInv`: what was pumped followed by what is held back is what was
  fed (`ArrivalOrder`); `CountConcat` counts the packets of the two parts.
  `TransportUsesBuffer` shows that the composition implements `BufferSpec` too, so
  they hold of the transport's buffer.
* `SrtpKeysProofs` rests on `KeyedFromMaster`: the six keys of a session whose last
  call succeeded are those of its master at one index, and nothing else of the
  session's history.  `StartBytes` says what the first block of a derivation holds:
  the label in byte 7 or 9, out of the reach of the index, and byte 10 of the salt
  as it was; so first blocks differ (`StartsDiffer`).  For the second blocks,
  `NextBlockCarry` says that counting up changes the last byte, and byte 9 only
  together with byte 10, which the carry leaves at 0 where the salt has the largest
  byte.  So the carry may make the labels meet but never the blocks
  (`SecondBlockApart`, `SecondBlocksApart`).
* `StunProofs` proves the three properties of `Stun` from `StunInv`.  What the loop
  computes is proved without induction over a list, since its turns are steps.
  `LaidOK` says what a laid-out request is: attributes at distinct offsets that
  are multiples of 4, each with its header, and its name if it has a value, at
  that offset, each ending where the next one starts or the request ends.  `StepOK`
  says where the loop is: at the start of an attribute or at the end, and what
  it has kept is the last attribute of each type below that offset; without it
  a turn could land inside a value.  `Rounding` shows that the code's
  `attr_len + 3 & ~3` and the rule of RFC 5389 are the same number.  For the reply,
  `ReplyIs` gives the attributes with their offsets for a name of any length, with
  and without a password; `SoftwarePadding` says that the written name is its
  declared length rounded up, for the tests' shortened name as well.  `SentOK` and
  `SignedOK` keep what was sent, and `NamedCall` ties the username that was read to
  the one that the client meant.
* `AudioPumpProofs` strengthens by `Schedule` (`should_tick` is `seq_no`
  intervals, and a sleeping fiber wakes no earlier than the next tick) and
  `Progress` (position and packets sent agree).  `PromptScheduled` is what is safety
  in `PromptEnds`: while the prompt is not over, a sleep ends at once or less than
  two intervals after the pause and the frames sent so far.  `TicksCounted`
  bounds the silent ticks for it: the timer is never ahead of the clock, so that
  only so many fit in the pause, and after it every tick sends a frame.

Only model-checked:

* the liveness properties (`SilentCallsEnd`, `AnsweredCallsStart`, `PromptEnds`,
  `BothEstablish`, `ClientConnects`), which need fairness and `ENABLED`, of which
  the prover has neither;
* `EncodesToLevel` and `DecodesInSegment` of `MuLaw`, which has no parameter: its
  run goes through all 65536 samples and leaves nothing to prove.

## 5. Not modelled

Text parsing and formatting, configuration, logging, the bindings of foreign
libraries; see the components in `PROJECT.json`.  Of the two C libraries:
`SRTP_UNENCRYPTED`, malformed and foreign packets in `Srtp` (the tag is ideal),
`dtls_sess_renegotiate` and the setters of a session's state and sink, none of
which has a caller, and the memory that is allocated.
In `CallControl`, a fiber's wait inside `send` for UDP is not a switching point
of its own: it is part of the waits before and after it.

## 6. Plan

1. `SrtpTransport` with `Srtp` between the browser and the buffer, as an
   implementation of `MediaChannel` up to the refused packets, which the code
   feeds to the jitter buffer all the same.
2. `form_rtp` and `handle_rtp`: the 16-bit sequence number and the timestamp
   across the wrap; composition of `AudioPump` with `Srtp` (the numbers the timer
   produces are ones the sender never refuses).
3. SDP: which offers are answered, and with which codec, over both channels.
