-------------------------------- MODULE Srtp --------------------------------
(***************************************************************************)
(* libsrtp_decrypt/srtp.c: the protection of an RTP stream between a       *)
(* sender (srtp_send) and a receiver (srtp_recv) over a network that       *)
(* loses, duplicates and reorders packets.                                 *)
(*                                                                         *)
(* The same context also protects RTCP (srtcp_send, srtcp_recv).           *)
(*                                                                         *)
(* An RTP packet carries a 16-bit sequence number; the cipher and the      *)
(* authentication tag use a 48-bit index whose upper part, the roll-over   *)
(* counter (RoC), each side estimates for itself; in the RCC modes some    *)
(* packets carry the sender's.  The program itself creates its sessions    *)
(* without flags.  The cipher and the tag are ideal: a tag fits only the   *)
(* packet and the counter it was made of.  The roll-over counter is an     *)
(* integer, -1 standing for 2^32 - 1 (a session is re-keyed long before    *)
(* 2^32 turns).                                                            *)
(***************************************************************************)
EXTENDS Integers, FiniteSets

CONSTANTS
  Half,        \* 0x8000
  Width,       \* bits of the replay window: 64
  Flags,       \* the flags a session may be created with
  Rates,       \* the rates srtp_setrcc_rate may be given
  Steps,       \* how far from its newest packet the application may send
  MaxFailures, \* bound on the failures of gcry_cipher_encrypt
  MaxRoc,      \* bound on the roll-over counters
  MaxPackets,  \* bound on the number of packets sent
  Lengths,     \* the length fields of the RTCP reports (bytes 2 and 3)
  MaxReports   \* bound on the number of reports sent

\* 0, SRTP_UNAUTHENTICATED, SRTP_RCC_MODE1, ...
AllFlags ==
  {"AUTHENTICATED", "UNAUTHENTICATED", "RCC_MODE1", "RCC_MODE2", "RCC_MODE3"}

ASSUME SrtpAssumption ==
  /\ Half \in Nat /\ Width \in Nat
  /\ 0 < Width /\ Width <= Half
  /\ Flags \subseteq AllFlags
  /\ Rates \subseteq Nat \ {0}
  /\ Steps \subseteq -Half..(Half - 1)
  /\ MaxFailures \in Nat
  /\ MaxRoc \in Nat /\ MaxPackets \in Nat
  /\ Lengths \subseteq 0..(2 * Half - 1) /\ MaxReports \in Nat

M == 2 * Half
Seqs == 0..(M - 1)
Bits == 0..(Width - 1)
Contexts == [roc : Int, seq : Seqs, window : SUBSET Bits]
Packets == [seq : Seqs, roc : Int, tag : Int, carry : Int]
Reports == [index : Nat, length : Lengths]

VARIABLES
  flags,      \* s->flags, the same at both ends
  rate,       \* s->rtp_rcc, the same at both ends
  sender,     \* srtp_session_t of the sending side
  receiver,   \* srtp_session_t of the receiving side
  sent,       \* every packet sent; any of them may arrive, any number of times
  rtcp_index, \* of the sending side
  reports,    \* every RTCP report sent
  failures,   \* how often the cipher has failed
  enciphered, \* history: the indexes the sender has used the key stream of
  reused,     \* history: those used more than once
  accepted,   \* history: the indexes srtp_recv has returned 0 for
  replayed    \* history: those accepted more than once

rtp == <<sender, receiver, sent, enciphered, reused, accepted, replayed>>
rtcp == <<rtcp_index, reports>>
session == <<flags, rate>>
vars == <<session, rtp, rtcp, failures>>

Index(roc, seq) == roc * M + seq
Newest(s) == Index(s.roc, s.seq)

-----------------------------------------------------------------------------
(* srtp_crypt *)

\* x & 0xffff, of a difference of two sequence numbers
Low16(x) == IF x < 0 THEN x + M ELSE x

\* (int16_t)(seq - s->rtp_seq)
Diff(s, q) ==
  LET d == Low16(q - s.seq) IN IF d < Half THEN d ELSE d - M

\* Mutant of compute_roc: a late packet is taken to be of the newest one's turn.
compute_rocForward(s, q) ==
  IF Low16(q - s.seq) < Half /\ q < s.seq THEN s.roc + 1 ELSE s.roc

compute_roc(s, q) ==
  IF Low16(q - s.seq) < Half
  THEN IF q < s.seq THEN s.roc + 1 ELSE s.roc
  ELSE IF q > s.seq THEN s.roc - 1 ELSE s.roc

\* Mutant of Shifted: bits beyond the width stay.
ShiftedUnmasked(w, d) == {{b + d : b \in w}}

\* window << d.  A shift by the width of the type or more is undefined: the
\* processor takes the count modulo the width (x86, ARM64), or the result is 0.
Shifted(w, d) ==
  IF d < Width
  THEN {{b + d : b \in w} \cap Bits}
  ELSE {{}, {b + (d % Width) : b \in w} \cap Bits}

\* The window bit of a packet that is d <= 0 ahead.  -(-0x8000) overflows the
\* int16_t to -0x8000, which passes `>= 64` and, as a shift count, is 0.
Bit(d) == IF d = -Half THEN 0 ELSE -d

\* Mutant of srtp_crypt: the bit of a late packet is not recorded.
srtp_cryptForgets(s, q) ==
  IF Diff(s, q) > 0
  THEN {[roc |-> compute_roc(s, q), seq |-> q, window |-> w \cup {0}] :
          w \in Shifted(s.window, Diff(s, q))}
  ELSE IF Bit(Diff(s, q)) < Width /\ Bit(Diff(s, q)) \notin s.window
       THEN {s}
       ELSE {}

\* Mutant of srtp_crypt: the roll-over counter is not stored.
srtp_cryptKeepsRoc(s, q) ==
  IF Diff(s, q) > 0
  THEN {[roc |-> s.roc, seq |-> q, window |-> w \cup {0}] :
          w \in Shifted(s.window, Diff(s, q))}
  ELSE IF Bit(Diff(s, q)) < Width /\ Bit(Diff(s, q)) \notin s.window
       THEN {[s EXCEPT !.window = @ \cup {Bit(Diff(s, q))}]}
       ELSE {}

\* The contexts srtp_crypt may leave when it gets as far as the cipher; none
\* when it returns EACCES, and then the context is as it was.
srtp_crypt(s, q) ==
  IF Diff(s, q) > 0
  THEN {[roc |-> compute_roc(s, q), seq |-> q, window |-> w \cup {0}] :
          w \in Shifted(s.window, Diff(s, q))}
  ELSE IF Bit(Diff(s, q)) < Width /\ Bit(Diff(s, q)) \notin s.window
       THEN {[s EXCEPT !.window = @ \cup {Bit(Diff(s, q))}]}
       ELSE {}

-----------------------------------------------------------------------------
(* srtp_send and srtp_recv *)

\* One of the three modes in which packets carry a roll-over counter.
rcc_mode == flags \in {"RCC_MODE1", "RCC_MODE2", "RCC_MODE3"}

\* rcc_mode(s) is set and the sequence number is a multiple of the rate: the
\* packet carries a roll-over counter.
Carries(q) == rcc_mode /\ q % rate = 0

\* The packet has an authentication tag.
Tagged(q) ==
  \/ flags \in {"AUTHENTICATED", "RCC_MODE2"}
  \/ flags = "RCC_MODE1" /\ Carries(q)

Again(x, seen) == IF x \in seen THEN {x} ELSE {}

\* gcry_cipher_encrypt fails.
Fails == failures < MaxFailures /\ failures' = failures + 1

\* Bounds of the instance TLC explores.
MaySend(q) ==
  /\ Diff(sender, q) \in Steps
  /\ compute_roc(sender, q) \in -1..MaxRoc
  /\ Cardinality(sent) < MaxPackets

\* srtp_send: encrypt, then compute the tag from the context as it is by now,
\* and append the context's own counter to a packet that carries one.
srtp_send(q) ==
  /\ MaySend(q)
  /\ \E s \in srtp_crypt(sender, q) :
       LET roc == compute_roc(sender, q)
           x == Index(roc, q)
       IN  /\ sender' = s
           /\ sent' = sent \cup {[seq |-> q, roc |-> roc,
                                  tag |-> compute_roc(s, q),
                                  carry |-> IF Carries(q) THEN s.roc ELSE 0]}
           /\ enciphered' = enciphered \cup {x}
           /\ reused' = reused \cup Again(x, enciphered)
  /\ UNCHANGED <<receiver, accepted, replayed, rtcp, session, failures>>

\* The cipher fails (EINVAL): the context has been updated already.
srtp_sendFails(q) ==
  /\ Fails
  /\ MaySend(q)
  /\ sender' \in srtp_crypt(sender, q)
  /\ UNCHANGED <<receiver, sent, enciphered, reused, accepted, replayed, rtcp,
                 session>>

\* Mutant of Authentic: the tag is not checked.
AuthenticAlways(p) == TRUE

\* The tag in the packet, if there is one, fits the counter the packet carries
\* or else the one the receiver estimates.
Authentic(p) ==
  Tagged(p.seq) =>
    p.tag = IF Carries(p.seq) THEN p.carry ELSE compute_roc(receiver, p.seq)

\* Mutant of Resynced: the counter is assigned.
ResyncedAssigns(p) ==
  IF Carries(p.seq) THEN [receiver EXCEPT !.roc = p.carry] ELSE receiver

\* s->rtp_roc += rcc - roc, when the packet carries a counter
Resynced(p) ==
  IF Carries(p.seq)
  THEN [receiver EXCEPT !.roc = @ + p.carry - compute_roc(receiver, p.seq)]
  ELSE receiver

\* Bound of the instance TLC explores.
MayReach(s) == s.roc \in -1..MaxRoc

\* srtp_recv: check the tag (EACCES, no change), take the counter the packet
\* carries, then decrypt.
srtp_recv(p) ==
  /\ Authentic(p)
  /\ receiver' \in srtp_crypt(Resynced(p), p.seq)
  /\ MayReach(receiver')
  /\ LET x == Index(compute_roc(Resynced(p), p.seq), p.seq)
     IN  /\ accepted' = accepted \cup {x}
         /\ replayed' = replayed \cup Again(x, accepted)
  /\ UNCHANGED <<sender, sent, enciphered, reused, rtcp, session, failures>>

\* srtp_crypt returns EACCES: the carried counter has been taken already.
srtp_recvRefused(p) ==
  /\ Authentic(p)
  /\ srtp_crypt(Resynced(p), p.seq) = {}
  /\ receiver' = Resynced(p)
  /\ MayReach(receiver')
  /\ UNCHANGED <<sender, sent, enciphered, reused, accepted, replayed, rtcp,
                 session, failures>>

srtp_recvFails(p) ==
  /\ Fails
  /\ Authentic(p)
  /\ receiver' \in srtp_crypt(Resynced(p), p.seq)
  /\ MayReach(receiver')
  /\ UNCHANGED <<sender, sent, enciphered, reused, accepted, replayed, rtcp,
                 session>>

-----------------------------------------------------------------------------
(* SRTCP *)

\* Mutant of srtcp_crypt: the RTP window is assigned instead of added to.
srtcp_cryptAssigns(s) == [s EXCEPT !.window = {0}]

\* srtcp_crypt of a report with the index the context has: the difference is
\* 0, the RTCP window is still empty, and the bit is set in the RTP window.
srtcp_crypt(s) == [s EXCEPT !.window = @ \cup {0}]

\* srtcp_send: the next index, encrypt, append index and tag.  (The index is
\* 31 bits wide; as with the roll-over counter, re-keying comes first.)
srtcp_send(n) ==
  /\ rtcp_index < MaxReports
  /\ rtcp_index' = rtcp_index + 1
  /\ sender' = srtcp_crypt(sender)
  /\ reports' = reports \cup {[index |-> rtcp_index + 1, length |-> n]}
  /\ UNCHANGED <<receiver, sent, enciphered, reused, accepted, replayed,
                 session, failures>>

srtcp_sendFails ==
  /\ Fails
  /\ rtcp_index < MaxReports
  /\ rtcp_index' = rtcp_index + 1
  /\ sender' = srtcp_crypt(sender)
  /\ UNCHANGED <<receiver, sent, enciphered, reused, accepted, replayed,
                 reports, session>>

\* srtcp_recv: the tag fits, the index is cut off unread, and srtp_crypt takes
\* the report for an RTP packet: its length field for a sequence number.  When
\* it returns EACCES nothing changes.
srtcp_recv(m) ==
  /\ receiver' \in srtp_crypt(receiver, m.length)
  /\ MayReach(receiver')
  /\ UNCHANGED <<sender, sent, enciphered, reused, accepted, replayed, rtcp,
                 session, failures>>

\* srtp_create: a zeroed context
srtp_create == [roc |-> 0, seq |-> 0, window |-> {}]

Init ==
  /\ flags \in Flags
  /\ rate \in IF rcc_mode THEN Rates ELSE {1}
  /\ sender = srtp_create
  /\ receiver = srtp_create
  /\ sent = {}
  /\ rtcp_index = 0
  /\ reports = {}
  /\ failures = 0
  /\ enciphered = {}
  /\ reused = {}
  /\ accepted = {}
  /\ replayed = {}

Next ==
  \/ \E q \in Seqs : srtp_send(q) \/ srtp_sendFails(q)
  \/ \E p \in sent : srtp_recv(p) \/ srtp_recvRefused(p) \/ srtp_recvFails(p)
  \/ \E n \in Lengths : srtcp_send(n)
  \/ srtcp_sendFails
  \/ \E m \in reports : srtcp_recv(m)

Spec == Init /\ [][Next]_vars

-----------------------------------------------------------------------------
(* Properties *)

\* The types of the contexts (srtp_session_t) and of the histories.
TypeOK ==
  /\ flags \in AllFlags
  /\ rate \in Nat \ {0}
  /\ sender \in Contexts
  /\ receiver \in Contexts
  /\ sent \subseteq Packets
  /\ rtcp_index \in Nat
  /\ reports \subseteq Reports
  /\ failures \in Nat
  /\ enciphered \subseteq Int
  /\ reused \subseteq Int
  /\ accepted \subseteq Int
  /\ replayed \subseteq Int

\* The sender never encrypts two packets with one key stream, whatever order
\* the application sends in ("you can encrypt packet in disorder", srtp.c:526),
\* whatever an oversized shift leaves in the window (srtp.c:498).
NoKeystreamReuse == reused = {}

\* srtp_recv returns 0 at most once for an index, however often and in
\* whatever order packets arrive (the replay check of srtp.c:506), as long as
\* the packets carry no counter.
NoReplay == ~rcc_mode => replayed = {}

\* Every packet has a tag: without flags, in RCC mode 2, and in mode 1 at rate 1
\* ("RCC mode 1 and 2 are functionally identical", srtp.c:380).
AllTagged == \A q \in Seqs : Tagged(q)

\* What is accepted was sent: with the tag computed after srtp_crypt has moved
\* the context (srtp.c:589), the sender's counter carried instead of the
\* packet's (srtp.c:594) and the counter estimated twice by the receiver
\* (srtp.c:653, :490), an accepted packet is decrypted with the index it was
\* encrypted with.
AcceptedWasSent == AllTagged => accepted \subseteq enciphered

\* Both sides agree on the roll-over counter of every packet less than half a
\* turn away from the receiver's newest one: such a packet always authenticates,
\* unless it carries a counter that is not its own.
InSyncAuthenticates ==
  \A p \in sent :
    (/\ Index(p.roc, p.seq) - Newest(receiver) \in -Half..(Half - 1)
     /\ Carries(p.seq) => p.carry = p.roc)
      => Authentic(p)

\* A packet that carries a counter brings a receiver back in step that has lost
\* count of the turns or has joined late (srtp.c:679): once it is accepted, the
\* packets of the half turn after it authenticate.
CarriedCounterResyncs ==
  [][\A p \in sent :
       (srtp_recv(p) /\ Tagged(p.seq) /\ Carries(p.seq)) =>
         \A later \in sent :
           (/\ Index(later.roc, later.seq) - Index(p.roc, p.seq) \in 0..(Half - 1)
            /\ Carries(later.seq) => later.carry = later.roc)
             => Authentic(later)']_vars

\* What the library promises to its user (see MediaChannel): no key stream is
\* used twice (srtp.c:515); where every packet is authenticated only what was
\* sent is delivered (srtp.c:673); where no packet carries a counter nothing is
\* delivered twice (srtp.c:506).
Channel == INSTANCE MediaChannel WITH
  authentic <- AllTagged,
  once <- ~rcc_mode,
  sent <- enciphered,
  delivered <- accepted,
  repeated <- replayed

\* Every step of the protocol is a step of the abstract channel.
ImplementsChannel == Channel!Spec
=============================================================================
