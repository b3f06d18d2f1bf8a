----------------------------- MODULE SrtpProofs -----------------------------
(* Proofs about Srtp, for every width of the counters and of the window. *)
EXTENDS Srtp, TLAPS

\* What a context remembers of the indexes P that have passed srtp_crypt: none
\* is newer than the newest, those inside the window have their bit set, and
\* so has the one half a turn back, which srtp_crypt takes for the newest.
Remembers(s, P) ==
  \A x \in P :
    /\ x <= Newest(s)
    /\ Newest(s) - x < Width => (Newest(s) - x) \in s.window
    /\ x = Newest(s) - Half => 0 \in s.window

\* The tag of a packet is made of the counter it was encrypted with.
SentOK(p) == p.tag = p.roc /\ Index(p.roc, p.seq) \in enciphered

Inv ==
  /\ TypeOK
  /\ Remembers(sender, enciphered)
  /\ ~rcc_mode => Remembers(receiver, accepted)
  /\ \A p \in sent : SentOK(p)
  /\ NoKeystreamReuse
  /\ NoReplay
  /\ AcceptedWasSent

-----------------------------------------------------------------------------
LEMMA TurnMore ==
  ASSUME NEW a \in Int, NEW b \in Int
  PROVE  /\ a * b \in Int
         /\ (a + 1) * b = a * b + b
         /\ (a - 1) * b = a * b - b
  OBVIOUS

\* The signed difference and the roll-over counter agree: the index that is
\* estimated for q is the newest index plus the difference.
LEMMA IndexIsNewestPlusDiff ==
  ASSUME NEW s \in Contexts, NEW q \in Seqs
  PROVE  /\ Diff(s, q) \in -Half..(Half - 1)
         /\ compute_roc(s, q) \in Int
         /\ Newest(s) \in Int
         /\ Index(compute_roc(s, q), q) = Newest(s) + Diff(s, q)
<1>1. /\ s.roc \in Int /\ s.seq \in 0..(M - 1) /\ q \in 0..(M - 1)
      /\ M \in Int /\ M = 2 * Half /\ Half \in Nat /\ Half > 0
  BY SrtpAssumption DEF Contexts, Seqs, M
<1>2. /\ (s.roc + 1) * M = s.roc * M + M
      /\ (s.roc - 1) * M = s.roc * M - M
      /\ s.roc * M \in Int
  BY <1>1, TurnMore
<1> DEFINE r == s.roc * M
<1>3. r \in Int /\ (s.roc + 1) * M = r + M /\ (s.roc - 1) * M = r - M
  BY <1>2
<1>4. Newest(s) = r + s.seq
  BY DEF Newest, Index
<1> HIDE DEF r
<1>5. Diff(s, q) \in -Half..(Half - 1) /\ compute_roc(s, q) \in Int
  BY <1>1 DEF Diff, Low16, compute_roc
<1>6. Index(compute_roc(s, q), q) = r + s.seq + Diff(s, q)
  <2>1. /\ Index(s.roc, q) = r + q
        /\ Index(s.roc + 1, q) = r + M + q
        /\ Index(s.roc - 1, q) = r - M + q
    BY <1>3 DEF Index, r
  <2>2. CASE Low16(q - s.seq) < Half /\ q < s.seq
    BY <2>1, <2>2, <1>1, <1>3 DEF compute_roc, Diff, Low16
  <2>3. CASE Low16(q - s.seq) < Half /\ ~(q < s.seq)
    BY <2>1, <2>3, <1>1, <1>3 DEF compute_roc, Diff, Low16
  <2>4. CASE ~(Low16(q - s.seq) < Half) /\ q > s.seq
    BY <2>1, <2>4, <1>1, <1>3 DEF compute_roc, Diff, Low16
  <2>5. CASE ~(Low16(q - s.seq) < Half) /\ ~(q > s.seq)
    BY <2>1, <2>5, <1>1, <1>3 DEF compute_roc, Diff, Low16
  <2> QED
    BY <2>2, <2>3, <2>4, <2>5
<1> QED
  BY <1>1, <1>3, <1>4, <1>5, <1>6

\* A packet passes srtp_crypt only if its index has not passed before, and is
\* remembered from then on.
LEMMA CryptRemembers ==
  ASSUME NEW s \in Contexts, NEW q \in Seqs, NEW t \in srtp_crypt(s, q),
         NEW P \in SUBSET Int, Remembers(s, P)
  PROVE  LET x == Index(compute_roc(s, q), q) IN
         /\ t \in Contexts
         /\ x \in Int
         /\ x \notin P
         /\ Remembers(t, P \cup {x})
<1> DEFINE x == Index(compute_roc(s, q), q)
           d == Diff(s, q)
           R == Newest(s)
<1>1. /\ d \in -Half..(Half - 1) /\ x = R + d /\ R \in Int /\ x \in Int
      /\ compute_roc(s, q) \in Int
  BY IndexIsNewestPlusDiff
<1>2. /\ Half \in Nat /\ Width \in Nat /\ 0 < Width /\ Width <= Half
      /\ s.window \subseteq Bits /\ s.roc \in Int /\ s.seq \in Seqs
      /\ Bits = 0..(Width - 1)
  BY SrtpAssumption DEF Contexts, Bits
<1>3. CASE d > 0
  <2>1. PICK w \in Shifted(s.window, d) :
          t = [roc |-> compute_roc(s, q), seq |-> q, window |-> w \cup {0}]
    BY <1>3 DEF srtp_crypt
  <2>2. /\ w \subseteq Bits
        /\ d < Width => \A b \in s.window : b + d \in Bits => b + d \in w
    BY DEF Shifted
  <2>3. t \in Contexts
    BY <2>1, <2>2, <1>1, <1>2 DEF Contexts
  <2>4. Newest(t) = x /\ t.window = w \cup {0}
    BY <2>1 DEF Newest
  <2>5. x \notin P
    BY <1>1, <1>3 DEF Remembers
  <2>6. ASSUME NEW y \in P
        PROVE  /\ y <= x
               /\ x - y < Width => (x - y) \in t.window
               /\ y = x - Half => 0 \in t.window
    <3>1. /\ y \in Int /\ y <= R
          /\ R - y < Width => (R - y) \in s.window
      BY DEF Remembers
    <3>2. ASSUME x - y < Width PROVE (x - y) \in w
      <4>1. /\ R - y < Width /\ d < Width /\ x - y = (R - y) + d
            /\ (R - y) + d \in Bits
        <5> HIDE DEF x, d, R
        <5>1. d \in Int
          BY <1>1, <1>2
        <5> QED
          BY <5>1, <3>1, <3>2, <1>1, <1>2, <1>3
      <4> QED
        BY <4>1, <3>1, <2>2
    <3> QED
      BY <3>1, <3>2, <2>4, <1>1, <1>3
  <2> QED
    BY <2>3, <2>4, <2>5, <2>6, <1>1, <1>2 DEF Remembers
<1>4. CASE ~(d > 0)
  <2> DEFINE b == Bit(d)
  <2>1. /\ b < Width /\ b \notin s.window
        /\ t = [s EXCEPT !.window = @ \cup {b}]
    BY <1>4 DEF srtp_crypt
  <2>2. b \in Bits /\ (d = -Half => b = 0) /\ (d # -Half => b = -d)
    BY <2>1, <1>1, <1>2, <1>4 DEF Bit
  <2> HIDE DEF b
  <2>3. /\ t \in Contexts /\ Newest(t) = R /\ t.window = s.window \cup {b}
    BY <2>1, <2>2, <1>2 DEF Contexts, Newest
  <2>4. x \notin P
    <3> SUFFICES ASSUME x \in P PROVE FALSE
      OBVIOUS
    <3>1. /\ R - x < Width => (R - x) \in s.window
          /\ x = R - Half => 0 \in s.window
      BY DEF Remembers
    <3>2. CASE d = -Half
      BY <3>1, <3>2, <2>1, <2>2, <1>1, <1>2
    <3>3. CASE d # -Half
      BY <3>1, <3>3, <2>1, <2>2, <1>1, <1>2
    <3> QED
      BY <3>2, <3>3
  <2>5. ASSUME NEW y \in P
        PROVE  /\ y <= R
               /\ R - y < Width => (R - y) \in t.window
               /\ y = R - Half => 0 \in t.window
    BY <2>3 DEF Remembers
  <2>6. /\ x <= R
        /\ R - x < Width => (R - x) \in t.window
        /\ x = R - Half => 0 \in t.window
    <3>1. CASE d = -Half
      BY <3>1, <2>2, <2>3, <1>1, <1>2
    <3>2. CASE d # -Half
      BY <3>2, <1>4, <2>2, <2>3, <1>1, <1>2
    <3> QED
      BY <3>1, <3>2
  <2> QED
    BY <2>3, <2>4, <2>5, <2>6, <1>1 DEF Remembers
<1> QED
  BY <1>3, <1>4, <1>1

LEMMA CryptType ==
  ASSUME NEW s \in Contexts, NEW q \in Seqs, NEW t \in srtp_crypt(s, q)
  PROVE  t \in Contexts
<1>1. Remembers(s, {})
  BY DEF Remembers
<1> QED
  BY <1>1, CryptRemembers

\* The counter srtp_send puts into the tag, after srtp_crypt, is the one
\* srtp_crypt encrypted with.
LEMMA CryptKeepsRoc ==
  ASSUME NEW s \in Contexts, NEW q \in Seqs, NEW t \in srtp_crypt(s, q)
  PROVE  compute_roc(t, q) = compute_roc(s, q)
<1>0. Half \in Nat /\ Half > 0 /\ q \in Int /\ compute_roc(s, q) \in Int
  BY SrtpAssumption, IndexIsNewestPlusDiff DEF Seqs, M
<1>1. CASE Diff(s, q) > 0
  <2>1. PICK w : t = [roc |-> compute_roc(s, q), seq |-> q, window |-> w \cup {0}]
    BY <1>1 DEF srtp_crypt
  <2>2. t.seq = q /\ t.roc = compute_roc(s, q) /\ Low16(q - q) = 0
    BY <2>1, <1>0 DEF Low16
  <2> QED
    BY <2>2, <1>0 DEF compute_roc
<1>2. CASE ~(Diff(s, q) > 0)
  <2>1. t = [s EXCEPT !.window = @ \cup {Bit(Diff(s, q))}]
    BY <1>2 DEF srtp_crypt
  <2>2. t.seq = s.seq /\ t.roc = s.roc
    BY <2>1 DEF Contexts
  <2> QED
    BY <2>2 DEF compute_roc
<1> QED
  BY <1>1, <1>2

LEMMA IndexInt ==
  ASSUME NEW r \in Int, NEW q \in Seqs
  PROVE  Index(r, q) \in Int
<1>1. M \in Int /\ q \in Int
  BY SrtpAssumption DEF M, Seqs
<1>2. r * M \in Int
  BY <1>1
<1> DEFINE rm == r * M
<1> HIDE DEF rm
<1>3. rm + q \in Int
  BY <1>1, <1>2 DEF rm
<1> QED
  BY <1>3 DEF Index, rm

\* Two indexes of one sequence number less than a turn apart are the same.
LEMMA OneTurn ==
  ASSUME NEW a \in Int, NEW b \in Int, NEW m \in Nat, a < b
  PROVE  a * m + m <= b * m
<1>1. PICK k \in Nat : b = a + 1 + k
  <2>1. b - a - 1 \in Nat /\ b = a + 1 + (b - a - 1)
    OBVIOUS
  <2> QED
    BY <2>1
<1>2. b * m = a * m + m + k * m
  BY <1>1
<1>3. k * m \in Nat /\ a * m \in Int
  OBVIOUS
<1> QED
  BY <1>2, <1>3

\* A context estimates the right counter for every packet less than half a turn
\* away from its newest one.
LEMMA SameTurn ==
  ASSUME NEW s \in Contexts, NEW q \in Seqs, NEW r \in Int,
         Index(r, q) - Newest(s) \in -Half..(Half - 1)
  PROVE  compute_roc(s, q) = r
<1> DEFINE c == compute_roc(s, q)
<1>1. /\ c \in Int /\ Newest(s) \in Int
      /\ Index(c, q) = Newest(s) + Diff(s, q)
      /\ Diff(s, q) \in -Half..(Half - 1)
  BY IndexIsNewestPlusDiff
<1>2. Half \in Nat /\ M = 2 * Half /\ M \in Nat /\ q \in Int
  BY SrtpAssumption DEF M, Seqs
<1> HIDE DEF c
<1>3. c * M \in Int /\ r * M \in Int
  BY <1>1, <1>2
<1> DEFINE cm == c * M
           rm == r * M
<1>4. cm + q - (rm + q) < M /\ rm + q - (cm + q) < M
  <2>1. Index(c, q) = cm + q /\ Index(r, q) = rm + q
    BY DEF Index
  <2>2. cm \in Int /\ rm \in Int
    BY <1>3
  <2> HIDE DEF cm, rm
  <2> DEFINE d == Diff(s, q)
             R == Newest(s)
  <2>3. /\ cm + q = R + d /\ rm + q - R \in -Half..(Half - 1)
        /\ d \in -Half..(Half - 1) /\ R \in Int
    <3>1. cm + q = R + d
      BY <2>1, <1>1
    <3>2. rm + q - R = Index(r, q) - Newest(s)
      BY <2>1, <2>2, <1>1, <1>2
    <3> QED
      BY <3>1, <3>2, <1>1
  <2> HIDE DEF d, R
  <2> QED
    BY <2>2, <2>3, <1>2
<1>5. ~(c < r)
  <2> SUFFICES ASSUME c < r PROVE FALSE
    OBVIOUS
  <2>1. cm + M <= rm
    BY OneTurn, <1>1, <1>2
  <2> HIDE DEF cm, rm
  <2> QED
    BY <2>1, <1>2, <1>3, <1>4 DEF cm, rm
<1>6. ~(r < c)
  <2> SUFFICES ASSUME r < c PROVE FALSE
    OBVIOUS
  <2>1. rm + M <= cm
    BY OneTurn, <1>1, <1>2
  <2> HIDE DEF cm, rm
  <2> QED
    BY <2>1, <1>2, <1>3, <1>4 DEF cm, rm
<1> QED
  BY <1>1, <1>5, <1>6 DEF c

\* The assertion of srtp.c:680: with the carried counter taken, the receiver
\* estimates what was carried.
LEMMA ResyncedEstimates ==
  ASSUME receiver \in Contexts, NEW p \in Packets
  PROVE  /\ Resynced(p) \in Contexts
         /\ Carries(p.seq) => compute_roc(Resynced(p), p.seq) = p.carry
         /\ ~rcc_mode => Resynced(p) = receiver
         /\ ~Carries(p.seq) => Resynced(p) = receiver
<1> DEFINE c == compute_roc(receiver, p.seq)
<1>1. /\ p.seq \in Seqs /\ p.carry \in Int /\ c \in Int
      /\ receiver.roc \in Int /\ receiver.seq \in Seqs
  BY IndexIsNewestPlusDiff DEF Packets, Contexts
<1>2. CASE Carries(p.seq)
  <2>1. Resynced(p) = [receiver EXCEPT !.roc = receiver.roc + p.carry - c]
    BY <1>2 DEF Resynced
  <2>2. /\ Resynced(p) \in Contexts
        /\ Resynced(p).roc = receiver.roc + p.carry - c
        /\ Resynced(p).seq = receiver.seq
    BY <2>1, <1>1 DEF Contexts
  <2>3. compute_roc(Resynced(p), p.seq) = c + (p.carry - c)
    BY <2>2, <1>1 DEF compute_roc, Low16, Seqs
  <2> QED
    BY <2>2, <2>3, <1>1, <1>2 DEF Carries
<1>3. CASE ~Carries(p.seq)
  BY <1>3 DEF Resynced, Carries
<1> QED
  BY <1>2, <1>3

LEMMA RememberLess ==
  ASSUME NEW s, NEW P, NEW Q, Remembers(s, P), Q \subseteq P
  PROVE  Remembers(s, Q)
  BY DEF Remembers

\* A report sets one more bit, which forgets nothing.
LEMMA ReportRemembers ==
  ASSUME NEW s \in Contexts, NEW P, Remembers(s, P)
  PROVE  srtcp_crypt(s) \in Contexts /\ Remembers(srtcp_crypt(s), P)
<1>1. 0 \in Bits
  BY SrtpAssumption DEF Bits
<1>2. /\ srtcp_crypt(s) \in Contexts
      /\ Newest(srtcp_crypt(s)) = Newest(s)
      /\ s.window \subseteq srtcp_crypt(s).window
  BY <1>1 DEF srtcp_crypt, Contexts, Newest
<1> QED
  BY <1>2 DEF Remembers

-----------------------------------------------------------------------------
LEMMA SessionFixed ==
  ASSUME UNCHANGED session
  PROVE  /\ rcc_mode' <=> rcc_mode
         /\ AllTagged' <=> AllTagged
  BY DEF session, rcc_mode, AllTagged, Tagged, Carries, Seqs, M

\* A step that leaves the packets, their indexes and what was accepted alone
\* keeps everything said about them.
LEMMA HistoryKept ==
  ASSUME Inv,
         UNCHANGED <<sent, enciphered, reused, accepted, replayed, session>>
  PROVE  /\ \A p \in sent' : SentOK(p)'
         /\ NoKeystreamReuse' /\ NoReplay' /\ AcceptedWasSent'
         /\ flags' \in AllFlags /\ rate' \in Nat \ {0}
  BY SessionFixed
     DEF Inv, TypeOK, SentOK, NoKeystreamReuse, NoReplay, AcceptedWasSent, Index,
         session, M

\* A packet that passes the tag, and passes srtp_crypt, is decrypted with the
\* index it was encrypted with.
LEMMA AcceptedIndex ==
  ASSUME Inv, NEW p \in sent, Authentic(p), Tagged(p.seq)
  PROVE  compute_roc(Resynced(p), p.seq) = p.roc
<1>1. p \in Packets /\ receiver \in Contexts /\ p.tag = p.roc
  BY DEF Inv, TypeOK, SentOK
<1> QED
  BY <1>1, ResyncedEstimates DEF Authentic

-----------------------------------------------------------------------------
\* For every counter width and window, in every mode, in every order of sending
\* and delivery, with any outcome of an oversized shift and with cipher
\* failures: no key stream is used twice (srtp_crypt), without RoC carry no
\* packet is accepted twice, and a tagged packet is accepted with its own index.
THEOREM SrtpInvariant == Spec => []Inv
<1>1. Init => Inv
  <2> SUFFICES ASSUME Init PROVE Inv
    OBVIOUS
  <2>1. srtp_create \in Contexts
    BY SrtpAssumption DEF srtp_create, Contexts, Seqs, M
  <2>2. flags \in AllFlags /\ rate \in Nat \ {0}
    BY SrtpAssumption DEF Init
  <2> QED
    BY <2>1, <2>2
       DEF Init, Inv, TypeOK, Remembers, NoKeystreamReuse, NoReplay,
           AcceptedWasSent
<1>2. Inv /\ [Next]_vars => Inv'
  <2> SUFFICES ASSUME Inv, [Next]_vars PROVE Inv'
    OBVIOUS
  <2>0. /\ sender \in Contexts /\ receiver \in Contexts
        /\ sent \subseteq Packets
        /\ rtcp_index \in Nat /\ reports \subseteq Reports /\ failures \in Nat
        /\ enciphered \in SUBSET Int /\ accepted \in SUBSET Int
        /\ reused \subseteq Int /\ replayed \subseteq Int
        /\ Remembers(sender, enciphered)
        /\ ~rcc_mode => Remembers(receiver, accepted)
        /\ reused = {} /\ (~rcc_mode => replayed = {})
    BY DEF Inv, TypeOK, NoKeystreamReuse, NoReplay
  <2>1. ASSUME NEW q \in Seqs, srtp_send(q) PROVE Inv'
    <3> DEFINE c == compute_roc(sender, q)
               x == Index(c, q)
    <3>1. PICK s \in srtp_crypt(sender, q) :
            /\ sender' = s
            /\ sent' = sent \cup {[seq |-> q, roc |-> c, tag |-> compute_roc(s, q),
                                   carry |-> IF Carries(q) THEN s.roc ELSE 0]}
            /\ enciphered' = enciphered \cup {x}
            /\ reused' = reused \cup Again(x, enciphered)
            /\ UNCHANGED <<receiver, accepted, replayed, rtcp, session, failures>>
      BY <2>1 DEF srtp_send
    <3>2. /\ s \in Contexts /\ x \in Int /\ x \notin enciphered
          /\ Remembers(s, enciphered \cup {x})
      BY <2>0, CryptRemembers
    <3>3. c \in Int /\ compute_roc(s, q) = c
      BY <2>0, IndexIsNewestPlusDiff, CryptKeepsRoc
    <3> HIDE DEF c
    <3>4. s.roc \in Int
      BY <3>2 DEF Contexts
    <3>5. sent' \subseteq Packets
      BY <3>1, <3>3, <3>4, <2>0 DEF Packets
    <3>6. reused' = {}
      BY <3>1, <3>2, <2>0 DEF Again
    <3>7. Remembers(sender, enciphered)'
      BY <3>1, <3>2 DEF Remembers, Newest, Index
    <3>8. (rcc_mode' <=> rcc_mode) /\ (AllTagged' <=> AllTagged)
      BY <3>1, SessionFixed
    <3>9. (~rcc_mode => Remembers(receiver, accepted))'
      BY <3>1, <3>8, <2>0 DEF Remembers, Newest, Index
    <3>10. \A p \in sent' : SentOK(p)'
      <4> TAKE p \in sent'
      <4>1. CASE p \in sent
        BY <4>1, <3>1 DEF Inv, SentOK, Index
      <4>2. CASE p \notin sent
        <5>1. p.tag = c /\ p.roc = c /\ p.seq = q
          BY <4>2, <3>1, <3>3
        <5> QED
          BY <5>1, <3>1 DEF SentOK, Index
      <4> QED
        BY <4>1, <4>2
    <3>11. AcceptedWasSent'
      BY <3>1, <3>8 DEF Inv, AcceptedWasSent
    <3>12. TypeOK'
      BY <3>1, <3>2, <3>5, <3>6, <2>0 DEF Inv, TypeOK, rtcp, session
    <3> QED
      BY <3>1, <3>6, <3>7, <3>8, <3>9, <3>10, <3>11, <3>12, <2>0
         DEF Inv, NoKeystreamReuse, NoReplay
  <2>2. ASSUME NEW q \in Seqs, srtp_sendFails(q) PROVE Inv'
    <3>1. /\ sender' \in srtp_crypt(sender, q)
          /\ failures' = failures + 1
          /\ UNCHANGED <<receiver, sent, enciphered, reused, accepted,
                         replayed, rtcp, session>>
      BY <2>2 DEF srtp_sendFails, Fails
    <3> DEFINE x == Index(compute_roc(sender, q), q)
    <3>2. sender' \in Contexts /\ Remembers(sender', enciphered)
      <4>1. sender' \in Contexts /\ Remembers(sender', enciphered \cup {x})
        BY <3>1, <2>0, CryptRemembers
      <4> QED
        BY <4>1, RememberLess
    <3>3. Remembers(sender, enciphered)'
      BY <3>1, <3>2 DEF Remembers, Newest, Index
    <3>4. (~rcc_mode => Remembers(receiver, accepted))'
      BY <3>1, <2>0, SessionFixed DEF Remembers, Newest, Index
    <3> QED
      BY <3>1, <3>2, <3>3, <3>4, <2>0, HistoryKept DEF Inv, TypeOK, rtcp
  <2>3. ASSUME NEW p \in sent, srtp_recv(p) PROVE Inv'
    <3> DEFINE r == Resynced(p)
               x == Index(compute_roc(r, p.seq), p.seq)
    <3>0. p \in Packets /\ p.seq \in Seqs
      BY <2>0 DEF Packets
    <3>1. /\ receiver' \in srtp_crypt(r, p.seq)
          /\ accepted' = accepted \cup {x}
          /\ replayed' = replayed \cup Again(x, accepted)
          /\ UNCHANGED <<sender, sent, enciphered, reused, rtcp, session,
                         failures>>
      BY <2>3 DEF srtp_recv
    <3>2. r \in Contexts /\ (~rcc_mode => r = receiver)
      BY <3>0, <2>0, ResyncedEstimates
    <3>3. receiver' \in Contexts /\ x \in Int
      BY <3>0, <3>1, <3>2, CryptType, IndexIsNewestPlusDiff
    <3>4. ASSUME ~rcc_mode
          PROVE  x \notin accepted /\ Remembers(receiver', accepted \cup {x})
      BY <3>0, <3>1, <3>2, <3>4, <2>0, CryptRemembers
    <3>5. (rcc_mode' <=> rcc_mode) /\ (AllTagged' <=> AllTagged)
      BY <3>1, SessionFixed
    <3>6. ASSUME AllTagged PROVE x \in enciphered
      <4>1. Tagged(p.seq) /\ Authentic(p)
        BY <3>0, <3>6, <2>3 DEF AllTagged, srtp_recv
      <4>2. x = Index(p.roc, p.seq)
        BY <4>1, AcceptedIndex
      <4> QED
        BY <4>2 DEF Inv, SentOK
    <3> HIDE DEF r, x
    <3>7. Remembers(sender, enciphered)'
      BY <3>1, <2>0 DEF Remembers, Newest, Index
    <3>8. (~rcc_mode => Remembers(receiver, accepted))'
      BY <3>1, <3>4, <3>5 DEF Remembers, Newest, Index
    <3>9. NoReplay' /\ replayed' \subseteq Int
      BY <3>1, <3>3, <3>4, <3>5, <2>0 DEF NoReplay, Again
    <3>10. AcceptedWasSent'
      BY <3>1, <3>5, <3>6 DEF Inv, AcceptedWasSent
    <3>11. \A t \in sent' : SentOK(t)'
      BY <3>1 DEF Inv, SentOK, Index
    <3>12. TypeOK'
      BY <3>1, <3>3, <3>9, <2>0 DEF Inv, TypeOK, rtcp, session
    <3> QED
      BY <3>1, <3>7, <3>8, <3>9, <3>10, <3>11, <3>12, <2>0
         DEF Inv, NoKeystreamReuse
  <2>4. ASSUME NEW p \in sent, srtp_recvFails(p) \/ srtp_recvRefused(p) PROVE Inv'
    <3> DEFINE r == Resynced(p)
               x == Index(compute_roc(r, p.seq), p.seq)
    <3>0. p \in Packets /\ p.seq \in Seqs
      BY <2>0 DEF Packets
    <3>1. /\ receiver' \in srtp_crypt(r, p.seq) \cup {r}
          /\ failures' \in {failures, failures + 1}
          /\ UNCHANGED <<sender, sent, enciphered, reused, accepted, replayed,
                         rtcp, session>>
      BY <2>4 DEF srtp_recvFails, srtp_recvRefused, Fails
    <3>2. r \in Contexts /\ (~rcc_mode => r = receiver)
      BY <3>0, <2>0, ResyncedEstimates
    <3>3. /\ receiver' \in Contexts
          /\ ~rcc_mode => Remembers(receiver', accepted)
      <4>1. CASE receiver' = r
        BY <4>1, <3>2, <2>0
      <4>2. CASE receiver' \in srtp_crypt(r, p.seq)
        <5>1. receiver' \in Contexts
          BY <4>2, <3>0, <3>2, CryptType
        <5>2. ASSUME ~rcc_mode PROVE Remembers(receiver', accepted \cup {x})
          BY <5>2, <4>2, <3>0, <3>2, <2>0, CryptRemembers
        <5> QED
          BY <5>1, <5>2, RememberLess
      <4> QED
        BY <4>1, <4>2, <3>1
    <3> HIDE DEF r
    <3>4. Remembers(sender, enciphered)'
      BY <3>1, <2>0 DEF Remembers, Newest, Index
    <3>5. (~rcc_mode => Remembers(receiver, accepted))'
      BY <3>1, <3>3, SessionFixed DEF Remembers, Newest, Index
    <3> QED
      BY <3>1, <3>3, <3>4, <3>5, <2>0, HistoryKept DEF Inv, TypeOK, rtcp
  <2>6. ASSUME NEW n \in Lengths, srtcp_send(n) PROVE Inv'
    <3>1. /\ sender' = srtcp_crypt(sender)
          /\ rtcp_index' = rtcp_index + 1
          /\ reports' = reports \cup {[index |-> rtcp_index + 1, length |-> n]}
          /\ UNCHANGED <<receiver, sent, enciphered, reused, accepted, replayed,
                         session, failures>>
      BY <2>6 DEF srtcp_send
    <3>2. sender' \in Contexts /\ Remembers(sender', enciphered)
      BY <3>1, <2>0, ReportRemembers
    <3>3. Remembers(sender, enciphered)'
      BY <3>1, <3>2 DEF Remembers, Newest, Index
    <3>4. rtcp_index' \in Nat /\ reports' \subseteq Reports /\ failures' \in Nat
      BY <3>1, <2>0 DEF Reports
    <3>5. (~rcc_mode => Remembers(receiver, accepted))'
      BY <3>1, <2>0, SessionFixed DEF Remembers, Newest, Index
    <3> QED
      BY <3>1, <3>2, <3>3, <3>4, <3>5, <2>0, HistoryKept DEF Inv, TypeOK
  <2>7. ASSUME srtcp_sendFails PROVE Inv'
    <3>1. /\ sender' = srtcp_crypt(sender)
          /\ rtcp_index' = rtcp_index + 1
          /\ failures' = failures + 1
          /\ UNCHANGED <<receiver, sent, enciphered, reused, accepted, replayed,
                         reports, session>>
      BY <2>7 DEF srtcp_sendFails, Fails
    <3>2. sender' \in Contexts /\ Remembers(sender', enciphered)
      BY <3>1, <2>0, ReportRemembers
    <3>3. Remembers(sender, enciphered)'
      BY <3>1, <3>2 DEF Remembers, Newest, Index
    <3>4. (~rcc_mode => Remembers(receiver, accepted))'
      BY <3>1, <2>0, SessionFixed DEF Remembers, Newest, Index
    <3> QED
      BY <3>1, <3>2, <3>3, <3>4, <2>0, HistoryKept DEF Inv, TypeOK
  <2>8. ASSUME NEW m \in reports, srtcp_recv(m) PROVE Inv'
    <3>0. m.length \in Seqs
      BY <2>0, SrtpAssumption DEF Reports, Seqs, M
    <3>1. /\ receiver' \in srtp_crypt(receiver, m.length)
          /\ UNCHANGED <<sender, sent, enciphered, reused, accepted, replayed,
                         rtcp, session, failures>>
      BY <2>8 DEF srtcp_recv
    <3> DEFINE x == Index(compute_roc(receiver, m.length), m.length)
    <3>2. receiver' \in Contexts
      BY <3>0, <3>1, <2>0, CryptType
    <3>3. ASSUME ~rcc_mode PROVE Remembers(receiver', accepted)
      <4>1. Remembers(receiver', accepted \cup {x})
        BY <3>0, <3>1, <3>3, <2>0, CryptRemembers
      <4> QED
        BY <4>1, RememberLess
    <3>4. Remembers(sender, enciphered)'
      BY <3>1, <2>0 DEF Remembers, Newest, Index
    <3>5. (~rcc_mode => Remembers(receiver, accepted))'
      BY <3>1, <3>3, SessionFixed DEF Remembers, Newest, Index
    <3> QED
      BY <3>1, <3>2, <3>4, <3>5, <2>0, HistoryKept DEF Inv, TypeOK, rtcp
  <2>5. CASE UNCHANGED vars
    <3>1. Remembers(sender, enciphered)'
      BY <2>5, <2>0 DEF Remembers, Newest, Index, vars, rtp
    <3>2. (~rcc_mode => Remembers(receiver, accepted))'
      BY <2>5, <2>0, SessionFixed DEF Remembers, Newest, Index, vars, rtp
    <3> QED
      BY <2>5, <3>1, <3>2, <2>0, HistoryKept DEF Inv, TypeOK, vars, rtp, rtcp
  <2> QED
    BY <2>1, <2>2, <2>3, <2>4, <2>5, <2>6, <2>7, <2>8 DEF Next
<1> QED
  BY <1>1, <1>2, PTL DEF Spec

\* The contexts stay in range for every width of counters and window, whatever an
\* oversized shift in srtp_crypt leaves in the window and whatever counter a packet
\* carries: srtp_session_t always holds a sequence number and a window.
THEOREM ContextsInRange == Spec => []TypeOK
  BY SrtpInvariant, PTL DEF Inv

\* The sender never uses a key stream twice (srtp_send).
THEOREM SenderNeverReusesKeystream == Spec => []NoKeystreamReuse
  BY SrtpInvariant, PTL DEF Inv

\* Without RoC carry the receiver never accepts an index twice (srtp_recv).
THEOREM ReceiverNeverReplays == Spec => []NoReplay
  BY SrtpInvariant, PTL DEF Inv

\* Where every packet has a tag, what srtp_recv accepts is what srtp_send sent.
THEOREM ReceiverAcceptsOnlySent == Spec => []AcceptedWasSent
  BY SrtpInvariant, PTL DEF Inv

LEMMA InSync == Inv => InSyncAuthenticates
<1> SUFFICES ASSUME Inv, NEW p \in sent,
                    Index(p.roc, p.seq) - Newest(receiver) \in -Half..(Half - 1),
                    Carries(p.seq) => p.carry = p.roc
             PROVE  Authentic(p)
  BY DEF InSyncAuthenticates
<1>1. receiver \in Contexts /\ p.seq \in Seqs /\ p.roc \in Int /\ p.tag = p.roc
  BY DEF Inv, TypeOK, SentOK, Packets
<1>2. compute_roc(receiver, p.seq) = p.roc
  BY <1>1, SameTurn
<1> QED
  BY <1>1, <1>2 DEF Authentic

\* A packet less than half a turn away from the receiver's newest one always
\* authenticates (srtp_compute_roc), whatever was sent and lost before.
THEOREM InSyncPacketsAuthenticate == Spec => []InSyncAuthenticates
  BY SrtpInvariant, InSync, PTL

\* An accepted packet that carries a counter brings the receiver into step, for
\* the half turn after it (srtp_recv, s->rtp_roc += rcc - roc).
THEOREM CarryResyncs == Spec => CarriedCounterResyncs
<1> DEFINE Near(p, later) ==
             /\ Index(later.roc, later.seq) - Index(p.roc, p.seq) \in 0..(Half - 1)
             /\ Carries(later.seq) => later.carry = later.roc
           Step == \A p \in sent :
             (srtp_recv(p) /\ Tagged(p.seq) /\ Carries(p.seq)) =>
               \A later \in sent : Near(p, later) => Authentic(later)'
<1>1. Inv /\ [Next]_vars => Step
  <2> SUFFICES ASSUME Inv, NEW p \in sent, srtp_recv(p),
                      Tagged(p.seq), Carries(p.seq),
                      NEW later \in sent, Near(p, later)
               PROVE  Authentic(later)'
    OBVIOUS
  <2> DEFINE r == Resynced(p)
             y == Index(later.roc, later.seq)
             x == Index(p.roc, p.seq)
  <2>1. /\ p \in Packets /\ p.seq \in Seqs /\ receiver \in Contexts
        /\ p.roc \in Int
        /\ later.seq \in Seqs /\ later.roc \in Int /\ later.tag = later.roc
    BY DEF Inv, TypeOK, SentOK, Packets
  <2>2. r \in Contexts /\ receiver' \in srtp_crypt(r, p.seq)
    BY <2>1, ResyncedEstimates DEF srtp_recv
  <2>3. compute_roc(r, p.seq) = p.roc
    BY AcceptedIndex DEF srtp_recv
  <2>4. receiver' \in Contexts
    BY <2>1, <2>2, CryptType
  <2>5. /\ Newest(r) \in Int /\ x = Newest(r) + Diff(r, p.seq)
        /\ Diff(r, p.seq) \in -Half..(Half - 1)
    BY <2>1, <2>2, <2>3, IndexIsNewestPlusDiff
  <2>6. Newest(receiver)' = Newest(r) \/ Newest(receiver)' = x
    <3>1. CASE Diff(r, p.seq) > 0
      <4>1. receiver'.roc = compute_roc(r, p.seq) /\ receiver'.seq = p.seq
        BY <3>1, <2>2 DEF srtp_crypt
      <4> QED
        BY <4>1, <2>3 DEF Newest, Index, M
    <3>2. CASE ~(Diff(r, p.seq) > 0)
      <4>1. receiver'.roc = r.roc /\ receiver'.seq = r.seq
        BY <3>2, <2>2 DEF srtp_crypt, Contexts
      <4> QED
        BY <4>1 DEF Newest, Index, M
    <3> QED
      BY <3>1, <3>2
  <2>7. Newest(receiver)' = Newest(receiver')
    BY DEF Newest, Index, M
  <2>8. Diff(r, p.seq) > 0 => Newest(receiver') = x
    <3> SUFFICES ASSUME Diff(r, p.seq) > 0 PROVE Newest(receiver') = x
      OBVIOUS
    <3>1. receiver'.roc = compute_roc(r, p.seq) /\ receiver'.seq = p.seq
      BY <2>2 DEF srtp_crypt
    <3> QED
      BY <3>1, <2>3 DEF Newest
  <2>9. Half \in Nat
    BY SrtpAssumption
  <2>10. y - Newest(receiver') \in -Half..(Half - 1)
    <3>0. y \in Int
      BY <2>1, IndexInt
    <3>1. y - x \in 0..(Half - 1)
      OBVIOUS
    <3>2. Newest(receiver') = Newest(r) \/ Newest(receiver') = x
      BY <2>6, <2>7
    <3> HIDE DEF r, x, y
    <3> QED
      BY <3>0, <3>1, <3>2, <2>5, <2>8, <2>9
  <2>11. compute_roc(receiver', later.seq) = later.roc
    BY <2>1, <2>4, <2>10, SameTurn
  <2>12. Carries(later.seq)' <=> Carries(later.seq)
    BY DEF srtp_recv, session, Carries, rcc_mode
  <2>13. Authentic(later)' <=>
           (Tagged(later.seq)' => later.tag = IF Carries(later.seq)' THEN later.carry
                                  ELSE compute_roc(receiver', later.seq))
    BY DEF Authentic, compute_roc, Low16, M
  <2> QED
    BY <2>1, <2>11, <2>12, <2>13
<1> QED
  BY <1>1, SrtpInvariant, PTL DEF Spec, CarriedCounterResyncs

\* srtp_send and srtp_recv implement the abstract channel (MediaChannel), for
\* every choice of flags, rate, counter width and window.
THEOREM SrtpImplementsChannel == Spec => ImplementsChannel
<1>1. Init => Channel!Init
  BY DEF Init, Channel!Init, AllTagged, Tagged, rcc_mode
<1>2. Inv /\ Inv' /\ [Next]_vars => [Channel!Next]_(Channel!vars)
  <2> SUFFICES ASSUME Inv, Inv', [Next]_vars
               PROVE  [Channel!Next]_(Channel!vars)
    OBVIOUS
  <2>0. ASSUME UNCHANGED session
        PROVE  AllTagged' = AllTagged /\ (~rcc_mode)' = ~rcc_mode
    BY <2>0 DEF session, AllTagged, Tagged, Carries, rcc_mode, Seqs, M
  <2>1. ASSUME NEW q \in Seqs, srtp_send(q) PROVE Channel!Next
    <3> DEFINE x == Index(compute_roc(sender, q), q)
    <3>1. /\ enciphered' = enciphered \cup {x}
          /\ UNCHANGED <<accepted, replayed, session>>
      BY <2>1 DEF srtp_send
    <3>2. x \notin enciphered
      BY <2>1, CryptRemembers DEF srtp_send, Inv, TypeOK
    <3>3. reused' = reused
      BY DEF Inv, NoKeystreamReuse
    <3> HIDE DEF x
    <3>4. Channel!Send(x)
      BY <3>1, <3>2, <3>3, <2>0 DEF Channel!Send
    <3> QED
      BY <3>1, <3>4 DEF Channel!Next
  <2>2. ASSUME NEW p \in sent, srtp_recv(p) PROVE Channel!Next
    <3> DEFINE x == Index(compute_roc(Resynced(p), p.seq), p.seq)
    <3>1. /\ accepted' = accepted \cup {x}
          /\ replayed' = replayed \cup Again(x, accepted)
          /\ UNCHANGED <<enciphered, reused, session>>
      BY <2>2 DEF srtp_recv
    <3> HIDE DEF x
    <3>2. AllTagged => x \in enciphered
      BY <3>1, <2>0 DEF Inv, AcceptedWasSent
    <3>3. ~rcc_mode => x \notin accepted
      BY <3>1, <2>0 DEF Inv, NoReplay, Again
    <3>4. Again(x, accepted) = {x} \cap accepted
      BY DEF Again
    <3>5. Channel!Deliver(x)
      BY <3>1, <3>2, <3>3, <3>4, <2>0 DEF Channel!Deliver
    <3> QED
      BY <3>1, <3>5 DEF Channel!Next
  <2>3. ASSUME UNCHANGED <<enciphered, reused, accepted, replayed, session>>
        PROVE  UNCHANGED Channel!vars
    BY <2>0, <2>3 DEF Channel!vars
  <2>4. CASE \E q \in Seqs : srtp_sendFails(q)
    BY <2>3, <2>4 DEF srtp_sendFails
  <2>5. CASE \E p \in sent : srtp_recvRefused(p) \/ srtp_recvFails(p)
    BY <2>3, <2>5 DEF srtp_recvRefused, srtp_recvFails
  <2>6. CASE \E n \in Lengths : srtcp_send(n)
    BY <2>3, <2>6 DEF srtcp_send
  <2>7. CASE srtcp_sendFails
    BY <2>3, <2>7 DEF srtcp_sendFails
  <2>8. CASE \E m \in reports : srtcp_recv(m)
    BY <2>3, <2>8 DEF srtcp_recv
  <2>9. CASE UNCHANGED vars
    BY <2>3, <2>9 DEF vars, rtp
  <2> QED
    BY <2>1, <2>2, <2>4, <2>5, <2>6, <2>7, <2>8, <2>9 DEF Next
<1> QED
  BY <1>1, <1>2, SrtpInvariant, PTL DEF Spec, ImplementsChannel, Channel!Spec
=============================================================================
