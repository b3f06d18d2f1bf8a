---------------------------- MODULE JitterBuffer ----------------------------
(***************************************************************************)
(* Transport::JitterBuffer: holds back the last `room` packets of a stream *)
(* and hands the one before them to the callback on_pump.  A packet is its *)
(* sequence number and a payload.                                          *)
(***************************************************************************)
EXTENDS Integers, Sequences, FiniteSets

CONSTANTS
  SeqNos,    \* RTP sequence numbers
  Payloads,
  Room,      \* @room
  MaxFed     \* bound on the packets fed

ASSUME BufferAssumption == Room \in Nat /\ MaxFed \in Nat /\ SeqNos \subseteq Int

Packets == SeqNos \X Payloads

VARIABLES
  buffer,  \* @buffer
  fed,     \* history: the packets fed, in order
  pumped   \* history: the packets given to the callback, in order

bufferVars == <<buffer, fed, pumped>>

\* Mutant of ready: one packet early.
readyEarly(b) == Len(b) >= Room

\* `@buffer.size > @room`
ready(b) == Len(b) > Room

\* Array#sort returns a sorted copy, which feed drops.
Sorted(b) == b

\* Mutants of feed: the packet that is pumped stays in the buffer; the newest
\* packet is pumped, as Array#pop would.
feedPeeks(data, seq_no) ==
  LET b == Append(buffer, <<seq_no, data>>)
  IN  /\ Len(fed) < MaxFed
      /\ fed' = Append(fed, <<seq_no, data>>)
      /\ buffer' = b
      /\ pumped' = IF ready(b) THEN Append(pumped, Head(b)) ELSE pumped
feedNewest(data, seq_no) ==
  /\ Len(fed) < MaxFed
  /\ fed' = Append(fed, <<seq_no, data>>)
  /\ IF ready(Append(buffer, <<seq_no, data>>))
     THEN UNCHANGED buffer /\ pumped' = Append(pumped, <<seq_no, data>>)
     ELSE buffer' = Append(buffer, <<seq_no, data>>) /\ UNCHANGED pumped

\* feed: push, report a gap, sort, pull; pull takes the head when ready.
feed(data, seq_no) ==
  LET b == Sorted(Append(buffer, <<seq_no, data>>))
  IN  /\ Len(fed) < MaxFed
      /\ fed' = Append(fed, <<seq_no, data>>)
      /\ IF ready(b)
         THEN buffer' = Tail(b) /\ pumped' = Append(pumped, Head(b))
         ELSE buffer' = b /\ UNCHANGED pumped

BufferInit == buffer = <<>> /\ fed = <<>> /\ pumped = <<>>
BufferNext == \E data \in Payloads, seq_no \in SeqNos : feed(data, seq_no)
BufferSpec == BufferInit /\ [][BufferNext]_bufferVars

-----------------------------------------------------------------------------
\* The types of @buffer and of the histories.
BufferTypeOK ==
  /\ buffer \in Seq(Packets)
  /\ fed \in Seq(Packets)
  /\ pumped \in Seq(Packets)

Count(s, p) == Cardinality({k \in 1..Len(s) : s[k] = p})

\* Nothing is lost or doubled on the way through the buffer: every packet has
\* been pumped, or is held back, as often as it was fed (jitter_buffer.cr:16 and
\* :46).
NothingLost ==
  \A p \in Packets : Count(pumped, p) + Count(buffer, p) = Count(fed, p)

InOrder(s) == \A k \in 2..Len(s) : s[k][1] = (s[k - 1][1] + 1) % 65536

\* A stream that arrives in order leaves in order, across the wrap of the
\* sequence number too.  (One that does not is not put in order: the sort of
\* jitter_buffer.cr:18 gives a copy that nothing uses.)
InOrderKept ==
  InOrder(fed) => \A k \in 1..Len(pumped) : pumped[k] = fed[k]

\* It holds back exactly the last Room packets: memory stays bounded over a
\* stream of any length and the delay never grows (jitter_buffer.cr:41).
HoldsBackRoom ==
  Len(buffer) = IF Len(fed) < Room THEN Len(fed) ELSE Room
=============================================================================
