------------------------------ MODULE AudioPump ------------------------------
(***************************************************************************)
(* The sending side of a started call: Util::Timer, the block that         *)
(* Brain::Handler#schedule_audio gives it, the prompt of VoicemailHandler  *)
(* and the sequence numbers of Transport::Generic.  Time is a clock that   *)
(* starts with Timer#fire; the fiber may wake later than it asked to.      *)
(***************************************************************************)
EXTENDS Integers, Sequences

CONSTANTS
  Interval,         \* @tick_interval: a packet every 20 ms
  Quiet,            \* 250 ms
  SamplesPerFrame,  \* SAMPLES_PER_FRAME
  Samples,          \* the length of the prompt
  MaxTime           \* bound on the clock

ASSUME PumpAssumption ==
  /\ Interval \in Nat \ {0}
  /\ Quiet \in Nat
  /\ SamplesPerFrame \in Nat \ {0}
  /\ Samples \in Nat
  /\ MaxTime \in Nat

VARIABLES
  now,         \* Time.local_ticks - start_ticks
  phase,       \* where the timer's fiber is
  tick_d,      \* the clock at the top of the loop
  wake,        \* when the sleep is over
  should_tick,
  seq_no,      \* @seq_no of the transport
  position,    \* @position in the prompt
  sent         \* history: the RTP packets sent

vars == <<now, phase, tick_d, wake, should_tick, seq_no, position, sent>>

Smaller(a, b) == IF a < b THEN a ELSE b

\* @seconds + drift_sec
Correction == Interval + should_tick - now

\* The top of Timer#fire's loop, up to the sleep.
PlanTick ==
  /\ phase = "top"
  /\ tick_d' = now
  /\ wake' = IF Correction > 0 THEN now + Correction ELSE now
  /\ phase' = "asleep"
  /\ UNCHANGED <<now, should_tick, seq_no, position, sent>>

\* Mutant of Silent: no pause at the beginning.
SilentOver == position >= Samples

\* next_audio_frame returns nil: too early, or the prompt is over.
Silent == tick_d < Quiet \/ position >= Samples

\* SixteenBitStream#_next: the samples of the next frame.
Grab == Smaller(SamplesPerFrame, Samples - position)

Due == phase = "asleep" /\ now >= wake

\* Mutant of Tick: the block is called but the schedule stays.
TickAgain ==
  /\ seq_no' = seq_no + 1
  /\ UNCHANGED should_tick
  /\ phase' = "top"

\* The rest of the loop once the block has returned.
Tick ==
  /\ seq_no' = seq_no + 1
  /\ should_tick' = should_tick + Interval
  /\ phase' = "top"

\* No frame: observe_silence counts a sequence number and sends nothing.
ObserveSilence ==
  /\ Due
  /\ Silent
  /\ Tick
  /\ UNCHANGED <<now, tick_d, wake, position, sent>>

\* Mutant of SendAudio: the position in the prompt is not moved on.
SendAudioStuck ==
  /\ Due
  /\ ~Silent
  /\ Tick
  /\ sent' = Append(sent, [at |-> now, seq |-> seq_no + 1,
                           first |-> position, size |-> Grab])
  /\ UNCHANGED <<now, tick_d, wake, position>>

\* A frame: send_audio numbers it and sends it.
SendAudio ==
  /\ Due
  /\ ~Silent
  /\ Tick
  /\ position' = position + Grab
  /\ sent' = Append(sent, [at |-> now, seq |-> seq_no + 1,
                           first |-> position, size |-> Grab])
  /\ UNCHANGED <<now, tick_d, wake>>

\* The send raises an Errno, which nothing rescues: the timer's fiber ends.
SendAudioRaises ==
  /\ Due
  /\ ~Silent
  /\ seq_no' = seq_no + 1
  /\ position' = position + Grab
  /\ phase' = "dead"
  /\ UNCHANGED <<now, tick_d, wake, should_tick, sent>>

Advance ==
  /\ now < MaxTime
  /\ now' = now + 1
  /\ UNCHANGED <<phase, tick_d, wake, should_tick, seq_no, position, sent>>

Init ==
  /\ now = 0
  /\ phase = "top"
  /\ tick_d = 0
  /\ wake = 0
  /\ should_tick = 0
  /\ seq_no = 0
  /\ position = 0
  /\ sent = <<>>

Next ==
  \/ PlanTick
  \/ ObserveSilence
  \/ SendAudio
  \/ SendAudioRaises
  \/ Advance

Spec == Init /\ [][Next]_vars

\* Time passes, and the scheduler runs the timer's fiber when it is due.
FairSpec ==
  /\ Spec
  /\ WF_vars(Advance)
  /\ WF_vars(PlanTick)
  /\ WF_vars(ObserveSilence \/ SendAudio \/ SendAudioRaises)

-----------------------------------------------------------------------------
Frames == [at : Nat, seq : Nat, first : Nat, size : Nat]

\* The types of the timer's and the transport's state; the position never
\* passes the end of the prompt (sixteen_bit_stream.cr:50).
TypeOK ==
  /\ now \in Nat
  /\ phase \in {"top", "asleep", "dead"}
  /\ tick_d \in Nat
  /\ wake \in Nat
  /\ should_tick \in Nat
  /\ seq_no \in Nat
  /\ position \in 0..Samples
  /\ sent \in Seq(Frames)

\* "Silence for a quarter of a second after the call answers"
\* (voicemail_handler.cr:34): nothing is sent earlier, although the block is
\* given the time before the sleep.
QuietAtFirst == \A k \in 1..Len(sent) : sent[k].at >= Quiet

\* The media clock is never ahead of real time: the RTP timestamp of a packet,
\* seq_no frames (generic.cr:42), has elapsed when it is sent, however late
\* the fiber woke before and however many ticks it caught up without sleeping.
TimestampsElapsed ==
  \A k \in 1..Len(sent) : sent[k].seq * Interval <= sent[k].at

\* The prompt goes out once, in order and without a hole, in full frames but
\* for the last one, and on consecutive sequence numbers.
PromptContiguous ==
  \A k \in 1..Len(sent) :
    LET f == sent[k] IN
      /\ f.first = (k - 1) * SamplesPerFrame
      /\ f.size = Smaller(SamplesPerFrame, Samples - f.first)
      /\ k > 1 => f.seq = sent[k - 1].seq + 1

\* The whole prompt is sent in the end, unless a send fails.
PromptEnds == <>(phase = "dead" \/ position = Samples)
=============================================================================
