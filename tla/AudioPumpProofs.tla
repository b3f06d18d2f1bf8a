--------------------------- MODULE AudioPumpProofs ---------------------------
(* Proofs about AudioPump, for every interval, pause and prompt length. *)
EXTENDS AudioPump, TLAPS

Last == sent[Len(sent)]

\* The strengthening: what the timer knows between two packets.
Schedule ==
  /\ tick_d <= now
  /\ phase # "dead" => should_tick = seq_no * Interval
  /\ phase = "asleep" => wake >= tick_d /\ wake >= should_tick + Interval

\* Where the prompt is between two packets: once the first frame is out, every
\* tick sends the next one until the prompt is over.
Progress ==
  /\ phase # "dead" => position = Smaller(Len(sent) * SamplesPerFrame, Samples)
  /\ sent # <<>> => /\ tick_d >= Quiet
                    /\ (phase # "dead" /\ position < Samples) => Last.seq = seq_no

Inv ==
  TypeOK /\ Schedule /\ Progress
    /\ QuietAtFirst /\ TimestampsElapsed /\ PromptContiguous

LEMMA InitInv == Init => Inv
  BY PumpAssumption
     DEF Init, Inv, TypeOK, Schedule, Progress, QuietAtFirst,
         TimestampsElapsed, PromptContiguous, Smaller

LEMMA PlanTickInv == ASSUME Inv, PlanTick PROVE Inv'
<1> USE PumpAssumption
<1>1. TypeOK'
  BY DEF Inv, TypeOK, PlanTick, Correction
<1>2. Schedule'
  BY DEF Inv, TypeOK, Schedule, PlanTick, Correction
<1>3. Progress'
  BY DEF Inv, TypeOK, Schedule, Progress, PlanTick, Last
<1>4. QuietAtFirst' /\ TimestampsElapsed' /\ PromptContiguous'
  BY DEF Inv, PlanTick, QuietAtFirst, TimestampsElapsed, PromptContiguous
<1> QED
  BY <1>1, <1>2, <1>3, <1>4 DEF Inv

LEMMA ObserveSilenceInv == ASSUME Inv, ObserveSilence PROVE Inv'
<1> USE PumpAssumption
<1>1. TypeOK'
  BY DEF Inv, TypeOK, ObserveSilence, Tick, Due
<1>2. Schedule'
  BY DEF Inv, TypeOK, Schedule, ObserveSilence, Tick, Due
<1>3. Progress'
  BY DEF Inv, TypeOK, Progress, ObserveSilence, Tick, Due, Silent, Last
<1>4. QuietAtFirst' /\ TimestampsElapsed' /\ PromptContiguous'
  BY DEF Inv, ObserveSilence, QuietAtFirst, TimestampsElapsed,
         PromptContiguous
<1> QED
  BY <1>1, <1>2, <1>3, <1>4 DEF Inv

LEMMA SendAudioRaisesInv == ASSUME Inv, SendAudioRaises PROVE Inv'
<1> USE PumpAssumption
<1>1. TypeOK'
  BY DEF Inv, TypeOK, SendAudioRaises, Due, Silent, Grab, Smaller
<1>2. Schedule'
  BY DEF Inv, TypeOK, Schedule, SendAudioRaises, Due
<1>3. Progress'
  BY DEF Inv, TypeOK, Progress, SendAudioRaises, Due, Silent, Last
<1>4. QuietAtFirst' /\ TimestampsElapsed' /\ PromptContiguous'
  BY DEF Inv, SendAudioRaises, QuietAtFirst, TimestampsElapsed,
         PromptContiguous
<1> QED
  BY <1>1, <1>2, <1>3, <1>4 DEF Inv

LEMMA AdvanceInv == ASSUME Inv, Advance PROVE Inv'
<1>1. TypeOK' /\ Schedule'
  BY PumpAssumption DEF Inv, TypeOK, Schedule, Advance
<1>2. Progress' /\ QuietAtFirst' /\ TimestampsElapsed' /\ PromptContiguous'
  BY DEF Inv, Advance, Progress, Last, QuietAtFirst, TimestampsElapsed,
         PromptContiguous
<1> QED
  BY <1>1, <1>2 DEF Inv

LEMMA SendAudioInv == ASSUME Inv, SendAudio PROVE Inv'
<1> USE PumpAssumption
<1> DEFINE n == Len(sent)
           f == [at |-> now, seq |-> seq_no + 1,
                 first |-> position, size |-> Grab]
<1>1. /\ now \in Nat /\ tick_d \in Nat /\ wake \in Nat /\ should_tick \in Nat
      /\ seq_no \in Nat /\ position \in Nat /\ position < Samples
      /\ sent \in Seq(Frames) /\ n \in Nat
      /\ tick_d >= Quiet /\ now >= wake /\ phase = "asleep"
  BY DEF Inv, TypeOK, SendAudio, Due, Silent
<1>2. /\ Grab \in Nat /\ position + Grab <= Samples
      /\ Grab = Smaller(SamplesPerFrame, Samples - position)
  BY <1>1 DEF Grab, Smaller
<1>3. f \in Frames /\ sent' = Append(sent, f)
  BY <1>1, <1>2 DEF Frames, SendAudio
<1> HIDE DEF f
<1>4. /\ sent' \in Seq(Frames) /\ Len(sent') = n + 1 /\ sent'[n + 1] = f
      /\ \A k \in 1..n : sent'[k] = sent[k]
  BY <1>1, <1>3
<1>5. /\ f.at = now /\ f.seq = seq_no + 1 /\ f.first = position /\ f.size = Grab
  BY DEF f
<1>6. position = n * SamplesPerFrame /\ position < Samples
  <2>1. n * SamplesPerFrame \in Nat
    BY <1>1
  <2> QED
    BY <2>1, <1>1 DEF Inv, Progress, Smaller
<1>7. TypeOK'
  BY <1>1, <1>2, <1>4 DEF Inv, TypeOK, SendAudio, Tick
<1>8. should_tick = seq_no * Interval /\ wake >= should_tick + Interval
  BY <1>1 DEF Inv, Schedule
<1>9. (seq_no + 1) * Interval = seq_no * Interval + Interval
  BY <1>1
<1>10. Schedule'
  BY <1>1, <1>8, <1>9 DEF Inv, Schedule, SendAudio, Tick
<1>11. QuietAtFirst'
  <2>1. now >= Quiet
    BY <1>1 DEF Inv, Schedule
  <2> QED
    BY <2>1, <1>1, <1>4, <1>5 DEF Inv, QuietAtFirst
<1>12. TimestampsElapsed'
  <2>1. f.seq * Interval <= f.at
    BY <1>1, <1>5, <1>8, <1>9
  <2> QED
    BY <2>1, <1>1, <1>4 DEF Inv, TimestampsElapsed
<1>13. (n + 1) * SamplesPerFrame = n * SamplesPerFrame + SamplesPerFrame
  BY <1>1
<1>14. Progress'
  <2>1. position' = Smaller((n + 1) * SamplesPerFrame, Samples)
    <3>1. position' = position + Grab
      BY DEF SendAudio
    <3>2. (n + 1) * SamplesPerFrame = position + SamplesPerFrame
      BY <1>6, <1>13
    <3> QED
      BY <3>1, <3>2, <1>1, <1>2 DEF Smaller
  <2>2. Last' = f
    BY <1>1, <1>4 DEF Last
  <2>3. seq_no' = seq_no + 1 /\ tick_d' = tick_d
    BY DEF SendAudio, Tick
  <2> QED
    BY <2>1, <2>2, <2>3, <1>1, <1>4, <1>5 DEF Progress
<1>15. PromptContiguous'
  <2>1. n >= 1 => sent[n].seq = seq_no
    BY <1>1, <1>6 DEF Inv, Progress, Last
  <2>2. /\ f.first = ((n + 1) - 1) * SamplesPerFrame
        /\ f.size = Smaller(SamplesPerFrame, Samples - f.first)
        /\ (n + 1) > 1 => f.seq = sent[n].seq + 1
    <3>1. n \in Nat /\ (n + 1) - 1 = n /\ (n + 1 > 1 => n >= 1)
      BY <1>1
    <3>2. f.first = ((n + 1) - 1) * SamplesPerFrame
      BY <3>1, <1>5, <1>6
    <3>3. f.size = Smaller(SamplesPerFrame, Samples - f.first)
      BY <1>2, <1>5
    <3>4. (n + 1) > 1 => f.seq = sent[n].seq + 1
      BY <3>1, <2>1, <1>5
    <3> QED
      BY <3>2, <3>3, <3>4
  <2>3. \A k \in 1..n :
          /\ sent[k].first = (k - 1) * SamplesPerFrame
          /\ sent[k].size = Smaller(SamplesPerFrame, Samples - sent[k].first)
          /\ k > 1 => sent[k].seq = sent[k - 1].seq + 1
    BY DEF Inv, PromptContiguous
  <2>4. ASSUME NEW k \in 1..(n + 1)
        PROVE  /\ sent'[k].first = (k - 1) * SamplesPerFrame
               /\ sent'[k].size
                    = Smaller(SamplesPerFrame, Samples - sent'[k].first)
               /\ k > 1 => sent'[k].seq = sent'[k - 1].seq + 1
    <3>1. CASE k = n + 1
      BY <3>1, <2>2, <1>1, <1>4
    <3>2. CASE k # n + 1
      <4>1. k \in 1..n /\ (k > 1 => (k - 1) \in 1..n)
        BY <3>2, <1>1
      <4> QED
        BY <4>1, <2>3, <1>4
    <3> QED
      BY <3>1, <3>2
  <2> QED
    BY <2>4, <1>4 DEF PromptContiguous
<1> QED
  BY <1>7, <1>10, <1>11, <1>12, <1>14, <1>15 DEF Inv

\* Whatever the interval, the pause, the prompt and the lateness of the fiber,
\* the invariant holds (Timer#fire, Handler#schedule_audio).
THEOREM AudioPumpInvariant == Spec => []Inv
<1>1. Inv /\ [Next]_vars => Inv'
  <2> SUFFICES ASSUME Inv, [Next]_vars PROVE Inv'
    OBVIOUS
  <2>1. CASE UNCHANGED vars
    BY <2>1 DEF Inv, TypeOK, Schedule, Progress, Last, QuietAtFirst,
         TimestampsElapsed, PromptContiguous, vars
  <2> QED
    BY <2>1, PlanTickInv, ObserveSilenceInv, SendAudioInv, SendAudioRaisesInv,
       AdvanceInv DEF Next
<1> QED
  BY <1>1, InitInv, PTL DEF Spec

\* No packet is sent ahead of its RTP timestamp, for every interval and however
\* late the fiber wakes (Timer#fire's drift correction).
THEOREM NeverEarly == Spec => []TimestampsElapsed
  BY AudioPumpInvariant, PTL DEF Inv

\* Nothing is sent before the pause is over, although the block is given the time
\* before the sleep (VoicemailHandler#next_audio_frame).
THEOREM PauseKept == Spec => []QuietAtFirst
  BY AudioPumpInvariant, PTL DEF Inv

\* The prompt goes out once, in order and without a hole (SixteenBitStream).
THEOREM PromptInOrder == Spec => []PromptContiguous
  BY AudioPumpInvariant, PTL DEF Inv
-----------------------------------------------------------------------------
(* What is safety in PromptEnds. *)

\* While the prompt is not over, a sleep that is planned ends at once or, at the
\* latest, less than two intervals after the pause and the frames already sent.
PromptOnTime ==
  (phase = "asleep" /\ position < Samples) =>
    wake = tick_d \/ wake < Quiet + (Len(sent) + 2) * Interval

\* The strengthening: the timer is never ahead of the clock, so that it counts
\* few ticks during the pause; after it each tick sends a frame.
TicksCounted ==
  /\ phase # "dead" => should_tick <= now
  /\ phase = "asleep" => /\ should_tick <= tick_d
                         /\ wake = tick_d \/ wake = should_tick + Interval
  /\ (phase # "dead" /\ position < Samples) =>
       should_tick < Quiet + (Len(sent) + 1) * Interval

LEMMA TicksCountedInit == Init => TicksCounted
  BY PumpAssumption DEF Init, TicksCounted

LEMMA TicksCountedStep == Inv /\ TicksCounted /\ [Next]_vars => TicksCounted'
<1> SUFFICES ASSUME Inv, TicksCounted, [Next]_vars PROVE TicksCounted'
  OBVIOUS
<1> USE PumpAssumption
<1> DEFINE n == Len(sent)
<1>1. /\ now \in Nat /\ tick_d \in Nat /\ wake \in Nat /\ should_tick \in Nat
      /\ position \in 0..Samples /\ sent \in Seq(Frames) /\ n \in Nat
      /\ n * Interval \in Nat /\ (n + 1) * Interval = n * Interval + Interval
      /\ (n + 2) * Interval = n * Interval + Interval + Interval
  BY DEF Inv, TypeOK
<1>2. CASE PlanTick
  <2>1. /\ phase = "top" /\ phase' = "asleep" /\ tick_d' = now /\ now' = now
        /\ should_tick' = should_tick /\ position' = position /\ sent' = sent
        /\ wake' = now \/ wake' = should_tick + Interval
    BY <1>1, <1>2 DEF PlanTick, Correction
  <2> QED
    BY <1>1, <2>1 DEF TicksCounted
<1>3. CASE ObserveSilence
  <2>1. /\ phase = "asleep" /\ phase' = "top" /\ now >= wake /\ now' = now
        /\ should_tick' = should_tick + Interval /\ position' = position
        /\ sent' = sent /\ wake >= should_tick + Interval
        /\ (tick_d < Quiet \/ position >= Samples)
    BY <1>3 DEF ObserveSilence, Tick, Due, Silent, Inv, Schedule
  <2>2. should_tick' <= now'
    BY <1>1, <2>1
  <2>3. ASSUME position' < Samples
        PROVE  should_tick' < Quiet + (Len(sent') + 1) * Interval
    <3>1. should_tick < Quiet
      BY <1>1, <2>1, <2>3 DEF TicksCounted
    <3> QED
      BY <1>1, <2>1, <3>1
  <2> QED
    BY <2>1, <2>2, <2>3 DEF TicksCounted
<1>4. CASE SendAudio
  <2>1. /\ phase = "asleep" /\ phase' = "top" /\ now >= wake /\ now' = now
        /\ should_tick' = should_tick + Interval /\ position < Samples
        /\ wake >= should_tick + Interval
    BY <1>1, <1>4 DEF SendAudio, Tick, Due, Silent, Inv, Schedule
  <2>2. Len(sent') = n + 1
    BY <1>1, <1>4 DEF SendAudio
  <2>3. should_tick' <= now'
    BY <1>1, <2>1
  <2>4. should_tick < Quiet + (n + 1) * Interval
    BY <2>1 DEF TicksCounted
  <2>5. (Len(sent') + 1) * Interval = n * Interval + Interval + Interval
    BY <1>1, <2>2
  <2>6. should_tick' < Quiet + (Len(sent') + 1) * Interval
    BY <1>1, <2>1, <2>4, <2>5
  <2> QED
    BY <2>1, <2>3, <2>6 DEF TicksCounted
<1>5. CASE SendAudioRaises
  BY <1>5 DEF SendAudioRaises, TicksCounted
<1>6. CASE Advance
  BY <1>1, <1>6 DEF Advance, TicksCounted
<1>7. CASE UNCHANGED vars
  BY <1>7 DEF vars, TicksCounted
<1> QED
  BY <1>2, <1>3, <1>4, <1>5, <1>6, <1>7 DEF Next

\* The safety half of PromptEnds: as long as the prompt is not over, Timer#fire
\* never plans a sleep past the pause, the frames already sent and two intervals,
\* however late the fiber woke before.  That the fiber then runs is the
\* scheduler's fairness.
THEOREM PromptScheduled == Spec => []PromptOnTime
<1>1. Inv /\ TicksCounted => PromptOnTime
  <2> SUFFICES ASSUME Inv, TicksCounted, phase = "asleep", position < Samples,
                      wake # tick_d
               PROVE  wake < Quiet + (Len(sent) + 2) * Interval
    BY DEF PromptOnTime
  <2> DEFINE n == Len(sent)
  <2>1. n \in Nat /\ should_tick \in Nat /\ Interval \in Nat /\ Quiet \in Nat
    BY PumpAssumption DEF Inv, TypeOK
  <2>2. wake = should_tick + Interval /\ should_tick < Quiet + (n + 1) * Interval
    BY DEF TicksCounted
  <2>3. (n + 2) * Interval = (n + 1) * Interval + Interval
        /\ (n + 1) * Interval \in Nat
    BY <2>1
  <2> HIDE DEF n
  <2> QED
    BY <2>1, <2>2, <2>3 DEF n
<1> QED
  BY <1>1, AudioPumpInvariant, TicksCountedInit, TicksCountedStep, PTL DEF Spec
=============================================================================
