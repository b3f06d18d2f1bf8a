-------------------------- MODULE CallControlProofs --------------------------
(***************************************************************************)
(* Proofs about CallControl, for every set of callers, transports and      *)
(* WebSocket connections, every port range and every buffer size.          *)
(***************************************************************************)
EXTENDS CallControl, TLAPS

Busy == {"synthesizing", "replying", "queueing"}

\* What a fiber knows of the transport it is making a call of.  That no other
\* fiber works on it follows from the owner.
FibersOK ==
  \A f \in Fibers :
    /\ pc[f] \in Busy => work[f] \in Created /\ owner[work[f]] = f
    /\ pc[f] = "synthesizing" =>
         /\ work[f] \notin Tracked
         /\ work[f] \notin responder
         /\ finalized[work[f]] = 0
    /\ pc[f] \in {"synthesizing", "replying"} => listener[work[f]] = "none"

\* Nothing is known of a transport that does not exist yet.
FreshOK ==
  \A i \in Transports \ Created :
    finalized[i] = 0 /\ listener[i] = "none" /\ i \notin responder

\* The inductive invariant.
IInv ==
  /\ TypeOK
  /\ FibersOK
  /\ FreshOK
  /\ CallsMatchTeardown
  /\ ReservedPortsHeld
  /\ PortsExclusive
  /\ DestroyedTwiceByListener

-----------------------------------------------------------------------------
(* The table of calls *)

\* Collection.add puts one call into the table.
LEMMA AppendElements ==
  ASSUME NEW S, NEW s \in Seq(S), NEW e \in S
  PROVE  LET t == Append(s, e) IN
         /\ t \in Seq(S)
         /\ {t[k] : k \in 1..Len(t)} = {s[k] : k \in 1..Len(s)} \cup {e}
         /\ (/\ \A j, k \in 1..Len(s) : s[j] = s[k] => j = k
             /\ e \notin {s[k] : k \in 1..Len(s)})
              => \A j, k \in 1..Len(t) : t[j] = t[k] => j = k
<1> DEFINE t == Append(s, e)
<1>1. /\ t \in Seq(S) /\ Len(t) = Len(s) + 1 /\ Len(s) \in Nat
      /\ \A k \in 1..Len(s) : t[k] = s[k]
      /\ t[Len(s) + 1] = e
  OBVIOUS
<1> HIDE DEF t
<1>2. {t[k] : k \in 1..Len(t)} = {s[k] : k \in 1..Len(s)} \cup {e}
  <2>1. \A k \in 1..Len(t) : k \in 1..Len(s) \/ k = Len(s) + 1
    BY <1>1
  <2>2. 1..Len(s) \subseteq 1..Len(t) /\ (Len(s) + 1) \in 1..Len(t)
    BY <1>1
  <2> QED
    BY <2>1, <2>2, <1>1
<1>3. ASSUME \A j, k \in 1..Len(s) : s[j] = s[k] => j = k,
             e \notin {s[k] : k \in 1..Len(s)},
             NEW j \in 1..Len(t), NEW k \in 1..Len(t), t[j] = t[k]
      PROVE  j = k
  BY <1>1, <1>3
<1> QED
  BY <1>1, <1>2, <1>3 DEF t

\* Collection.remove takes one call out of the table and keeps the others.
LEMMA WithoutElements ==
  ASSUME NEW S, NEW s \in Seq(S), NEW e,
         \A j, k \in 1..Len(s) : s[j] = s[k] => j = k
  PROVE  LET t == Without(s, e) IN
         /\ t \in Seq(S)
         /\ {t[k] : k \in 1..Len(t)} = {s[k] : k \in 1..Len(s)} \ {e}
         /\ \A j, k \in 1..Len(t) : t[j] = t[k] => j = k
<1> DEFINE t == Without(s, e)
<1>0. Len(s) \in Nat /\ \A k \in 1..Len(s) : s[k] \in S
  OBVIOUS
<1>1. CASE \E k \in 1..Len(s) : s[k] = e
  <2> DEFINE at == CHOOSE k \in 1..Len(s) : s[k] = e
             n == Len(s) - 1
  <2>1. at \in 1..Len(s) /\ s[at] = e
    BY <1>1
  <2>2. t = [j \in 1..n |-> IF j < at THEN s[j] ELSE s[j + 1]]
    BY <1>1 DEF Without
  <2> HIDE DEF t, at
  <2>3. /\ n \in Nat /\ t \in Seq(S) /\ Len(t) = n
        /\ \A j \in 1..n : t[j] = IF j < at THEN s[j] ELSE s[j + 1]
    <3>1. n \in Nat
      BY <1>0, <2>1
    <3>2. \A j \in 1..n : (IF j < at THEN s[j] ELSE s[j + 1]) \in S
      BY <1>0, <2>1
    <3>3. t \in [1..n -> S]
      BY <2>2, <3>2
    <3> QED
      BY <2>2, <3>1, <3>3
  <2>4. \A j, k \in 1..Len(t) : t[j] = t[k] => j = k
    BY <1>0, <2>1, <2>3
  <2>5. ASSUME NEW j \in 1..Len(t)
        PROVE  t[j] \in {s[k] : k \in 1..Len(s)} \ {e}
    BY <1>0, <2>1, <2>3
  <2>6. ASSUME NEW k \in 1..Len(s), s[k] # e
        PROVE  \E j \in 1..Len(t) : t[j] = s[k]
    <3>1. CASE k < at
      BY <1>0, <2>1, <2>3, <3>1
    <3>2. CASE k > at
      <4>1. (k - 1) \in 1..n /\ ~((k - 1) < at) /\ (k - 1) + 1 = k
        BY <1>0, <2>1, <3>2
      <4> QED
        BY <4>1, <2>3
    <3> QED
      BY <3>1, <3>2, <2>1, <2>6, <1>0
  <2>7. {t[k] : k \in 1..Len(t)} = {s[k] : k \in 1..Len(s)} \ {e}
    BY <2>5, <2>6
  <2> QED
    BY <2>3, <2>4, <2>7 DEF t
<1>2. CASE ~ \E k \in 1..Len(s) : s[k] = e
  BY <1>2 DEF Without
<1> QED
  BY <1>1, <1>2

-----------------------------------------------------------------------------
(* What the shared steps of the actions preserve *)

LEMMA InitIInv == Init => IInv
<1> SUFFICES ASSUME Init PROVE IInv
  OBVIOUS
<1>1. Tracked = {} /\ Created = {}
  BY DEF Init, Tracked, Created
<1>2. TypeOK
  <2>1. calls \in Seq(Transports)
    BY DEF Init
  <2>3. stalled \in BOOLEAN
    BY Zenon DEF Init
  <2>2. /\ buffered \in [Transports -> 0..Room]
        /\ finalized \in [Transports -> 0..2]
    BY RoomAssumption DEF Init
  <2> QED
    BY <2>1, <2>2, <2>3 DEF Init, TypeOK, ListenerStates, FiberStates
<1>3. FibersOK /\ FreshOK
  BY DEF Init, FibersOK, FreshOK, Busy, Fibers
<1>4. CallsMatchTeardown
  BY <1>1 DEF Init, CallsMatchTeardown
<1>5. ReservedPortsHeld /\ PortsExclusive /\ DestroyedTwiceByListener
  BY <1>1 DEF Init, ReservedPortsHeld, PortsExclusive, Live,
              DestroyedTwiceByListener
<1> QED
  BY <1>2, <1>3, <1>4, <1>5 DEF IInv

\* Steps that leave both tables and the teardown flags alone.
LEMMA TablesUnchanged ==
  ASSUME IInv, UNCHANGED <<calls, used, port, finalized, responder>>
  PROVE  CallsMatchTeardown' /\ ReservedPortsHeld' /\ PortsExclusive'
  BY DEF IInv, CallsMatchTeardown, ReservedPortsHeld, PortsExclusive, Live,
         Created, Tracked

\* Transport::RTP.new reserves a port that no live transport has.
LEMMA NewTransportKeeps ==
  ASSUME IInv,
         NEW f \in Fibers, NEW c \in CallIds, NEW i \in Transports,
         NEW p \in RtpPorts, NEW k \in Codecs,
         NewTransport(f, c, i, p, k),
         UNCHANGED <<calls, finalized, dialog, media>>
  PROVE  /\ Created' = Created \cup {i}
         /\ i \notin Created
         /\ finalized[i] = 0 /\ listener[i] = "none"
         /\ i \notin responder /\ i \notin Tracked
         /\ FreshOK'
         /\ CallsMatchTeardown'
         /\ ReservedPortsHeld'
         /\ PortsExclusive'
         /\ DestroyedTwiceByListener'
<1>1. /\ port \in [Transports -> RtpPorts \cup {None}]
      /\ owner \in [Transports -> Fibers \cup {None}]
      /\ used \subseteq RtpPorts
  BY DEF IInv, TypeOK
<1>2. /\ i \notin Created /\ p \notin used
      /\ used' = used \cup {p} /\ port' = [port EXCEPT ![i] = p]
      /\ owner' = [owner EXCEPT ![i] = f]
      /\ calls' = calls /\ finalized' = finalized /\ listener' = listener
      /\ responder' = responder
  BY DEF NewTransport, dialog, media
<1>3. p # None
  <2>1. p \in Int
    BY PortAssumption DEF RtpPorts
  <2> QED
    BY <2>1, NoneAssumption
<1>4. Created' = Created \cup {i}
  BY <1>1, <1>2, <1>3 DEF Created
<1>5. /\ finalized[i] = 0 /\ listener[i] = "none" /\ i \notin responder
  BY <1>2 DEF IInv, FreshOK
<1>6. Tracked' = Tracked /\ i \notin Tracked
  BY <1>2 DEF IInv, CallsMatchTeardown, Tracked
<1>7. FreshOK'
  BY <1>2, <1>4 DEF IInv, FreshOK
<1>8. CallsMatchTeardown'
  BY <1>2, <1>4, <1>6 DEF IInv, CallsMatchTeardown
<1>9. /\ Live(i)'
      /\ \A j \in Transports : j # i => (Live(j)' <=> Live(j)) /\ port'[j] = port[j]
      /\ port'[i] = p
      /\ ~Live(i)
  BY <1>1, <1>2, <1>4, <1>5 DEF Live
<1>10. ReservedPortsHeld'
  <2> SUFFICES ASSUME NEW q \in used'
               PROVE  \E j \in Transports : port'[j] = q /\ Live(j)'
    BY DEF ReservedPortsHeld
  <2>1. CASE q = p
    BY <2>1, <1>9
  <2>2. CASE q # p
    <3>1. PICK j \in Transports : port[j] = q /\ Live(j)
      BY <2>2, <1>2 DEF IInv, ReservedPortsHeld
    <3> QED
      BY <3>1, <1>9
  <2> QED
    BY <2>1, <2>2
<1>11. PortsExclusive'
  <2> SUFFICES ASSUME NEW a \in Transports, NEW b \in Transports, Live(a)',
                      \A h \in Transports :
                        port'[h] = port'[a] => finalized[h] < 2
               PROVE  /\ port'[a] \in used'
                      /\ (Live(b)' /\ port'[b] = port'[a]) => a = b
    BY <1>2 DEF PortsExclusive
  <2>1. ASSUME NEW j \in Transports, j # i, Live(j), port[j] = p,
               \A h \in Transports : port'[h] = p => finalized[h] < 2
        PROVE  FALSE
    <3>1. \A h \in Transports : port[h] = port[j] => finalized[h] < 2
      BY <2>1, <1>5, <1>9
    <3>2. port[j] \in used
      BY <2>1, <3>1 DEF IInv, PortsExclusive
    <3> QED
      BY <3>2, <2>1, <1>2
  <2>2. CASE a = i
    BY <2>1, <2>2, <1>2, <1>9
  <2>3. CASE a # i /\ port[a] = p
    BY <2>1, <2>3, <1>9
  <2>4. CASE a # i /\ port[a] # p
    <3>1. \A h \in Transports : port[h] = port[a] => finalized[h] < 2
      BY <2>4, <1>5, <1>9
    <3>2. Live(a) /\ port'[a] = port[a]
      BY <2>4, <1>9
    <3>3. port[a] \in used /\ ((Live(b) /\ port[b] = port[a]) => a = b)
      BY <3>1, <3>2 DEF IInv, PortsExclusive
    <3> QED
      BY <3>2, <3>3, <2>4, <1>2, <1>9
  <2> QED
    BY <2>2, <2>3, <2>4
<1>12. DestroyedTwiceByListener'
  BY <1>1, <1>2, <1>5 DEF IInv, DestroyedTwiceByListener
<1> QED
  BY <1>2, <1>4, <1>5, <1>6, <1>7, <1>8, <1>10, <1>11, <1>12

\* Call#destroy, the first or the second time.
LEMMA DestroyKeeps ==
  ASSUME IInv, NEW i \in Created, finalized[i] \in {0, 1}, Destroy(i),
         UNCHANGED <<port, responder>>
  PROVE  /\ calls' \in Seq(Transports)
         /\ finalized' \in [Transports -> 0..2]
         /\ used' \subseteq RtpPorts
         /\ Created' = Created
         /\ Tracked' = Tracked \ {i}
         /\ CallsMatchTeardown'
         /\ ReservedPortsHeld'
         /\ PortsExclusive'
<1>1. /\ calls \in Seq(Transports) /\ finalized \in [Transports -> 0..2]
      /\ used \subseteq RtpPorts /\ i \in Transports
  BY DEF IInv, TypeOK, Created
<1>2. /\ calls' = Without(calls, i) /\ used' = used \ {port[i]}
      /\ finalized' = [finalized EXCEPT ![i] = @ + 1]
      /\ port' = port /\ responder' = responder
  BY DEF Destroy
<1>3. /\ calls' \in Seq(Transports) /\ Tracked' = Tracked \ {i}
      /\ \A j, k \in 1..Len(calls') : calls'[j] = calls'[k] => j = k
  <2>1. \A j, k \in 1..Len(calls) : calls[j] = calls[k] => j = k
    BY DEF IInv, CallsMatchTeardown
  <2> DEFINE t == Without(calls, i)
  <2>2. /\ t \in Seq(Transports)
        /\ {t[k] : k \in 1..Len(t)} = {calls[k] : k \in 1..Len(calls)} \ {i}
        /\ \A j, k \in 1..Len(t) : t[j] = t[k] => j = k
    BY <1>1, <2>1, WithoutElements
  <2> QED
    BY <2>2, <1>2 DEF Tracked
<1>4. /\ finalized' \in [Transports -> 0..2]
      /\ finalized'[i] = finalized[i] + 1
      /\ \A j \in Transports : j # i => finalized'[j] = finalized[j]
  BY <1>1, <1>2
<1>5. Created' = Created
  BY <1>2 DEF Created
<1>6. CallsMatchTeardown'
  BY <1>1, <1>2, <1>3, <1>4, <1>5 DEF IInv, CallsMatchTeardown, Created
<1>7. /\ \A j \in Transports : j # i => (Live(j)' <=> Live(j))
      /\ ~Live(i)'
  BY <1>1, <1>4, <1>5 DEF Live
<1>8. ReservedPortsHeld'
  <2> SUFFICES ASSUME NEW q \in used'
               PROVE  \E j \in Transports : port[j] = q /\ Live(j)'
    BY <1>2 DEF ReservedPortsHeld
  <2>1. PICK j \in Transports : port[j] = q /\ Live(j)
    BY <1>2 DEF IInv, ReservedPortsHeld
  <2> QED
    BY <2>1, <1>2, <1>7
<1>9. PortsExclusive'
  <2> SUFFICES ASSUME NEW a \in Transports, NEW b \in Transports, Live(a)',
                      \A h \in Transports :
                        port[h] = port[a] => finalized'[h] < 2
               PROVE  /\ port[a] \in used'
                      /\ (Live(b)' /\ port[b] = port[a]) => a = b
    BY <1>2 DEF PortsExclusive
  <2>1. a # i /\ Live(a)
    BY <1>7
  <2>2. \A h \in Transports : port[h] = port[a] => finalized[h] < 2
    BY <1>1, <1>4
  <2>3. /\ port[a] \in used
        /\ \A j \in Transports : (Live(j) /\ port[j] = port[a]) => a = j
    BY <2>1, <2>2 DEF IInv, PortsExclusive
  <2>4. port[i] # port[a]
    <3> SUFFICES ASSUME port[i] = port[a] PROVE FALSE
      OBVIOUS
    <3>1. finalized[i] = 0
      BY <1>1, <1>4
    <3> QED
      BY <3>1, <2>1, <2>3, <1>1 DEF Live
  <2> QED
    BY <2>1, <2>3, <2>4, <1>2, <1>7
<1> QED
  BY <1>1, <1>2, <1>3, <1>4, <1>5, <1>6, <1>8, <1>9

\* Collection.add, with or without a responder.
LEMMA TrackKeeps ==
  ASSUME IInv, NEW w \in Created, w \notin Tracked, finalized[w] = 0,
         calls' = Append(calls, w),
         responder' \in {responder, responder \cup {w}},
         UNCHANGED <<port, used, finalized>>
  PROVE  /\ calls' \in Seq(Transports)
         /\ responder' \subseteq Transports
         /\ Created' = Created
         /\ Tracked' = Tracked \cup {w}
         /\ CallsMatchTeardown'
         /\ ReservedPortsHeld'
         /\ PortsExclusive'
<1>1. /\ calls \in Seq(Transports) /\ w \in Transports
      /\ responder \subseteq Transports
  BY DEF IInv, TypeOK, Created
<1>2. /\ calls' \in Seq(Transports) /\ Tracked' = Tracked \cup {w}
      /\ \A j, k \in 1..Len(calls') : calls'[j] = calls'[k] => j = k
  BY <1>1, AppendElements DEF IInv, CallsMatchTeardown, Tracked
<1>3. Created' = Created
  BY DEF Created
<1>4. CallsMatchTeardown'
  BY <1>2, <1>3 DEF IInv, CallsMatchTeardown
<1>5. ReservedPortsHeld' /\ PortsExclusive'
  BY DEF IInv, ReservedPortsHeld, PortsExclusive, Live, Created
<1> QED
  BY <1>1, <1>2, <1>3, <1>4, <1>5

-----------------------------------------------------------------------------
(* The actions *)

LEMMA AcceptInviteIInv ==
  ASSUME IInv,
         NEW f \in Fibers, NEW c \in CallIds, NEW i \in Transports,
         NEW p \in RtpPorts, NEW k \in Codecs,
         AcceptInvite(f, c, i, p, k)
  PROVE  IInv'
<1>1. /\ NewTransport(f, c, i, p, k)
      /\ UNCHANGED <<calls, finalized, dialog, media>>
  BY DEF AcceptInvite
<1>2. /\ Created' = Created \cup {i} /\ i \notin Created
      /\ finalized[i] = 0 /\ listener[i] = "none"
      /\ i \notin responder /\ i \notin Tracked
      /\ FreshOK' /\ CallsMatchTeardown' /\ ReservedPortsHeld'
      /\ PortsExclusive' /\ DestroyedTwiceByListener'
  BY <1>1, NewTransportKeeps
<1>3. TypeOK'
  BY <1>1 DEF IInv, TypeOK, AcceptInvite, NewTransport, dialog, media,
              FiberStates
<1>4. FibersOK'
  <2>1. /\ pc' = [pc EXCEPT ![f] = "synthesizing"]
        /\ work' = [work EXCEPT ![f] = i]
        /\ owner' = [owner EXCEPT ![i] = f]
        /\ Tracked' = Tracked
        /\ UNCHANGED <<finalized, responder, listener>>
    BY <1>1 DEF AcceptInvite, NewTransport, dialog, media, Tracked
  <2>2. /\ pc \in [Fibers -> FiberStates]
        /\ work \in [Fibers -> Transports \cup {None}]
        /\ owner \in [Transports -> Fibers \cup {None}]
        /\ Created \subseteq Transports
    BY DEF IInv, TypeOK, Created
  <2> QED
    BY <2>1, <2>2, <1>2 DEF IInv, FibersOK, Busy
<1> QED
  BY <1>2, <1>3, <1>4 DEF IInv

LEMMA AbandonInviteIInv ==
  ASSUME IInv,
         NEW f \in Fibers, NEW c \in CallIds, NEW i \in Transports,
         NEW p \in RtpPorts, NEW k \in Codecs,
         AbandonInvite(f, c, i, p, k)
  PROVE  IInv'
<1>1. /\ NewTransport(f, c, i, p, k)
      /\ UNCHANGED <<calls, finalized, dialog, media>>
  BY DEF AbandonInvite
<1>2. /\ Created' = Created \cup {i} /\ i \notin Created
      /\ FreshOK' /\ CallsMatchTeardown' /\ ReservedPortsHeld'
      /\ PortsExclusive' /\ DestroyedTwiceByListener'
  BY <1>1, NewTransportKeeps
<1>3. TypeOK'
  BY <1>1 DEF IInv, TypeOK, AbandonInvite, NewTransport, dialog, media,
              FiberStates, Raise
<1>4. FibersOK'
  <2>1. /\ pc' = [pc EXCEPT ![f] = IF f = Sip THEN "idle" ELSE "closed"]
        /\ work' = work
        /\ owner' = [owner EXCEPT ![i] = f]
        /\ Tracked' = Tracked
        /\ UNCHANGED <<finalized, responder, listener>>
    BY <1>1 DEF AbandonInvite, NewTransport, dialog, media, Tracked, Raise
  <2>2. /\ pc \in [Fibers -> FiberStates]
        /\ work \in [Fibers -> Transports \cup {None}]
        /\ owner \in [Transports -> Fibers \cup {None}]
        /\ Created \subseteq Transports
    BY DEF IInv, TypeOK, Created
  <2> QED
    BY <2>1, <2>2, <1>2 DEF IInv, FibersOK, Busy
<1> QED
  BY <1>2, <1>3, <1>4 DEF IInv

\* Steps in which a fiber leaves off and touches no transport.
LEMMA LeaveOffIInv ==
  ASSUME IInv, NEW f \in Fibers,
         pc' \in [Fibers -> FiberStates],
         work' \in [Fibers -> Transports \cup {None}],
         pc'[f] \in {"idle", "closed"},
         \A g \in Fibers : g # f => pc'[g] = pc[g] /\ work'[g] = work[g],
         started' \subseteq Transports,
         UNCHANGED <<calls, setup, used, finalized, responder, answered, media,
                     stalled>>
  PROVE  IInv'
<1>1. CallsMatchTeardown' /\ ReservedPortsHeld' /\ PortsExclusive'
  BY TablesUnchanged DEF setup
<1>2. TypeOK'
  BY DEF IInv, TypeOK, setup, media
<1>3. FreshOK' /\ DestroyedTwiceByListener'
  BY DEF IInv, FreshOK, DestroyedTwiceByListener, Created, setup, media
<1>4. FibersOK'
  <2>1. Created' = Created /\ Tracked' = Tracked
    BY DEF Created, Tracked, setup
  <2> QED
    BY <2>1 DEF IInv, FibersOK, Busy, setup, media
<1> QED
  BY <1>1, <1>2, <1>3, <1>4 DEF IInv

LEMMA FiberLeavesIInv ==
  ASSUME IInv, NEW f \in Fibers,
         \/ RefuseInvite(f)
         \/ SynthesisFails(f)
         \/ ReplyRaises(f)
         \/ StartCall(f)
  PROVE  IInv'
<1>1. /\ pc \in [Fibers -> FiberStates]
      /\ work \in [Fibers -> Transports \cup {None}]
      /\ started \subseteq Transports
  BY DEF IInv, TypeOK
<1>2. StartCall(f) => work[f] \in Transports
  BY DEF IInv, FibersOK, Busy, Created, StartCall, Waits
<1>3. /\ pc' \in [Fibers -> FiberStates]
      /\ work' \in [Fibers -> Transports \cup {None}]
      /\ pc'[f] \in {"idle", "closed"}
      /\ \A g \in Fibers : g # f => pc'[g] = pc[g] /\ work'[g] = work[g]
  BY <1>1 DEF RefuseInvite, SynthesisFails, ReplyRaises, StartCall, Raise,
              FiberStates
<1>4. /\ started' \subseteq Transports
      /\ UNCHANGED <<calls, setup, used, finalized, responder, answered, media,
                     stalled>>
  BY <1>1, <1>2 DEF RefuseInvite, SynthesisFails, ReplyRaises, StartCall,
                    dialog
<1> QED
  BY <1>3, <1>4, LeaveOffIInv

LEMMA ExhaustPortsIInv ==
  ASSUME IInv, NEW f \in Fibers, NEW c \in CallIds, ExhaustPorts(f, c)
  PROVE  IInv'
<1>1. CallsMatchTeardown' /\ ReservedPortsHeld' /\ PortsExclusive'
  BY TablesUnchanged DEF ExhaustPorts, setup, dialog
<1>2. TypeOK'
  <2>1. stalled' \in BOOLEAN
    BY Zenon DEF ExhaustPorts
  <2> QED
    BY <2>1 DEF IInv, TypeOK, ExhaustPorts, setup, dialog, media
<1>3. FibersOK' /\ FreshOK' /\ DestroyedTwiceByListener'
  BY DEF IInv, FibersOK, FreshOK, DestroyedTwiceByListener, Created, Tracked,
         ExhaustPorts, setup, dialog, media, Busy
<1> QED
  BY <1>1, <1>2, <1>3 DEF IInv

LEMMA TrackCallIInv ==
  ASSUME IInv, NEW f \in Fibers, TrackCall(f) \/ TrackCallRaises(f)
  PROVE  IInv'
<1> DEFINE w == work[f]
<1>1. /\ w \in Created /\ owner[w] = f /\ w \notin Tracked
      /\ w \notin responder /\ finalized[w] = 0 /\ listener[w] = "none"
      /\ pc[f] = "synthesizing"
  BY DEF IInv, FibersOK, Busy, TrackCall, TrackCallRaises, Waits
<1>2. /\ calls' = Append(calls, w)
      /\ responder' \in {responder, responder \cup {w}}
      /\ UNCHANGED <<port, used, finalized, owner, callId, codec, listener,
                     buffered, gone, answered, started, stalled>>
  BY DEF TrackCall, TrackCallRaises, setup, dialog, media
<1>3. /\ calls' \in Seq(Transports) /\ responder' \subseteq Transports
      /\ Created' = Created /\ Tracked' = Tracked \cup {w}
      /\ CallsMatchTeardown' /\ ReservedPortsHeld' /\ PortsExclusive'
  BY <1>1, <1>2, TrackKeeps
<1>4. /\ pc \in [Fibers -> FiberStates]
      /\ work \in [Fibers -> Transports \cup {None}]
  BY DEF IInv, TypeOK
<1>5. /\ pc' \in [Fibers -> FiberStates]
      /\ work' \in [Fibers -> Transports \cup {None}]
      /\ \/ pc'[f] = "replying" /\ work'[f] = w
         \/ pc'[f] \in {"idle", "closed"}
      /\ \A g \in Fibers : g # f => pc'[g] = pc[g] /\ work'[g] = work[g]
  BY <1>4 DEF TrackCall, TrackCallRaises, Raise, FiberStates
<1>6. TypeOK'
  BY <1>2, <1>3, <1>5 DEF IInv, TypeOK
<1>7. FreshOK' /\ DestroyedTwiceByListener'
  BY <1>1, <1>2, <1>3 DEF IInv, FreshOK, DestroyedTwiceByListener
<1>8. FibersOK'
  <2> SUFFICES ASSUME NEW g \in Fibers
               PROVE  /\ pc'[g] \in Busy =>
                           work'[g] \in Created /\ owner[work'[g]] = g
                      /\ pc'[g] = "synthesizing" =>
                           /\ work'[g] \notin Tracked'
                           /\ work'[g] \notin responder'
                           /\ finalized[work'[g]] = 0
                      /\ pc'[g] \in {"synthesizing", "replying"} =>
                           listener[work'[g]] = "none"
    BY <1>2, <1>3 DEF FibersOK
  <2>1. CASE g = f
    BY <2>1, <1>1, <1>5 DEF Busy
  <2>2. CASE g # f
    <3>1. pc'[g] = pc[g] /\ work'[g] = work[g]
      BY <2>2, <1>5
    <3>2. pc[g] \in Busy => work[g] # w
      BY <2>2, <1>1 DEF IInv, FibersOK
    <3> QED
      BY <3>1, <3>2, <1>2, <1>3 DEF IInv, FibersOK, Busy
  <2> QED
    BY <2>1, <2>2
<1> QED
  BY <1>3, <1>6, <1>7, <1>8 DEF IInv

LEMMA FinishReplyIInv ==
  ASSUME IInv, NEW f \in Fibers, FinishReply(f)
  PROVE  IInv'
<1> DEFINE w == work[f]
<1>1. w \in Created /\ w \in Transports /\ owner[w] = f /\ listener[w] = "none"
  BY DEF IInv, FibersOK, Busy, Created, FinishReply, Waits
<1>2. /\ listener' = [listener EXCEPT ![w] = "ready"]
      /\ answered' \in {answered, answered \cup {w}}
      /\ pc' = [pc EXCEPT ![f] = IF f = Sip THEN "queueing" ELSE "idle"]
      /\ work' = IF f = Sip THEN work ELSE [work EXCEPT ![f] = None]
      /\ UNCHANGED <<calls, callId, port, codec, owner, used, finalized,
                     responder, started, buffered, gone, stalled>>
  BY DEF FinishReply, setup
<1>3. /\ pc \in [Fibers -> FiberStates]
      /\ work \in [Fibers -> Transports \cup {None}]
      /\ listener \in [Transports -> ListenerStates]
  BY DEF IInv, TypeOK
<1>4. CallsMatchTeardown' /\ ReservedPortsHeld' /\ PortsExclusive'
  BY <1>2, TablesUnchanged
<1>5. TypeOK'
  BY <1>1, <1>2 DEF IInv, TypeOK, FiberStates, ListenerStates
<1>6. Created' = Created /\ Tracked' = Tracked
  BY <1>2 DEF Created, Tracked
<1>7. FreshOK' /\ DestroyedTwiceByListener'
  BY <1>1, <1>2, <1>3, <1>6 DEF IInv, FreshOK, DestroyedTwiceByListener
<1>8. FibersOK'
  <2> SUFFICES ASSUME NEW g \in Fibers
               PROVE  /\ pc'[g] \in Busy =>
                           work'[g] \in Created /\ owner[work'[g]] = g
                      /\ pc'[g] = "synthesizing" =>
                           /\ work'[g] \notin Tracked
                           /\ work'[g] \notin responder
                           /\ finalized[work'[g]] = 0
                      /\ pc'[g] \in {"synthesizing", "replying"} =>
                           listener'[work'[g]] = "none"
    BY <1>2, <1>6 DEF FibersOK
  <2>1. CASE g = f
    BY <2>1, <1>1, <1>2, <1>3 DEF Busy
  <2>2. CASE g # f
    <3>1. pc'[g] = pc[g] /\ work'[g] = work[g]
      BY <2>2, <1>2, <1>3
    <3>2. pc[g] \in Busy => work[g] # w /\ work[g] \in Transports
      BY <2>2, <1>1 DEF IInv, FibersOK, Created
    <3> QED
      BY <3>1, <3>2, <1>2, <1>3 DEF IInv, FibersOK, Busy
  <2> QED
    BY <2>1, <2>2
<1> QED
  BY <1>4, <1>5, <1>7, <1>8 DEF IInv

LEMMA ByeIInv ==
  ASSUME IInv, NEW c \in CallIds, NEW i \in Transports, Bye(c, i)
  PROVE  IInv'
<1>1. i \in Tracked /\ i \in responder /\ Destroy(i)
  BY DEF Bye, find_by_call_id, Tracked
<1>2. i \in Created /\ finalized[i] = 0
  BY <1>1 DEF IInv, CallsMatchTeardown
<1>3. UNCHANGED <<callId, port, codec, owner, responder, answered, started,
                  listener, buffered, gone, pc, work, stalled>>
  BY DEF Bye, setup, dialog, media
<1>4. /\ calls' \in Seq(Transports) /\ finalized' \in [Transports -> 0..2]
      /\ used' \subseteq RtpPorts
      /\ Created' = Created /\ Tracked' = Tracked \ {i}
      /\ CallsMatchTeardown' /\ ReservedPortsHeld' /\ PortsExclusive'
  BY <1>1, <1>2, <1>3, DestroyKeeps
<1>5. TypeOK'
  BY <1>3, <1>4 DEF IInv, TypeOK
<1>6. /\ finalized'[i] = 1
      /\ \A j \in Transports : j # i => finalized'[j] = finalized[j]
  BY <1>1, <1>2 DEF IInv, TypeOK, Destroy
<1>7. FreshOK' /\ DestroyedTwiceByListener'
  BY <1>2, <1>3, <1>4, <1>6 DEF IInv, FreshOK, DestroyedTwiceByListener
<1>8. FibersOK'
  BY <1>1, <1>3, <1>4, <1>6 DEF IInv, FibersOK, Busy, Created
<1> QED
  BY <1>4, <1>5, <1>7, <1>8 DEF IInv

\* Steps of a listener that leave everything but its own state alone.
LEMMA ListenerMovesIInv ==
  ASSUME IInv, NEW i \in Transports,
         listener[i] \in {"ready", "receiving"},
         NEW l \in ListenerStates \ {"none"},
         listener' = [listener EXCEPT ![i] = l],
         buffered' \in [Transports -> 0..Room],
         UnchangedButListener
  PROVE  IInv'
<1>1. UNCHANGED <<calls, callId, port, codec, owner, used, finalized,
                  responder, answered, started, gone, pc, work, stalled>>
  BY DEF UnchangedButListener, setup, dialog
<1>2. CallsMatchTeardown' /\ ReservedPortsHeld' /\ PortsExclusive'
  BY <1>1, TablesUnchanged
<1>3. listener \in [Transports -> ListenerStates]
  BY DEF IInv, TypeOK
<1>4. TypeOK'
  BY <1>1 DEF IInv, TypeOK, ListenerStates
<1>5. Created' = Created /\ Tracked' = Tracked
  BY <1>1 DEF Created, Tracked
<1>6. FreshOK'
  BY <1>1, <1>3, <1>5 DEF IInv, FreshOK
<1>7. DestroyedTwiceByListener'
  BY <1>1, <1>3 DEF IInv, DestroyedTwiceByListener
<1>8. FibersOK'
  <2>1. \A f \in Fibers :
          pc[f] \in {"synthesizing", "replying"} =>
            work[f] # i /\ work[f] \in Transports
    BY DEF IInv, FibersOK, Busy, Created
  <2> QED
    BY <2>1, <1>1, <1>3, <1>5 DEF IInv, FibersOK, Busy
<1> QED
  BY <1>2, <1>4, <1>6, <1>7, <1>8 DEF IInv

LEMMA ListenIInv ==
  ASSUME IInv, NEW i \in Transports,
         \/ ListenStart(i)
         \/ ListenPacket(i)
         \/ ListenRunt(i)
         \/ ListenErrno(i)
  PROVE  IInv'
<1>1. buffered \in [Transports -> 0..Room] /\ Loop(i) \in ListenerStates \ {"none"}
  BY DEF IInv, TypeOK, Loop, ListenerStates
<1>2. /\ buffered' \in [Transports -> 0..Room]
      /\ UnchangedButListener
      /\ listener[i] \in {"ready", "receiving"}
  BY <1>1, RoomAssumption
     DEF ListenStart, ListenPacket, ListenRunt, ListenErrno, Receiving
<1>3. \E l \in ListenerStates \ {"none"} : listener' = [listener EXCEPT ![i] = l]
  BY <1>1 DEF ListenStart, ListenPacket, ListenRunt, ListenErrno,
              ListenerStates
<1> QED
  BY <1>2, <1>3, ListenerMovesIInv

LEMMA ListenTimeoutIInv ==
  ASSUME IInv, NEW i \in Transports, ListenTimeout(i)
  PROVE  IInv'
<1>1. CASE owner[i] # Sip
  <2>1. /\ listener' = [listener EXCEPT ![i] = "dead"]
        /\ listener[i] = "receiving"
        /\ UnchangedButListener
        /\ buffered' = buffered
    BY <1>1 DEF ListenTimeout, Receiving, UnchangedButListener
  <2>2. /\ buffered' \in [Transports -> 0..Room]
        /\ "dead" \in ListenerStates \ {"none"}
    BY <2>1 DEF IInv, TypeOK, ListenerStates
  <2> QED
    BY <2>1, <2>2, ListenerMovesIInv
<1>2. CASE owner[i] = Sip
  <2>1. /\ Destroy(i) /\ listener[i] = "receiving"
        /\ listener' = [listener EXCEPT ![i] = "returned"]
        /\ UNCHANGED <<callId, port, codec, owner, responder, answered,
                       started, buffered, gone, pc, work, stalled>>
    BY <1>2 DEF ListenTimeout, Receiving, setup, dialog
  <2>2. /\ finalized \in [Transports -> 0..2]
        /\ listener \in [Transports -> ListenerStates]
    BY DEF IInv, TypeOK
  <2>3. i \in Created /\ finalized[i] \in {0, 1}
    BY <2>1, <2>2 DEF IInv, FreshOK, DestroyedTwiceByListener
  <2>4. /\ calls' \in Seq(Transports) /\ finalized' \in [Transports -> 0..2]
        /\ used' \subseteq RtpPorts
        /\ Created' = Created /\ Tracked' = Tracked \ {i}
        /\ CallsMatchTeardown' /\ ReservedPortsHeld' /\ PortsExclusive'
    BY <2>1, <2>3, DestroyKeeps
  <2>5. TypeOK'
    BY <2>1, <2>2, <2>4 DEF IInv, TypeOK, ListenerStates
  <2>6. \A j \in Transports : j # i => /\ finalized'[j] = finalized[j]
                                       /\ listener'[j] = listener[j]
    BY <2>1, <2>2 DEF Destroy
  <2>7. listener'[i] = "returned"
    BY <2>1, <2>2
  <2>8. FreshOK' /\ DestroyedTwiceByListener'
    BY <1>2, <2>1, <2>3, <2>4, <2>6, <2>7
       DEF IInv, FreshOK, DestroyedTwiceByListener
  <2>9. FibersOK'
    <3>1. \A f \in Fibers :
            pc[f] \in {"synthesizing", "replying"} =>
              work[f] # i /\ work[f] \in Transports
      BY <2>1 DEF IInv, FibersOK, Busy, Created
    <3> QED
      BY <3>1, <2>1, <2>4, <2>6 DEF IInv, FibersOK, Busy
  <2> QED
    BY <2>4, <2>5, <2>8, <2>9 DEF IInv
<1> QED
  BY <1>1, <1>2

LEMMA PeerGoneIInv ==
  ASSUME IInv, NEW i \in Transports, PeerGone(i)
  PROVE  IInv'
<1>1. CallsMatchTeardown' /\ ReservedPortsHeld' /\ PortsExclusive'
  BY TablesUnchanged DEF PeerGone, setup, dialog
<1>2. TypeOK'
  BY DEF IInv, TypeOK, PeerGone, setup, dialog
<1>3. FibersOK' /\ FreshOK' /\ DestroyedTwiceByListener'
  BY DEF IInv, FibersOK, FreshOK, DestroyedTwiceByListener, Created, Tracked,
         PeerGone, setup, dialog, Busy
<1> QED
  BY <1>1, <1>2, <1>3 DEF IInv

LEMMA StutterIInv == ASSUME IInv, UNCHANGED vars PROVE IInv'
<1>1. CallsMatchTeardown' /\ ReservedPortsHeld' /\ PortsExclusive'
  BY TablesUnchanged DEF vars
<1>2. TypeOK' /\ FibersOK' /\ FreshOK' /\ DestroyedTwiceByListener'
  BY DEF IInv, TypeOK, FibersOK, FreshOK, DestroyedTwiceByListener, Created,
         Tracked, vars, Busy
<1> QED
  BY <1>1, <1>2 DEF IInv

LEMMA NextIInv == IInv /\ [Next]_vars => IInv'
<1> SUFFICES ASSUME IInv, [Next]_vars PROVE IInv'
  OBVIOUS
<1>1. CASE UNCHANGED vars
  BY <1>1, StutterIInv
<1>2. ASSUME NEW f \in Fibers, Invite(f) PROVE IInv'
  BY <1>2, AcceptInviteIInv, AbandonInviteIInv, ExhaustPortsIInv,
     FiberLeavesIInv DEF Invite
<1>3. ASSUME NEW f \in Fibers, SetUp(f) PROVE IInv'
  BY <1>3, FiberLeavesIInv, TrackCallIInv, FinishReplyIInv DEF SetUp
<1>4. ASSUME Request PROVE IInv'
  BY <1>4, ByeIInv, StutterIInv
     DEF Request, IgnoreInvite, ByeIgnored, OtherRequest
<1>5. ASSUME NEW i \in Transports, Listen(i) PROVE IInv'
  BY <1>5, ListenIInv, ListenTimeoutIInv DEF Listen
<1> QED
  BY <1>1, <1>2, <1>3, <1>4, <1>5, PeerGoneIInv DEF Next

-----------------------------------------------------------------------------
(* The theorems *)

\* The inductive invariant of call control.
THEOREM CallControlInvariant == Spec => []IInv
  BY InitIInv, NextIInv, PTL DEF Spec

\* Every variable keeps its type; a call is destroyed at most twice.
THEOREM TypeCorrect == Spec => []TypeOK
  BY CallControlInvariant, PTL DEF IInv

\* The table of calls and the teardown flags agree.
THEOREM TableAgrees == Spec => []CallsMatchTeardown
  BY CallControlInvariant, PTL DEF IInv

\* Live transports share a port only if one of its owners was destroyed twice
\* (Generic#alloc_random_rtp_port against Generic#finalize).
THEOREM PortTableCorrect == Spec => []PortsExclusive
  BY CallControlInvariant, PTL DEF IInv

\* A reserved port belongs to a live transport, whichever fibers tear calls down
\* and however often: teardown leaves no reservation behind.
THEOREM NoStaleReservation == Spec => []ReservedPortsHeld
  BY CallControlInvariant, PTL DEF IInv

\* The second destroy of a call is its listener's, and the last.
THEOREM SecondDestroyIsLast == Spec => []DestroyedTwiceByListener
  BY CallControlInvariant, PTL DEF IInv

-----------------------------------------------------------------------------
(* One call per Call-ID, when the SIP socket is the only way in *)

\* While the SIP fiber waits for the prompt of a call, no other call with its
\* Call-ID can be added: the fiber that adds calls is this one.
SipInv ==
  /\ UniqueCallIds
  /\ pc[Sip] = "synthesizing" =>
       \A i \in Tracked : callId[i] # callId[work[Sip]]

LEMMA KnownIsTracked ==
  ASSUME NEW c
  PROVE  Known(c) <=> \E i \in Tracked : callId[i] = c
  BY DEF Known, Tracked

\* Steps that add no call, and do not begin one.
LEMMA NoNewCall ==
  ASSUME IInv, IInv', SipInv, Tracked' \subseteq Tracked,
         pc'[Sip] = "synthesizing" =>
           pc[Sip] = "synthesizing" /\ work'[Sip] = work[Sip],
         \A i \in Tracked' : callId'[i] = callId[i],
         callId'[work[Sip]] = callId[work[Sip]]
  PROVE  SipInv'
  BY DEF SipInv, UniqueCallIds

LEMMA NextSipInv ==
  ASSUME WsConns = {}, IInv, IInv', SipInv, [Next]_vars
  PROVE  SipInv'
<1>0. /\ Fibers = {Sip} /\ callId \in [Transports -> CallIds \cup {None}]
      /\ pc \in [Fibers -> FiberStates]
      /\ work \in [Fibers -> Transports \cup {None}]
  BY DEF Fibers, IInv, TypeOK
<1>1. ASSUME NEW c \in CallIds, NEW i \in Transports, NEW p \in RtpPorts,
             NEW k \in Codecs,
             AcceptInvite(Sip, c, i, p, k) \/ AbandonInvite(Sip, c, i, p, k)
      PROVE  SipInv'
  <2>1. /\ ~Known(c) /\ i \notin Created
        /\ callId' = [callId EXCEPT ![i] = c]
        /\ calls' = calls
        /\ pc'[Sip] = "synthesizing" => work'[Sip] = i
    BY <1>0, <1>1 DEF AcceptInvite, AbandonInvite, MayInvite, NewTransport,
                      Raise
  <2>2. Tracked' = Tracked /\ i \notin Tracked /\ Tracked \subseteq Transports
    BY <2>1 DEF Tracked, IInv, CallsMatchTeardown, Created
  <2>3. \A j \in Tracked : callId'[j] = callId[j] /\ callId[j] # c
    BY <2>1, <2>2, <1>0, KnownIsTracked
  <2>4. callId'[i] = c
    BY <2>1, <1>0
  <2> QED
    BY <2>1, <2>2, <2>3, <2>4 DEF SipInv, UniqueCallIds
<1>2. ASSUME TrackCall(Sip) \/ TrackCallRaises(Sip)
      PROVE  SipInv'
  <2> DEFINE w == work[Sip]
  <2>1. /\ w \in Created /\ pc[Sip] = "synthesizing"
        /\ calls' = Append(calls, w) /\ callId' = callId
        /\ pc'[Sip] # "synthesizing"
    BY <1>0, <1>2 DEF TrackCall, TrackCallRaises, Waits, Raise, setup, IInv,
                      FibersOK, Busy
  <2>2. Tracked' = Tracked \cup {w}
    <3>1. calls \in Seq(Transports) /\ w \in Transports
      BY <2>1 DEF IInv, TypeOK, Created
    <3> QED
      BY <3>1, <2>1, AppendElements DEF Tracked
  <2> QED
    BY <2>1, <2>2 DEF SipInv, UniqueCallIds
<1>3. ASSUME NEW i \in Transports, Destroy(i),
             UNCHANGED <<callId, pc, work>>
      PROVE  SipInv'
  <2> DEFINE t == Without(calls, i)
  <2>1. /\ calls \in Seq(Transports)
        /\ \A j, k \in 1..Len(calls) : calls[j] = calls[k] => j = k
    BY DEF IInv, TypeOK, CallsMatchTeardown
  <2>2. /\ t \in Seq(Transports)
        /\ {t[k] : k \in 1..Len(t)} = {calls[k] : k \in 1..Len(calls)} \ {i}
        /\ \A j, k \in 1..Len(t) : t[j] = t[k] => j = k
    BY <2>1, WithoutElements
  <2>3. Tracked' \subseteq Tracked
    BY <1>3, <2>2 DEF Tracked, Destroy
  <2> QED
    BY <1>3, <2>3, NoNewCall
<1>4. ASSUME UNCHANGED <<calls, callId>>,
             pc'[Sip] = "synthesizing" =>
               pc[Sip] = "synthesizing" /\ work'[Sip] = work[Sip]
      PROVE  SipInv'
  <2>1. Tracked' = Tracked
    BY <1>4 DEF Tracked
  <2> QED
    BY <1>4, <2>1, NoNewCall
<1>5. ASSUME \/ \E c \in CallIds : ExhaustPorts(Sip, c)
             \/ RefuseInvite(Sip) \/ SynthesisFails(Sip) \/ FinishReply(Sip)
             \/ ReplyRaises(Sip) \/ StartCall(Sip)
      PROVE  SipInv'
  <2>1. UNCHANGED <<calls, callId>>
    BY <1>5 DEF ExhaustPorts, RefuseInvite, SynthesisFails, FinishReply,
                ReplyRaises, StartCall, setup
  <2>2. pc'[Sip] = "synthesizing" =>
          pc[Sip] = "synthesizing" /\ work'[Sip] = work[Sip]
    BY <1>0, <1>5 DEF ExhaustPorts, RefuseInvite, SynthesisFails, FinishReply,
                      ReplyRaises, StartCall, Raise
  <2> QED
    BY <2>1, <2>2, <1>4
<1>6. ASSUME NEW i \in Transports, Listen(i) \/ PeerGone(i)
      PROVE  SipInv'
  <2>1. CASE ListenTimeout(i)
    BY <2>1, <1>3, <1>4 DEF ListenTimeout, setup
  <2>2. CASE ~ListenTimeout(i)
    <3>1. UNCHANGED <<calls, callId, pc, work>>
      BY <1>6, <2>2 DEF Listen, ListenStart, ListenPacket, ListenRunt,
                        ListenErrno, PeerGone, UnchangedButListener, setup
    <3> QED
      BY <3>1, <1>4
  <2> QED
    BY <2>1, <2>2
<1>7. ASSUME Request PROVE SipInv'
  <2>1. CASE \E c \in CallIds, i \in Transports : Bye(c, i)
    BY <2>1, <1>3 DEF Bye, setup
  <2>2. CASE UNCHANGED vars
    BY <2>2, <1>4 DEF vars
  <2> QED
    BY <1>7, <2>1, <2>2 DEF Request, IgnoreInvite, ByeIgnored, OtherRequest
<1>8. CASE UNCHANGED vars
  BY <1>8, <1>4 DEF vars
<1> QED
  BY <1>0, <1>1, <1>2, <1>5, <1>6, <1>7, <1>8 DEF Next, Invite, SetUp

\* "Let's just ignore this duplicate INVITE...": with no WebSocket connection
\* no two tracked calls ever have one Call-ID, although the check and
\* Collection.add are separated by the wait for the speech service.
THEOREM SipCallIdsUnique == ASSUME WsConns = {} PROVE Spec => []UniqueCallIds
<1>1. Init => SipInv
  BY DEF Init, SipInv, UniqueCallIds, Tracked, Fibers
<1>2. IInv /\ IInv' /\ SipInv /\ [Next]_vars => SipInv'
  BY NextSipInv
<1> QED
  BY <1>1, <1>2, CallControlInvariant, PTL DEF Spec, SipInv
-----------------------------------------------------------------------------
(* What is left to happen to an answered call *)

\* A SIP call whose 200 OK was sent has been told to start, or the SIP fiber is
\* about to tell it (session.cr:82): no other request comes in between.
AnsweredIsNext ==
  \A i \in answered :
    owner[i] = Sip => i \in started \/ (pc[Sip] = "queueing" /\ work[Sip] = i)

AnsweredInv == answered \subseteq Created /\ AnsweredIsNext

\* Steps that answer and start no call and leave the SIP fiber to its event.
LEMMA DialogKept ==
  ASSUME AnsweredInv, UNCHANGED <<answered, started>>, Created \subseteq Created',
         \A i \in Created : owner'[i] = owner[i],
         pc[Sip] = "queueing" => pc'[Sip] = "queueing" /\ work'[Sip] = work[Sip]
  PROVE  AnsweredInv'
  BY DEF AnsweredInv, AnsweredIsNext

\* Steps of a fiber that is not queueing an event.
LEMMA FiberDialogKept ==
  ASSUME IInv, AnsweredInv, NEW f \in Fibers, pc[f] # "queueing",
         UNCHANGED <<answered, started>>, Created \subseteq Created',
         \A i \in Created : owner'[i] = owner[i],
         \E stage : pc' = [pc EXCEPT ![f] = stage],
         work' = work \/ \E w : work' = [work EXCEPT ![f] = w]
  PROVE  AnsweredInv'
<1>1. Sip \in Fibers /\ DOMAIN pc = Fibers /\ DOMAIN work = Fibers
  BY DEF Fibers, IInv, TypeOK
<1>2. f # Sip => pc'[Sip] = pc[Sip] /\ work'[Sip] = work[Sip]
  BY <1>1
<1> QED
  BY <1>2, DialogKept

LEMMA NextAnsweredInv == IInv /\ AnsweredInv /\ [Next]_vars => AnsweredInv'
<1> SUFFICES ASSUME IInv, AnsweredInv, [Next]_vars PROVE AnsweredInv'
  OBVIOUS
<1>0. /\ owner \in [Transports -> Fibers \cup {None}]
      /\ port \in [Transports -> RtpPorts \cup {None}]
      /\ pc \in [Fibers -> FiberStates]
      /\ work \in [Fibers -> Transports \cup {None}]
      /\ Sip \in Fibers
  BY DEF IInv, TypeOK, Fibers
<1>1. ASSUME NEW f \in Fibers, NEW c \in CallIds, NEW i \in Transports,
             NEW p \in RtpPorts, NEW k \in Codecs,
             AcceptInvite(f, c, i, p, k) \/ AbandonInvite(f, c, i, p, k)
      PROVE  AnsweredInv'
  <2>1. /\ NewTransport(f, c, i, p, k)
        /\ UNCHANGED <<calls, finalized, dialog, media>>
        /\ pc[f] = "idle"
        /\ \E stage : pc' = [pc EXCEPT ![f] = stage]
        /\ work' = work \/ \E w : work' = [work EXCEPT ![f] = w]
    BY <1>1 DEF AcceptInvite, AbandonInvite, MayInvite, Idle, Raise
  <2>2. Created' = Created \cup {i} /\ i \notin Created
    BY <2>1, NewTransportKeeps
  <2>3. \A j \in Created : owner'[j] = owner[j]
    BY <2>1, <2>2, <1>0 DEF NewTransport, Created
  <2> QED
    BY <2>1, <2>2, <2>3, FiberDialogKept DEF dialog
<1>2. ASSUME NEW f \in Fibers,
             \/ RefuseInvite(f) \/ SynthesisFails(f) \/ TrackCall(f)
             \/ TrackCallRaises(f) \/ ReplyRaises(f)
      PROVE  AnsweredInv'
  <2>1. /\ pc[f] # "queueing"
        /\ UNCHANGED <<answered, started, owner, port>>
        /\ work' = work \/ \E w : work' = [work EXCEPT ![f] = w]
    BY <1>2 DEF RefuseInvite, SynthesisFails, TrackCall, TrackCallRaises,
                ReplyRaises, Idle, Waits, setup, dialog
  <2>2. \E stage : pc' = [pc EXCEPT ![f] = stage]
    BY <1>2 DEF RefuseInvite, SynthesisFails, TrackCall, TrackCallRaises,
                ReplyRaises, Raise
  <2>3. Created' = Created
    BY <2>1 DEF Created
  <2> QED
    BY <2>1, <2>2, <2>3, FiberDialogKept
<1>3. ASSUME NEW f \in Fibers, FinishReply(f)
      PROVE  AnsweredInv'
  <2> DEFINE w == work[f]
  <2>1. /\ w \in Created /\ owner[w] = f /\ pc[f] = "replying"
        /\ answered' \subseteq answered \cup {w}
        /\ UNCHANGED <<started, owner, port>>
    BY <1>3 DEF FinishReply, Waits, setup, IInv, FibersOK, Busy
  <2>2. Created' = Created
    BY <2>1 DEF Created
  <2>3. CASE f = Sip
    <3>1. pc'[Sip] = "queueing" /\ work'[Sip] = w
      BY <1>0, <1>3, <2>3 DEF FinishReply
    <3> QED
      BY <2>1, <2>2, <2>3, <3>1 DEF AnsweredInv, AnsweredIsNext
  <2>4. CASE f # Sip
    <3>1. pc'[Sip] = pc[Sip] /\ work'[Sip] = work[Sip]
      BY <1>0, <1>3, <2>4 DEF FinishReply
    <3> QED
      BY <2>1, <2>2, <2>4, <3>1 DEF AnsweredInv, AnsweredIsNext
  <2> QED
    BY <2>3, <2>4
<1>4. ASSUME NEW f \in Fibers, StartCall(f)
      PROVE  AnsweredInv'
  <2>1. /\ started' = started \cup {work[f]}
        /\ UNCHANGED <<answered, owner, port>>
        /\ f # Sip => pc'[Sip] = pc[Sip] /\ work'[Sip] = work[Sip]
    BY <1>0, <1>4 DEF StartCall, setup
  <2>2. Created' = Created
    BY <2>1 DEF Created
  <2> QED
    BY <2>1, <2>2 DEF AnsweredInv, AnsweredIsNext
<1>5. ASSUME UNCHANGED <<answered, started, owner, port, pc, work>>
      PROVE  AnsweredInv'
  <2>1. Created' = Created
    BY <1>5 DEF Created
  <2> QED
    BY <1>5, <2>1, DialogKept
<1>6. ASSUME NEW f \in Fibers, NEW c \in CallIds, ExhaustPorts(f, c)
      PROVE  AnsweredInv'
  BY <1>5, <1>6 DEF ExhaustPorts, setup, dialog
<1>7. ASSUME NEW i \in Transports, Listen(i) \/ PeerGone(i)
      PROVE  AnsweredInv'
  BY <1>5, <1>7 DEF Listen, ListenStart, ListenPacket, ListenRunt, ListenErrno,
                    ListenTimeout, PeerGone, UnchangedButListener, setup, dialog
<1>8. ASSUME Request PROVE AnsweredInv'
  BY <1>5, <1>8 DEF Request, Bye, IgnoreInvite, ByeIgnored, OtherRequest, setup,
                    dialog, vars
<1>9. CASE UNCHANGED vars
  BY <1>5, <1>9 DEF vars
<1> QED
  BY <1>1, <1>2, <1>3, <1>4, <1>6, <1>7, <1>8, <1>9 DEF Next, Invite, SetUp

\* The safety half of AnsweredCallsStart: from the moment its 200 OK is sent, a SIP
\* call has been told to start or the SIP fiber stands before that very step, with
\* any number of WebSocket connections.  That the step is taken is the scheduler's
\* fairness.
THEOREM AnsweredCallNext == Spec => []AnsweredIsNext
<1>1. Init => AnsweredInv
  BY DEF Init, AnsweredInv, AnsweredIsNext
<1> QED
  BY <1>1, NextAnsweredInv, CallControlInvariant, PTL DEF Spec, AnsweredInv
-----------------------------------------------------------------------------
(* What is left to happen to a call whose caller has vanished *)

\* The listener of a SIP call whose caller has fallen silent for good still waits
\* for the packet whose timeout destroys the call, or the call has been destroyed.
SilentIsNoticed ==
  \A i \in gone :
    owner[i] = Sip => listener[i] = "receiving" \/ finalized[i] > 0

SilentInv == gone \subseteq Created /\ SilentIsNoticed

\* Steps that silence nobody, and leave to each call a listener that receives and a
\* teardown flag that is set.
LEMMA SilenceKept ==
  ASSUME SilentInv, UNCHANGED gone, Created \subseteq Created',
         \A i \in Created : owner'[i] = owner[i],
         \A i \in gone :
           \/ listener[i] = "receiving" => listener'[i] = "receiving"
           \/ owner[i] = Sip => finalized'[i] > 0,
         \A i \in gone : finalized[i] > 0 => finalized'[i] > 0
  PROVE  SilentInv'
  BY DEF SilentInv, SilentIsNoticed

LEMMA NextSilentInv == IInv /\ SilentInv /\ [Next]_vars => SilentInv'
<1> SUFFICES ASSUME IInv, SilentInv, [Next]_vars PROVE SilentInv'
  OBVIOUS
<1>0. /\ owner \in [Transports -> Fibers \cup {None}]
      /\ listener \in [Transports -> ListenerStates]
      /\ finalized \in [Transports -> 0..2]
      /\ gone \subseteq Transports
  BY DEF IInv, TypeOK
<1>1. ASSUME NEW f \in Fibers, NEW c \in CallIds, NEW i \in Transports,
             NEW p \in RtpPorts, NEW k \in Codecs,
             AcceptInvite(f, c, i, p, k) \/ AbandonInvite(f, c, i, p, k)
      PROVE  SilentInv'
  <2>1. /\ NewTransport(f, c, i, p, k)
        /\ UNCHANGED <<calls, finalized, dialog, media>>
    BY <1>1 DEF AcceptInvite, AbandonInvite
  <2>2. Created' = Created \cup {i} /\ i \notin Created
    BY <2>1, NewTransportKeeps
  <2>3. \A j \in Created : owner'[j] = owner[j]
    BY <2>1, <2>2, <1>0 DEF NewTransport, Created
  <2> QED
    BY <2>1, <2>2, <2>3, SilenceKept DEF media
<1>2. ASSUME UNCHANGED <<owner, port, finalized, listener, gone>>
      PROVE  SilentInv'
  <2>1. Created' = Created
    BY <1>2 DEF Created
  <2> QED
    BY <1>2, <2>1, SilenceKept
<1>3. ASSUME NEW f \in Fibers,
             \/ \E c \in CallIds : ExhaustPorts(f, c)
             \/ RefuseInvite(f) \/ SynthesisFails(f) \/ TrackCall(f)
             \/ TrackCallRaises(f) \/ ReplyRaises(f) \/ StartCall(f)
      PROVE  SilentInv'
  BY <1>2, <1>3 DEF ExhaustPorts, RefuseInvite, SynthesisFails, TrackCall,
                    TrackCallRaises, ReplyRaises, StartCall, setup, media
<1>4. ASSUME NEW f \in Fibers, FinishReply(f)
      PROVE  SilentInv'
  <2>1. /\ listener[work[f]] = "none"
        /\ listener' = [listener EXCEPT ![work[f]] = "ready"]
        /\ UNCHANGED <<owner, port, finalized, gone>>
    BY <1>4 DEF FinishReply, Waits, setup, IInv, FibersOK
  <2>2. Created' = Created
    BY <2>1 DEF Created
  <2>3. \A i \in gone : listener[i] = "receiving" => listener'[i] = "receiving"
    BY <1>0, <2>1
  <2> QED
    BY <2>1, <2>2, <2>3, SilenceKept
<1>5. ASSUME NEW i \in Transports, Destroy(i), UNCHANGED <<owner, port, gone>>,
             \/ UNCHANGED listener
             \/ listener' = [listener EXCEPT ![i] = "returned"]
      PROVE  SilentInv'
  <2>1. /\ finalized'[i] > 0
        /\ \A j \in Transports : j # i => finalized'[j] = finalized[j]
    BY <1>0, <1>5 DEF Destroy
  <2>2. \A j \in Transports : j # i => listener'[j] = listener[j]
    BY <1>0, <1>5
  <2>3. Created' = Created
    BY <1>5 DEF Created
  <2> QED
    BY <1>0, <1>5, <2>1, <2>2, <2>3, SilenceKept
<1>6. ASSUME NEW i \in Transports, NEW l, listener' = [listener EXCEPT ![i] = l],
             i \in gone => listener[i] # "receiving" \/ owner[i] # Sip,
             UNCHANGED <<owner, port, finalized, gone>>
      PROVE  SilentInv'
  <2>1. Created' = Created
    BY <1>6 DEF Created
  <2>2. \A j \in gone : j # i => listener'[j] = listener[j]
    BY <1>0, <1>6
  <2> QED
    BY <1>6, <2>1, <2>2, SilenceKept DEF SilentInv, SilentIsNoticed
<1>7. ASSUME NEW i \in Transports, Listen(i)
      PROVE  SilentInv'
  <2>1. CASE ListenTimeout(i)
    <3>1. CASE owner[i] = Sip
      BY <2>1, <3>1, <1>5 DEF ListenTimeout, setup
    <3>2. CASE owner[i] # Sip
      BY <2>1, <3>2, <1>6 DEF ListenTimeout, setup
    <3> QED
      BY <3>1, <3>2
  <2>2. CASE ListenStart(i)
    BY <2>2, <1>6 DEF ListenStart, UnchangedButListener, setup
  <2>3. CASE ListenPacket(i) \/ ListenRunt(i) \/ ListenErrno(i)
    <3>1. i \notin gone /\ UNCHANGED <<owner, port, finalized, gone>>
      BY <2>3 DEF ListenPacket, ListenRunt, ListenErrno, UnchangedButListener, setup
    <3>2. \E l : listener' = [listener EXCEPT ![i] = l]
      BY <2>3 DEF ListenPacket, ListenRunt, ListenErrno
    <3> QED
      BY <3>1, <3>2, <1>6
  <2> QED
    BY <1>7, <2>1, <2>2, <2>3 DEF Listen
<1>8. ASSUME NEW i \in Transports, PeerGone(i)
      PROVE  SilentInv'
  <2>1. /\ listener[i] = "receiving" /\ gone' = gone \cup {i}
        /\ UNCHANGED <<owner, port, finalized, listener>>
    BY <1>8 DEF PeerGone, Receiving, setup
  <2>2. Created' = Created /\ i \in Created
    BY <2>1 DEF Created, IInv, FreshOK
  <2> QED
    BY <2>1, <2>2 DEF SilentInv, SilentIsNoticed
<1>9. ASSUME Request PROVE SilentInv'
  <2>1. CASE \E c \in CallIds, i \in Transports : Bye(c, i)
    BY <2>1, <1>5 DEF Bye, setup, media
  <2>2. CASE UNCHANGED vars
    BY <2>2, <1>2 DEF vars
  <2> QED
    BY <1>9, <2>1, <2>2 DEF Request, IgnoreInvite, ByeIgnored, OtherRequest
<1>10. CASE UNCHANGED vars
  BY <1>10, <1>2 DEF vars
<1> QED
  BY <1>1, <1>3, <1>4, <1>7, <1>8, <1>9, <1>10 DEF Next, Invite, SetUp

\* The safety half of SilentCallsEnd: no step of any fiber takes the listener of a
\* vanished SIP caller away from the wait whose timeout destroys the call
\* (session.cr:78), unless the call has been destroyed.  That the timeout comes is
\* fairness.
THEOREM SilentCallNoticed == Spec => []SilentIsNoticed
<1>1. Init => SilentInv
  BY DEF Init, SilentInv, SilentIsNoticed
<1> QED
  BY <1>1, NextSilentInv, CallControlInvariant, PTL DEF Spec, SilentInv
=============================================================================
