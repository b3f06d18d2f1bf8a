-------------------------- MODULE DtlsSessionProofs --------------------------
(***************************************************************************)
(* The safety properties of DtlsSession, for every pair of initial states  *)
(* and any number of connections.                                          *)
(***************************************************************************)
EXTENDS DtlsSession, TLAPS

Objects == [role : Roles, at : Steps, own : 1..MaxConn, peer : Randoms]

Opposite(p) ==
  \/ state[p] = "ACT" /\ state[Other(p)] = "PASS"
  \/ state[p] = "PASS" /\ state[Other(p)] = "ACT"

\* The object accepts exactly if the state says so; a session that has not
\* settled has not begun; one that has finished has a peer of the other role.
RoleOK(p) ==
  /\ ssl[p].role = "accept" <=> state[p] = "PASS"
  /\ state[p] = "ACTPASS" => ssl[p].at = "idle"
  /\ Finished(ssl[p]) => Opposite(p)

\* Which flight it is tells the role its sender has taken for good.
SenderOK(m) ==
  state[Other(m.to)] = IF m.kind \in {"hello", "finish"} THEN "ACT" ELSE "PASS"

\* q has finished the connection of the random numbers c and v, or has started
\* over since.
Answered(q, c, v) ==
  /\ v <= ssl[q].own
  /\ v = ssl[q].own =>
       /\ Finished(ssl[q])
       /\ ssl[q].peer = c
       /\ type[q] = "EXISTING" \/ q \in shut

DoneOK(m) == m.kind = "done" => Answered(Other(m.to), m.client, m.server)

ClientOK(p) ==
  (Finished(ssl[p]) /\ ssl[p].role = "connect")
    => ssl[p].peer # 0 /\ Answered(Other(p), ssl[p].own, ssl[p].peer)

SessionInv ==
  /\ TypeOK
  /\ \A p \in Peers : RoleOK(p) /\ ClientOK(p)
  /\ \A m \in net : SenderOK(m) /\ DoneOK(m)

-----------------------------------------------------------------------------
(* The two ends *)

LEMMA TwoPeers ==
  ASSUME NEW p \in Peers
  PROVE  /\ Other(p) \in Peers
         /\ Other(p) # p
         /\ \A q \in Peers : q # p => q = Other(p)
<1>1. PICK a, b \in Peers : Peers = {a, b} /\ a # b
  BY PeersAssumption
<1>2. QED
  BY <1>1 DEF Other

-----------------------------------------------------------------------------
(* The SSL object *)

LEMMA FreshFacts ==
  ASSUME NEW role \in Roles, NEW own \in 1..MaxConn
  PROVE  /\ Fresh(role, own) \in Objects
         /\ Fresh(role, own).role = role
         /\ Fresh(role, own).own = own
         /\ Fresh(role, own).at = "idle"
<1>1. 0 \in Randoms
  BY ConnAssumption DEF Randoms
<1>2. QED
  BY <1>1 DEF Fresh, Objects, Steps

LEMMA BeginFacts ==
  ASSUME NEW s \in Objects
  PROVE  /\ Begin(s) \in Objects
         /\ Begin(s).role = s.role /\ Begin(s).own = s.own /\ Begin(s).peer = s.peer
         /\ s.role = "connect" => Begin(s).at # "idle"
         /\ s.at # "idle" \/ s.role = "accept" => Begin(s) = s
         /\ Finished(Begin(s)) => Begin(s) = s
  BY DEF Begin, Objects, Steps, Roles, Finished

LEMMA ReadFacts ==
  ASSUME NEW s \in Objects, NEW m \in Datagrams
  PROVE  /\ Read(s, m) \in Objects
         /\ Read(s, m).role = s.role /\ Read(s, m).own = s.own
         /\ s.at # "idle" => Read(s, m).at # "idle"
         /\ Finished(s) => Read(s, m) = s
         /\ (Finished(Read(s, m)) /\ ~Finished(s)) =>
              /\ Read(s, m).peer = s.peer
              /\ s.role = "accept" => m.kind = "finish"
              /\ s.role = "connect" =>
                   /\ m.kind = "done" /\ m.client = s.own /\ m.server = s.peer
                   /\ s.peer # 0
<1>1. CASE s.role = "accept"
  BY <1>1 DEF Read, Objects, Datagrams, Steps, Roles, Kinds, Finished
<1>2. CASE s.role # "accept"
  BY <1>2 DEF Read, Objects, Datagrams, Steps, Roles, Kinds, Finished
<1>3. QED
  BY <1>1, <1>2

LEMMA FlightFacts ==
  ASSUME NEW p \in Peers, NEW s \in Objects, NEW m \in Flight(p, s)
  PROVE  /\ m \in Datagrams
         /\ m.to = Other(p)
         /\ s.at # "idle"
         /\ s.role = "connect" => m.kind \in {"hello", "finish"}
         /\ s.role = "accept" => m.kind \in {"offer", "done"}
         /\ m.kind = "done" =>
              /\ s.role = "accept" /\ Finished(s)
              /\ m.client = s.peer /\ m.server = s.own
<1>1. s.own \in Randoms /\ s.peer \in Randoms /\ 0 \in Randoms
  BY ConnAssumption DEF Objects, Randoms
<1>2. Other(p) \in Peers
  BY TwoPeers
<1>3. QED
  BY <1>1, <1>2 DEF Flight, Objects, Datagrams, Steps, Roles, Kinds, Finished

-----------------------------------------------------------------------------
(* The invariant *)

LEMMA SessionInitInv == Init => SessionInv
<1> SUFFICES ASSUME Init PROVE SessionInv
  OBVIOUS
<1>1. state \in [Peers -> ConStates]
  BY StatesAssumption DEF Init
<1>2. \A p \in Peers : ssl[p] = dtls_sess_new(state[p])
  BY DEF Init
<1>3. \A p \in Peers : ssl[p] \in Objects /\ ssl[p].at = "idle"
                          /\ (ssl[p].role = "accept" <=> state[p] = "PASS")
  <2> SUFFICES ASSUME NEW p \in Peers
               PROVE  ssl[p] \in Objects /\ ssl[p].at = "idle"
                        /\ (ssl[p].role = "accept" <=> state[p] = "PASS")
    OBVIOUS
  <2>1. 1 \in 1..MaxConn
    BY ConnAssumption
  <2>2. CASE state[p] = "PASS"
    BY <1>2, <2>1, <2>2, FreshFacts DEF dtls_sess_new, Roles
  <2>3. CASE state[p] # "PASS"
    BY <1>2, <2>1, <2>3, FreshFacts DEF dtls_sess_new, Roles
  <2>4. QED
    BY <2>2, <2>3
<1>4. ssl \in [Peers -> Objects]
  <2>1. ssl = [p \in Peers |-> ssl[p]]
    BY DEF Init
  <2>2. QED
    BY <1>3, <2>1
<1>5. TypeOK
  BY <1>1, <1>4 DEF Init, TypeOK, Objects
<1>6. QED
  BY <1>3, <1>5 DEF Init, SessionInv, RoleOK, ClientOK, Finished

\* A step in which p keeps its connection: its new state st, type ty and object t,
\* and the datagrams it may have sent.
Keeps(p, st, ty, t, sent) ==
  /\ st \in ConStates /\ ty \in {"NEW", "EXISTING"} /\ t \in Objects
  /\ state' = [state EXCEPT ![p] = st]
  /\ type' = [type EXCEPT ![p] = ty]
  /\ ssl' = [ssl EXCEPT ![p] = t]
  /\ net' \subseteq net \cup sent
  /\ UNCHANGED shut
  /\ state[p] # "ACTPASS" => st = state[p]
  /\ st = "ACTPASS" => t.at = "idle"
  /\ t.role = "accept" <=> st = "PASS"
  /\ t.own = ssl[p].own
  /\ Finished(ssl[p]) => t = ssl[p]
  /\ ty = "EXISTING" => Finished(t)
  /\ type[p] = "EXISTING" => ty = "EXISTING"

\* When p finishes it reports the connection; its peer has the other role and,
\* if that accepts, has finished before.
Finishes(p, st, ty, t) ==
  (Finished(t) /\ ~Finished(ssl[p])) =>
    /\ ty = "EXISTING"
    /\ \/ st = "ACT" /\ state[Other(p)] = "PASS"
       \/ st = "PASS" /\ state[Other(p)] = "ACT"
    /\ t.role = "connect" => t.peer # 0 /\ Answered(Other(p), t.own, t.peer)

\* A datagram that p sends.
Sends(p, st, ty, t, n) ==
  /\ n \in Datagrams
  /\ n.to = Other(p)
  /\ st = IF n.kind \in {"hello", "finish"} THEN "ACT" ELSE "PASS"
  /\ n.kind = "done" =>
       Finished(t) /\ n.client = t.peer /\ n.server = t.own /\ ty = "EXISTING"

\* Everything but dtls_sess_setup and dtls_sess_reset.
KeepsConnection(p) ==
  \E st, ty, t, sent :
    /\ Keeps(p, st, ty, t, sent)
    /\ Finishes(p, st, ty, t)
    /\ \A n \in sent : Sends(p, st, ty, t, n)

LEMMA SameConnection ==
  ASSUME SessionInv, NEW p \in Peers, KeepsConnection(p)
  PROVE  SessionInv'
<1>0. PICK st, ty, t, sent : /\ Keeps(p, st, ty, t, sent)
                            /\ Finishes(p, st, ty, t)
                            /\ \A n \in sent : Sends(p, st, ty, t, n)
  BY DEF KeepsConnection
<1> USE <1>0 DEF Keeps
<1> DEFINE q == Other(p)
<1>1. q \in Peers /\ q # p /\ Other(q) = p /\ \A r \in Peers : r = p \/ r = q
  BY TwoPeers
<1>2. /\ state'[p] = st /\ state'[q] = state[q]
      /\ type'[p] = ty /\ type'[q] = type[q]
      /\ ssl'[p] = t /\ ssl'[q] = ssl[q]
  BY <1>1 DEF SessionInv, TypeOK
<1>3. ssl[p] \in Objects /\ ssl[q] \in Objects /\ t.own \in Int
  BY <1>1 DEF SessionInv, TypeOK, Objects
<1>4. TypeOK'
  <2>1. state' \in [Peers -> ConStates] /\ type' \in [Peers -> {"NEW", "EXISTING"}]
    BY DEF SessionInv, TypeOK
  <2>2. ssl' \in [Peers -> Objects]
    BY DEF SessionInv, TypeOK, Objects
  <2>3. net' \subseteq Datagrams /\ shut' \subseteq Peers
    BY DEF SessionInv, TypeOK, Sends
  <2>4. \A r \in Peers : type'[r] = "EXISTING" => Finished(ssl'[r])
    BY <1>1, <1>2 DEF SessionInv, TypeOK
  <2>5. QED
    BY <2>1, <2>2, <2>3, <2>4 DEF TypeOK, Objects, Finished
<1>5. ASSUME NEW c, NEW v, Answered(q, c, v)  PROVE Answered(q, c, v)'
  BY <1>2, <1>5 DEF Answered, Finished
<1>6. ASSUME NEW c, NEW v, Answered(p, c, v)  PROVE Answered(p, c, v)'
  BY <1>2, <1>6 DEF Answered, Finished
<1>7. RoleOK(p)' /\ ClientOK(p)'
  <2>1. CASE Finished(ssl[p])
    BY <2>1, <1>1, <1>2, <1>3, <1>5
       DEF SessionInv, RoleOK, ClientOK, Opposite, Finished, Objects, Roles
  <2>2. CASE ~Finished(ssl[p])
    BY <2>2, <1>1, <1>2, <1>3, <1>5
       DEF Finishes, RoleOK, ClientOK, Opposite, Finished
  <2>3. QED
    BY <2>1, <2>2
<1>8. RoleOK(q)' /\ ClientOK(q)'
  BY <1>1, <1>2, <1>6 DEF SessionInv, RoleOK, ClientOK, Opposite, Finished
<1>9. ASSUME NEW n \in net'  PROVE SenderOK(n)' /\ DoneOK(n)'
  <2>1. CASE n \in net
    <3>1. n.to \in Peers
      BY <2>1 DEF SessionInv, TypeOK, Datagrams
    <3>2. Other(n.to) = p \/ Other(n.to) = q
      BY <3>1, <1>1
    <3>3. SenderOK(n) /\ DoneOK(n)
      BY <2>1 DEF SessionInv
    <3>4. SenderOK(n)'
      BY <3>2, <3>3, <1>2 DEF SenderOK
    <3>5. DoneOK(n)'
      BY <3>2, <3>3, <1>5, <1>6 DEF DoneOK
    <3>6. QED
      BY <3>4, <3>5
  <2>2. CASE n \in sent
    BY <2>2, <1>1, <1>2, <1>3 DEF Sends, SenderOK, DoneOK, Answered, Finished
  <2>3. QED
    BY <2>1, <2>2
<1>10. QED
  BY <1>1, <1>4, <1>7, <1>8, <1>9 DEF SessionInv

\* A datagram is read: dtls_sess_put_packet.
LEMMA PutKeeps ==
  ASSUME SessionInv, NEW p \in Peers, NEW m \in net, Deliver(p, m)
  PROVE  KeepsConnection(p)
<1> DEFINE a == Accepting(p)
           s == Begin(a)
           t == Read(s, m)
           st == IF state[p] = "ACTPASS" THEN "PASS" ELSE state[p]
           ty == IF Finished(t) THEN "EXISTING" ELSE type[p]
           sent == IF t.at = "failed" THEN {}
                   ELSE Answer(p, s, t, m) \cup (IF s # a THEN Flight(p, s) ELSE {})
<1>1. /\ state' = [state EXCEPT ![p] = st]
      /\ type' = [type EXCEPT ![p] = ty]
      /\ ssl' = [ssl EXCEPT ![p] = t]
      /\ net' \subseteq net \cup sent
      /\ UNCHANGED shut
      /\ m.to = p
  BY DEF Deliver, dtls_sess_put_packet
<1>2. /\ state[p] \in ConStates /\ type[p] \in {"NEW", "EXISTING"}
      /\ ssl[p] \in Objects /\ m \in Datagrams
      /\ type[p] = "EXISTING" => Finished(ssl[p])
      /\ RoleOK(p)
  BY DEF SessionInv, TypeOK, Objects
<1>3. /\ a \in Objects
      /\ a.own = ssl[p].own
      /\ a.role = "accept" <=> st = "PASS"
      /\ Finished(a) => Finished(ssl[p])
      /\ Finished(ssl[p]) => a = ssl[p]
  <2>1. CASE state[p] = "ACTPASS"
    <3>1. ssl[p].own \in 1..MaxConn
      BY <1>2 DEF Objects
    <3>2. QED
      BY <2>1, <3>1, <1>2, FreshFacts DEF Accepting, Roles, RoleOK, Finished
  <2>2. CASE state[p] # "ACTPASS"
    BY <2>2, <1>2 DEF Accepting, RoleOK
  <2>3. QED
    BY <2>1, <2>2
<1>4. st \in {"ACT", "PASS"}
  BY <1>2 DEF ConStates
<1>5. /\ s \in Objects /\ s.role = a.role /\ s.own = a.own
      /\ Finished(a) => s = a
      /\ Finished(s) => s = a
  BY <1>3, BeginFacts DEF Finished
<1>6. /\ t \in Objects /\ t.role = a.role /\ t.own = a.own
      /\ Finished(s) => t = s
  BY <1>2, <1>5, ReadFacts
<1>7. Finished(ssl[p]) => t = ssl[p]
  BY <1>3, <1>5, <1>6
<1>8. Finishes(p, st, ty, t)
  <2> SUFFICES ASSUME Finished(t), ~Finished(ssl[p])
               PROVE  /\ \/ st = "ACT" /\ state[Other(p)] = "PASS"
                         \/ st = "PASS" /\ state[Other(p)] = "ACT"
                      /\ t.role = "connect" =>
                           t.peer # 0 /\ Answered(Other(p), t.own, t.peer)
    BY DEF Finishes
  <2>1. ~Finished(s)
    BY <1>3, <1>5
  <2>2. /\ t.peer = s.peer
        /\ s.role = "accept" => m.kind = "finish"
        /\ s.role = "connect" =>
             /\ m.kind = "done" /\ m.client = s.own /\ m.server = s.peer
             /\ s.peer # 0
    BY <2>1, <1>2, <1>5, ReadFacts
  <2>3. SenderOK(m) /\ DoneOK(m)
    BY DEF SessionInv
  <2>4. s.role \in {"accept", "connect"}
    BY <1>5 DEF Objects, Roles
  <2>5. QED
    BY <2>2, <2>3, <2>4, <1>1, <1>3, <1>4, <1>5, <1>6 DEF SenderOK, DoneOK
<1>9. ASSUME NEW n \in sent PROVE Sends(p, st, ty, t, n)
  <2>1. n \in Flight(p, t) \/ n \in Flight(p, s)
    BY <1>9 DEF Answer
  <2>2. t.role \in {"accept", "connect"}
    BY <1>6 DEF Objects, Roles
  <2>3. CASE n \in Flight(p, t)
    BY <2>3, <2>2, <1>3, <1>4, <1>6, FlightFacts DEF Sends
  <2>4. CASE n \in Flight(p, s)
    BY <2>4, <2>2, <1>3, <1>4, <1>5, <1>6, FlightFacts DEF Sends
  <2>5. QED
    BY <2>1, <2>3, <2>4
<1>10. Keeps(p, st, ty, t, sent)
  <2>1. st \in ConStates /\ ty \in {"NEW", "EXISTING"}
    BY <1>2, <1>4 DEF ConStates
  <2>2. /\ state[p] # "ACTPASS" => st = state[p]
        /\ st # "ACTPASS"
        /\ ty = "EXISTING" => Finished(t)
        /\ type[p] = "EXISTING" => ty = "EXISTING"
    BY <1>2, <1>4, <1>7
  <2>3. (t.role = "accept" <=> st = "PASS") /\ t.own = ssl[p].own
    BY <1>3, <1>6
  <2> HIDE DEF a, s, t, st, ty, sent
  <2>4. QED
    BY <1>1, <1>6, <1>7, <2>1, <2>2, <2>3 DEF Keeps
<1> HIDE DEF a, s, t, st, ty, sent
<1>11. QED
  BY <1>8, <1>9, <1>10 DEF KeepsConnection

\* The application starts the handshake.
LEMMA HandshakeKeeps ==
  ASSUME SessionInv, NEW p \in Peers, dtls_do_handshake(p)
  PROVE  KeepsConnection(p)
<1> DEFINE t == Begin(ssl[p])
           sent == IF t # ssl[p] THEN Flight(p, t) ELSE {}
<1>1. /\ state[p] \in {"ACT", "ACTPASS"} /\ type[p] \in {"NEW", "EXISTING"}
      /\ ssl[p] \in Objects
      /\ type[p] = "EXISTING" => Finished(ssl[p])
      /\ RoleOK(p)
  BY DEF SessionInv, TypeOK, Objects, dtls_do_handshake
<1>2. /\ t \in Objects /\ t.role = ssl[p].role /\ t.own = ssl[p].own
      /\ Finished(ssl[p]) => t = ssl[p]
      /\ Finished(t) => t = ssl[p]
  BY <1>1, BeginFacts DEF Finished
<1>3. Keeps(p, "ACT", type[p], t, sent)
  <2>1. state' = [state EXCEPT ![p] = "ACT"] /\ UNCHANGED <<type, shut>>
    BY DEF dtls_do_handshake
  <2>2. ssl' = [ssl EXCEPT ![p] = t] /\ ssl'[p] = t
    BY DEF dtls_do_handshake, SessionInv, TypeOK
  <2>3. net' = net \cup sent
    BY <2>2 DEF dtls_do_handshake
  <2>4. type' = [type EXCEPT ![p] = type[p]]
    BY <2>1 DEF SessionInv, TypeOK
  <2> HIDE DEF t, sent
  <2>5. QED
    BY <1>1, <1>2, <2>1, <2>2, <2>3, <2>4 DEF Keeps, RoleOK, ConStates
<1>4. Finishes(p, "ACT", type[p], t)
  BY <1>2 DEF Finishes
<1>5. ASSUME NEW n \in sent PROVE Sends(p, "ACT", type[p], t, n)
  <2>1. n \in Flight(p, t) /\ t.role = "connect"
    BY <1>1, <1>2, <1>5 DEF RoleOK, Objects, Roles
  <2>2. QED
    BY <2>1, <1>2, FlightFacts DEF Sends
<1> HIDE DEF t, sent
<1>6. QED
  BY <1>3, <1>4, <1>5 DEF KeepsConnection

\* The timer fires, or the network loses a datagram: p's object stays.
LEMMA StillKeeps ==
  ASSUME SessionInv, NEW p \in Peers, UNCHANGED <<state, type, ssl, shut>>,
         net' \subseteq net \/ dtls_sess_handle_timeout(p)
  PROVE  KeepsConnection(p)
<1> DEFINE sent == IF Finished(ssl[p]) THEN {} ELSE Flight(p, ssl[p])
<1>1. Keeps(p, state[p], type[p], ssl[p], sent)
  BY DEF Keeps, SessionInv, TypeOK, RoleOK, Objects, dtls_sess_handle_timeout
<1>2. Finishes(p, state[p], type[p], ssl[p])
  BY DEF Finishes
<1>3. ASSUME NEW n \in sent PROVE Sends(p, state[p], type[p], ssl[p], n)
  <2>1. ssl[p] \in Objects /\ state[p] \in ConStates /\ RoleOK(p)
    BY DEF SessionInv, TypeOK, Objects
  <2>2. n \in Flight(p, ssl[p]) /\ ~Finished(ssl[p])
    BY <1>3
  <2>3. QED
    BY <2>1, <2>2, FlightFacts DEF Sends, RoleOK, ConStates, Objects, Roles
<1> HIDE DEF sent
<1>4. QED
  BY <1>1, <1>2, <1>3 DEF KeepsConnection

\* A step in which a finished p starts over or is shut down: the states and the
\* datagrams stay, and what others know of p's connections stays true.
LEMMA RestartInv ==
  ASSUME SessionInv, NEW p \in Peers, Finished(ssl[p]),
         UNCHANGED <<state, net>>,
         type' = [type EXCEPT ![p] = "NEW"],
         ssl' \in [Peers -> Objects],
         shut' \subseteq Peers,
         shut' \cup {p} = shut \cup {p},
         \A q \in Peers : q # p => ssl'[q] = ssl[q],
         ssl'[p].role = ssl[p].role,
         \/ ssl'[p] = ssl[p] /\ p \in shut'
         \/ ssl'[p].at = "idle" /\ ssl'[p].own = ssl[p].own + 1
  PROVE  SessionInv'
<1> DEFINE q == Other(p)
<1>1. q \in Peers /\ q # p /\ Other(q) = p /\ \A r \in Peers : r = p \/ r = q
  BY TwoPeers
<1>2. /\ type'[p] = "NEW" /\ type'[q] = type[q] /\ ssl'[q] = ssl[q]
      /\ state' = state /\ net' = net
      /\ q \in shut' <=> q \in shut
  BY <1>1 DEF SessionInv, TypeOK
<1>3. ssl[p].own \in Int /\ ssl'[p].own \in Int
  BY DEF SessionInv, TypeOK, Objects
<1>4. TypeOK'
  <2>1. type' \in [Peers -> {"NEW", "EXISTING"}]
    BY DEF SessionInv, TypeOK
  <2>2. \A r \in Peers : type'[r] = "EXISTING" => Finished(ssl'[r])
    BY <1>1, <1>2 DEF SessionInv, TypeOK
  <2>3. QED
    BY <2>1, <2>2, <1>2 DEF SessionInv, TypeOK, Objects, Finished
<1>5. ASSUME NEW c, NEW v, Answered(q, c, v)  PROVE Answered(q, c, v)'
  BY <1>2, <1>5 DEF Answered, Finished
<1>6. ASSUME NEW c, NEW v \in Int, Answered(p, c, v)  PROVE Answered(p, c, v)'
  BY <1>2, <1>3, <1>6 DEF Answered, Finished
<1>7. RoleOK(p)' /\ ClientOK(p)'
  <2>1. RoleOK(p) /\ ClientOK(p)
    BY DEF SessionInv
  <2>2. CASE ssl'[p] = ssl[p]
    BY <2>1, <2>2, <1>2, <1>5 DEF RoleOK, ClientOK, Opposite, Finished
  <2>3. CASE ssl'[p].at = "idle"
    BY <2>1, <2>3, <1>2 DEF RoleOK, ClientOK, Finished
  <2>4. QED
    BY <2>2, <2>3
<1>8. RoleOK(q)' /\ ClientOK(q)'
  <2>1. RoleOK(q) /\ ClientOK(q) /\ ssl[q].peer \in Int
    BY <1>1 DEF SessionInv, TypeOK, Randoms
  <2>2. QED
    BY <2>1, <1>1, <1>2, <1>6 DEF RoleOK, ClientOK, Opposite, Finished
<1>9. ASSUME NEW n \in net'  PROVE SenderOK(n)' /\ DoneOK(n)'
  <2>1. n.to \in Peers /\ n.server \in Int /\ SenderOK(n) /\ DoneOK(n)
    BY <1>2, <1>9 DEF SessionInv, TypeOK, Datagrams, Randoms
  <2>2. Other(n.to) = p \/ Other(n.to) = q
    BY <2>1, <1>1
  <2>3. QED
    BY <2>1, <2>2, <1>2, <1>5, <1>6 DEF SenderOK, DoneOK
<1>10. QED
  BY <1>1, <1>4, <1>7, <1>8, <1>9 DEF SessionInv

LEMMA SetupInv ==
  ASSUME SessionInv, NEW p \in Peers, dtls_sess_setup(p)
  PROVE  SessionInv'
<1> DEFINE role == IF state[p] = "PASS" THEN "accept" ELSE "connect"
           own == ssl[p].own + 1
<1>1. ssl \in [Peers -> Objects] /\ RoleOK(p)
  BY DEF SessionInv, TypeOK, Objects
<1>2. own \in 1..MaxConn /\ ssl[p].role = role /\ role \in Roles
  BY <1>1, ConnAssumption DEF dtls_sess_setup, RoleOK, Objects, Roles
<1>3. ssl' = [ssl EXCEPT ![p] = Fresh(role, own)]
  BY DEF dtls_sess_setup
<1> HIDE DEF role
<1>4. /\ Fresh(role, own) \in Objects
      /\ Fresh(role, own).role = ssl[p].role
      /\ Fresh(role, own).own = ssl[p].own + 1
      /\ Fresh(role, own).at = "idle"
  BY <1>2, FreshFacts
<1>5. /\ ssl' \in [Peers -> Objects]
      /\ \A q \in Peers : q # p => ssl'[q] = ssl[q]
      /\ ssl'[p] = Fresh(role, own)
  BY <1>1, <1>3, <1>4
<1>6. /\ Finished(ssl[p])
      /\ UNCHANGED <<state, net>>
      /\ type' = [type EXCEPT ![p] = "NEW"]
      /\ shut' \subseteq Peers
      /\ shut' \cup {p} = shut \cup {p}
  BY DEF dtls_sess_setup, SessionInv, TypeOK
<1>7. QED
  BY <1>4, <1>5, <1>6, RestartInv

LEMMA ResetInv ==
  ASSUME SessionInv, NEW p \in Peers, dtls_sess_reset(p)
  PROVE  SessionInv'
<1>1. /\ Finished(ssl[p])
      /\ UNCHANGED <<state, net>>
      /\ type' = [type EXCEPT ![p] = "NEW"]
      /\ ssl' = ssl /\ ssl' \in [Peers -> Objects]
      /\ shut' \subseteq Peers /\ p \in shut'
      /\ shut' \cup {p} = shut \cup {p}
  BY DEF dtls_sess_reset, SessionInv, TypeOK, Objects
<1>2. QED
  BY <1>1, RestartInv

LEMMA SessionStepInv == SessionInv /\ [Next]_vars => SessionInv'
<1> SUFFICES ASSUME SessionInv, [Next]_vars PROVE SessionInv'
  OBVIOUS
<1>1. ASSUME NEW p \in Peers, dtls_do_handshake(p) PROVE SessionInv'
  BY <1>1, HandshakeKeeps, SameConnection
<1>2. ASSUME NEW p \in Peers, dtls_sess_handle_timeout(p) PROVE SessionInv'
  BY <1>2, StillKeeps, SameConnection DEF dtls_sess_handle_timeout
<1>3. ASSUME NEW p \in Peers, dtls_sess_setup(p) PROVE SessionInv'
  BY <1>3, SetupInv
<1>4. ASSUME NEW p \in Peers, dtls_sess_reset(p) PROVE SessionInv'
  BY <1>4, ResetInv
<1>5. ASSUME NEW p \in Peers, NEW m \in net, Deliver(p, m) PROVE SessionInv'
  BY <1>5, PutKeeps, SameConnection
<1>6. ASSUME NEW m \in net, Lose(m) PROVE SessionInv'
  <2>1. m.to \in Peers
    BY DEF SessionInv, TypeOK, Datagrams
  <2>2. UNCHANGED <<state, type, ssl, shut>> /\ net' \subseteq net
    BY <1>6 DEF Lose
  <2>3. QED
    BY <2>1, <2>2, StillKeeps, SameConnection
<1>7. CASE UNCHANGED vars
  <2>1. PICK p : p \in Peers
    BY PeersAssumption
  <2>2. UNCHANGED <<state, type, ssl, shut>> /\ net' \subseteq net
    BY <1>7 DEF vars
  <2>3. QED
    BY <2>1, <2>2, StillKeeps, SameConnection
<1>8. QED
  BY <1>1, <1>2, <1>3, <1>4, <1>5, <1>6, <1>7 DEF Next

LEMMA SessionInvariance == Spec => []SessionInv
  BY SessionInitInv, SessionStepInv, PTL DEF Spec

-----------------------------------------------------------------------------
(* The properties *)

\* A session is reported as existing only while its handshake is finished, so
\* that srtp_get_key_material has keys to export, through every reset and
\* restart.
THEOREM ExistingIsFinished == Spec => []TypeOK
<1>1. SessionInv => TypeOK
  BY DEF SessionInv
<1>2. QED
  BY <1>1, SessionInvariance, PTL

\* An end that reports a connection has settled on one role and its peer on the
\* other.
LEMMA SessionOpposite == SessionInv => RolesOpposite
<1> SUFFICES ASSUME SessionInv, NEW p \in Peers, NEW q \in Peers,
                    p # q, type[p] = "EXISTING"
             PROVE  {state[p], state[q]} = {"ACT", "PASS"}
  BY DEF RolesOpposite
<1>1. q = Other(p)
  BY TwoPeers
<1>2. Opposite(p)
  BY DEF SessionInv, TypeOK, RoleOK
<1>3. QED
  BY <1>1, <1>2 DEF Opposite

\* Whichever of the two calls dtls_do_handshake or is called first, no end ever
\* reports a connection in the role its peer has, or before both have settled.
THEOREM NeverSameRole == Spec => []RolesOpposite
  BY SessionInvariance, SessionOpposite, PTL

\* Two ends that report the same connection never disagree about whose key is
\* whose: what one encrypts with, srtp_key_material_extract gives the other to
\* decrypt with.
THEOREM KeysMatch == Spec => []KeysComplementary
<1>1. SessionInv => KeysComplementary
  <2> SUFFICES ASSUME SessionInv, NEW p \in Peers, NEW q \in Peers,
                      p # q, type[p] = "EXISTING", Key(p) = Key(q)
               PROVE  localkey(p) = remotekey(q) /\ remotekey(p) = localkey(q)
    BY DEF KeysComplementary
  <2>1. {state[p], state[q]} = {"ACT", "PASS"}
    BY SessionOpposite DEF RolesOpposite
  <2>2. QED
    BY <2>1 DEF localkey, remotekey
<1>2. QED
  BY <1>1, SessionInvariance, PTL

\* The connecting end never reports a connection the accepting end has not
\* finished, whatever the network loses, repeats or reorders and however often
\* either end is reset or starts over.
THEOREM ClientIsLast == Spec => []ClientFinishesLast
<1>1. SessionInv => ClientFinishesLast
  <2> SUFFICES ASSUME SessionInv, NEW p \in Peers, NEW q \in Peers,
                      p # q, type[p] = "EXISTING", ssl[p].role = "connect",
                      ssl[q].own = ssl[p].peer
               PROVE  Key(q) = Key(p) /\ (type[q] = "EXISTING" \/ q \in shut)
    BY DEF ClientFinishesLast
  <2>1. q = Other(p)
    BY TwoPeers
  <2>2. Finished(ssl[p]) /\ RoleOK(p) /\ RoleOK(q) /\ ClientOK(p)
    BY DEF SessionInv, TypeOK
  <2>3. ssl[q].peer = ssl[p].own /\ (type[q] = "EXISTING" \/ q \in shut)
    BY <2>1, <2>2 DEF ClientOK, Answered
  <2>4. ssl[q].role = "accept"
    BY <2>1, <2>2 DEF RoleOK, Opposite
  <2>5. QED
    BY <2>3, <2>4 DEF Key
<1>2. QED
  BY <1>1, SessionInvariance, PTL

-----------------------------------------------------------------------------
(* Ends that can connect: the premise of BothEstablish *)

Compatible == \E p \in Peers : state[p] = "PASS" /\ state[Other(p)] # "PASS"

NoneFailed == \A p \in Peers : ssl[p].at # "failed"

\* As long as an end has not settled, the other one, which accepts, has nothing to
\* answer and has sent nothing.
Untouched(p) ==
  state[p] = "ACTPASS" =>
    /\ ssl[Other(p)].at = "idle"
    /\ \A m \in net : m.to # p

CompatibleInv ==
  /\ SessionInv
  /\ Compatible
  /\ NoneFailed
  /\ \A p \in Peers : Untouched(p)

\* Of two compatible ends one accepts for good, and the other does not accept.
LEMMA CompatiblePair ==
  ASSUME CompatibleInv, NEW p \in Peers
  PROVE  LET q == Other(p) IN
         /\ q \in Peers /\ q # p /\ Other(q) = p /\ \A r \in Peers : r = p \/ r = q
         /\ state[p] # "PASS" <=> state[q] = "PASS"
<1>1. LET q == Other(p) IN
      q \in Peers /\ q # p /\ Other(q) = p /\ \A r \in Peers : r = p \/ r = q
  BY TwoPeers
<1> QED
  BY <1>1 DEF CompatibleInv, Compatible

\* What comes to a settled end comes from a settled end.
LEMMA SettledPair ==
  ASSUME CompatibleInv, NEW m \in net
  PROVE  /\ m.to \in Peers
         /\ state[m.to] \in {"ACT", "PASS"} /\ state[Other(m.to)] \in {"ACT", "PASS"}
         /\ state[m.to] # "PASS" => m.kind \notin {"hello", "finish"}
<1>1. /\ m.to \in Peers /\ SenderOK(m) /\ Untouched(m.to)
      /\ state[m.to] \in ConStates
  BY DEF CompatibleInv, SessionInv, TypeOK, Datagrams
<1>2. state[m.to] # "PASS" <=> state[Other(m.to)] = "PASS"
  BY <1>1, CompatiblePair
<1> QED
  BY <1>1, <1>2 DEF SenderOK, Untouched, ConStates

LEMMA DeliverCompatible ==
  ASSUME CompatibleInv, NEW p \in Peers, NEW m \in net, Deliver(p, m)
  PROVE  CompatibleInv'
<1> DEFINE q == Other(p)
           s == Begin(ssl[p])
           t == Read(s, m)
<1>1. /\ q \in Peers /\ q # p /\ Other(q) = p /\ \A r \in Peers : r = p \/ r = q
      /\ state[p] # "PASS" <=> state[q] = "PASS"
  BY CompatiblePair
<1>2. /\ m.to = p /\ state[p] \in {"ACT", "PASS"} /\ state[q] \in {"ACT", "PASS"}
      /\ state[p] # "PASS" => m.kind \notin {"hello", "finish"}
  BY SettledPair DEF Deliver
<1>3. SessionInv'
  BY PutKeeps, SameConnection DEF CompatibleInv
<1>4. /\ ssl[p] \in Objects /\ RoleOK(p) /\ ssl[p].at # "failed" /\ m \in Datagrams
  BY DEF CompatibleInv, SessionInv, TypeOK, Objects, NoneFailed
<1>5. state' = state /\ ssl' = [ssl EXCEPT ![p] = t]
  <2>1. Accepting(p) = ssl[p]
    BY <1>2 DEF Accepting
  <2> QED
    BY <1>2, <2>1 DEF Deliver, dtls_sess_put_packet, CompatibleInv, SessionInv, TypeOK
<1>6. s \in Objects /\ s.role = ssl[p].role /\ s.at # "failed"
  <2>1. s \in Objects /\ s.role = ssl[p].role
    BY <1>4, BeginFacts
  <2>2. s.at # "failed"
    BY <1>4 DEF Begin, Objects
  <2> QED
    BY <2>1, <2>2
<1>7. t.at # "failed"
  <2>1. s.role = "accept" \/ m.kind \notin {"hello", "finish"}
    BY <1>2, <1>4, <1>6 DEF RoleOK
  <2> HIDE DEF s
  <2>2. QED
    BY <2>1, <1>6 DEF Read, Objects
<1> HIDE DEF s, t
<1>8. NoneFailed'
  BY <1>5, <1>7 DEF CompatibleInv, NoneFailed, SessionInv, TypeOK
<1>9. Compatible' /\ \A r \in Peers : Untouched(r)'
  BY <1>1, <1>2, <1>5 DEF Compatible, CompatibleInv, Untouched
<1> QED
  BY <1>3, <1>8, <1>9 DEF CompatibleInv

LEMMA HandshakeCompatible ==
  ASSUME CompatibleInv, NEW p \in Peers, dtls_do_handshake(p)
  PROVE  CompatibleInv'
<1> DEFINE q == Other(p)
<1>1. /\ q \in Peers /\ q # p /\ Other(q) = p /\ \A r \in Peers : r = p \/ r = q
      /\ state[p] # "PASS" <=> state[q] = "PASS"
  BY CompatiblePair
<1>2. SessionInv'
  BY HandshakeKeeps, SameConnection DEF CompatibleInv
<1>3. state'[p] = "ACT" /\ state'[q] = "PASS"
  BY <1>1 DEF dtls_do_handshake, CompatibleInv, SessionInv, TypeOK
<1>4. ssl[p] \in Objects /\ ssl[p].at # "failed"
  BY DEF CompatibleInv, SessionInv, TypeOK, Objects, NoneFailed
<1>5. Begin(ssl[p]).at # "failed"
  BY <1>4 DEF Begin, Objects
<1>6. NoneFailed'
  BY <1>5 DEF dtls_do_handshake, CompatibleInv, NoneFailed, SessionInv, TypeOK
<1>7. Compatible' /\ \A r \in Peers : Untouched(r)'
  BY <1>1, <1>3 DEF Compatible, Untouched
<1> QED
  BY <1>2, <1>6, <1>7 DEF CompatibleInv

\* The timer of an end that has not settled, or whose peer has not, finds nothing
\* to retransmit.
LEMMA TimeoutCompatible ==
  ASSUME CompatibleInv, NEW p \in Peers, dtls_sess_handle_timeout(p)
  PROVE  CompatibleInv'
<1> DEFINE q == Other(p)
<1>1. /\ q \in Peers /\ q # p /\ Other(q) = p /\ \A r \in Peers : r = p \/ r = q
  BY CompatiblePair
<1>2. SessionInv'
  BY StillKeeps, SameConnection DEF CompatibleInv, dtls_sess_handle_timeout
<1>3. UNCHANGED <<state, ssl>> /\ net' = net \cup Flight(p, ssl[p])
  BY DEF dtls_sess_handle_timeout
<1>4. ASSUME NEW r \in Peers, state[r] = "ACTPASS"  PROVE ssl[p].at = "idle"
  BY <1>1, <1>4 DEF CompatibleInv, SessionInv, RoleOK, Untouched
<1>5. ssl[p].at = "idle" => net' = net
  BY <1>3 DEF Flight
<1>6. Compatible' /\ NoneFailed'
  BY <1>3 DEF CompatibleInv, Compatible, NoneFailed
<1>7. \A r \in Peers : Untouched(r)'
  BY <1>3, <1>4, <1>5 DEF CompatibleInv, Untouched
<1> QED
  BY <1>2, <1>6, <1>7 DEF CompatibleInv

\* Only an end of a settled pair is set up again or reset.
LEMMA RestartCompatible ==
  ASSUME CompatibleInv, NEW p \in Peers, dtls_sess_setup(p) \/ dtls_sess_reset(p)
  PROVE  CompatibleInv'
<1>1. SessionInv'
  BY SetupInv, ResetInv DEF CompatibleInv
<1>2. Opposite(p) /\ UNCHANGED state
  BY DEF CompatibleInv, SessionInv, RoleOK, dtls_sess_setup, dtls_sess_reset
<1>3. \A r \in Peers : r = p \/ r = Other(p)
  BY CompatiblePair
<1>4. NoneFailed'
  <2>1. CASE dtls_sess_setup(p)
    BY <2>1 DEF dtls_sess_setup, Fresh, CompatibleInv, NoneFailed, SessionInv, TypeOK
  <2>2. CASE dtls_sess_reset(p)
    BY <2>2 DEF dtls_sess_reset, CompatibleInv, NoneFailed
  <2> QED
    BY <2>1, <2>2
<1>5. Compatible' /\ \A r \in Peers : Untouched(r)'
  BY <1>2, <1>3 DEF Opposite, CompatibleInv, Compatible, Untouched
<1> QED
  BY <1>1, <1>4, <1>5 DEF CompatibleInv

LEMMA StepCompatible == CompatibleInv /\ [Next]_vars => CompatibleInv'
<1> SUFFICES ASSUME CompatibleInv, [Next]_vars PROVE CompatibleInv'
  OBVIOUS
<1>1. CASE (\E m \in net : Lose(m)) \/ UNCHANGED vars
  <2>1. UNCHANGED <<state, ssl>> /\ net' \subseteq net
    BY <1>1 DEF Lose, vars
  <2>2. SessionInv'
    BY SessionStepInv DEF CompatibleInv
  <2>3. Compatible' /\ NoneFailed' /\ \A r \in Peers : Untouched(r)'
    BY <2>1 DEF CompatibleInv, Compatible, NoneFailed, Untouched
  <2> QED
    BY <2>2, <2>3 DEF CompatibleInv
<1> QED
  BY <1>1, DeliverCompatible, HandshakeCompatible, TimeoutCompatible,
     RestartCompatible DEF Next

\* The safety half of BothEstablish: of two ends one of which accepts and the other
\* of which may connect, neither handshake ever fails (dtls_srtp.c:225, :265),
\* whatever the network does and however often the ends start over.
THEOREM CompatibleNeverFail == Spec /\ Compatible => []NoneFailed
<1>1. Init /\ Compatible => CompatibleInv
  <2> SUFFICES ASSUME Init, Compatible PROVE CompatibleInv
    OBVIOUS
  <2>1. \A p \in Peers : ssl[p].at = "idle"
    BY DEF Init, dtls_sess_new, Fresh
  <2>2. NoneFailed /\ \A p \in Peers : Untouched(p)
    BY <2>1, TwoPeers DEF NoneFailed, Untouched, Init
  <2> QED
    BY <2>2, SessionInitInv DEF CompatibleInv
<1>2. CompatibleInv => NoneFailed
  BY DEF CompatibleInv
<1> QED
  BY <1>1, <1>2, StepCompatible, PTL DEF Spec

-----------------------------------------------------------------------------
(* Ends that have neither started over nor been shut down, as in the programs  *)
(* that use the library for one connection                                     *)

FirstConnection ==
  /\ shut = {}
  /\ \A p \in Peers :
       ssl[p].own = 1 /\ (Finished(ssl[p]) => type[p] = "EXISTING")

LEMMA FirstInit == Init => FirstConnection
  BY DEF Init, FirstConnection, dtls_sess_new, Fresh, Finished

\* What a step of p leaves alone.
LEMMA ConnectionKept ==
  ASSUME SessionInv, NEW p \in Peers, KeepsConnection(p), NEW q \in Peers
  PROVE  /\ ssl'[q].own = ssl[q].own
         /\ Finished(ssl[q]) => ssl'[q] = ssl[q]
         /\ state[q] # "ACTPASS" => state'[q] = state[q]
         /\ type[q] = "EXISTING" => type'[q] = "EXISTING"
         /\ (Finished(ssl'[q]) /\ ~Finished(ssl[q])) => type'[q] = "EXISTING"
         /\ q # p => ssl'[q] = ssl[q] /\ type'[q] = type[q]
         /\ shut' = shut
<1>1. PICK st, ty, t, sent : Keeps(p, st, ty, t, sent) /\ Finishes(p, st, ty, t)
  BY DEF KeepsConnection
<1>2. /\ q = p => state'[q] = st /\ type'[q] = ty /\ ssl'[q] = t
      /\ q # p => state'[q] = state[q] /\ type'[q] = type[q] /\ ssl'[q] = ssl[q]
  BY <1>1 DEF Keeps, SessionInv, TypeOK
<1>3. QED
  BY <1>1, <1>2 DEF Keeps, Finishes

LEMMA FirstKept ==
  ASSUME SessionInv, FirstConnection, NEW p \in Peers, KeepsConnection(p)
  PROVE  FirstConnection'
<1>1. \A q \in Peers :
        /\ ssl'[q].own = ssl[q].own
        /\ Finished(ssl[q]) => ssl'[q] = ssl[q]
        /\ type[q] = "EXISTING" => type'[q] = "EXISTING"
        /\ (Finished(ssl'[q]) /\ ~Finished(ssl[q])) => type'[q] = "EXISTING"
        /\ shut' = shut
  BY ConnectionKept
<1>2. shut' = {}
  BY <1>1 DEF FirstConnection
<1>3. QED
  BY <1>1, <1>2 DEF FirstConnection, Finished

\* A connecting end that reports its connection may rely on its peer's: it is
\* the same one, and reported too.
PeerConnected(p) ==
  LET q == Other(p) IN
  /\ type[q] = "EXISTING"
  /\ Key(q) = Key(p)
  /\ state[p] = "ACT"
  /\ state[q] = "PASS"

ClientKnows ==
  \A p \in Peers :
    (type[p] = "EXISTING" /\ ssl[p].role = "connect") => PeerConnected(p)

LEMMA FirstClientKnows == SessionInv /\ FirstConnection => ClientKnows
<1> SUFFICES ASSUME SessionInv, FirstConnection, NEW p \in Peers,
                    type[p] = "EXISTING", ssl[p].role = "connect"
             PROVE  PeerConnected(p)
  BY DEF ClientKnows
<1> DEFINE q == Other(p)
<1>1. q \in Peers
  BY TwoPeers
<1>2. /\ Finished(ssl[p]) /\ RoleOK(p) /\ RoleOK(q) /\ ClientOK(p)
      /\ ssl[p].peer \in Randoms /\ ssl[q].own = 1
      /\ q \notin shut
  BY <1>1 DEF SessionInv, TypeOK, FirstConnection
<1>3. ssl[q].own = ssl[p].peer
  BY <1>2 DEF ClientOK, Answered, Randoms
<1>4. ssl[q].peer = ssl[p].own /\ type[q] = "EXISTING"
  BY <1>2, <1>3 DEF ClientOK, Answered
<1>5. state[p] = "ACT" /\ state[q] = "PASS" /\ ssl[q].role = "accept"
  BY <1>2 DEF RoleOK, Opposite
<1>6. QED
  BY <1>3, <1>4, <1>5 DEF Key, PeerConnected
=============================================================================
