---------------------------- MODULE MediaChannel ----------------------------
(***************************************************************************)
(* What a secure media stream promises to those who use it, without        *)
(* counters, windows, tags or packets: places in the key stream are used   *)
(* (sent) and packets are handed over (delivered) by their place.          *)
(*                                                                         *)
(*   - no place is ever used twice;                                        *)
(*   - an authentic channel hands over only what was sent;                 *)
(*   - a channel that delivers once hands over no place a second time.     *)
(*                                                                         *)
(* Packets may be lost and may arrive in any order.                        *)
(***************************************************************************)
VARIABLES
  authentic,  \* whether only what was sent is delivered
  once,       \* whether nothing is delivered twice
  sent,       \* the places used
  delivered,  \* the places of the packets handed over
  reused,     \* the places used more than once
  repeated    \* the places handed over more than once

vars == <<authentic, once, sent, delivered, reused, repeated>>

Init ==
  /\ authentic \in BOOLEAN
  /\ once \in BOOLEAN
  /\ sent = {}
  /\ delivered = {}
  /\ reused = {}
  /\ repeated = {}

Send(x) ==
  /\ x \notin sent
  /\ sent' = sent \cup {x}
  /\ UNCHANGED <<authentic, once, delivered, reused, repeated>>

Deliver(x) ==
  /\ authentic => x \in sent
  /\ once => x \notin delivered
  /\ delivered' = delivered \cup {x}
  /\ repeated' = repeated \cup ({x} \cap delivered)
  /\ UNCHANGED <<authentic, once, sent, reused>>

Next ==
  \/ \E x \in sent' : Send(x)
  \/ \E x \in delivered' : Deliver(x)

Spec == Init /\ [][Next]_vars
=============================================================================
