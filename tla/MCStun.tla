------------------------------- MODULE MCStun -------------------------------
(* Stun for two calls and short requests. *)
EXTENDS Stun

CONSTANTS u1, u2

TwoUsers == {u1, u2}
TwoTypes == {"USERNAME", "OTHER"}

\* Headers and values as they may be found in a datagram nobody laid out.
SomeWords == [type : TwoTypes, len : {0, 3, 5}, name : {u1, Nobody}]

\* Attributes of either type, of lengths around a multiple of 4.
SomeAttributes ==
  [type : {"USERNAME"}, len : {0, 4, 7}, name : {u1, u2, Nobody}]
    \cup [type : {"OTHER"}, len : {0, 1, 8}, name : {Nobody}]

\* "Whatever", and the two names of the tests
SomeNames ==
  {[chars |-> 8, vector |-> FALSE], [chars |-> 12, vector |-> TRUE],
   [chars |-> 35, vector |-> FALSE]}
=============================================================================
