------------------------------- MODULE MCSrtp -------------------------------
(* Srtp with 3-bit sequence numbers and a narrow replay window. *)
EXTENDS Srtp

\* Any packet, in any order.
AnyStep == -Half..(Half - 1)
=============================================================================
