----------------------------- MODULE MCSrtpKeys -----------------------------
(* SrtpKeys with bytes of three bits: an index has 11 bits and wraps at 2048. *)
EXTENDS SrtpKeys, Bitwise

CONSTANTS k1, k2

TwoMasters == {k1, k2}

BitwiseXor(x, y) == x ^^ y

\* Below the counter the salt of k1 is such that at the index 2047 the carry
\* passes through all of it; the salt of k2 stops it.
TwoSalts ==
  [m \in TwoMasters |->
     [b \in 0..13 |-> CASE b = 9 -> 3
                        [] b \in {10, 11} -> IF m = k1 THEN 7 ELSE 5
                        [] b = 12 -> 4
                        [] OTHER -> 0]]
=============================================================================
