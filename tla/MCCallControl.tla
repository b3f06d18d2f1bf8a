--------------------------- MODULE MCCallControl ---------------------------
(* CallControl on small instances for TLC. *)
EXTENDS CallControl, TLC

\* Neither transports nor Call-IDs are told apart by any definition.  For
\* runs that check invariants only.
Symmetry == Permutations(Transports) \cup Permutations(CallIds)
=============================================================================
