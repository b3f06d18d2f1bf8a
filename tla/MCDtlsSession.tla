---------------------------- MODULE MCDtlsSession ----------------------------
(* DtlsSession with two peers that may start in various roles. *)
EXTENDS DtlsSession

CONSTANTS A, B

TwoPeers == {A, B}

\* Every choice of roles.
AnyStates == [TwoPeers -> ConStates]
=============================================================================
