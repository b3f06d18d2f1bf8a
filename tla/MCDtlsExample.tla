---------------------------- MODULE MCDtlsExample ----------------------------
(* DtlsExample for one client and one server. *)
EXTENDS DtlsExample

TwoPrograms == {Client, Server}

\* dtls_sess_new(cfg, dsink_udp_getsink(), (peer == NULL))
OneAccepts == {[p \in TwoPrograms |-> IF p = Server THEN "PASS" ELSE "ACT"]}
=============================================================================
