--------------------------- MODULE MCSrtpTransport ---------------------------
(* SrtpTransport for one browser and one connection. *)
EXTENDS SrtpTransport

BothEnds == {Server, Browser}

\* The answer says a=setup:passive (sdp/ok_body.cr), so the browser connects.
ServerAccepts == {[p \in BothEnds |-> IF p = Server THEN "PASS" ELSE "ACT"]}
=============================================================================
