----------------------------- MODULE MCWebServer -----------------------------
(* Four connections: two may race for the one slot with the reads full. *)
EXTENDS WebServer

CONSTANTS c1, c2, c3, c4

MCConns == {c1, c2, c3, c4}
=============================================================================
