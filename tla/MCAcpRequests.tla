---------------------------- MODULE MCAcpRequests ----------------------------
(* Two requests of the same session or of two, and two threads that cancel.   *)
EXTENDS AcpRequests

CONSTANTS r1, r2, s1, s2, k1, k2

TwoRequests  == {r1, r2}
TwoSessions  == {s1, s2}
TwoCancellers == {k1, k2}

\* An agent that counts its requests up.
CountedIds == [r \in TwoRequests |-> r]
=============================================================================
