----------------------------- MODULE MCAcpCalls -----------------------------
(* Two threads share a connection: two requests overlap, or one thread makes *)
(* a second call after giving up on its first.                               *)
EXTENDS AcpCalls

CONSTANTS c1, c2

MCCallers == {c1, c2}

\* The threads are alike, and so is every property: the first to get a number is c1.
NumberedFirst == nextId = 0 => pc'[c2] # "registered"
=============================================================================
