--------------------------- MODULE MCLatestThreads ---------------------------
(* A thread whose second value may overtake its first, beside one that only   *)
(* keeps to the clock and may hold the turn up.                               *)
EXTENDS LatestThreads

CONSTANTS t1, t2

MCThreads == {t1, t2}
MCMaxSent == [t \in MCThreads |-> IF t = t1 THEN 2 ELSE 0]
MCOneSent == [t \in MCThreads |-> IF t = t1 THEN 1 ELSE 0]
=============================================================================
