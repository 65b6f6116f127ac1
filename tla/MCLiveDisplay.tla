---------------------------- MODULE MCLiveDisplay ----------------------------
(* Two threads: one may hold the lock, or stop the display, while the other   *)
(* prints.                                                                    *)
EXTENDS LiveDisplay

CONSTANTS t1, t2

MCThreads == {t1, t2}
=============================================================================
