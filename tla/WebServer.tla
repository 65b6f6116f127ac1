------------------------------ MODULE WebServer ------------------------------
(***************************************************************************)
(* The server of crates/rich-web (src/server.rs, src/pty.rs) running one   *)
(* program per session, each on a LocalPty: `rich serve -- command`.       *)
(*                                                                         *)
(* Threads: the accept loop, one thread per connection (which becomes the  *)
(* session once it is upgraded), and the one that stops the Handle.  They  *)
(* share four atomics: `pending`, `sessions`, `programs` and `stopping`.   *)
(* Browsers and the programs are the environment: a browser connects, sends*)
(* its request or does not, goes away; a program exits when it likes, and  *)
(* after it is killed.                                                     *)
(***************************************************************************)
EXTENDS Naturals, FiniteSets

CONSTANTS
  Conns,        \* connections, each made once
  MaxPending,   \* MAX_PENDING
  MaxSessions,  \* Shared.max_sessions
  NoConn        \* the accept loop has no connection in hand

ASSUME ServerAssumption ==
  /\ IsFiniteSet(Conns)
  /\ MaxPending \in Nat \ {0}
  /\ MaxSessions \in Nat
  /\ NoConn \notin Conns

VARIABLES
  conn,      \* where each connection is
  loaded,    \* Slot::acquire: the number of sessions each has read
  pending,   \* Shared.pending
  sessions,  \* Shared.sessions
  programs,  \* Shared.programs
  stopping,  \* Shared.stopping
  program,   \* connections whose program's process runs
  outlasting,\* those whose program ran on when END_WAIT was over
  acceptor,  \* where the accept loop is
  taken,     \* the connection it has in hand
  woken,     \* the stopping thread has connected
  handle     \* where the thread in Handle::shutdown is

counters == <<pending, sessions, programs>>
processes == <<program, outlasting>>
accepting == <<acceptor, taken>>
vars == <<conn, loaded, counters, stopping, processes, accepting, woken, handle>>

Unsent  == {"reading", "read", "routed", "acquiring", "upgrading"}
Playing == {"serving", "ending"}
Counted == {"checking", "starting", "ended"} \cup Playing
Slotted == {"upgrading", "upgraded", "closing"} \cup Counted

At(S) == {c \in Conns : conn[c] \in S}
-----------------------------------------------------------------------------
Init ==
  /\ conn = [c \in Conns |-> "away"]
  /\ loaded = [c \in Conns |-> 0]
  /\ pending = 0
  /\ sessions = 0
  /\ programs = 0
  /\ stopping = FALSE
  /\ program = {}
  /\ outlasting = {}
  /\ acceptor = "waiting"
  /\ taken = NoConn
  /\ woken = FALSE
  /\ handle = "up"

\* A browser connects, while the listener is there to queue it.
Connect(c) ==
  /\ conn[c] = "away"
  /\ acceptor # "ended"
  /\ conn' = [conn EXCEPT ![c] = "queued"]
  /\ UNCHANGED <<loaded, counters, stopping, processes, accepting, woken, handle>>

(***************************************************************************)
(* accept.                                                                 *)
(***************************************************************************)

\* A connection is there: a browser's, or the one that wakes the loop.
Incoming ==
  /\ acceptor = "waiting"
  /\ \/ /\ \E c \in At({"queued"}) : /\ taken' = c
                                     /\ conn' = [conn EXCEPT ![c] = "taken"]
     \/ woken /\ UNCHANGED <<taken, conn>>
  /\ acceptor' = "looking"
  /\ UNCHANGED <<loaded, counters, stopping, processes, woken, handle>>

\* The environment: `incoming` yields an error, no file descriptor being left.
IncomingFails ==
  /\ acceptor = "waiting"
  /\ acceptor' = "looking"
  /\ UNCHANGED <<conn, loaded, counters, stopping, processes, taken, woken, handle>>

\* `break`: the listener goes, with the connection in hand and those queued.
StopAccepting ==
  /\ acceptor = "looking"
  /\ stopping
  /\ acceptor' = "ended"
  /\ taken' = NoConn
  /\ conn' = [c \in Conns |-> IF conn[c] \in {"queued", "taken"} THEN "gone" ELSE conn[c]]
  /\ UNCHANGED <<loaded, counters, stopping, processes, woken, handle>>

\* An error, and the server is not stopping: a pause, and round again.
AcceptNothing ==
  /\ acceptor = "looking"
  /\ ~stopping
  /\ taken = NoConn
  /\ acceptor' = "waiting"
  /\ UNCHANGED <<conn, loaded, counters, stopping, processes, taken, woken, handle>>

\* `pending.fetch_add(1) >= MAX_PENDING`
CountPending ==
  /\ acceptor = "looking"
  /\ ~stopping
  /\ taken # NoConn
  /\ pending' = pending + 1
  /\ acceptor' = IF pending >= MaxPending THEN "refusing" ELSE "spawning"
  /\ UNCHANGED <<conn, loaded, sessions, programs, stopping, processes, taken, woken,
                 handle>>

\* One too many, answered with `busy`; or its thread cannot be spawned.
Release ==
  /\ acceptor \in {"refusing", "spawning"}
  /\ acceptor' = "waiting"
  /\ pending' = pending - 1
  /\ conn' = [conn EXCEPT ![taken] = "gone"]
  /\ taken' = NoConn
  /\ UNCHANGED <<loaded, sessions, programs, stopping, processes, woken, handle>>

SpawnConnection ==
  /\ acceptor = "spawning"
  /\ acceptor' = "waiting"
  /\ conn' = [conn EXCEPT ![taken] = "reading"]
  /\ taken' = NoConn
  /\ UNCHANGED <<loaded, counters, stopping, processes, woken, handle>>
-----------------------------------------------------------------------------
(***************************************************************************)
(* connection and websocket.                                               *)
(***************************************************************************)
ReadHead(c) ==
  /\ conn[c] = "reading"
  /\ conn' = [conn EXCEPT ![c] = "read"]
  /\ UNCHANGED <<loaded, counters, stopping, processes, accepting, woken, handle>>

\* The connection is over before its request is: Pending is dropped.
Drop(c) ==
  /\ conn' = [conn EXCEPT ![c] = "gone"]
  /\ pending' = pending - 1
  /\ UNCHANGED <<programs, stopping, processes, accepting, woken, handle>>

\* The head has not come within HANDSHAKE_TIMEOUT, or the browser went.
HeadTimesOut(c) ==
  /\ conn[c] = "reading"
  /\ Drop(c)
  /\ UNCHANGED <<loaded, sessions>>

\* "The server stopped while the request came in."
StoppedMeanwhile(c) ==
  /\ conn[c] = "read"
  /\ stopping
  /\ Drop(c)
  /\ UNCHANGED <<loaded, sessions>>

Route(c) ==
  /\ conn[c] = "read"
  /\ ~stopping
  /\ conn' = [conn EXCEPT ![c] = "routed"]
  /\ UNCHANGED <<loaded, counters, stopping, processes, accepting, woken, handle>>

\* The page, an asset, a bad request, or an upgrade that check_upgrade refuses.
Respond(c) ==
  /\ conn[c] = "routed"
  /\ Drop(c)
  /\ UNCHANGED <<loaded, sessions>>

\* Slot::acquire: `let mut n = shared.sessions.load()`
LoadSessions(c) ==
  /\ conn[c] = "routed"
  /\ conn' = [conn EXCEPT ![c] = "acquiring"]
  /\ loaded' = [loaded EXCEPT ![c] = sessions]
  /\ UNCHANGED <<counters, stopping, processes, accepting, woken, handle>>

\* Mutant: the slot the session did not get is given back.
NoSlotGivenBack(c) ==
  /\ conn[c] = "acquiring"
  /\ loaded[c] >= MaxSessions
  /\ Drop(c)
  /\ loaded' = [loaded EXCEPT ![c] = 0]
  /\ sessions' = sessions - 1

\* "Too many sessions"
NoSlot(c) ==
  /\ conn[c] = "acquiring"
  /\ loaded[c] >= MaxSessions
  /\ Drop(c)
  /\ loaded' = [loaded EXCEPT ![c] = 0]
  /\ UNCHANGED sessions

\* Mutant: the number read is stored, one up, whatever the number is by now.
TakeSlotBlindly(c) ==
  /\ conn[c] = "acquiring"
  /\ loaded[c] < MaxSessions
  /\ sessions' = loaded[c] + 1
  /\ loaded' = [loaded EXCEPT ![c] = 0]
  /\ conn' = [conn EXCEPT ![c] = "upgrading"]
  /\ UNCHANGED <<pending, programs, stopping, processes, accepting, woken, handle>>

\* `compare_exchange(n, n + 1)`: taken, or read again.
TakeSlot(c) ==
  /\ conn[c] = "acquiring"
  /\ loaded[c] < MaxSessions
  /\ IF sessions = loaded[c]
       THEN /\ sessions' = sessions + 1
            /\ loaded' = [loaded EXCEPT ![c] = 0]
            /\ conn' = [conn EXCEPT ![c] = "upgrading"]
       ELSE /\ loaded' = [loaded EXCEPT ![c] = sessions]
            /\ UNCHANGED <<conn, sessions>>
  /\ UNCHANGED <<pending, programs, stopping, processes, accepting, woken, handle>>

\* The 101 cannot be written: the slot and the Pending are dropped.
UpgradeFails(c) ==
  /\ conn[c] = "upgrading"
  /\ Drop(c)
  /\ sessions' = sessions - 1
  /\ UNCHANGED loaded

\* The 101 is written; `drop(pending)`.
Upgrade(c) ==
  /\ conn[c] = "upgrading"
  /\ conn' = [conn EXCEPT ![c] = "upgraded"]
  /\ pending' = pending - 1
  /\ UNCHANGED <<loaded, sessions, programs, stopping, processes, accepting, woken,
                 handle>>
-----------------------------------------------------------------------------
(***************************************************************************)
(* pty::run.                                                               *)
(***************************************************************************)

\* `running.fetch_add(1)`, before `stopping` is read.
CountProgram(c) ==
  /\ conn[c] = "upgraded"
  /\ conn' = [conn EXCEPT ![c] = "checking"]
  /\ programs' = programs + 1
  /\ UNCHANGED <<loaded, pending, sessions, stopping, processes, accepting, woken, handle>>

\* Mutant: `stopping` is left to `serve`, which looks at every turn.
CheckStoppingLater(c) ==
  /\ conn[c] = "checking"
  /\ conn' = [conn EXCEPT ![c] = "starting"]
  /\ UNCHANGED <<loaded, counters, stopping, processes, accepting, woken, handle>>

CheckStopping(c) ==
  /\ conn[c] = "checking"
  /\ conn' = [conn EXCEPT ![c] = IF stopping THEN "ended" ELSE "starting"]
  /\ UNCHANGED <<loaded, counters, stopping, processes, accepting, woken, handle>>

StartProgram(c) ==
  /\ conn[c] = "starting"
  /\ conn' = [conn EXCEPT ![c] = "serving"]
  /\ program' = program \cup {c}
  /\ UNCHANGED <<loaded, counters, stopping, outlasting, accepting, woken, handle>>

StartFails(c) ==
  /\ conn[c] = "starting"
  /\ conn' = [conn EXCEPT ![c] = "ended"]
  /\ UNCHANGED <<loaded, counters, stopping, processes, accepting, woken, handle>>

\* The environment: the program exits by itself.
ProgramExits(c) ==
  /\ conn[c] = "serving"
  /\ c \in program
  /\ program' = program \ {c}
  /\ UNCHANGED <<conn, loaded, counters, stopping, outlasting, accepting, woken, handle>>

\* `serve` returns: stopping, or the program exited, or the page went.
SeesStopping(c) ==
  /\ conn[c] = "serving"
  /\ stopping \/ c \notin program
  /\ conn' = [conn EXCEPT ![c] = "ending"]
  /\ UNCHANGED <<loaded, counters, stopping, processes, accepting, woken, handle>>

PageGoes(c) ==
  /\ conn[c] = "serving"
  /\ conn' = [conn EXCEPT ![c] = "ending"]
  /\ UNCHANGED <<loaded, counters, stopping, processes, accepting, woken, handle>>

\* Hung up on, and a LocalPty's killed a second later by its waiter, and again when it
\* is dropped: it ends when the system gets to it.
ProgramKilled(c) ==
  /\ conn[c] = "ending" \/ c \in outlasting
  /\ c \in program
  /\ program' = program \ {c}
  /\ UNCHANGED <<conn, loaded, counters, stopping, outlasting, accepting, woken, handle>>

\* `end`: `while host.exit_status().is_none()`
End(c) ==
  /\ conn[c] = "ending"
  /\ c \notin program
  /\ conn' = [conn EXCEPT ![c] = "ended"]
  /\ UNCHANGED <<loaded, counters, stopping, processes, accepting, woken, handle>>

\* `&& Instant::now() < deadline`: END_WAIT is over and the program runs on.
EndGivesUp(c) ==
  /\ conn[c] = "ending"
  /\ c \in program
  /\ conn' = [conn EXCEPT ![c] = "ended"]
  /\ outlasting' = outlasting \cup {c}
  /\ UNCHANGED <<loaded, counters, stopping, program, accepting, woken, handle>>

\* Mutant: `?` leaves the count as it is.
UncountForgotten(c) ==
  /\ conn[c] = "ended"
  /\ conn' = [conn EXCEPT ![c] = "closing"]
  /\ UNCHANGED <<loaded, counters, stopping, processes, accepting, woken, handle>>

\* `drop(counted)`
Uncount(c) ==
  /\ conn[c] = "ended"
  /\ conn' = [conn EXCEPT ![c] = "closing"]
  /\ programs' = programs - 1
  /\ UNCHANGED <<loaded, pending, sessions, stopping, processes, accepting, woken, handle>>

\* The socket is closed, and the Slot dropped.
Close(c) ==
  /\ conn[c] = "closing"
  /\ conn' = [conn EXCEPT ![c] = "gone"]
  /\ sessions' = sessions - 1
  /\ UNCHANGED <<loaded, pending, programs, stopping, processes, accepting, woken, handle>>
-----------------------------------------------------------------------------
(***************************************************************************)
(* Handle::shutdown.                                                       *)
(***************************************************************************)
Stop ==
  /\ handle = "up"
  /\ handle' = "stopping"
  /\ stopping' = TRUE
  /\ UNCHANGED <<conn, loaded, counters, processes, accepting, woken>>

\* Mutant: the accept loop is joined, not woken.
WakeAcceptorNot ==
  /\ handle = "stopping"
  /\ handle' = "joining"
  /\ UNCHANGED <<conn, loaded, counters, stopping, processes, accepting, woken>>

\* "Wake the accept loop, which then sees `stopping`."
WakeAcceptor ==
  /\ handle = "stopping"
  /\ handle' = "joining"
  /\ woken' = TRUE
  /\ UNCHANGED <<conn, loaded, counters, stopping, processes, accepting>>

JoinAcceptor ==
  /\ handle = "joining"
  /\ acceptor = "ended"
  /\ handle' = "draining"
  /\ UNCHANGED <<conn, loaded, counters, stopping, processes, accepting, woken>>

\* `while programs.load() > 0`
Drained ==
  /\ handle = "draining"
  /\ programs = 0
  /\ handle' = "down"
  /\ UNCHANGED <<conn, loaded, counters, stopping, processes, accepting, woken>>
-----------------------------------------------------------------------------
AcceptStep ==
  Incoming \/ StopAccepting \/ AcceptNothing \/ CountPending \/ Release \/ SpawnConnection

\* What a connection's thread does on its own.
ConnStep(c) ==
  \/ HeadTimesOut(c) \/ StoppedMeanwhile(c) \/ Route(c) \/ Respond(c)
  \/ LoadSessions(c) \/ NoSlot(c) \/ TakeSlot(c) \/ UpgradeFails(c) \/ Upgrade(c)
  \/ CountProgram(c) \/ CheckStopping(c) \/ StartProgram(c) \/ StartFails(c)
  \/ SeesStopping(c) \/ End(c) \/ EndGivesUp(c) \/ Uncount(c) \/ Close(c)

HandleStep == WakeAcceptor \/ JoinAcceptor \/ Drained

Environment(c) ==
  Connect(c) \/ ReadHead(c) \/ ProgramExits(c) \/ PageGoes(c) \/ ProgramKilled(c)

Next ==
  \/ AcceptStep
  \/ IncomingFails
  \/ \E c \in Conns : ConnStep(c) \/ Environment(c)
  \/ Stop
  \/ HandleStep

Spec == Init /\ [][Next]_vars

\* Every thread runs: reads, writes and the wait for a program have timeouts.
Fairness ==
  /\ WF_vars(AcceptStep)
  /\ WF_vars(HandleStep)
  /\ \A c \in Conns : WF_vars(ConnStep(c))

FairSpec == Spec /\ Fairness
-----------------------------------------------------------------------------
TypeOK ==
  /\ conn \in [Conns -> {"away", "queued", "taken", "gone"} \cup Unsent \cup Slotted]
  /\ loaded \in [Conns -> Nat]
  /\ pending \in Nat
  /\ sessions \in Nat
  /\ programs \in Nat
  /\ stopping \in BOOLEAN
  /\ program \subseteq Conns
  /\ outlasting \subseteq Conns
  /\ acceptor \in {"waiting", "looking", "refusing", "spawning", "ended"}
  /\ taken \in Conns \cup {NoConn}
  /\ woken \in BOOLEAN
  /\ handle \in {"up", "stopping", "joining", "draining", "down"}

\* No more than `max_sessions` sessions run, however many connections race for the
\* last slot, and every way a session ends gives its slot back.
SessionLimit ==
  /\ sessions = Cardinality(At(Slotted))
  /\ sessions <= MaxSessions

\* No more than MAX_PENDING connections are read at once, and every way a
\* connection ends or becomes a session gives its place back.
PendingLimit ==
  /\ Cardinality(At(Unsent)) <= MaxPending
  /\ acceptor \in {"waiting", "ended"} => pending = Cardinality(At(Unsent))

\* Both counters of the server are exact and within their limits, whatever way a
\* connection takes through the slot, the thread, the request and the session.
CountsGivenBack == SessionLimit /\ PendingLimit

\* Once `stop` has returned no program starts, and one that still runs is one its
\* session hung up on and waited END_WAIT for: a session that reads `stopping` in vain
\* is one the stopping thread has waited for.
StoppedIsEnded == handle = "down" => program \subseteq outlasting

\* `stop` returns, whatever connections and sessions are in the middle of.
StopReturns == (handle = "stopping") ~> (handle = "down")
=============================================================================
