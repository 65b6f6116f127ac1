----------------------------- MODULE PtySession -----------------------------
(***************************************************************************)
(* One program's session of rich-web (rich-web/src/pty.rs) on a LocalPty   *)
(* with backpressure (rich-embed/src/host.rs): the session's loop, the     *)
(* LocalPty's reader, writer and waiter threads, the kernel's two PTY      *)
(* buffers, and as environment the program and the page.                   *)
(*                                                                         *)
(* Output is counted in units; a unit goes                                 *)
(*   program -> ptyOut -> held -> buffer -> wire -> drawn by the page,     *)
(* and input, numbered in the order it is typed,                           *)
(*   inbox -> waiting | sending -> keys -> ptyIn -> program.               *)
(*                                                                         *)
(* Left out: resizes, which change the PTY's size only; the socket's own   *)
(* failures while the page is there, its write timeout included; the       *)
(* sessions `run` ends before the program has started, which WebServer     *)
(* models.                                                                 *)
(***************************************************************************)
EXTENDS Naturals, Sequences, FiniteSetsExt

CONSTANTS
  Window,     \* output sent and not drawn past which no more is sent
  Limit,      \* unread output past which the reader waits (backpressure)
  Chunk,      \* most a read of the PTY returns
  MaxInput,   \* MAX_INPUT: input held past which write refuses more
  OutCap,     \* room of the kernel's buffer from the program
  InCap,      \* room of the kernel's buffer to the program
  InboxCap,   \* bound: messages on their way from the page
  WaitTicks,  \* turns the waiter gives the reader (50 in the code)
  MaxMade,    \* bound: units the program writes
  MaxTyped    \* bound: inputs the page sends

ASSUME LimitsAssumption ==
  /\ {Window, Limit, Chunk, MaxInput, OutCap, InCap, InboxCap, WaitTicks}
       \subseteq Nat \ {0}
  /\ MaxMade \in Nat /\ MaxTyped \in Nat

VARIABLES
  \* The program and the kernel's PTY.
  prog,       \* "running" or "exited"
  toWrite,    \* it is in a write of one unit
  made,       \* units it has written
  eaten,      \* inputs it has read
  tty,        \* "held" while a process has the PTY's other end open
  ptyOut, ptyIn,
  \* LocalPty: what its threads and the session share, then its threads.
  buffer, eof, paused, closed, hungUp, status, queued, keys,
  reader, held, writer, waiter, waited, killed,
  \* The session.
  pc, unshown, waiting, sending, delivered,
  toldExit,   \* the close of the session says that the program exited
  \* The page.
  page, wire, inbox, typed

programVars == <<prog, toWrite, made, eaten, tty>>
readerVars  == <<reader, held, eof, paused>>
writerVars  == <<writer, keys, queued>>
waiterVars  == <<waiter, waited, killed, status>>
hostVars    == <<readerVars, writerVars, waiterVars, buffer, closed, hungUp>>
loopVars    == <<pc, unshown, waiting, sending, delivered, toldExit>>
pageVars    == <<page, wire, inbox, typed>>
vars == <<programVars, ptyOut, ptyIn, hostVars, loopVars, pageVars>>

Key(k)   == [kind |-> "key", key |-> k]
Shown(n) == [kind |-> "shown", units |-> n]
CloseFrame == [kind |-> "close"]

-----------------------------------------------------------------------------
(* The session, as `serve` enters its loop on a program just started.      *)

Init ==
  /\ prog = "running" /\ toWrite = FALSE /\ made = 0 /\ eaten = 0 /\ tty = "held"
  /\ ptyOut = 0 /\ ptyIn = <<>>
  /\ buffer = 0 /\ eof = FALSE /\ paused = FALSE
  /\ reader = "room" /\ held = 0
  /\ writer = "live" /\ queued = 0 /\ keys = <<>>
  /\ waiter = "poll" /\ waited = 0 /\ killed = FALSE /\ status = FALSE
  /\ closed = FALSE /\ hungUp = FALSE
  /\ pc = "turn" /\ unshown = 0 /\ waiting = <<>> /\ sending = <<>>
  /\ delivered = 0 /\ toldExit = FALSE
  /\ page = "open" /\ wire = 0 /\ inbox = <<>> /\ typed = 0

-----------------------------------------------------------------------------
(* The program: it reads and writes one unit at a time, waits in a write    *)
(* while the kernel's buffer is full, may ignore SIGHUP, and may leave      *)
(* another process behind that holds the PTY open.                          *)

ProgramReads ==
  /\ prog = "running" /\ ~toWrite
  /\ ptyIn # <<>>
  /\ ptyIn' = Tail(ptyIn)
  /\ eaten' = eaten + 1
  /\ toWrite' \in {FALSE} \cup IF made < MaxMade THEN {TRUE} ELSE {}
  /\ UNCHANGED <<prog, made, tty, ptyOut, hostVars, loopVars, pageVars>>

ProgramStartsWrite ==
  /\ prog = "running" /\ ~toWrite
  /\ made < MaxMade
  /\ toWrite' = TRUE
  /\ UNCHANGED <<prog, made, eaten, tty, ptyOut, ptyIn, hostVars, loopVars,
                 pageVars>>

ProgramWrites ==
  /\ toWrite
  /\ ptyOut < OutCap
  /\ ptyOut' = ptyOut + 1
  /\ made' = made + 1
  /\ toWrite' = FALSE
  /\ UNCHANGED <<prog, eaten, tty, ptyIn, hostVars, loopVars, pageVars>>

ProgramExits ==
  /\ prog = "running"
  /\ prog' = "exited"
  /\ toWrite' = FALSE
  /\ tty' \in {"held", "free"}
  /\ UNCHANGED <<made, eaten, ptyOut, ptyIn, hostVars, loopVars, pageVars>>

TtyFreed ==
  /\ prog = "exited" /\ tty = "held"
  /\ tty' = "free"
  /\ UNCHANGED <<prog, toWrite, made, eaten, ptyOut, ptyIn, hostVars, loopVars,
                 pageVars>>

-----------------------------------------------------------------------------
(* The reader thread of LocalPty.                                           *)

\* Mutant: goes by a look at a buffer just full.
ReaderLooksOver ==
  /\ reader = "room" /\ ~closed
  /\ paused' = (buffer > Limit)
  /\ reader' = IF paused' THEN "room" ELSE "read"
  /\ UNCHANGED <<programVars, ptyOut, ptyIn, held, eof, writerVars, waiterVars,
                 buffer, closed, hungUp, loopVars, pageVars>>

\* wait_for_room.  Its look also says whether the reader is paused.
ReaderLooks ==
  /\ reader = "room"
  /\ IF closed
       THEN /\ reader' = "done"
            /\ eof' = TRUE
            /\ UNCHANGED paused
       ELSE /\ paused' = (buffer >= Limit)
            /\ reader' = IF paused' THEN "room" ELSE "read"
            /\ UNCHANGED eof
  /\ UNCHANGED <<programVars, ptyOut, ptyIn, held, writerVars, waiterVars,
                 buffer, closed, hungUp, loopVars, pageVars>>

Read ==
  /\ reader = "read"
  /\ ptyOut > 0
  /\ held' = Min({ptyOut, Chunk})
  /\ ptyOut' = ptyOut - held'
  /\ reader' = "keep"
  /\ UNCHANGED <<programVars, ptyIn, eof, paused, writerVars, waiterVars,
                 buffer, closed, hungUp, loopVars, pageVars>>

\* With backpressure `keep` drops nothing.
Keep ==
  /\ reader = "keep"
  /\ buffer' = buffer + held
  /\ held' = 0
  /\ reader' = "room"
  /\ UNCHANGED <<programVars, ptyOut, ptyIn, eof, paused, writerVars,
                 waiterVars, closed, hungUp, loopVars, pageVars>>

\* The kernel says the end once no process holds the other end and all it
\* wrote has been read.
ReadEnds ==
  /\ reader = "read"
  /\ ptyOut = 0 /\ tty = "free"
  /\ reader' = "done"
  /\ eof' = TRUE
  /\ UNCHANGED <<programVars, ptyOut, ptyIn, held, paused, writerVars,
                 waiterVars, buffer, closed, hungUp, loopVars, pageVars>>

Reader == ReaderLooks \/ Read \/ Keep \/ ReadEnds

\* The reader has nothing to do until another thread or process steps.
ReaderWaits ==
  \/ reader = "room" /\ paused /\ buffer >= Limit /\ ~closed
  \/ reader = "read" /\ ptyOut = 0 /\ tty = "held"
  \/ reader = "done"

-----------------------------------------------------------------------------
(* The writer thread of LocalPty.                                           *)

WriterWrites ==
  /\ writer = "live" /\ keys # <<>>
  /\ tty = "held"
  /\ Len(ptyIn) < InCap
  /\ ptyIn' = Append(ptyIn, Head(keys))
  /\ keys' = Tail(keys)
  /\ queued' = queued - 1
  /\ UNCHANGED <<programVars, ptyOut, readerVars, writer, waiterVars, buffer,
                 closed, hungUp, loopVars, pageVars>>

\* Nobody is left to read: the count is reset before the channel goes.
WriterFails ==
  /\ writer = "live" /\ keys # <<>>
  /\ tty = "free"
  /\ queued' = 0
  /\ keys' = Tail(keys)
  /\ writer' = "failed"
  /\ UNCHANGED <<programVars, ptyOut, ptyIn, readerVars, waiterVars, buffer,
                 closed, hungUp, loopVars, pageVars>>

WriterEnds ==
  /\ \/ writer = "failed"
     \/ writer = "live" /\ keys = <<>> /\ closed
  /\ writer' = "gone"
  /\ keys' = <<>>
  /\ UNCHANGED <<programVars, ptyOut, ptyIn, readerVars, queued, waiterVars,
                 buffer, closed, hungUp, loopVars, pageVars>>

Writer == WriterWrites \/ WriterFails \/ WriterEnds

-----------------------------------------------------------------------------
(* The waiter thread of LocalPty.                                           *)

\* KILL_GRACE after the program was hung up on.
WaiterKills ==
  /\ waiter = "poll" /\ prog = "running"
  /\ hungUp /\ ~killed
  /\ killed' = TRUE
  /\ UNCHANGED <<programVars, ptyOut, ptyIn, readerVars, writerVars, waiter,
                 waited, status, buffer, closed, hungUp, loopVars, pageVars>>

WaiterSees ==
  /\ waiter = "poll" /\ prog = "exited"
  /\ waiter' = "drain"
  /\ UNCHANGED <<programVars, ptyOut, ptyIn, readerVars, writerVars, waited,
                 killed, status, buffer, closed, hungUp, loopVars, pageVars>>

\* Mutant: counts the turns of a reader that waits for room too.
WaiterTicksPaused ==
  /\ waiter = "drain" /\ waited < WaitTicks
  /\ ReaderWaits
  /\ ~eof
  /\ waited' = waited + 1
  /\ UNCHANGED <<programVars, ptyOut, ptyIn, readerVars, writerVars, waiter,
                 killed, status, buffer, closed, hungUp, loopVars, pageVars>>

\* A counted turn.  A turn is 10 ms: long enough, it is assumed, for a reader
\* that can run to run until it must wait.
WaiterTicks ==
  /\ waiter = "drain" /\ waited < WaitTicks
  /\ ReaderWaits
  /\ ~eof /\ ~paused
  /\ waited' = waited + 1
  /\ UNCHANGED <<programVars, ptyOut, ptyIn, readerVars, writerVars, waiter,
                 killed, status, buffer, closed, hungUp, loopVars, pageVars>>

WaiterEnds ==
  /\ waiter = "drain"
  /\ eof \/ waited = WaitTicks
  /\ waiter' = "done"
  /\ status' = TRUE
  /\ UNCHANGED <<programVars, ptyOut, ptyIn, readerVars, writerVars, waited,
                 killed, buffer, closed, hungUp, loopVars, pageVars>>

Waiter == WaiterKills \/ WaiterSees \/ WaiterTicks \/ WaiterEnds

-----------------------------------------------------------------------------
(* The session's thread.                                                    *)

\* host.write: refuses, or counts the input and then sends it (Send).
Refused == queued >= MaxInput

Count(input) ==
  /\ queued' = queued + 1
  /\ sending' = input

\* The page has closed its side and nothing it sent is left to read.
PageGone == page = "closed" /\ inbox = <<>>

\* Mutant: SIGHUP alone.
HangUpUntimed == UNCHANGED hungUp

\* LocalPty::kill: SIGHUP, which the program may ignore, and a time for the
\* waiter to count from.
HangUp == hungUp' = (hungUp \/ ~status)

\* `serve` has not returned.
InLoop == pc \notin {"await", "over"}

\* The end of `serve`: its locals go, what the page has sent is not read, and
\* `end` hangs up on the program.
Leave ==
  /\ pc' = "await"
  /\ HangUp
  /\ unshown' = 0 /\ waiting' = <<>>
  /\ wire' = 0 /\ inbox' = <<>>

\* The top of the loop: what the reader has kept goes to the page while it is
\* under its window.  A page that has closed takes it, or fails the send.  The
\* server may have raised `stopping` before any turn; nothing else reads it.
Turn ==
  /\ pc = "turn"
  /\ \/ /\ Leave
        /\ UNCHANGED <<buffer, delivered>>
     \/ /\ unshown < Window
        /\ pc' = "input"
        /\ buffer' = 0
        /\ unshown' = unshown + buffer
        /\ delivered' = delivered + buffer
        /\ wire' = IF page = "open" THEN wire + buffer ELSE wire
        /\ UNCHANGED <<waiting, inbox, hungUp>>
     \/ /\ unshown < Window
        /\ page = "closed" /\ buffer > 0
        /\ buffer' = 0
        /\ Leave
        /\ UNCHANGED delivered
     \/ /\ unshown >= Window
        /\ pc' = "input"
        /\ UNCHANGED <<buffer, wire, inbox, unshown, waiting, delivered, hungUp>>
  /\ UNCHANGED <<programVars, ptyOut, ptyIn, readerVars, writerVars, waiterVars,
                 closed, sending, toldExit, page, typed>>

\* exit_status: none while output is unread.
Exited == buffer = 0 /\ status

ExitStatus ==
  /\ pc = "input"
  /\ Exited
  /\ toldExit' = TRUE
  /\ Leave
  /\ UNCHANGED <<programVars, ptyOut, ptyIn, readerVars, writerVars, waiterVars,
                 buffer, closed, sending, delivered, page, typed>>

\* Mutant: offers it until it is taken.
RetryInputOnly ==
  /\ pc = "input"
  /\ ~Exited
  /\ waiting # <<>>
  /\ IF Refused
       THEN UNCHANGED <<pc, queued, sending, waiting>>
       ELSE Count(waiting) /\ waiting' = <<>> /\ pc' = "resend"
  /\ UNCHANGED <<programVars, ptyOut, ptyIn, readerVars, writer, keys,
                 waiterVars, buffer, closed, hungUp, unshown, delivered, toldExit,
                 pageVars>>

\* Input refused before is offered again; refused again, the page is looked at but
\* not read: the socket alone is, and what the page sent before it closed may by then
\* be in the WebSocket's own buffer.
RetryInput ==
  /\ pc = "input"
  /\ ~Exited
  /\ waiting # <<>>
  /\ \/ /\ Refused /\ page = "closed"
        /\ Leave
        /\ UNCHANGED <<queued, sending>>
     \/ /\ Refused /\ ~PageGone
        /\ pc' = "turn"
        /\ UNCHANGED <<queued, sending, unshown, waiting, wire, inbox, hungUp>>
     \/ /\ ~Refused
        /\ Count(waiting)
        /\ waiting' = <<>>
        /\ pc' = "resend"
        /\ UNCHANGED <<unshown, wire, inbox, hungUp>>
  /\ UNCHANGED <<programVars, ptyOut, ptyIn, readerVars, writer, keys,
                 waiterVars, buffer, closed, delivered, toldExit, page, typed>>

\* The second half of host.write.  Without a writer thread the channel is
\* closed: BrokenPipe, which the session takes for having been written.
Send ==
  /\ pc \in {"send", "resend"}
  /\ IF writer = "gone"
       THEN queued' = 0 /\ UNCHANGED keys
       ELSE keys' = keys \o sending /\ UNCHANGED queued
  /\ sending' = <<>>
  /\ pc' = IF pc = "send" THEN "turn" ELSE "read"
  /\ UNCHANGED <<programVars, ptyOut, ptyIn, readerVars, writer, waiterVars,
                 buffer, closed, hungUp, unshown, waiting, delivered, toldExit,
                 pageVars>>

\* The page is read once no input is refused.
Reading ==
  \/ pc = "read"
  \/ pc = "input" /\ ~Exited /\ waiting = <<>>

\* Nothing from the page for a turn.
ReadTimesOut ==
  /\ Reading
  /\ page = "open" /\ inbox = <<>>
  /\ pc' = "turn"
  /\ UNCHANGED <<programVars, ptyOut, ptyIn, hostVars, unshown, waiting,
                 sending, delivered, toldExit, pageVars>>

ReadGone ==
  /\ Reading
  /\ PageGone
  /\ Leave
  /\ UNCHANGED <<programVars, ptyOut, ptyIn, readerVars, writerVars, waiterVars,
                 buffer, closed, sending, delivered, toldExit, page,
                 typed>>

\* Mutant: drops what is refused, as a pane does.
ReadKeyDropped ==
  /\ Reading
  /\ inbox # <<>> /\ Head(inbox).kind = "key"
  /\ inbox' = Tail(inbox)
  /\ IF Refused
       THEN pc' = "turn" /\ UNCHANGED <<queued, sending>>
       ELSE Count(<<Head(inbox).key>>) /\ pc' = "send"
  /\ UNCHANGED <<programVars, ptyOut, ptyIn, readerVars, writer, keys,
                 waiterVars, buffer, closed, hungUp, unshown, waiting, delivered,
                 toldExit, page, wire, typed>>

ReadKey ==
  /\ Reading
  /\ inbox # <<>> /\ Head(inbox).kind = "key"
  /\ inbox' = Tail(inbox)
  /\ LET input == <<Head(inbox).key>> IN
       IF Refused
         THEN /\ waiting' = input
              /\ pc' = "turn"
              /\ UNCHANGED <<queued, sending>>
         ELSE /\ Count(input)
              /\ pc' = "send"
              /\ UNCHANGED waiting
  /\ UNCHANGED <<programVars, ptyOut, ptyIn, readerVars, writer, keys,
                 waiterVars, buffer, closed, hungUp, unshown, delivered,
                 toldExit, page, wire, typed>>

\* Mutant: counts one unit too few as drawn.
ReadShownOnce ==
  /\ Reading
  /\ inbox # <<>> /\ Head(inbox).kind = "shown"
  /\ inbox' = Tail(inbox)
  /\ unshown' = unshown - Min({unshown, Head(inbox).units - 1})
  /\ pc' = "turn"
  /\ UNCHANGED <<programVars, ptyOut, ptyIn, hostVars, waiting, sending,
                 delivered, toldExit, page, wire, typed>>

ReadShown ==
  /\ Reading
  /\ inbox # <<>> /\ Head(inbox).kind = "shown"
  /\ inbox' = Tail(inbox)
  /\ unshown' = unshown - Min({unshown, Head(inbox).units})
  /\ pc' = "turn"
  /\ UNCHANGED <<programVars, ptyOut, ptyIn, hostVars, waiting, sending,
                 delivered, toldExit, page, wire, typed>>

ReadClose ==
  /\ Reading
  /\ inbox # <<>> /\ Head(inbox).kind = "close"
  /\ Leave
  /\ UNCHANGED <<programVars, ptyOut, ptyIn, readerVars, writerVars, waiterVars,
                 buffer, closed, sending, delivered, toldExit, page,
                 typed>>

\* What the program writes while it is ended is dropped.
EndReads ==
  /\ pc = "await"
  /\ buffer > 0
  /\ buffer' = 0
  /\ UNCHANGED <<programVars, ptyOut, ptyIn, readerVars, writerVars, waiterVars,
                 closed, hungUp, loopVars, pageVars>>

\* END_WAIT (3 s) is longer than the waiter needs to kill the program (1 s)
\* and to see it out (0.5 s): it passes only when the waiter has done what it
\* does by then.
EndWaitOver ==
  /\ waiter # "drain"
  /\ waiter = "poll" => prog = "running" /\ (hungUp => killed)

\* `end` returns; the last kill of `run`, the drop of the host (another kill)
\* and the end of the count.
End ==
  /\ pc = "await"
  /\ Exited \/ EndWaitOver
  /\ HangUp
  /\ closed' = TRUE
  /\ pc' = "over"
  /\ UNCHANGED <<programVars, ptyOut, ptyIn, readerVars, writerVars, waiterVars,
                 buffer, unshown, waiting, sending, delivered, toldExit,
                 pageVars>>

Session ==
  \/ Turn \/ ExitStatus \/ RetryInput \/ Send
  \/ ReadTimesOut \/ ReadGone \/ ReadKey \/ ReadShown \/ ReadClose
  \/ EndReads \/ End

-----------------------------------------------------------------------------
(* The page: its sends wait while what it sent before is not read.  What it *)
(* does after the loop nobody looks at, and is left out.                    *)

PageTypes ==
  /\ InLoop
  /\ page = "open" /\ Len(inbox) < InboxCap
  /\ typed < MaxTyped
  /\ typed' = typed + 1
  /\ inbox' = Append(inbox, Key(typed'))
  /\ UNCHANGED <<programVars, ptyOut, ptyIn, hostVars, loopVars, page,
                 wire>>

PageDraws ==
  /\ InLoop
  /\ page = "open" /\ Len(inbox) < InboxCap
  /\ wire > 0
  /\ \E n \in 1..wire :
       /\ wire' = wire - n
       /\ inbox' = Append(inbox, Shown(n))
  /\ UNCHANGED <<programVars, ptyOut, ptyIn, hostVars, loopVars, page,
                 typed>>

\* A page closes with a Close frame, or without one (a browser that died).
PageCloses ==
  /\ InLoop
  /\ page = "open"
  /\ page' = "closed"
  /\ inbox' \in {inbox, Append(inbox, CloseFrame)}
  /\ wire' = 0
  /\ UNCHANGED <<programVars, ptyOut, ptyIn, hostVars, loopVars, typed>>

-----------------------------------------------------------------------------

Next ==
  \/ ProgramReads \/ ProgramStartsWrite \/ ProgramWrites \/ ProgramExits \/ TtyFreed
  \/ ReaderLooks \/ Read \/ Keep \/ ReadEnds
  \/ WriterWrites \/ WriterFails \/ WriterEnds
  \/ WaiterKills \/ WaiterSees \/ WaiterTicks \/ WaiterEnds
  \/ Turn \/ ExitStatus \/ RetryInput \/ Send
  \/ ReadTimesOut \/ ReadGone \/ ReadKey \/ ReadShown \/ ReadClose
  \/ EndReads \/ End
  \/ PageTypes \/ PageDraws \/ PageCloses

Spec == Init /\ [][Next]_vars

\* The threads run, and the page draws what it is sent.  Nothing makes the
\* program read, write or exit, the page type or close, or the server stop.
Fairness ==
  /\ WF_vars(Reader) /\ WF_vars(Waiter) /\ WF_vars(Session)
  /\ WF_vars(PageDraws)

FairSpec == Spec /\ Fairness

\* Beside that, the program makes the writes it is in and otherwise reads its
\* input, which the writer thread hands on.
EagerSpec ==
  /\ FairSpec
  /\ WF_vars(Writer) /\ WF_vars(ProgramReads) /\ WF_vars(ProgramWrites)

-----------------------------------------------------------------------------
(* Properties.                                                              *)

Inputs == Seq(1..MaxTyped)

PageMessage ==
  [kind: {"key"}, key: 1..MaxTyped]
    \cup [kind: {"shown"}, units: Nat \ {0}]
    \cup [kind: {"close"}]

\* Every variable has its type, and the memory a session holds is bounded
\* whatever the program and the page do: the LocalPty keeps less than its
\* limit and one read, and counts all the input it keeps; the page has less
\* than its window and what the LocalPty may hold (LocalPty::backpressure's
\* and Server::max_buffered's docs).
TypeOK ==
  /\ prog \in {"running", "exited"} /\ tty \in {"held", "free"} /\ toWrite \in BOOLEAN
  /\ made \in 0..MaxMade /\ eaten \in 0..MaxTyped
  /\ ptyOut \in 0..OutCap /\ ptyIn \in Inputs /\ Len(ptyIn) <= InCap
  /\ buffer \in 0..(Limit - 1 + Chunk) /\ held \in 0..Chunk
  /\ {eof, paused, closed, hungUp, status, killed, toldExit} \subseteq BOOLEAN
  /\ queued \in 0..MaxInput /\ keys \in Inputs
  /\ writer = "live" => Len(keys) <= queued
  /\ reader \in {"room", "read", "keep", "done"}
  /\ writer \in {"live", "failed", "gone"}
  /\ waiter \in {"poll", "drain", "done"} /\ waited \in 0..WaitTicks
  /\ pc \in {"turn", "input", "resend", "read", "send", "await", "over"}
  /\ unshown \in 0..(Window - 1 + Limit - 1 + Chunk)
  /\ waiting \in Inputs /\ sending \in Inputs
  /\ delivered \in 0..MaxMade
  /\ page \in {"open", "closed"} /\ wire \in 0..unshown
  /\ typed \in 0..MaxTyped
  /\ inbox \in Seq(PageMessage) /\ Len(inbox) <= InboxCap + 1

\* The page is told of the program's exit only after all the program wrote:
\* what is in the PTY when it exits is waited for, however slow the page.
ExitAfterOutput == toldExit => delivered = made

\* While the session and the program's end of the PTY last, nothing the page
\* typed is lost, repeated or overtaken, whatever was refused on the way.
InputInOrder ==
  writer = "live" /\ InLoop =>
    LET taken == ptyIn \o keys \o sending \o waiting
        typing == {i \in DOMAIN inbox : inbox[i].kind = "key"}
    IN /\ \A i \in DOMAIN taken : taken[i] = eaten + i
       /\ {inbox[i].key : i \in typing} = (eaten + Len(taken) + 1)..typed
       /\ \A i, j \in typing : i < j => inbox[i].key < inbox[j].key

\* A session that is over has not left its program running, unless it outlives
\* SIGKILL.
EndedOrKilled == pc = "over" => prog = "exited" \/ killed

\* Whatever its page and its program do, the session comes back to look whether
\* the server stops, and once it leaves its loop it ends.
StopIsSeen == []<>(pc \in {"turn", "over"})

\* The program is in a write that the PTY has no room for.
Blocked == toWrite /\ ptyOut = OutCap

\* A program whose page draws what it gets is not kept waiting in a write,
\* unless the session holds input that the program has not made room for.
OutputFlows ==
  Blocked /\ page = "open" ~> ~Blocked \/ page = "closed" \/ waiting # <<>> \/ pc = "over"

\* Server::max_buffered: "past that, the program's writes wait until the page
\* catches up".
WritesWaitForPage ==
  Blocked /\ page = "open" ~> ~Blocked \/ page = "closed" \/ pc = "over"

\* `run`: "Run the program [...] until it exits, the page goes, or `stopping`
\* is set".
PageGoneEnds == page = "closed" ~> pc = "over"
=============================================================================
