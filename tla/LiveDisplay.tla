----------------------------- MODULE LiveDisplay -----------------------------
(***************************************************************************)
(* A progress display with its refresh thread: LiveProgress                *)
(* (crates/rich/src/progress.rs) over AutoLive and LiveHandle              *)
(* (crates/rich/src/live.rs), and the writers that stand in for stdout     *)
(* (crates/rich/src/file_proxy.rs).                                        *)
(*                                                                         *)
(* The refresh thread owns the terminal and takes messages in order.       *)
(* Threads change the progress under its lock (`with`), which the refresh  *)
(* thread needs to draw; they print lines through handles, and wait until  *)
(* each is printed unless they hold that lock.  The display stops while    *)
(* handles to it are still in use, or dies of a render that panics.        *)
(***************************************************************************)
EXTENDS Naturals, Sequences, FiniteSets

CONSTANTS
  Threads,     \* threads that use the display
  Free,        \* no thread has the progress's lock
  NoJob,       \* the refresh thread runs no job
  MaxLines,    \* bound: lines each thread prints
  MaxChanges,  \* bound: changes to the progress
  MaxQueued    \* bound: redraws asked for and not yet made

ASSUME DisplayAssumption ==
  /\ MaxLines \in Nat
  /\ MaxChanges \in Nat
  /\ MaxQueued \in Nat
  /\ Free \notin Threads

VARIABLES
  pc,        \* where each thread is
  lines,     \* lines each thread has printed: the k-th is <<t, k>>
  asOf,      \* the progress when each thread's redraw was asked for
  done,      \* threads whose job has sent `done`
  lock,      \* the thread that has the Progress mutex
  holder,    \* LiveProgress.holder
  progress,  \* the progress: how many changes it has had
  queue,     \* the channel to the refresh thread
  at,        \* where the refresh thread is
  job,       \* the message it draws a frame for
  frame,     \* the progress the last frame showed
  screen,    \* lines printed above the display
  file,      \* lines written to the proxied file
  panicked   \* a render has panicked

callerVars == <<pc, lines, asOf>>
vars == <<pc, lines, asOf, done, lock, holder, progress, queue, at, job, frame, screen,
          file, panicked>>

Line == Threads \X Nat
Message ==
  [kind: {"line"}, by: Threads, n: Nat, wait: BOOLEAN]  \* Run: a print
    \cup [kind: {"frame"}, by: Threads, wait: BOOLEAN]   \* Refresh, or refresh_wait's Run
    \cup [kind: {"stop"}]
Tick == [kind |-> "tick"]

ASSUME NoJobAssumption == NoJob \notin Message \cup {Tick}

Over == at \in {"ended", "gone"}   \* the loop has ended
Gone == at = "gone"                \* and the receiver is dropped: a send fails

\* The thread has sent a job with its `done` end, which is not yet used or dropped.
JobAlive(t) ==
  \/ \E i \in DOMAIN queue : queue[i].kind # "stop" /\ queue[i].by = t /\ queue[i].wait
  \/ job # NoJob /\ job.kind = "frame" /\ job.by = t /\ job.wait

OnScreen(l) == \E i \in DOMAIN screen : screen[i] = l
InFile(l) == \E i \in DOMAIN file : file[i] = l
Queued(l) ==
  \E i \in DOMAIN queue :
    queue[i].kind = "line" /\ <<queue[i].by, queue[i].n>> = l
-----------------------------------------------------------------------------
\* `Progress::start` has returned: the first frame is drawn.
Init ==
  /\ pc = [t \in Threads |-> "free"]
  /\ lines = [t \in Threads |-> 0]
  /\ asOf = [t \in Threads |-> 0]
  /\ done = {}
  /\ lock = Free
  /\ holder = Free
  /\ progress = 0
  /\ queue = <<>>
  /\ at = "receiving"
  /\ job = NoJob
  /\ frame = 0
  /\ screen = <<>>
  /\ file = <<>>
  /\ panicked = FALSE

(***************************************************************************)
(* LiveProgress::with.                                                     *)
(***************************************************************************)

\* `stop` takes the LiveProgress itself: no thread uses it then or after.
Usable == \A t \in Threads : pc[t] \notin {"stopping", "stopped"}

\* The lock is taken before `holder` is set, and given back after it is cleared.
Enter(t) ==
  /\ Usable
  /\ pc[t] = "free"
  /\ lock = Free
  /\ lock' = t
  /\ holder' = t
  /\ pc' = [pc EXCEPT ![t] = "with"]
  /\ UNCHANGED <<lines, asOf, done, progress, queue, at, job, frame, screen, file,
                 panicked>>

Change(t) ==
  /\ pc[t] = "with"
  /\ progress < MaxChanges
  /\ progress' = progress + 1
  /\ UNCHANGED <<callerVars, done, lock, holder, queue, at, job, frame, screen, file,
                 panicked>>

Leave(t) ==
  /\ pc[t] = "with"
  /\ pc' = [pc EXCEPT ![t] = "free"]
  /\ holder' = Free
  /\ lock' = Free
  /\ UNCHANGED <<lines, asOf, done, progress, queue, at, job, frame, screen, file,
                 panicked>>

(***************************************************************************)
(* LiveHandle::run, as a proxy's write calls it: a line to print.          *)
(***************************************************************************)
LineJob(t, wait) == [kind |-> "line", by |-> t, n |-> lines[t] + 1, wait |-> wait]

\* `run` is false, and the proxy writes to its file.
ToFile(t) ==
  /\ file' = Append(file, <<t, lines[t] + 1>>)
  /\ UNCHANGED <<pc, queue>>

\* Mutant: under the lock too, the thread waits for its line.
PrintWaits(t) ==
  /\ pc[t] \in {"free", "with"}
  /\ lines[t] < MaxLines
  /\ lines' = [lines EXCEPT ![t] = @ + 1]
  /\ IF Gone
       THEN ToFile(t)
       ELSE /\ queue' = Append(queue, LineJob(t, TRUE))
            /\ pc' = [pc EXCEPT ![t] = "printing"]
            /\ UNCHANGED file
  /\ UNCHANGED <<asOf, done, lock, holder, progress, at, job, frame, screen, panicked>>

\* Mutant: under the lock, the line goes to the file.
PrintAround(t) ==
  /\ pc[t] \in {"free", "with"}
  /\ lines[t] < MaxLines
  /\ lines' = [lines EXCEPT ![t] = @ + 1]
  /\ IF Gone \/ holder = t
       THEN ToFile(t)
       ELSE /\ queue' = Append(queue, LineJob(t, TRUE))
            /\ pc' = [pc EXCEPT ![t] = "printing"]
            /\ UNCHANGED file
  /\ UNCHANGED <<asOf, done, lock, holder, progress, at, job, frame, screen, panicked>>

Write(t) ==
  /\ pc[t] \in {"free", "with"}
  /\ lines[t] < MaxLines
  /\ lines' = [lines EXCEPT ![t] = @ + 1]
  /\ IF Gone
       THEN ToFile(t)
       ELSE /\ queue' = Append(queue, LineJob(t, holder # t))
            /\ pc' = [pc EXCEPT ![t] = IF holder = t THEN @ ELSE "printing"]
            /\ UNCHANGED file
  /\ UNCHANGED <<asOf, done, lock, holder, progress, at, job, frame, screen, panicked>>
-----------------------------------------------------------------------------
(***************************************************************************)
(* LiveProgress::refresh.                                                  *)
(***************************************************************************)
Refresh(t) ==
  /\ Usable
  /\ pc[t] \in {"free", "with"}
  /\ ~Gone
  /\ Cardinality({i \in DOMAIN queue : queue[i].kind = "frame"}) < MaxQueued
  /\ queue' = Append(queue, [kind |-> "frame", by |-> t, wait |-> holder # t])
  /\ IF holder = t
       THEN UNCHANGED <<pc, asOf>>
       ELSE /\ pc' = [pc EXCEPT ![t] = "refreshing"]
            /\ asOf' = [asOf EXCEPT ![t] = progress]
  /\ UNCHANGED <<lines, done, lock, holder, progress, at, job, frame, screen, file,
                 panicked>>

\* Mutant: no wait for `done`.
ReturnUnwaited(t) ==
  /\ pc[t] \in {"printing", "refreshing"}
  /\ done' = done \ {t}
  /\ pc' = [pc EXCEPT ![t] = "free"]
  /\ asOf' = [asOf EXCEPT ![t] = 0]
  /\ UNCHANGED <<lines, lock, holder, progress, queue, at, job, frame, screen, file,
                 panicked>>

\* `wait.recv()`: `done` has been sent, or was dropped with the job.  Either way
\* `run` returns true.
Return(t) ==
  /\ pc[t] \in {"printing", "refreshing"}
  /\ t \in done \/ ~JobAlive(t)
  /\ done' = done \ {t}
  /\ pc' = [pc EXCEPT ![t] = "free"]
  /\ asOf' = [asOf EXCEPT ![t] = 0]
  /\ UNCHANGED <<lines, lock, holder, progress, queue, at, job, frame, screen, file,
                 panicked>>

(***************************************************************************)
(* LiveProgress::stop: no other thread is inside one of its methods.       *)
(***************************************************************************)
Stop(t) ==
  /\ Usable
  /\ pc[t] = "free"
  /\ \A u \in Threads : pc[u] \in {"free", "printing"}
  /\ pc' = [pc EXCEPT ![t] = "stopping"]
  /\ queue' = IF Gone THEN queue ELSE Append(queue, [kind |-> "stop"])
  /\ UNCHANGED <<lines, asOf, done, lock, holder, progress, at, job, frame, screen,
                 file, panicked>>

\* `handle.join()`
Joined(t) ==
  /\ pc[t] = "stopping"
  /\ Gone
  /\ pc' = [pc EXCEPT ![t] = "stopped"]
  /\ UNCHANGED <<lines, asOf, done, lock, holder, progress, queue, at, job, frame,
                 screen, file, panicked>>
-----------------------------------------------------------------------------
(***************************************************************************)
(* The refresh thread.                                                     *)
(***************************************************************************)
\* Mutant: the message stands in for the thread that waits for it.
DoneMessage(m) == IF m.wait THEN done \cup {m} ELSE done

Done(m) == IF m.wait THEN done \cup {m.by} ELSE done

\* A print erases the display, prints, and draws it again as it last was.
PrintLine ==
  /\ at = "receiving"
  /\ queue # <<>>
  /\ Head(queue).kind = "line"
  /\ queue' = Tail(queue)
  /\ screen' = Append(screen, <<Head(queue).by, Head(queue).n>>)
  /\ done' = Done(Head(queue))
  /\ UNCHANGED <<callerVars, lock, holder, progress, at, job, frame, file, panicked>>

\* Mutant: `done` is sent before the frame is drawn.
BeginFrameDone ==
  /\ at = "receiving"
  /\ queue # <<>>
  /\ Head(queue).kind = "frame"
  /\ queue' = Tail(queue)
  /\ at' = "drawing"
  /\ job' = [Head(queue) EXCEPT !.wait = FALSE]
  /\ done' = Done(Head(queue))
  /\ UNCHANGED <<callerVars, lock, holder, progress, frame, screen, file, panicked>>

BeginFrame ==
  /\ at = "receiving"
  /\ queue # <<>>
  /\ Head(queue).kind = "frame"
  /\ queue' = Tail(queue)
  /\ at' = "drawing"
  /\ job' = Head(queue)
  /\ UNCHANGED <<callerVars, done, lock, holder, progress, frame, screen, file, panicked>>

\* `Err(Timeout)`: nothing came for an interval.
BeginTick ==
  /\ at = "receiving"
  /\ queue = <<>>
  /\ at' = "drawing"
  /\ job' = Tick
  /\ UNCHANGED <<callerVars, done, lock, holder, progress, queue, frame, screen, file,
                 panicked>>

\* `live.stop()` draws the final frame.
BeginStop ==
  /\ at = "receiving"
  /\ queue # <<>>
  /\ Head(queue).kind = "stop"
  /\ queue' = Tail(queue)
  /\ at' = "drawing"
  /\ job' = Head(queue)
  /\ UNCHANGED <<callerVars, done, lock, holder, progress, frame, screen, file, panicked>>

\* `get_renderable`: the task table, under the progress's lock.
Draw ==
  /\ at = "drawing"
  /\ lock = Free
  /\ frame' = progress
  /\ done' = IF job.kind = "frame" THEN Done(job) ELSE done
  /\ at' = IF job.kind = "stop" THEN "ended" ELSE "receiving"
  /\ job' = NoJob
  /\ UNCHANGED <<callerVars, lock, holder, progress, queue, screen, file, panicked>>

\* A render panics, drawing a frame or printing a line, and so ends the job that was
\* drawing; `abort` restores the terminal.
RenderPanics ==
  /\ \/ at = "drawing" /\ lock = Free /\ UNCHANGED queue
     \/ /\ at = "receiving"
        /\ queue # <<>>
        /\ Head(queue).kind = "line"
        /\ queue' = Tail(queue)
  /\ panicked' = TRUE
  /\ at' = "ended"
  /\ job' = NoJob
  /\ UNCHANGED <<callerVars, done, lock, holder, progress, frame, screen, file>>

\* The thread returns: the receiver goes, and every message still queued with it.
DropReceiver ==
  /\ at = "ended"
  /\ at' = "gone"
  /\ queue' = <<>>
  /\ UNCHANGED <<callerVars, done, lock, holder, progress, job, frame, screen, file,
                 panicked>>
-----------------------------------------------------------------------------
RefreshThread ==
  PrintLine \/ BeginFrame \/ BeginStop \/ Draw \/ RenderPanics \/ DropReceiver

Next ==
  \/ \E t \in Threads :
       \/ Enter(t) \/ Change(t) \/ Leave(t)
       \/ Write(t) \/ Refresh(t) \/ Return(t)
       \/ Stop(t) \/ Joined(t)
  \/ RefreshThread
  \/ BeginTick

Spec == Init /\ [][Next]_vars

\* The refresh thread runs when it can and gets the lock if it is given back over
\* and over; the closures given to `with` return.
Fairness ==
  /\ \A t \in Threads : WF_vars(Leave(t)) /\ WF_vars(Return(t)) /\ WF_vars(Joined(t))
  /\ WF_vars(PrintLine \/ BeginFrame \/ BeginStop \/ DropReceiver)
  /\ SF_vars(Draw)

FairSpec == Spec /\ Fairness
-----------------------------------------------------------------------------
TypeOK ==
  /\ pc \in [Threads -> {"free", "with", "printing", "refreshing", "stopping",
                         "stopped"}]
  /\ lines \in [Threads -> Nat]
  /\ asOf \in [Threads -> Nat]
  /\ done \subseteq Threads
  /\ lock \in Threads \cup {Free}
  /\ holder \in Threads \cup {Free}
  /\ progress \in Nat
  /\ queue \in Seq(Message)
  /\ at \in {"receiving", "drawing", "ended", "gone"}
  /\ job \in Message \cup {Tick, NoJob}
  /\ frame \in Nat
  /\ screen \in Seq(Line)
  /\ file \in Seq(Line)
  /\ panicked \in BOOLEAN

\* A thread's lines come out in the order it wrote them, those it wrote under the
\* lock among them, and none goes to the file while a later one is still printed.
InOrder ==
  \A i, j \in DOMAIN (screen \o file) :
    LET all == screen \o file
    IN i < j /\ all[i][1] = all[j][1] => all[i][2] < all[j][2]

\* `run` waits "until it has run, as upstream prints synchronously": while the
\* display runs, a print that returns has its line on the screen, and every line the
\* thread printed before, under the lock too.
PrintedOnReturn ==
  [][\A t \in Threads :
       (pc[t] = "printing" /\ pc'[t] = "free" /\ ~Over)
       => \A k \in 1..lines[t] : OnScreen(<<t, k>>)]_vars

\* A display that stopped shows the progress as it ended.
FinalFrame == (at = "gone" /\ ~panicked) => frame = progress

\* A refresh outside the lock returns with the progress on the screen as it was when
\* it was called, whatever was queued before it; and the frame left on the terminal
\* is that of the last change, whoever made it while the display was stopping.
FrameIsCurrent ==
  [][/\ \A t \in Threads :
          (pc[t] = "refreshing" /\ pc'[t] = "free") => frame >= asOf[t] \/ Over
     /\ FinalFrame']_vars

\* No thread waits for good for the refresh thread, which may be waiting for the
\* lock that thread, or another, holds.
CallsReturn ==
  \A t \in Threads : (pc[t] \in {"printing", "refreshing", "stopping"})
                     ~> (pc[t] \in {"free", "stopped"})

\* `run` is "false once the display has stopped", and proxies then "write to their
\* files": a line whose write has returned is printed or in the file.
NoLineSwallowed ==
  \A t \in Threads : \A k \in 1..lines[t] :
    (pc[t] # "printing" /\ ~panicked)
    => OnScreen(<<t, k>>) \/ InFile(<<t, k>>) \/ Queued(<<t, k>>)
=============================================================================
