----------------------------- MODULE ThreadClock -----------------------------
(***************************************************************************)
(* The clock that `latest` threads of rich-intuituive keep to in an app    *)
(* that waits for its tasks (crates/rich-intuituive/src/task.rs,           *)
(* ThreadClock): the app's driver moves `now` on, wakes the threads that   *)
(* are due, and waits in `settle` until none runs, so that what they send  *)
(* is the same on every run.                                               *)
(*                                                                         *)
(* Threads: the `latest` threads, the driver (one turn of Driver::update), *)
(* and a device that makes a condition true and then notifies.  A ticket   *)
(* is named by its thread: a thread holds at most one.  Only the mode with *)
(* the app's clock is here (ClockState.manual): on the wall clock nothing  *)
(* waits for the count.                                                    *)
(***************************************************************************)
EXTENDS Naturals, FiniteSets

CONSTANTS
  Threads,    \* latest threads
  MaxTime,    \* bound: the app's time
  MaxNotify   \* bound: notifications

ASSUME ClockAssumption ==
  /\ IsFiniteSet(Threads)
  /\ MaxTime \in Nat
  /\ MaxNotify \in Nat

VARIABLES
  at,        \* where each thread is
  now,       \* ClockState.now
  running,   \* ClockState.running: threads neither asleep nor finished
  asleep,    \* ClockState.asleep: when each sleeper wakes, Never for no entry
  waiting,   \* ClockState.waiting: threads until notified or due
  notified,  \* ClockState.notified
  closed,    \* ClockState.closed
  seen,      \* wait_for: the notifications counted before looking
  until,     \* wait_for: when it gives up
  ready,     \* the conditions threads wait for, as the device set them
  owed,      \* the device has set a condition and not yet notified
  driver     \* where the driver is in its turn

clockVars == <<at, now, running, asleep, waiting, notified, closed, seen, until,
               ready, owed, driver>>

Never == MaxTime + 1        \* `None`: no entry, no timeout
Times == 0..MaxTime

\* ClockState.running counts a thread from its start, and again from the moment
\* another thread takes its ticket out of the maps.
Active(t) ==
  \/ at[t] \in {"running", "entering", "looking", "looked"}
  \/ at[t] = "sleeping" /\ asleep[t] = Never
  \/ at[t] = "parked" /\ t \notin waiting

\* The threads that the count is for.
Counted == {t \in Threads : Active(t)}

\* The threads that ended by a panic of the work they gave to `blocking`.
Panicked == {t \in Threads : at[t] = "panicked"}

\* Mutant: a plain subtraction.
LessUnsaturated == running - 1

\* saturating_sub(1)
Less == IF running = 0 THEN 0 ELSE running - 1
-----------------------------------------------------------------------------
Init ==
  /\ at = [t \in Threads |-> "unborn"]
  /\ now = 0
  /\ running = 0
  /\ asleep = [t \in Threads |-> Never]
  /\ waiting = {}
  /\ notified = 0
  /\ closed = FALSE
  /\ seen = [t \in Threads |-> 0]
  /\ until = [t \in Threads |-> Never]
  /\ ready = [t \in Threads |-> FALSE]
  /\ owed = FALSE
  /\ driver = "idle"

\* `latest`, in a running app: counted on the app's thread, before the thread is
\* spawned.
Start(t) ==
  /\ at[t] = "unborn"
  /\ ~closed
  /\ driver # "settling"
  /\ at' = [at EXCEPT ![t] = "running"]
  /\ running' = running + 1
  /\ UNCHANGED <<now, asleep, waiting, notified, closed, seen, until, ready, owed,
                 driver>>

\* The thread ends, by return or by a panic, of its own or of the condition it is
\* looking at: Finished is dropped.
Finish(t) ==
  /\ at[t] \in {"running", "looking"}
  /\ at' = [at EXCEPT ![t] = "finished"]
  /\ running' = Less
  /\ UNCHANGED <<now, asleep, waiting, notified, closed, seen, until, ready, owed,
                 driver>>

(***************************************************************************)
(* sleep_until.                                                            *)
(***************************************************************************)

\* A due time that has come, or the app's end, is no sleep at all.
SleepUntil(t, due) ==
  /\ at[t] = "running"
  /\ due > now
  /\ ~closed
  /\ at' = [at EXCEPT ![t] = "sleeping"]
  /\ asleep' = [asleep EXCEPT ![t] = due]
  /\ running' = Less
  /\ UNCHANGED <<now, waiting, notified, closed, seen, until, ready, owed, driver>>

\* Mutant: a sleeper does not look at `closed`.
WakeUpDueOnly(t) ==
  /\ at[t] = "sleeping"
  /\ asleep[t] = Never
  /\ at' = [at EXCEPT ![t] = "running"]
  /\ UNCHANGED <<now, running, asleep, waiting, notified, closed, seen, until, ready,
                 owed, driver>>

\* `while state.asleep.contains_key(&ticket) && !state.closed`
WakeUp(t) ==
  /\ at[t] = "sleeping"
  /\ asleep[t] = Never \/ closed
  /\ at' = [at EXCEPT ![t] = "running"]
  /\ UNCHANGED <<now, running, asleep, waiting, notified, closed, seen, until, ready,
                 owed, driver>>

(***************************************************************************)
(* wait_for.                                                               *)
(***************************************************************************)
WaitFor(t, due) ==
  /\ at[t] = "running"
  /\ at' = [at EXCEPT ![t] = "entering"]
  /\ until' = [until EXCEPT ![t] = due]
  /\ UNCHANGED <<now, running, asleep, waiting, notified, closed, seen, ready, owed,
                 driver>>

\* `let seen = self.lock().notified`, before looking.
ReadNotified(t) ==
  /\ at[t] = "entering"
  /\ at' = [at EXCEPT ![t] = "looking"]
  /\ seen' = [seen EXCEPT ![t] = notified]
  /\ UNCHANGED <<now, running, asleep, waiting, notified, closed, until, ready, owed,
                 driver>>

\* What a returning wait_for leaves on its frame is gone.
Return(t) ==
  /\ at' = [at EXCEPT ![t] = "running"]
  /\ seen' = [seen EXCEPT ![t] = 0]
  /\ until' = [until EXCEPT ![t] = Never]

\* `ready()`, outside the lock; the thread takes what it waited for.
LookReady(t) ==
  /\ at[t] = "looking"
  /\ ready[t]
  /\ ready' = [ready EXCEPT ![t] = FALSE]
  /\ Return(t)
  /\ UNCHANGED <<now, running, asleep, waiting, notified, closed, owed, driver>>

LookInVain(t) ==
  /\ at[t] = "looking"
  /\ ~ready[t]
  /\ at' = [at EXCEPT ![t] = "looked"]
  /\ UNCHANGED <<now, running, asleep, waiting, notified, closed, seen, until, ready,
                 owed, driver>>

\* The app's end, and the timeout, end the wait.
StopWaiting(t) ==
  /\ at[t] = "looked"
  /\ closed \/ (notified = seen[t] /\ until[t] <= now)
  /\ Return(t)
  /\ UNCHANGED <<now, running, asleep, waiting, notified, closed, ready, owed, driver>>

\* Notified while looking: look again.
LookAgain(t) ==
  /\ at[t] = "looked"
  /\ ~closed
  /\ notified # seen[t]
  /\ at' = [at EXCEPT ![t] = "entering"]
  /\ UNCHANGED <<now, running, asleep, waiting, notified, closed, seen, until, ready,
                 owed, driver>>

\* Mutant: whether it was notified while looking is not asked.
ParkUnasked(t) ==
  /\ at[t] = "looked"
  /\ ~closed
  /\ until[t] > now
  /\ at' = [at EXCEPT ![t] = "parked"]
  /\ waiting' = waiting \cup {t}
  /\ asleep' = [asleep EXCEPT ![t] = until[t]]
  /\ running' = Less
  /\ UNCHANGED <<now, notified, closed, seen, until, ready, owed, driver>>

Park(t) ==
  /\ at[t] = "looked"
  /\ ~closed
  /\ notified = seen[t]
  /\ until[t] > now
  /\ at' = [at EXCEPT ![t] = "parked"]
  /\ waiting' = waiting \cup {t}
  /\ asleep' = [asleep EXCEPT ![t] = until[t]]
  /\ running' = Less
  /\ UNCHANGED <<now, notified, closed, seen, until, ready, owed, driver>>

\* `while state.waiting.contains(&ticket) && !state.closed`, then round again.
Unpark(t) ==
  /\ at[t] = "parked"
  /\ t \notin waiting \/ closed
  /\ at' = [at EXCEPT ![t] = "entering"]
  /\ UNCHANGED <<now, running, asleep, waiting, notified, closed, seen, until, ready,
                 owed, driver>>

(***************************************************************************)
(* blocking: not counted while the work blocks on something else.          *)
(***************************************************************************)
Block(t) ==
  /\ at[t] = "running"
  /\ at' = [at EXCEPT ![t] = "blocked"]
  /\ running' = Less
  /\ UNCHANGED <<now, asleep, waiting, notified, closed, seen, until, ready, owed,
                 driver>>

Unblock(t) ==
  /\ at[t] = "blocked"
  /\ at' = [at EXCEPT ![t] = "running"]
  /\ running' = running + 1
  /\ UNCHANGED <<now, asleep, waiting, notified, closed, seen, until, ready, owed,
                 driver>>

\* The work panics: `running(true)` is passed over, and Finished takes a thread off
\* the count that `blocking` had taken off before.
PanicBlocked(t) ==
  /\ at[t] = "blocked"
  /\ at' = [at EXCEPT ![t] = "panicked"]
  /\ running' = Less
  /\ UNCHANGED <<now, asleep, waiting, notified, closed, seen, until, ready, owed,
                 driver>>
-----------------------------------------------------------------------------
(***************************************************************************)
(* The device: a thread outside the count, with a Notifier.                *)
(***************************************************************************)
SetReady(t) ==
  /\ ~owed
  /\ notified < MaxNotify
  /\ ready' = [ready EXCEPT ![t] = TRUE]
  /\ owed' = TRUE
  /\ UNCHANGED <<at, now, running, asleep, waiting, notified, closed, seen, until,
                 driver>>

\* Mutant: the waiters notified count themselves, when they next run.
NotifyUncounted ==
  /\ owed
  /\ owed' = FALSE
  /\ notified' = notified + 1
  /\ waiting' = {}
  /\ asleep' = [t \in Threads |-> IF t \in waiting THEN Never ELSE asleep[t]]
  /\ UNCHANGED <<at, now, running, closed, seen, until, ready, driver>>

\* Mutant: a notified waiter keeps its timeout's entry among the sleepers.
NotifyKeepsTimeout ==
  /\ owed
  /\ owed' = FALSE
  /\ notified' = notified + 1
  /\ waiting' = {}
  /\ running' = running + Cardinality(waiting)
  /\ UNCHANGED <<at, now, asleep, closed, seen, until, ready, driver>>

\* Every waiter leaves both maps, and is counted running by the notifier.
Notify ==
  /\ owed
  /\ owed' = FALSE
  /\ notified' = notified + 1
  /\ waiting' = {}
  /\ asleep' = [t \in Threads |-> IF t \in waiting THEN Never ELSE asleep[t]]
  /\ running' = running + Cardinality(waiting)
  /\ UNCHANGED <<at, now, closed, seen, until, ready, driver>>
-----------------------------------------------------------------------------
(***************************************************************************)
(* The driver's turn: advance, settle, and the rest of the turn.           *)
(***************************************************************************)
Due(n) == {t \in Threads : asleep[t] <= n}

\* Mutant: the threads woken count themselves, when they next run.
AdvanceUncounted(n) ==
  /\ driver = "idle"
  /\ ~closed
  /\ n >= now
  /\ now' = n
  /\ asleep' = [t \in Threads |-> IF t \in Due(n) THEN Never ELSE asleep[t]]
  /\ waiting' = waiting \ Due(n)
  /\ driver' = "settling"
  /\ UNCHANGED <<at, running, notified, closed, seen, until, ready, owed>>

\* Every sleeper due leaves the maps, and is counted running by the driver.
Advance(n) ==
  /\ driver = "idle"
  /\ ~closed
  /\ n >= now
  /\ now' = n
  /\ asleep' = [t \in Threads |-> IF t \in Due(n) THEN Never ELSE asleep[t]]
  /\ waiting' = waiting \ Due(n)
  /\ running' = running + Cardinality(Due(n))
  /\ driver' = "settling"
  /\ UNCHANGED <<at, notified, closed, seen, until, ready, owed>>

\* `while state.manual && state.running > 0 && !state.closed`
Settle ==
  /\ driver = "settling"
  /\ running = 0
  /\ driver' = "settled"
  /\ UNCHANGED <<at, now, running, asleep, waiting, notified, closed, seen, until,
                 ready, owed>>

\* THREAD_SETTLE has passed with a thread still running.
SettleGivesUp ==
  /\ driver = "settling"
  /\ running > 0
  /\ driver' = "late"
  /\ UNCHANGED <<at, now, running, asleep, waiting, notified, closed, seen, until,
                 ready, owed>>

EndTurn ==
  /\ driver \in {"settled", "late"}
  /\ driver' = "idle"
  /\ UNCHANGED <<at, now, running, asleep, waiting, notified, closed, seen, until,
                 ready, owed>>

\* The app has finished; its sleepers look at the flag when notified.
Close ==
  /\ driver = "idle"
  /\ ~closed
  /\ closed' = TRUE
  /\ UNCHANGED <<at, now, running, asleep, waiting, notified, seen, until, ready,
                 owed, driver>>
-----------------------------------------------------------------------------
\* What a thread inside the clock's functions does once it can.
ClockStep(t) ==
  \/ WakeUp(t)
  \/ ReadNotified(t)
  \/ LookReady(t)
  \/ LookInVain(t)
  \/ StopWaiting(t)
  \/ LookAgain(t)
  \/ Park(t)
  \/ Unpark(t)

UserStep(t) ==
  \/ Start(t)
  \/ Finish(t)
  \/ \E due \in Times : SleepUntil(t, due)
  \/ \E due \in Times \cup {Never} : WaitFor(t, due)
  \/ Block(t)
  \/ Unblock(t)
  \/ PanicBlocked(t)

DriverStep ==
  \/ \E n \in Times : Advance(n)
  \/ Settle
  \/ SettleGivesUp
  \/ EndTurn
  \/ Close

Next ==
  \/ \E t \in Threads : ClockStep(t) \/ UserStep(t) \/ SetReady(t)
  \/ Notify
  \/ DriverStep

Spec == Init /\ [][Next]_clockVars
-----------------------------------------------------------------------------
TypeOK ==
  /\ at \in [Threads -> {"unborn", "running", "sleeping", "entering", "looking",
                         "looked", "parked", "blocked", "finished", "panicked"}]
  /\ now \in Nat
  /\ running \in Nat
  /\ asleep \in [Threads -> Nat]
  /\ waiting \subseteq Threads
  /\ notified \in Nat
  /\ closed \in BOOLEAN
  /\ seen \in [Threads -> Nat]
  /\ until \in [Threads -> Nat]
  /\ ready \in [Threads -> BOOLEAN]
  /\ owed \in BOOLEAN
  /\ driver \in {"idle", "settling", "settled", "late"}

\* Until the app ends, each thread that parks, wakes, blocks or ends is counted once,
\* by one side, whichever of advance, notify and the timeout woke it: `running` is
\* the number of threads that are running or have been woken, or too low by no more
\* than the threads that panicked inside `blocking`.  Never too high: no turn waits
\* for a thread that does not run.
RunningCount ==
  ~closed => /\ running <= Cardinality(Counted)
             /\ Cardinality(Counted) <= running + Cardinality(Panicked)

\* `latest`: "Counted finished however `run` ends, a panic included" - so that the
\* count is exact.
CountIsExact == ~closed => running = Cardinality(Counted)

\* No sleeper is overslept: whoever is in the map wakes at a later time.
NoneOverslept == \A t \in Threads : asleep[t] > now

\* A waiter whose condition is true is not left parked: the notification that woke
\* no one was seen while looking, or is still to come.
NoLostNotify ==
  \A t \in Threads : (at[t] = "parked" /\ t \in waiting /\ ready[t]) => owed

\* `settle` returns before its limit only when every thread is asleep for a later
\* time, waits, blocks on something else or has ended, so that nothing is sent until
\* the driver, or a device, wakes someone.  A thread that panicked inside `blocking`
\* can hide one that runs, and no more than one.
SettleIsQuiet ==
  [][driver = "settling" /\ driver' = "settled"
       => Cardinality(Counted) <= Cardinality(Panicked)]_clockVars
=============================================================================
