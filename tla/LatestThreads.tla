---------------------------- MODULE LatestThreads ----------------------------
(***************************************************************************)
(* `latest` signals (crates/rich-intuituive/src/task.rs): threads that     *)
(* keep to the app's clock and send the newest value they made.  A value   *)
(* does not queue: it waits in a slot, and one delivery at a time rides    *)
(* the app's inbox to take whatever the slot holds by then.                *)
(*                                                                         *)
(* Extends the clock's threads with Latest::send, and the driver's turn    *)
(* with the inbox it runs after settling (Runtime::run_inbox).             *)
(***************************************************************************)
EXTENDS ThreadClock, Sequences

CONSTANTS
  MaxSent,   \* bound: how many values each thread makes
  Nobody     \* no delivery is running

ASSUME LatestAssumption == MaxSent \in [Threads -> Nat] /\ Nobody \notin Threads

VARIABLES
  sendAt,    \* where each thread is in Latest::send
  made,      \* values each thread has sent: the k-th is k
  slot,      \* Latest.slot; 0 for None
  queued,    \* Latest.queued: a delivery is on its way
  gone,      \* Latest.closed: a delivery was dropped unrun
  inbox,     \* Runtime.inbox: deliveries, by the thread that posted them
  open,      \* the inbox has its receiver
  taking,    \* the thread whose delivery is between its two steps
  shown      \* the signal's value; 0 for None

latestVars == <<sendAt, made, slot, queued, gone, inbox, open, taking, shown>>
vars == <<clockVars, latestVars>>
-----------------------------------------------------------------------------
LInit ==
  /\ Init
  /\ sendAt = [t \in Threads |-> "none"]
  /\ made = [t \in Threads |-> 0]
  /\ slot = [t \in Threads |-> 0]
  /\ queued = [t \in Threads |-> FALSE]
  /\ gone = [t \in Threads |-> FALSE]
  /\ inbox = <<>>
  /\ open = TRUE
  /\ taking = Nobody
  /\ shown = [t \in Threads |-> 0]

(***************************************************************************)
(* Latest::send.                                                           *)
(***************************************************************************)

\* `if self.closed.load() { return false }`
BeginSend(t) ==
  /\ at[t] = "running"
  /\ sendAt[t] = "none"
  /\ ~gone[t]
  /\ made[t] < MaxSent[t]
  /\ made' = [made EXCEPT ![t] = @ + 1]
  /\ sendAt' = [sendAt EXCEPT ![t] = "storing"]
  /\ UNCHANGED <<clockVars, slot, queued, gone, inbox, open, taking, shown>>

Store(t) ==
  /\ sendAt[t] = "storing"
  /\ slot' = [slot EXCEPT ![t] = made[t]]
  /\ sendAt' = [sendAt EXCEPT ![t] = "swapping"]
  /\ UNCHANGED <<clockVars, made, queued, gone, inbox, open, taking, shown>>

\* `queued.swap(true)`: the delivery on its way takes this value, or a new one.
Swap(t) ==
  /\ sendAt[t] = "swapping"
  /\ queued' = [queued EXCEPT ![t] = TRUE]
  /\ sendAt' = [sendAt EXCEPT ![t] = IF queued[t] THEN "none" ELSE "posting"]
  /\ UNCHANGED <<clockVars, made, slot, gone, inbox, open, taking, shown>>

\* `proxy.send`; with no receiver the delivery is dropped on the spot.
Post(t) ==
  /\ sendAt[t] = "posting"
  /\ sendAt' = [sendAt EXCEPT ![t] = "none"]
  /\ IF open
       THEN inbox' = Append(inbox, t) /\ gone' = gone
       ELSE gone' = [gone EXCEPT ![t] = TRUE] /\ inbox' = inbox
  /\ UNCHANGED <<clockVars, made, slot, queued, open, taking, shown>>
-----------------------------------------------------------------------------
(***************************************************************************)
(* The rest of the turn: run_inbox, on the app's thread.                   *)
(***************************************************************************)
InTurn == driver \in {"settled", "late"}

\* Mutant: the next delivery is not let in.
DeliverKeepsQueued ==
  /\ InTurn
  /\ taking = Nobody
  /\ inbox # <<>>
  /\ taking' = Head(inbox)
  /\ inbox' = Tail(inbox)
  /\ UNCHANGED <<clockVars, sendAt, made, slot, queued, gone, open, shown>>

\* `queued.store(false)`, before the slot is taken.
Deliver ==
  /\ InTurn
  /\ taking = Nobody
  /\ inbox # <<>>
  /\ taking' = Head(inbox)
  /\ inbox' = Tail(inbox)
  /\ queued' = [queued EXCEPT ![Head(inbox)] = FALSE]
  /\ UNCHANGED <<clockVars, sendAt, made, slot, gone, open, shown>>

\* Mutant: an empty slot is shown too.
TakeShowsNone ==
  /\ taking # Nobody
  /\ shown' = [shown EXCEPT ![taking] = slot[taking]]
  /\ slot' = [slot EXCEPT ![taking] = 0]
  /\ taking' = Nobody
  /\ UNCHANGED <<clockVars, sendAt, made, queued, gone, inbox, open>>

\* `slot.take()`, and the signal's update if there was a value.
Take ==
  /\ taking # Nobody
  /\ IF slot[taking] = 0
       THEN UNCHANGED <<slot, shown>>
       ELSE /\ shown' = [shown EXCEPT ![taking] = slot[taking]]
            /\ slot' = [slot EXCEPT ![taking] = 0]
  /\ taking' = Nobody
  /\ UNCHANGED <<clockVars, sendAt, made, queued, gone, inbox, open>>

\* Mutant: the inbox goes, and nothing marks the deliveries dropped with it.
DropInboxUnmarked ==
  /\ closed
  /\ open
  /\ open' = FALSE
  /\ inbox' = <<>>
  /\ UNCHANGED <<clockVars, sendAt, made, slot, queued, gone, taking, shown>>

\* The app is dropped, and with its inbox every delivery unrun (Delivery::drop).
DropInbox ==
  /\ closed
  /\ open
  /\ open' = FALSE
  /\ inbox' = <<>>
  /\ gone' = [t \in Threads |-> gone[t] \/ \E i \in DOMAIN inbox : inbox[i] = t]
  /\ UNCHANGED <<clockVars, sendAt, made, slot, queued, taking, shown>>
-----------------------------------------------------------------------------
SendStep(t) == Store(t) \/ Swap(t) \/ Post(t)

\* A clock step of a thread that is not in the middle of a send.
Clock(t) == (ClockStep(t) \/ UserStep(t)) /\ sendAt[t] = "none" /\ UNCHANGED latestVars

\* The inbox is empty when the turn goes on: `while let Ok(job) = try_recv()`.
Turn ==
  /\ DriverStep
  /\ EndTurn => inbox = <<>> /\ taking = Nobody
  /\ UNCHANGED latestVars

Device == (Notify \/ \E t \in Threads : SetReady(t)) /\ UNCHANGED latestVars

LNext ==
  \/ \E t \in Threads : Clock(t) \/ BeginSend(t) \/ SendStep(t)
  \/ Device
  \/ Turn
  \/ Deliver
  \/ Take
  \/ DropInbox

LSpec == LInit /\ [][LNext]_vars

\* Threads run inside send and the clock's functions; the app's loop goes on.
LFairness ==
  /\ \A t \in Threads : WF_vars(SendStep(t)) /\ WF_vars(Clock(t) /\ ClockStep(t))
  /\ WF_vars(Deliver \/ Take)
  /\ WF_vars(Turn /\ (Settle \/ SettleGivesUp \/ EndTurn))
  /\ WF_vars(Turn /\ \E n \in Times : Advance(n))

LFairSpec == LSpec /\ LFairness
-----------------------------------------------------------------------------
LTypeOK ==
  /\ TypeOK
  /\ sendAt \in [Threads -> {"none", "storing", "swapping", "posting"}]
  /\ made \in [Threads -> Nat]
  /\ slot \in [Threads -> Nat]
  /\ queued \in [Threads -> BOOLEAN]
  /\ gone \in [Threads -> BOOLEAN]
  /\ inbox \in Seq(Threads)
  /\ open \in BOOLEAN
  /\ taking \in Threads \cup {Nobody}
  /\ shown \in [Threads -> Nat]

\* When the inbox is empty, what a thread sent last is on show: a value put in the
\* slot while a delivery empties it is not left there without a delivery.
NothingStranded ==
  \A t \in Threads :
    (open /\ inbox = <<>> /\ taking = Nobody /\ sendAt[t] = "none")
    => shown[t] = made[t]

\* A thread whose values can no longer be delivered is told so by its next send:
\* `send` "returns `false` once the app has finished", and does not take a
\* delivery that was dropped for one on its way.
GoneIsTold ==
  \A t \in Threads : (~open /\ queued[t] /\ sendAt[t] # "posting") => gone[t]

\* What a thread sent last is not on show, and no delivery in the inbox will show it.
Unsent(t) ==
  \/ sendAt[t] # "none"
  \/ shown[t] # made[t] /\ \A i \in DOMAIN inbox : inbox[i] # t

\* When `settle` lets the turn go on, every value sent so far is on show or will be
\* in this very turn: no thread is in the middle of a send, and a value in a slot
\* has its delivery in the inbox.  What a turn shows is so the same on every run,
\* until threads panic inside `blocking`: one send may be missed for each.
SettledIsSent ==
  [][driver = "settling" /\ driver' = "settled"
       => Cardinality({t \in Threads : Unsent(t)}) <= Cardinality(Panicked)]_vars

\* The newest value wins: an older one never takes its place.
NewestWins == [][\A t \in Threads : shown'[t] >= shown[t]]_vars

\* Every value sent is shown, or a newer one is, unless the app ends first.
SentIsShown ==
  \A t \in Threads : \A k \in 1..MaxSent[t] :
    (made[t] = k) ~> (shown[t] >= k \/ closed)

\* The app's end wakes every thread asleep on its clock, whatever its time: it comes
\* back to its own code, or ends in a condition that panics.
EndWakes ==
  \A t \in Threads :
    (closed /\ at[t] \in {"sleeping", "parked"}) ~> (at[t] \in {"running", "finished"})
=============================================================================
