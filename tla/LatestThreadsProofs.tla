------------------------- MODULE LatestThreadsProofs -------------------------
(***************************************************************************)
(* Proofs about `latest` threads, their clock first and then their         *)
(* signals, for any number of threads, of notifications and of values, and *)
(* any time.                                                               *)
(*                                                                         *)
(* The clock (Spec).  RunningCount is not inductive alone: that advance    *)
(* and notify count each thread they wake exactly once rests on a thread   *)
(* never having an entry in the maps while it runs (Entries).              *)
(* NoLostNotify rests on what a thread that has looked in vain knows       *)
(* (LookedKnows).                                                          *)
(*                                                                         *)
(* The signals (LSpec).  The threads keep to the clock (KeepsToClock), so  *)
(* what is proved of the clock holds of them.  That no value is stranded   *)
(* rests on three facts: a value in a slot has a delivery to come          *)
(* (Carried), a delivery to come is in the inbox (OnItsWay), and a thread  *)
(* has at most one there, which it is not posting again (OneDelivery).     *)
(***************************************************************************)
EXTENDS LatestThreads, FiniteSetTheorems, QueueLemmas

-----------------------------------------------------------------------------
(* The clock.                                                               *)

\* Until the app ends, only a sleeper or a waiter has an entry in the maps.
Entries ==
  ~closed => \A t \in Threads :
               /\ t \in waiting => at[t] = "parked"
               /\ asleep[t] # Never => at[t] = "sleeping" \/ t \in waiting

\* If no notification came while a thread looked in vain, its condition is still
\* false, or the notification for it is to come.
LookedKnows ==
  \A t \in Threads :
    /\ seen[t] <= notified
    /\ at[t] = "looked" /\ seen[t] = notified /\ ready[t] => owed

ClosedIsIdle == closed => driver = "idle"

IInv ==
  /\ TypeOK
  /\ now \in Times
  /\ NoneOverslept
  /\ Entries
  /\ RunningCount
  /\ LookedKnows
  /\ NoLostNotify
  /\ ClosedIsIdle
-----------------------------------------------------------------------------
LEMMA FinitePart ==
  ASSUME NEW S \in SUBSET Threads
  PROVE  IsFiniteSet(S) /\ Cardinality(S) \in Nat
BY ClockAssumption, FS_Subset, FS_CardinalityType

LEMMA CountedFinite ==
  /\ IsFiniteSet(Counted)
  /\ Cardinality(Counted) \in Nat
  /\ IsFiniteSet(Panicked)
  /\ Cardinality(Panicked) \in Nat
BY FinitePart DEF Counted, Panicked

LEMMA NeverIsLater == Times \subseteq Nat /\ Never \in Nat /\ \A n \in Times : n < Never
BY ClockAssumption DEF Times, Never

LEMMA InitInv == Init => IInv
<1> SUFFICES ASSUME Init PROVE IInv
  OBVIOUS
<1> USE ClockAssumption
<1>1. now \in Times /\ Never \in Nat /\ now < Never
  BY DEF Init, Times, Never
<1>2. TypeOK /\ NoneOverslept
  BY <1>1 DEF Init, TypeOK, NoneOverslept
<1>3. Entries /\ LookedKnows /\ NoLostNotify /\ ClosedIsIdle
  BY DEF Init, Entries, LookedKnows, NoLostNotify, ClosedIsIdle
<1>4. RunningCount
  <2>1. Counted = {} /\ Panicked = {}
    BY DEF Init, Active, Counted, Panicked
  <2> QED
    BY <2>1, FS_EmptySet DEF Init, RunningCount
<1> QED
  BY <1>1, <1>2, <1>3, <1>4 DEF IInv

\* Every step keeps every variable in its type, and the time within its bound.
LEMMA StepType ==
  ASSUME IInv, [Next]_clockVars
  PROVE  TypeOK' /\ (now \in Times)'
<1> USE ClockAssumption, NeverIsLater DEF IInv, TypeOK
<1>1. ASSUME NEW t \in Threads, ClockStep(t) PROVE TypeOK' /\ (now \in Times)'
  <2>1. CASE WakeUp(t) \/ ReadNotified(t) \/ LookInVain(t) \/ LookAgain(t)
    BY <2>1 DEF WakeUp, ReadNotified, LookInVain, LookAgain
  <2>2. CASE LookReady(t) \/ StopWaiting(t)
    <3>1. Return(t) /\ UNCHANGED <<now, running, asleep, waiting, notified, closed,
                                   owed, driver>>
      BY <2>2 DEF LookReady, StopWaiting
    <3>2. ready' = ready \/ ready' = [ready EXCEPT ![t] = FALSE]
      BY <2>2 DEF LookReady, StopWaiting
    <3> QED
      BY <3>1, <3>2 DEF Return
  <2>3. CASE Park(t)
    BY <2>3 DEF Park, Less
  <2>4. CASE Unpark(t)
    BY <2>4 DEF Unpark
  <2> QED
    BY <1>1, <2>1, <2>2, <2>3, <2>4 DEF ClockStep
<1>2. ASSUME NEW t \in Threads, UserStep(t) PROVE TypeOK' /\ (now \in Times)'
  BY <1>2 DEF UserStep, Start, Finish, SleepUntil, WaitFor, Block, Unblock, PanicBlocked, Less
<1>3. ASSUME NEW t \in Threads, SetReady(t) PROVE TypeOK' /\ (now \in Times)'
  BY <1>3 DEF SetReady
<1>4. CASE Notify
  <2>1. Cardinality(waiting) \in Nat
    BY FinitePart
  <2>2. asleep' \in [Threads -> Nat]
    BY <1>4, NeverIsLater DEF Notify, TypeOK
  <2>3. running' \in Nat /\ notified' \in Nat /\ waiting' = {} /\ owed' = FALSE
    BY <1>4, <2>1 DEF Notify
  <2>4. UNCHANGED <<at, now, closed, seen, until, ready, driver>>
    BY <1>4 DEF Notify
  <2> QED
    BY <2>2, <2>3, <2>4
<1>5. ASSUME NEW n \in Times, Advance(n) PROVE TypeOK' /\ (now \in Times)'
  <2>1. Cardinality(Due(n)) \in Nat
    BY FinitePart DEF Due
  <2> QED
    BY <1>5, <2>1 DEF Advance
<1>6. CASE Settle \/ SettleGivesUp \/ EndTurn \/ Close
  BY <1>6 DEF Settle, SettleGivesUp, EndTurn, Close
<1>7. CASE UNCHANGED clockVars
  BY <1>7 DEF clockVars
<1> QED
  BY <1>1, <1>2, <1>3, <1>4, <1>5, <1>6, <1>7 DEF Next, DriverStep

LEMMA StepOverslept ==
  ASSUME IInv, [Next]_clockVars
  PROVE  NoneOverslept'
<1> USE DEF IInv, TypeOK, NoneOverslept
<1>1. now \in Nat /\ Never \in Nat /\ now < Never
  BY NeverIsLater
<1>2. ASSUME NEW t \in Threads, Park(t) PROVE NoneOverslept'
  BY <1>1, <1>2 DEF Park
<1>3. ASSUME NEW t \in Threads, NEW due \in Times, SleepUntil(t, due)
      PROVE  NoneOverslept'
  BY <1>1, <1>3 DEF SleepUntil
<1>4. CASE Notify
  BY <1>1, <1>4 DEF Notify
<1>5. ASSUME NEW n \in Times, Advance(n) PROVE NoneOverslept'
  <2>1. n \in Nat /\ n < Never
    BY NeverIsLater
  <2> QED
    BY <1>5, <2>1 DEF Advance, Due
<1>6. CASE UNCHANGED <<now, asleep>>
  BY <1>6
<1>7. ASSUME NEW t \in Threads, ClockStep(t) PROVE Park(t) \/ UNCHANGED <<now, asleep>>
  BY <1>7 DEF ClockStep, WakeUp, ReadNotified, LookReady, LookInVain, StopWaiting,
              LookAgain, Unpark
<1>8. ASSUME NEW t \in Threads, UserStep(t)
      PROVE  (\E due \in Times : SleepUntil(t, due)) \/ UNCHANGED <<now, asleep>>
  BY <1>8 DEF UserStep, Start, Finish, WaitFor, Block, Unblock, PanicBlocked
<1>9. ASSUME NEW t \in Threads, SetReady(t) PROVE UNCHANGED <<now, asleep>>
  BY <1>9 DEF SetReady
<1>10. CASE Settle \/ SettleGivesUp \/ EndTurn \/ Close \/ UNCHANGED clockVars
  BY <1>10 DEF Settle, SettleGivesUp, EndTurn, Close, clockVars
<1> QED
  BY <1>2, <1>3, <1>4, <1>5, <1>6, <1>7, <1>8, <1>9, <1>10 DEF Next, DriverStep

LEMMA StepEntries ==
  ASSUME IInv, [Next]_clockVars
  PROVE  Entries'
<1> SUFFICES ASSUME ~closed' PROVE Entries'
  BY DEF Entries
<1> USE DEF IInv, TypeOK, Entries
<1>1. ASSUME NEW t \in Threads, ClockStep(t) PROVE Entries'
  <2>1. CASE Park(t)
    BY <2>1 DEF Park
  <2>2. CASE WakeUp(t)
    BY <2>2 DEF WakeUp
  <2>3. CASE Unpark(t)
    BY <2>3 DEF Unpark
  <2>4. CASE LookReady(t) \/ StopWaiting(t)
    BY <2>4 DEF LookReady, StopWaiting, Return
  <2>5. CASE ReadNotified(t) \/ LookInVain(t) \/ LookAgain(t)
    BY <2>5 DEF ReadNotified, LookInVain, LookAgain
  <2> QED
    BY <1>1, <2>1, <2>2, <2>3, <2>4, <2>5 DEF ClockStep
<1>2. ASSUME NEW t \in Threads, UserStep(t) PROVE Entries'
  <2>1. ASSUME NEW due \in Times, SleepUntil(t, due) PROVE Entries'
    BY <2>1 DEF SleepUntil
  <2>2. CASE Start(t) \/ Finish(t) \/ Block(t) \/ Unblock(t) \/ PanicBlocked(t)
    BY <2>2 DEF Start, Finish, Block, Unblock, PanicBlocked
  <2>3. ASSUME NEW due \in Times \cup {Never}, WaitFor(t, due) PROVE Entries'
    BY <2>3 DEF WaitFor
  <2> QED
    BY <1>2, <2>1, <2>2, <2>3 DEF UserStep
<1>3. ASSUME NEW t \in Threads, SetReady(t) PROVE Entries'
  BY <1>3 DEF SetReady
<1>4. CASE Notify
  BY <1>4 DEF Notify
<1>5. ASSUME NEW n \in Times, Advance(n) PROVE Entries'
  BY <1>5 DEF Advance
<1>6. CASE Settle \/ SettleGivesUp \/ EndTurn \/ Close \/ UNCHANGED clockVars
  BY <1>6 DEF Settle, SettleGivesUp, EndTurn, Close, clockVars
<1> QED
  BY <1>1, <1>2, <1>3, <1>4, <1>5, <1>6 DEF Next, DriverStep

LEMMA StepLooked ==
  ASSUME IInv, [Next]_clockVars
  PROVE  LookedKnows' /\ NoLostNotify'
<1> USE DEF IInv, TypeOK, LookedKnows, NoLostNotify
<1>1. ASSUME NEW t \in Threads, ClockStep(t) PROVE LookedKnows' /\ NoLostNotify'
  <2>1. CASE Park(t)
    BY <2>1 DEF Park
  <2>2. CASE WakeUp(t) \/ Unpark(t) \/ LookAgain(t)
    BY <2>2 DEF WakeUp, Unpark, LookAgain
  <2>3. CASE LookReady(t)
    BY <2>3 DEF LookReady, Return
  <2>4. CASE StopWaiting(t)
    BY <2>4 DEF StopWaiting, Return
  <2>5. CASE ReadNotified(t)
    BY <2>5 DEF ReadNotified
  <2>6. CASE LookInVain(t)
    BY <2>6 DEF LookInVain
  <2> QED
    BY <1>1, <2>1, <2>2, <2>3, <2>4, <2>5, <2>6 DEF ClockStep
<1>2. ASSUME NEW t \in Threads, UserStep(t) PROVE LookedKnows' /\ NoLostNotify'
  <2>1. UNCHANGED <<waiting, notified, seen, ready, owed>>
    BY <1>2 DEF UserStep, Start, Finish, SleepUntil, WaitFor, Block, Unblock, PanicBlocked
  <2>2. \A s \in Threads : at'[s] \in {"looked", "parked"} => at'[s] = at[s]
    BY <1>2 DEF UserStep, Start, Finish, SleepUntil, WaitFor, Block, Unblock, PanicBlocked
  <2> QED
    BY <2>1, <2>2
<1>3. ASSUME NEW t \in Threads, SetReady(t) PROVE LookedKnows' /\ NoLostNotify'
  BY <1>3 DEF SetReady
<1>4. CASE Notify
  BY <1>4 DEF Notify
<1>5. ASSUME NEW n \in Times, Advance(n) PROVE LookedKnows' /\ NoLostNotify'
  BY <1>5 DEF Advance
<1>6. CASE Settle \/ SettleGivesUp \/ EndTurn \/ Close \/ UNCHANGED clockVars
  BY <1>6 DEF Settle, SettleGivesUp, EndTurn, Close, clockVars
<1> QED
  BY <1>1, <1>2, <1>3, <1>4, <1>5, <1>6 DEF Next, DriverStep

\* How the count follows the threads: one more, one less, a disjoint set more, and
\* one less that was not counted.
LEMMA CountOneMore ==
  ASSUME RunningCount, ~closed, running \in Nat, Panicked' = Panicked,
         NEW t \in Threads, t \notin Counted, Counted' = Counted \cup {t},
         running' = running + 1
  PROVE  RunningCount'
<1>1. Cardinality(Counted') = Cardinality(Counted) + 1
  BY CountedFinite, FS_AddElement
<1> QED
  BY <1>1, CountedFinite DEF RunningCount

LEMMA CountOneLess ==
  ASSUME RunningCount, ~closed, running \in Nat, Panicked' = Panicked,
         NEW t \in Threads, t \in Counted, Counted' = Counted \ {t},
         running' = Less
  PROVE  RunningCount'
<1>1. Cardinality(Counted) # 0
  BY CountedFinite, FS_EmptySet
<1>2. Cardinality(Counted') = Cardinality(Counted) - 1
  BY CountedFinite, FS_RemoveElement
<1> QED
  BY <1>1, <1>2, CountedFinite DEF RunningCount, Less

LEMMA CountMore ==
  ASSUME RunningCount, ~closed, running \in Nat, Panicked' = Panicked,
         NEW S \in SUBSET Threads, S \cap Counted = {}, Counted' = Counted \cup S,
         running' = running + Cardinality(S)
  PROVE  RunningCount'
<1>1. IsFiniteSet(S) /\ Cardinality(S) \in Nat
  BY FinitePart
<1>2. Cardinality(Counted \cap S) = 0
  BY FS_EmptySet
<1>3. Cardinality(Counted \cup S) = Cardinality(Counted) + Cardinality(S)
  <2>1. Cardinality(Counted \cup S)
          = Cardinality(Counted) + Cardinality(S) - Cardinality(Counted \cap S)
    BY <1>1, CountedFinite, FS_Union
  <2> QED
    BY <1>1, <1>2, <2>1, CountedFinite
<1> QED
  BY <1>1, <1>3, CountedFinite DEF RunningCount

LEMMA CountPanicked ==
  ASSUME RunningCount, ~closed, running \in Nat, Counted' = Counted,
         NEW t \in Threads, t \notin Panicked, Panicked' = Panicked \cup {t},
         running' = Less
  PROVE  RunningCount'
<1>1. Cardinality(Panicked') = Cardinality(Panicked) + 1
  BY CountedFinite, FS_AddElement
<1> QED
  BY <1>1, CountedFinite DEF RunningCount, Less

LEMMA CountSame ==
  ASSUME RunningCount, ~closed, Counted' = Counted, Panicked' = Panicked,
         running' = running
  PROVE  RunningCount'
BY DEF RunningCount

LEMMA StepCount ==
  ASSUME IInv, [Next]_clockVars
  PROVE  RunningCount'
<1> SUFFICES ASSUME ~closed' PROVE RunningCount'
  BY DEF RunningCount
<1> USE DEF IInv, TypeOK, Entries
<1>0. ~closed
  BY DEF Next, ClockStep, WakeUp, ReadNotified, LookReady, LookInVain, StopWaiting,
         LookAgain, Park, Unpark, UserStep, Start, Finish, SleepUntil, WaitFor, Block,
         Unblock, PanicBlocked, SetReady, Notify, DriverStep, Advance, Settle, SettleGivesUp,
         EndTurn, Close, clockVars
<1>1. ASSUME NEW t \in Threads, Start(t) \/ Unblock(t) PROVE RunningCount'
  <2>1. t \notin Counted /\ Counted' = Counted \cup {t} /\ running' = running + 1
    BY <1>1 DEF Start, Unblock, Counted, Active
  <2>2. Panicked' = Panicked
    BY <1>1 DEF Start, Unblock, Panicked
  <2> QED
    BY <1>0, <2>1, <2>2, CountOneMore
<1>2. ASSUME NEW t \in Threads, Finish(t) \/ Block(t) PROVE RunningCount'
  <2>1. t \in Counted /\ Counted' = Counted \ {t} /\ running' = Less
    BY <1>2 DEF Finish, Block, Counted, Active
  <2>2. Panicked' = Panicked
    BY <1>2 DEF Finish, Block, Panicked
  <2> QED
    BY <1>0, <2>1, <2>2, CountOneLess
<1>3. ASSUME NEW t \in Threads, NEW due \in Times, SleepUntil(t, due)
      PROVE  RunningCount'
  <2>1. due # Never
    BY NeverIsLater
  <2>2. t \in Counted /\ Counted' = Counted \ {t} /\ running' = Less
    BY <1>3, <2>1 DEF SleepUntil, Counted, Active
  <2>3. Panicked' = Panicked
    BY <1>3 DEF SleepUntil, Panicked
  <2> QED
    BY <1>0, <2>2, <2>3, CountOneLess
<1>4. ASSUME NEW t \in Threads, Park(t) PROVE RunningCount'
  <2>1. t \in Counted /\ Counted' = Counted \ {t} /\ running' = Less
    BY <1>4 DEF Park, Counted, Active
  <2>2. Panicked' = Panicked
    BY <1>4 DEF Park, Panicked
  <2> QED
    BY <1>0, <2>1, <2>2, CountOneLess
<1>5. CASE Notify
  <2>1. waiting \cap Counted = {}
    BY <1>0 DEF Counted, Active
  <2>2. Counted' = Counted \cup waiting
    BY <1>0, <1>5 DEF Notify, Counted, Active
  <2>3. running' = running + Cardinality(waiting)
    BY <1>5 DEF Notify
  <2>4. Panicked' = Panicked
    BY <1>5 DEF Notify, Panicked
  <2> QED
    BY <1>0, <2>1, <2>2, <2>3, <2>4, CountMore
<1>6. ASSUME NEW n \in Times, Advance(n) PROVE RunningCount'
  <2>1. \A t \in Due(n) : /\ t \in Threads
                          /\ asleep[t] # Never
                          /\ at[t] = "sleeping" \/ (at[t] = "parked" /\ t \in waiting)
    BY <1>0, NeverIsLater DEF Due
  <2>2. Due(n) \in SUBSET Threads /\ Due(n) \cap Counted = {}
    BY <2>1 DEF Due, Counted, Active
  <2>3. \A t \in Threads : Active(t)' <=> Active(t) \/ t \in Due(n)
    <3> TAKE t \in Threads
    <3>1. at'[t] = at[t]
      BY <1>6 DEF Advance
    <3>2. asleep'[t] = IF t \in Due(n) THEN Never ELSE asleep[t]
      BY <1>6 DEF Advance
    <3>3. t \in waiting' <=> t \in waiting /\ t \notin Due(n)
      BY <1>6 DEF Advance
    <3> QED
      BY <2>1, <3>1, <3>2, <3>3 DEF Active
  <2>4. Counted' = Counted \cup Due(n)
    BY <2>2, <2>3 DEF Counted
  <2>5. running' = running + Cardinality(Due(n))
    BY <1>6 DEF Advance
  <2>6. Panicked' = Panicked
    BY <1>6 DEF Advance, Panicked
  <2> QED
    BY <1>0, <2>2, <2>4, <2>5, <2>6, CountMore
<1>7. ASSUME NEW t \in Threads,
             \/ WakeUp(t) \/ ReadNotified(t) \/ LookReady(t) \/ LookInVain(t)
             \/ StopWaiting(t) \/ LookAgain(t) \/ Unpark(t)
             \/ \E due \in Times \cup {Never} : WaitFor(t, due)
      PROVE  RunningCount'
  <2>1. running' = running
    BY <1>7 DEF WakeUp, ReadNotified, LookReady, LookInVain, StopWaiting, LookAgain,
                Unpark, WaitFor
  <2>2. /\ asleep' = asleep /\ waiting' = waiting
        /\ \A s \in Threads \ {t} : at'[s] = at[s]
        /\ at'[t] \in {"running", "entering", "looking", "looked"}
        /\ Active(t)
    BY <1>0, <1>7 DEF WakeUp, ReadNotified, LookReady, LookInVain, StopWaiting,
                      LookAgain, Unpark, WaitFor, Return, Active
  <2>3. Counted' = Counted
    BY <2>2 DEF Counted, Active
  <2>4. at[t] # "panicked" /\ at'[t] # "panicked"
    BY <2>2 DEF Active
  <2>5. Panicked' = Panicked
    BY <2>2, <2>4 DEF Panicked
  <2> QED
    BY <1>0, <2>1, <2>3, <2>5, CountSame
<1>8. CASE UNCHANGED <<at, asleep, waiting, running>>
  <2>1. Counted' = Counted
    BY <1>8 DEF Counted, Active
  <2>2. Panicked' = Panicked
    BY <1>8 DEF Panicked
  <2> QED
    BY <1>0, <1>8, <2>1, <2>2, CountSame
<1>9. ASSUME NEW t \in Threads, SetReady(t)
      PROVE  UNCHANGED <<at, asleep, waiting, running>>
  BY <1>9 DEF SetReady
<1>10. CASE Settle \/ SettleGivesUp \/ EndTurn \/ Close \/ UNCHANGED clockVars
  BY <1>8, <1>10 DEF Settle, SettleGivesUp, EndTurn, Close, clockVars
<1>11. ASSUME NEW t \in Threads, PanicBlocked(t) PROVE RunningCount'
  <2>1. Counted' = Counted /\ running' = Less
    BY <1>11 DEF PanicBlocked, Counted, Active
  <2>2. t \notin Panicked /\ Panicked' = Panicked \cup {t}
    BY <1>11 DEF PanicBlocked, Panicked
  <2> QED
    BY <1>0, <2>1, <2>2, CountPanicked
<1> QED
  BY <1>1, <1>2, <1>3, <1>4, <1>5, <1>6, <1>7, <1>8, <1>9, <1>10, <1>11
     DEF Next, ClockStep, UserStep, DriverStep

LEMMA StepClosed ==
  ASSUME IInv, [Next]_clockVars
  PROVE  ClosedIsIdle'
BY DEF IInv, ClosedIsIdle, Next, ClockStep, WakeUp, ReadNotified, LookReady, LookInVain,
       StopWaiting, LookAgain, Park, Unpark, UserStep, Start, Finish, SleepUntil,
       WaitFor, Block, Unblock, PanicBlocked, SetReady, Notify, DriverStep, Advance, Settle,
       SettleGivesUp, EndTurn, Close, clockVars

\* In every reachable state entries, tickets and the count agree with where threads are.
THEOREM Invariance == Spec => []IInv
<1>1. IInv /\ [Next]_clockVars => IInv'
  BY StepType, StepOverslept, StepEntries, StepCount, StepLooked, StepClosed DEF IInv
<1> QED
  BY InitInv, <1>1, PTL DEF Spec

\* The types of the clock's state, which the other proofs rest on.
THEOREM TypeCorrect == Spec => []TypeOK
BY Invariance, PTL DEF IInv

\* Advance, notify, the timeout and the threads themselves count every thread they
\* put to sleep or wake exactly once: `running` is never too high, and too low by no
\* more than the threads that panicked inside `blocking`.
THEOREM CountIsBounded == Spec => []RunningCount
BY Invariance, PTL DEF IInv

\* As long as no thread panics inside `blocking`, `running` is exact.
THEOREM ExactWithoutPanic == Spec => [](Panicked = {} => CountIsExact)
<1>1. IInv => (Panicked = {} => CountIsExact)
  <2> SUFFICES ASSUME IInv, Panicked = {}, ~closed PROVE running = Cardinality(Counted)
    BY DEF CountIsExact
  <2>1. Cardinality(Panicked) = 0
    BY FS_EmptySet
  <2> QED
    BY <2>1, CountedFinite DEF IInv, TypeOK, RunningCount
<1> QED
  BY <1>1, Invariance, PTL

\* No thread sleeps past its time.
THEOREM WokenInTime == Spec => []NoneOverslept
BY Invariance, PTL DEF IInv

\* A notification between a thread's look and its going to sleep is not lost.
THEOREM NotifyIsSeen == Spec => []NoLostNotify
BY Invariance, PTL DEF IInv

LEMMA QuietWhenSettled ==
  ASSUME IInv, [Next]_clockVars, driver = "settling", driver' = "settled"
  PROVE  Cardinality(Counted) <= Cardinality(Panicked)
<1>1. Settle
  BY DEF Next, ClockStep, WakeUp, ReadNotified, LookReady, LookInVain, StopWaiting,
         LookAgain, Park, Unpark, UserStep, Start, Finish, SleepUntil, WaitFor, Block,
         Unblock, PanicBlocked, SetReady, Notify, DriverStep, Advance, SettleGivesUp, EndTurn, Close,
         clockVars
<1>2. ~closed
  BY DEF IInv, ClosedIsIdle
<1> QED
  BY <1>1, <1>2, CountedFinite DEF Settle, IInv, RunningCount

\* When `settle` returns in time, no thread runs or has been woken, but as many as
\* panicked inside `blocking` may.
THEOREM SettledIsQuiet == Spec => SettleIsQuiet
<1>1. IInv /\ [Next]_clockVars
      => [driver = "settling" /\ driver' = "settled"
            => Cardinality(Counted) <= Cardinality(Panicked)]_clockVars
  BY QuietWhenSettled
<1> QED
  BY Invariance, <1>1, PTL DEF Spec, SettleIsQuiet
-----------------------------------------------------------------------------
(* The signals.                                                             *)

\* The latest signals' own part of LTypeOK.
LatestTypeOK ==
  /\ sendAt \in [Threads -> {"none", "storing", "swapping", "posting"}]
  /\ made \in [Threads -> Nat]
  /\ slot \in [Threads -> Nat]
  /\ queued \in [Threads -> BOOLEAN]
  /\ gone \in [Threads -> BOOLEAN]
  /\ inbox \in Seq(Threads)
  /\ open \in BOOLEAN
  /\ taking \in Threads \cup {Nobody}
  /\ shown \in [Threads -> Nat]

InInbox(t) == \E i \in DOMAIN inbox : inbox[i] = t

\* A thread is inside `send` only while it runs.
SendRuns == \A t \in Threads : sendAt[t] # "none" => at[t] = "running"

\* The newest value is in the slot, or already shown, except before it is stored;
\* what waits is newer than what is shown.
Newest ==
  \A t \in Threads :
    /\ shown[t] <= made[t]
    /\ sendAt[t] = "storing" => shown[t] < made[t] /\ slot[t] < made[t]
    /\ sendAt[t] # "storing" => slot[t] = made[t] \/ (slot[t] = 0 /\ shown[t] = made[t])
    /\ slot[t] # 0 => shown[t] < slot[t]

\* A value in a slot has its delivery, but before the thread asks for one.
Carried ==
  \A t \in Threads :
    (slot[t] # 0 /\ sendAt[t] # "swapping") => queued[t] \/ taking = t

OneDelivery ==
  /\ \A i, j \in DOMAIN inbox : inbox[i] = inbox[j] => i = j
  /\ \A t \in Threads : InInbox(t) => queued[t] /\ sendAt[t] # "posting"
  /\ \A t \in Threads : sendAt[t] = "posting" => queued[t]

OnItsWay ==
  \A t \in Threads :
    (queued[t] /\ sendAt[t] # "posting") => IF open THEN InInbox(t) ELSE gone[t]

\* Deliveries run in the rest of a turn, and the inbox goes with the app.
AppEnds ==
  /\ taking # Nobody => InTurn
  /\ ~open => closed /\ inbox = <<>>

LatestInv ==
  /\ LatestTypeOK
  /\ SendRuns
  /\ Newest
  /\ Carried
  /\ OneDelivery
  /\ OnItsWay
  /\ AppEnds

LIInv == IInv /\ LatestInv
-----------------------------------------------------------------------------
\* Every step is a step of the clock's, or leaves the clock alone.
LEMMA StepOfClock == LNext => [Next]_clockVars
BY DEF LNext, Clock, BeginSend, SendStep, Store, Swap, Post, Device, Turn, Deliver,
       Take, DropInbox, Next

\* The threads of the signals are threads of the clock: whatever holds of every
\* behaviour of the clock holds of theirs.
THEOREM KeepsToClock == LSpec => Spec
<1>1. LInit => Init
  BY DEF LInit
<1>2. [LNext]_vars => [Next]_clockVars
  BY StepOfClock DEF vars
<1> QED
  BY <1>1, <1>2, PTL DEF LSpec, Spec

LEMMA ClockInv == LSpec => []IInv
BY KeepsToClock, Invariance, PTL

LEMMA InitLatest == LInit => LatestInv
<1> SUFFICES ASSUME LInit PROVE LatestInv
  OBVIOUS
<1> USE DEF LInit
<1>1. LatestTypeOK
  BY EmptySeq DEF LatestTypeOK
<1>2. DOMAIN inbox = {}
  BY EmptySeq
<1>3. SendRuns /\ Newest /\ Carried
  BY DEF SendRuns, Newest, Carried
<1>4. OneDelivery /\ OnItsWay /\ AppEnds
  BY <1>2 DEF OneDelivery, OnItsWay, AppEnds, InInbox
<1> QED
  BY <1>1, <1>3, <1>4 DEF LatestInv
-----------------------------------------------------------------------------
\* A step of the clock's, the device's or the turn's: it moves no value, no thread
\* inside send, and no turn on before its deliveries have run.
LEMMA ClockLeavesLatest ==
  ASSUME LIInv, UNCHANGED latestVars,
         \A t \in Threads : sendAt[t] # "none" => at'[t] = at[t],
         closed => closed',
         taking # Nobody /\ InTurn => InTurn'
  PROVE  LatestInv'
<1> USE DEF LIInv, LatestInv, latestVars
<1>1. LatestTypeOK' /\ Newest' /\ Carried' /\ OneDelivery' /\ OnItsWay'
  BY DEF LatestTypeOK, Newest, Carried, OneDelivery, OnItsWay, InInbox
<1>2. SendRuns'
  BY DEF SendRuns
<1>3. AppEnds'
  BY DEF AppEnds
<1> QED
  BY <1>1, <1>2, <1>3

LEMMA ClockPart ==
  ASSUME LIInv, NEW t \in Threads, Clock(t)
  PROVE  LatestInv'
<1> USE DEF LIInv, IInv, TypeOK
<1>1. UNCHANGED <<latestVars, closed, driver>> /\ sendAt[t] = "none"
  BY DEF Clock, ClockStep, UserStep, WakeUp, ReadNotified, LookReady, LookInVain,
         StopWaiting, LookAgain, Park, Unpark, Start, Finish, SleepUntil, WaitFor,
         Block, Unblock, PanicBlocked
<1>2. \A s \in Threads : s # t => at'[s] = at[s]
  BY DEF Clock, ClockStep, UserStep, WakeUp, ReadNotified, LookReady, LookInVain,
         StopWaiting, LookAgain, Park, Unpark, Start, Finish, SleepUntil, WaitFor,
         Block, Unblock, PanicBlocked, Return
<1> QED
  BY <1>1, <1>2, ClockLeavesLatest DEF InTurn

LEMMA DevicePart ==
  ASSUME LIInv, Device
  PROVE  LatestInv'
<1>1. UNCHANGED <<latestVars, at, closed, driver>>
  BY DEF Device, Notify, SetReady
<1> QED
  BY <1>1, ClockLeavesLatest DEF InTurn

LEMMA TurnPart ==
  ASSUME LIInv, Turn
  PROVE  LatestInv'
<1>1. UNCHANGED <<latestVars, at>> /\ (closed => closed')
  BY DEF Turn, DriverStep, Advance, Settle, SettleGivesUp, EndTurn, Close
<1>2. taking # Nobody /\ InTurn => InTurn'
  BY DEF Turn, DriverStep, Advance, Settle, SettleGivesUp, EndTurn, Close, InTurn
<1> QED
  BY <1>1, <1>2, ClockLeavesLatest
-----------------------------------------------------------------------------
LEMMA BeginSendPart ==
  ASSUME LIInv, NEW t \in Threads, BeginSend(t)
  PROVE  LatestInv'
<1> USE DEF LIInv, LatestInv, LatestTypeOK, BeginSend, clockVars
<1>1. LatestTypeOK' /\ SendRuns'
  BY DEF SendRuns
<1>2. Newest'
  BY DEF Newest
<1>3. Carried' /\ OneDelivery' /\ OnItsWay'
  BY DEF Carried, OneDelivery, OnItsWay, InInbox
<1>4. AppEnds'
  BY DEF AppEnds, InTurn
<1> QED
  BY <1>1, <1>2, <1>3, <1>4

LEMMA StorePart ==
  ASSUME LIInv, NEW t \in Threads, Store(t)
  PROVE  LatestInv'
<1> USE DEF LIInv, LatestInv, LatestTypeOK, Store, clockVars
<1>1. LatestTypeOK' /\ SendRuns'
  BY DEF SendRuns
<1>2. Newest'
  BY DEF Newest
<1>3. Carried' /\ OneDelivery' /\ OnItsWay'
  BY DEF Carried, OneDelivery, OnItsWay, InInbox
<1>4. AppEnds'
  BY DEF AppEnds, InTurn
<1> QED
  BY <1>1, <1>2, <1>3, <1>4

LEMMA SwapPart ==
  ASSUME LIInv, NEW t \in Threads, Swap(t)
  PROVE  LatestInv'
<1> USE DEF LIInv, LatestInv, LatestTypeOK, Swap, clockVars
<1>1. LatestTypeOK' /\ SendRuns'
  BY DEF SendRuns
<1>2. Newest' /\ Carried'
  BY DEF Newest, Carried
<1>3. OneDelivery' /\ OnItsWay'
  BY DEF OneDelivery, OnItsWay, InInbox
<1>4. AppEnds'
  BY DEF AppEnds, InTurn
<1> QED
  BY <1>1, <1>2, <1>3, <1>4

\* The delivery goes to the end of the inbox, where the thread had none.
LEMMA PostPart ==
  ASSUME LIInv, NEW t \in Threads, Post(t)
  PROVE  LatestInv'
<1> USE DEF LIInv, LatestInv, LatestTypeOK, Post, clockVars
<1>1. /\ sendAt' = [sendAt EXCEPT ![t] = "none"]
      /\ \A s \in Threads : sendAt'[s] # "none" => sendAt'[s] = sendAt[s]
      /\ UNCHANGED <<clockVars, made, slot, queued, open, taking, shown>>
  OBVIOUS
<1>2. CASE open
  <2>1. inbox' = Append(inbox, t) /\ gone' = gone
    BY <1>2
  <2>2. /\ inbox' \in Seq(Threads)
        /\ DOMAIN inbox' = DOMAIN inbox \cup {Len(inbox) + 1}
        /\ Len(inbox) + 1 \notin DOMAIN inbox
        /\ \A i \in DOMAIN inbox : inbox'[i] = inbox[i]
        /\ inbox'[Len(inbox) + 1] = t
    BY <2>1, Appended
  <2>3. LatestTypeOK' /\ SendRuns' /\ Newest' /\ Carried'
    BY <2>1, <2>2 DEF SendRuns, Newest, Carried
  <2>4. \A s \in Threads : InInbox(s)' <=> InInbox(s) \/ s = t
    BY <2>2 DEF InInbox
  <2>5. ~InInbox(t)
    BY DEF OneDelivery
  <2>6. OneDelivery'
    <3>1. \A i, j \in DOMAIN inbox' : inbox'[i] = inbox'[j] => i = j
      BY <2>2, <2>5 DEF OneDelivery, InInbox
    <3>2. \A s \in Threads : InInbox(s)' => queued'[s] /\ sendAt'[s] # "posting"
      BY <2>4 DEF OneDelivery
    <3>3. \A s \in Threads : sendAt'[s] = "posting" => queued'[s]
      BY DEF OneDelivery
    <3> QED
      BY <3>1, <3>2, <3>3 DEF OneDelivery
  <2>7. OnItsWay'
    BY <1>2, <2>4 DEF OnItsWay
  <2>8. AppEnds'
    BY <1>2 DEF AppEnds, InTurn
  <2> QED
    BY <2>3, <2>6, <2>7, <2>8
<1>3. CASE ~open
  <2>1. gone' = [gone EXCEPT ![t] = TRUE] /\ inbox' = inbox
    BY <1>3
  <2>2. LatestTypeOK' /\ SendRuns' /\ Newest' /\ Carried'
    BY <2>1 DEF SendRuns, Newest, Carried
  <2>3. OneDelivery' /\ OnItsWay'
    BY <1>3, <2>1 DEF OneDelivery, OnItsWay, InInbox
  <2>4. AppEnds'
    BY <2>1 DEF AppEnds, InTurn
  <2> QED
    BY <2>2, <2>3, <2>4
<1> QED
  BY <1>2, <1>3
-----------------------------------------------------------------------------
\* The delivery is the thread's only one: with it out of the inbox and the thread
\* free to ask for another, the value in the slot is the one it takes.
LEMMA DeliverPart ==
  ASSUME LIInv, Deliver
  PROVE  LatestInv'
<1> USE DEF LIInv, LatestInv, LatestTypeOK, Deliver, clockVars
<1> DEFINE t == Head(inbox)
<1>1. /\ t \in Threads
      /\ 1 \in DOMAIN inbox /\ inbox[1] = t
      /\ inbox' \in Seq(Threads)
      /\ \A i \in DOMAIN inbox' :
           i \in Nat /\ i + 1 \in DOMAIN inbox /\ inbox'[i] = inbox[i + 1]
      /\ \A i \in DOMAIN inbox :
           i = 1 \/ (i - 1 \in DOMAIN inbox' /\ inbox'[i - 1] = inbox[i])
  BY TakenOff
<1>2. /\ queued' = [queued EXCEPT ![t] = FALSE] /\ taking' = t /\ taking = Nobody
      /\ UNCHANGED <<clockVars, sendAt, made, slot, gone, open, shown>>
  OBVIOUS
<1>3. DOMAIN inbox \subseteq Nat
  BY LenProperties
<1> HIDE DEF t, Deliver
<1>4. LatestTypeOK' /\ SendRuns' /\ Newest'
  BY <1>1, <1>2 DEF SendRuns, Newest
<1>5. Carried'
  BY <1>1, <1>2, LatestAssumption DEF Carried
<1>6. \A s \in Threads : InInbox(s)' <=> InInbox(s) /\ s # t
  <2>1. ASSUME NEW s \in Threads, InInbox(s)' PROVE InInbox(s) /\ s # t
    <3>1. PICK i \in DOMAIN inbox' : inbox'[i] = s
      BY <2>1 DEF InInbox
    <3>2. i + 1 \in DOMAIN inbox /\ inbox[i + 1] = s /\ i + 1 # 1
      BY <1>1, <1>3, <3>1, i \in Nat /\ i + 1 \in DOMAIN inbox /\ inbox'[i] = inbox[i + 1],
         \A k \in DOMAIN inbox' : k # 0
    <3> QED
      BY <1>1, <3>2 DEF OneDelivery, InInbox
  <2>2. ASSUME NEW s \in Threads, InInbox(s), s # t PROVE InInbox(s)'
    BY <1>1, <2>2 DEF InInbox
  <2> QED
    BY <2>1, <2>2
<1>7. OneDelivery'
  <2>1. \A i, j \in DOMAIN inbox' : inbox'[i] = inbox'[j] => i = j
    <3> SUFFICES ASSUME NEW i \in DOMAIN inbox', NEW j \in DOMAIN inbox',
                        inbox'[i] = inbox'[j]
                 PROVE  i = j
      OBVIOUS
    <3>1. inbox[i + 1] = inbox[j + 1] /\ i + 1 \in DOMAIN inbox /\ j + 1 \in DOMAIN inbox
      BY <1>1
    <3>2. i + 1 = j + 1
      BY <3>1 DEF OneDelivery
    <3> QED
      BY <1>1, <3>2
  <2>2. \A s \in Threads : InInbox(s)' => queued'[s] /\ sendAt'[s] # "posting"
    BY <1>2, <1>6 DEF OneDelivery
  <2>3. InInbox(t)
    BY <1>1 DEF InInbox
  <2>4. \A s \in Threads : sendAt'[s] = "posting" => queued'[s]
    BY <1>1, <1>2, <2>3 DEF OneDelivery
  <2> QED
    BY <2>1, <2>2, <2>4 DEF OneDelivery
<1>8. OnItsWay'
  BY <1>1, <1>2, <1>6 DEF OnItsWay
<1>9. AppEnds'
  <2>1. InTurn /\ inbox # <<>>
    BY DEF Deliver
  <2> QED
    BY <1>2, <2>1 DEF AppEnds, InTurn
<1> QED
  BY <1>4, <1>5, <1>7, <1>8, <1>9

LEMMA TakePart ==
  ASSUME LIInv, Take
  PROVE  LatestInv'
<1> USE DEF LIInv, LatestInv, LatestTypeOK, Take, clockVars
<1>1. taking \in Threads /\ taking' = Nobody /\ inbox' = inbox
  OBVIOUS
<1>2. LatestTypeOK' /\ SendRuns'
  BY <1>1 DEF SendRuns
<1>3. Carried'
  BY <1>1 DEF Carried
<1>4. OneDelivery' /\ OnItsWay'
  BY DEF OneDelivery, OnItsWay, InInbox
<1>5. Newest'
  <2>1. CASE slot[taking] = 0
    BY <1>1, <2>1 DEF Newest
  <2>2. CASE slot[taking] # 0
    <3>1. /\ \A s \in Threads : s # taking => shown'[s] = shown[s] /\ slot'[s] = slot[s]
          /\ shown'[taking] = slot[taking] /\ slot'[taking] = 0
          /\ made' = made /\ sendAt' = sendAt
      BY <1>1, <2>2
    <3>2. slot[taking] \in Nat /\ shown[taking] \in Nat /\ made[taking] \in Nat
      BY <1>1
    <3> HIDE DEF Take, LatestTypeOK
    <3> QED
      BY <1>1, <2>2, <3>1, <3>2 DEF Newest
  <2> QED
    BY <2>1, <2>2
<1>6. AppEnds'
  BY DEF AppEnds, InTurn
<1> QED
  BY <1>2, <1>3, <1>4, <1>5, <1>6

\* Whatever was on its way was in the inbox, and is marked dropped with it.
LEMMA DropInboxPart ==
  ASSUME LIInv, DropInbox
  PROVE  LatestInv'
<1> USE DEF LIInv, LatestInv, LatestTypeOK, DropInbox, clockVars
<1>1. inbox' = <<>> /\ DOMAIN inbox' = {} /\ inbox' \in Seq(Threads)
  BY EmptySeq
<1>2. \A s \in Threads : gone'[s] <=> gone[s] \/ InInbox(s)
  BY DEF InInbox
<1>3. LatestTypeOK' /\ SendRuns' /\ Newest' /\ Carried'
  BY <1>1 DEF SendRuns, Newest, Carried
<1>4. OneDelivery'
  BY <1>1 DEF OneDelivery, InInbox
<1>5. OnItsWay'
  BY <1>2 DEF OnItsWay
<1>6. AppEnds'
  BY <1>1 DEF AppEnds, InTurn
<1> QED
  BY <1>3, <1>4, <1>5, <1>6
-----------------------------------------------------------------------------
LEMMA LatestNats ==
  ASSUME LatestTypeOK, NEW t \in Threads
  PROVE  made[t] \in Nat /\ slot[t] \in Nat /\ shown[t] \in Nat
BY DEF LatestTypeOK

LEMMA LatestStep == LIInv /\ [LNext]_vars => LatestInv'
<1> SUFFICES ASSUME LIInv, [LNext]_vars PROVE LatestInv'
  OBVIOUS
<1>1. ASSUME NEW t \in Threads, SendStep(t) PROVE LatestInv'
  BY <1>1, StorePart, SwapPart, PostPart DEF SendStep
<1>2. CASE UNCHANGED vars
  <2>1. UNCHANGED <<latestVars, at, closed, driver>>
    BY <1>2 DEF vars, clockVars
  <2> QED
    BY <2>1, ClockLeavesLatest DEF InTurn
<1> QED
  BY <1>1, <1>2, ClockPart, BeginSendPart, DevicePart, TurnPart, DeliverPart, TakePart,
     DropInboxPart DEF LNext

\* With the clock's invariant, the signals' holds in every reachable state: where a
\* value is between `send` and the effect that shows it.
THEOREM LatestInvariance == LSpec => []LIInv
<1>1. LIInv /\ [LNext]_vars => LatestInv'
  BY LatestStep
<1>2. LInit => LatestInv
  BY InitLatest
<1> QED
  BY <1>1, <1>2, ClockInv, PTL DEF LSpec, LIInv

\* The types of the clock's state and of the signals'.
THEOREM LatestTypeCorrect == LSpec => []LTypeOK
<1>1. LIInv => LTypeOK
  BY DEF LIInv, IInv, LatestInv, LatestTypeOK, LTypeOK
<1> QED
  BY <1>1, LatestInvariance, PTL

\* A value put in the slot while a delivery empties it still gets a delivery.
THEOREM NoneStranded == LSpec => []NothingStranded
<1>1. LIInv => NothingStranded
  <2> SUFFICES ASSUME LIInv, NEW t \in Threads, open, inbox = <<>>, taking = Nobody,
                      sendAt[t] = "none"
               PROVE  shown[t] = made[t]
    BY DEF NothingStranded
  <2>1. ~queued[t]
    BY EmptySeq DEF LIInv, LatestInv, OnItsWay, InInbox
  <2>2. slot[t] = 0
    BY <2>1, LatestAssumption DEF LIInv, LatestInv, Carried
  <2> QED
    BY <2>2, LatestNats DEF LIInv, LatestInv, Newest
<1> QED
  BY <1>1, LatestInvariance, PTL

\* A thread whose delivery was dropped with the app's inbox learns it from `send`.
THEOREM ToldWhenGone == LSpec => []GoneIsTold
<1>1. LIInv => GoneIsTold
  BY DEF LIInv, LatestInv, OnItsWay, GoneIsTold
<1> QED
  BY <1>1, LatestInvariance, PTL

\* No delivery shows an older value than one already shown.
THEOREM NewestIsShown == LSpec => NewestWins
<1>1. LIInv /\ [LNext]_vars => [\A t \in Threads : shown'[t] >= shown[t]]_vars
  <2> SUFFICES ASSUME LIInv, LNext, NEW t \in Threads
               PROVE  shown'[t] >= shown[t]
    OBVIOUS
  <2> USE DEF LIInv, LatestInv, LatestTypeOK
  <2>1. Take \/ shown' = shown
    BY DEF LNext, Clock, BeginSend, SendStep, Store, Swap, Post, Device, Turn, Deliver,
           DropInbox, latestVars
  <2>2. CASE Take
    <3>1. shown'[t] = shown[t] \/ (shown'[t] = slot[t] /\ slot[t] # 0)
      BY <2>2 DEF Take
    <3> QED
      BY <3>1, LatestNats DEF Newest
  <2> QED
    BY <2>1, <2>2
<1> QED
  BY <1>1, LatestInvariance, PTL DEF LSpec, NewestWins

\* When the turn goes on, only a thread that runs can have something unsent.
LEMMA UnsentRuns ==
  ASSUME LIInv, driver = "settling", NEW t \in Threads, Unsent(t)
  PROVE  Active(t)
<1> SUFFICES ASSUME sendAt[t] = "none" PROVE FALSE
  BY DEF LIInv, LatestInv, SendRuns, Active
<1> USE DEF LIInv, LatestInv, LatestTypeOK
<1>1. shown[t] # made[t] /\ ~InInbox(t)
  BY DEF Unsent, InInbox
<1>2. open /\ taking = Nobody
  BY DEF AppEnds, InTurn, IInv, ClosedIsIdle
<1>3. queued[t] => InInbox(t)
  BY <1>2 DEF OnItsWay
<1>4. slot[t] # 0 => queued[t]
  BY <1>2, LatestAssumption DEF Carried
<1>5. /\ slot[t] = made[t] \/ (slot[t] = 0 /\ shown[t] = made[t])
      /\ shown[t] <= made[t]
  BY DEF Newest
<1> QED
  BY <1>1, <1>3, <1>4, <1>5, LatestNats

\* When `settle` returns in time, no thread is inside `send`, and every value not
\* yet shown has a delivery in the inbox that the same turn runs; one send may be
\* missed for each thread that panicked inside `blocking`.
THEOREM SentWhenSettled == LSpec => SettledIsSent
<1>1. LIInv /\ [LNext]_vars
      => [driver = "settling" /\ driver' = "settled"
            => Cardinality({t \in Threads : Unsent(t)}) <= Cardinality(Panicked)]_vars
  <2> SUFFICES ASSUME LIInv, LNext, driver = "settling", driver' = "settled"
               PROVE  Cardinality({t \in Threads : Unsent(t)}) <= Cardinality(Panicked)
    OBVIOUS
  <2> DEFINE Late == {t \in Threads : Unsent(t)}
  <2>1. [Next]_clockVars
    BY StepOfClock
  <2>2. Cardinality(Counted) <= Cardinality(Panicked)
    BY <2>1, QuietWhenSettled DEF LIInv
  <2>3. Late \subseteq Counted
    BY UnsentRuns DEF Counted
  <2>4. Cardinality(Late) <= Cardinality(Counted)
    BY <2>3, CountedFinite, FS_Subset
  <2>5. Cardinality(Late) \in Nat
    BY FinitePart
  <2> HIDE DEF Late
  <2>6. Cardinality(Late) <= Cardinality(Panicked)
    BY <2>2, <2>4, <2>5, CountedFinite
  <2> QED
    BY <2>6 DEF Late
<1> QED
  BY <1>1, LatestInvariance, PTL DEF LSpec, SettledIsSent
=============================================================================
