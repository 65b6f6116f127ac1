--------------------------- MODULE WebServerProofs ---------------------------
(***************************************************************************)
(* The counters of WebServer are exact and `stop` leaves no program that   *)
(* was not hung up on and waited for, for any set of connections and any   *)
(* limits.                                                                 *)
(*                                                                         *)
(* The invariant ties each counter to the connections it counts, places    *)
(* the connection the accept loop has in hand, and says what the stopping  *)
(* thread relies on: once it has read a count of zero, no connection is    *)
(* where it serves a program or will start one without reading `stopping`. *)
(***************************************************************************)
EXTENDS WebServer, FiniteSetTheorems, TLAPS

\* 1 for a place in S, 0 for one that is not.
In(v, S) == IF v \in S THEN 1 ELSE 0

\* The accept loop has counted the connection it has in hand.
Admitting == {"refusing", "spawning"}

Counts ==
  /\ sessions = Cardinality(At(Slotted))
  /\ programs = Cardinality(At(Counted))
  /\ pending = Cardinality(At(Unsent)) + In(acceptor, Admitting)

Limits ==
  /\ sessions <= MaxSessions
  /\ Cardinality(At(Unsent)) <= MaxPending
  /\ acceptor = "spawning" => Cardinality(At(Unsent)) < MaxPending

InHand ==
  /\ taken # NoConn => conn[taken] = "taken" /\ acceptor \in {"looking"} \cup Admitting
  /\ acceptor \in Admitting => taken # NoConn

\* What a stopped server rests on.
Ends ==
  /\ handle # "up" => stopping
  /\ \A c \in program : conn[c] \in Playing \/ c \in outlasting
  /\ handle = "down" => \A c \in Conns : conn[c] \notin {"starting"} \cup Playing

IInv == TypeOK /\ Counts /\ Limits /\ InHand /\ Ends

\* A step that moves one connection, and one that moves none in or out of the places
\* that are counted.
Moved(c) ==
  /\ Cardinality(At(Slotted)')
       = Cardinality(At(Slotted)) + In(conn'[c], Slotted) - In(conn[c], Slotted)
  /\ Cardinality(At(Counted)')
       = Cardinality(At(Counted)) + In(conn'[c], Counted) - In(conn[c], Counted)
  /\ Cardinality(At(Unsent)')
       = Cardinality(At(Unsent)) + In(conn'[c], Unsent) - In(conn[c], Unsent)

Kept ==
  At(Slotted)' = At(Slotted) /\ At(Counted)' = At(Counted) /\ At(Unsent)' = At(Unsent)
-----------------------------------------------------------------------------
\* A set of connections is finite, so its count is a number.
LEMMA Finite ==
  ASSUME NEW CONSTANT S
  PROVE  /\ IsFiniteSet(At(S)) /\ Cardinality(At(S)) \in Nat
<1>1. At(S) \subseteq Conns
  BY DEF At
<1>2. IsFiniteSet(At(S))
  BY <1>1, FS_Subset, ServerAssumption DEF ServerAssumption
<1> QED
  BY <1>2, FS_CardinalityType

\* One connection moves from one place to another: what that does to the number
\* of connections in any set of places.
LEMMA MoveOne ==
  ASSUME NEW CONSTANT S, NEW c \in Conns, NEW v,
         DOMAIN conn = Conns,
         conn' = [conn EXCEPT ![c] = v]
  PROVE  Cardinality(At(S)') = Cardinality(At(S)) + In(v, S) - In(conn[c], S)
<1>1. IsFiniteSet(At(S)) /\ Cardinality(At(S)) \in Nat
  BY Finite
<1>2. c \in At(S) <=> conn[c] \in S
  BY DEF At
<1>3. CASE v \in S
  <2>1. At(S)' = At(S) \cup {c}
    BY <1>3 DEF At
  <2>2. Cardinality(At(S) \cup {c})
          = IF c \in At(S) THEN Cardinality(At(S)) ELSE Cardinality(At(S)) + 1
    BY <1>1, FS_AddElement
  <2>3. In(v, S) = 1 /\ In(conn[c], S) = IF c \in At(S) THEN 1 ELSE 0
    BY <1>2, <1>3 DEF In
  <2> QED
    BY <1>1, <2>1, <2>2, <2>3
<1>4. CASE v \notin S
  <2>1. At(S)' = At(S) \ {c}
    BY <1>4 DEF At
  <2>2. Cardinality(At(S) \ {c})
          = IF c \in At(S) THEN Cardinality(At(S)) - 1 ELSE Cardinality(At(S))
    BY <1>1, FS_RemoveElement
  <2>3. In(v, S) = 0 /\ In(conn[c], S) = IF c \in At(S) THEN 1 ELSE 0
    BY <1>2, <1>4 DEF In
  <2> QED
    BY <1>1, <2>1, <2>2, <2>3
<1> QED
  BY <1>3, <1>4

\* The same for the three sets that are counted.
LEMMA Moves ==
  ASSUME TypeOK, NEW c \in Conns, NEW v, conn' = [conn EXCEPT ![c] = v]
  PROVE  Moved(c)
<1>1. DOMAIN conn = Conns /\ conn'[c] = v
  BY DEF TypeOK
<1> QED
  BY <1>1, MoveOne DEF Moved

\* The counts are numbers.
LEMMA Numbers ==
  /\ Cardinality(At(Slotted)) \in Nat
  /\ Cardinality(At(Counted)) \in Nat
  /\ Cardinality(At(Unsent)) \in Nat
  BY Finite

\* A connection in a counted place makes its count positive.
LEMMA Positive ==
  ASSUME NEW CONSTANT S, NEW c \in Conns, conn[c] \in S
  PROVE  Cardinality(At(S)) > 0
<1>1. IsFiniteSet(At(S)) /\ c \in At(S)
  BY Finite DEF At
<1> QED
  BY <1>1, FS_EmptySet, FS_CardinalityType
-----------------------------------------------------------------------------
\* A step moves one connection, or none, and the counters with it.
THEOREM Inductive == Spec => []IInv
<1>1. Init => IInv
  <2> SUFFICES ASSUME Init PROVE IInv
    OBVIOUS
  <2>1. At(Slotted) = {} /\ At(Counted) = {} /\ At(Unsent) = {}
    BY DEF Init, At, Slotted, Counted, Unsent, Playing
  <2>2. TypeOK
    BY ServerAssumption DEF Init, TypeOK, ServerAssumption
  <2>3. Counts /\ Limits
    BY <2>1, FS_EmptySet, ServerAssumption
    DEF Init, Counts, Limits, In, Admitting, ServerAssumption
  <2>4. InHand /\ Ends
    BY DEF Init, InHand, Ends, Admitting
  <2> QED
    BY <2>2, <2>3, <2>4 DEF IInv
<1>2. IInv /\ [Next]_vars => IInv'
  <2> SUFFICES ASSUME IInv, [Next]_vars PROVE IInv'
    OBVIOUS
  <2>1. /\ TypeOK /\ Counts /\ Limits /\ InHand /\ Ends
        /\ MaxPending \in Nat /\ MaxSessions \in Nat /\ NoConn \notin Conns
    BY ServerAssumption DEF IInv, ServerAssumption
  <2>2. /\ Cardinality(At(Slotted)) \in Nat
        /\ Cardinality(At(Counted)) \in Nat
        /\ Cardinality(At(Unsent)) \in Nat
    BY Numbers
  <2> USE DEF Slotted, Counted, Unsent, Playing, Admitting
  <2>3. ASSUME NEW c \in Conns, Connect(c) PROVE IInv'
    <3>1. TypeOK'
      BY <2>1, <2>2, <2>3 DEF TypeOK, Connect, counters, processes, accepting
    <3>2. Moved(c)
      BY <2>1, <2>3, Moves DEF Moved, TypeOK, Connect, counters, processes, accepting
    <3>3. Counts' /\ Limits'
      BY <2>1, <2>2, <2>3, <3>2 DEF Moved, Kept, Counts, Limits, In, TypeOK, InHand, Connect, counters, processes, accepting
    <3>4. InHand' /\ Ends'
      BY <2>1, <2>3 DEF InHand, Ends, TypeOK, Connect, counters, processes, accepting
    <3> QED
      BY <3>1, <3>3, <3>4 DEF IInv
  <2>4. ASSUME NEW c \in Conns, ReadHead(c) PROVE IInv'
    <3>1. TypeOK'
      BY <2>1, <2>2, <2>4 DEF TypeOK, ReadHead, counters, processes, accepting
    <3>2. Moved(c)
      BY <2>1, <2>4, Moves DEF Moved, TypeOK, ReadHead, counters, processes, accepting
    <3>3. Counts' /\ Limits'
      BY <2>1, <2>2, <2>4, <3>2 DEF Moved, Kept, Counts, Limits, In, TypeOK, InHand, ReadHead, counters, processes, accepting
    <3>4. InHand' /\ Ends'
      BY <2>1, <2>4 DEF InHand, Ends, TypeOK, ReadHead, counters, processes, accepting
    <3> QED
      BY <3>1, <3>3, <3>4 DEF IInv
  <2>5. ASSUME NEW c \in Conns, ProgramExits(c) PROVE IInv'
    <3>1. TypeOK'
      BY <2>1, <2>2, <2>5 DEF TypeOK, ProgramExits, counters, processes, accepting
    <3>2. Kept
      BY <2>1, <2>5 DEF Kept, At, TypeOK, InHand, ProgramExits, counters, processes, accepting
    <3>3. Counts' /\ Limits'
      BY <2>1, <2>2, <2>5, <3>2 DEF Moved, Kept, Counts, Limits, In, TypeOK, InHand, ProgramExits, counters, processes, accepting
    <3>4. InHand' /\ Ends'
      BY <2>1, <2>5 DEF InHand, Ends, TypeOK, ProgramExits, counters, processes, accepting
    <3> QED
      BY <3>1, <3>3, <3>4 DEF IInv
  <2>6. ASSUME NEW c \in Conns, PageGoes(c) PROVE IInv'
    <3>1. TypeOK'
      BY <2>1, <2>2, <2>6 DEF TypeOK, PageGoes, counters, processes, accepting
    <3>2. Moved(c)
      BY <2>1, <2>6, Moves DEF Moved, TypeOK, PageGoes, counters, processes, accepting
    <3>3. Counts' /\ Limits'
      BY <2>1, <2>2, <2>6, <3>2 DEF Moved, Kept, Counts, Limits, In, TypeOK, InHand, PageGoes, counters, processes, accepting
    <3>4. InHand' /\ Ends'
      BY <2>1, <2>6 DEF InHand, Ends, TypeOK, PageGoes, counters, processes, accepting
    <3> QED
      BY <3>1, <3>3, <3>4 DEF IInv
  <2>7. ASSUME NEW c \in Conns, ProgramKilled(c) PROVE IInv'
    <3>1. TypeOK'
      BY <2>1, <2>2, <2>7 DEF TypeOK, ProgramKilled, counters, processes, accepting
    <3>2. Kept
      BY <2>1, <2>7 DEF Kept, At, TypeOK, InHand, ProgramKilled, counters, processes, accepting
    <3>3. Counts' /\ Limits'
      BY <2>1, <2>2, <2>7, <3>2 DEF Moved, Kept, Counts, Limits, In, TypeOK, InHand, ProgramKilled, counters, processes, accepting
    <3>4. InHand' /\ Ends'
      BY <2>1, <2>7 DEF InHand, Ends, TypeOK, ProgramKilled, counters, processes, accepting
    <3> QED
      BY <3>1, <3>3, <3>4 DEF IInv
  <2>8. ASSUME NEW c \in Conns, HeadTimesOut(c) PROVE IInv'
    <3> Cardinality(At(Unsent)) > 0
      BY <2>8, Positive DEF HeadTimesOut
    <3> pending - 1 \in Nat
      BY <2>1, <2>2 DEF TypeOK, Counts, In
    <3>1. TypeOK'
      BY <2>1, <2>2, <2>8 DEF TypeOK, HeadTimesOut, Drop, counters, processes, accepting
    <3>2. Moved(c)
      BY <2>1, <2>8, Moves DEF Moved, TypeOK, HeadTimesOut, Drop, counters, processes, accepting
    <3>3. Counts' /\ Limits'
      BY <2>1, <2>2, <2>8, <3>2 DEF Moved, Kept, Counts, Limits, In, TypeOK, InHand, HeadTimesOut, Drop, counters, processes, accepting
    <3>4. InHand' /\ Ends'
      BY <2>1, <2>8 DEF InHand, Ends, TypeOK, HeadTimesOut, Drop, counters, processes, accepting
    <3> QED
      BY <3>1, <3>3, <3>4 DEF IInv
  <2>9. ASSUME NEW c \in Conns, StoppedMeanwhile(c) PROVE IInv'
    <3> Cardinality(At(Unsent)) > 0
      BY <2>9, Positive DEF StoppedMeanwhile
    <3> pending - 1 \in Nat
      BY <2>1, <2>2 DEF TypeOK, Counts, In
    <3>1. TypeOK'
      BY <2>1, <2>2, <2>9 DEF TypeOK, StoppedMeanwhile, Drop, counters, processes, accepting
    <3>2. Moved(c)
      BY <2>1, <2>9, Moves DEF Moved, TypeOK, StoppedMeanwhile, Drop, counters, processes, accepting
    <3>3. Counts' /\ Limits'
      BY <2>1, <2>2, <2>9, <3>2 DEF Moved, Kept, Counts, Limits, In, TypeOK, InHand, StoppedMeanwhile, Drop, counters, processes, accepting
    <3>4. InHand' /\ Ends'
      BY <2>1, <2>9 DEF InHand, Ends, TypeOK, StoppedMeanwhile, Drop, counters, processes, accepting
    <3> QED
      BY <3>1, <3>3, <3>4 DEF IInv
  <2>10. ASSUME NEW c \in Conns, Route(c) PROVE IInv'
    <3>1. TypeOK'
      BY <2>1, <2>2, <2>10 DEF TypeOK, Route, counters, processes, accepting
    <3>2. Moved(c)
      BY <2>1, <2>10, Moves DEF Moved, TypeOK, Route, counters, processes, accepting
    <3>3. Counts' /\ Limits'
      BY <2>1, <2>2, <2>10, <3>2 DEF Moved, Kept, Counts, Limits, In, TypeOK, InHand, Route, counters, processes, accepting
    <3>4. InHand' /\ Ends'
      BY <2>1, <2>10 DEF InHand, Ends, TypeOK, Route, counters, processes, accepting
    <3> QED
      BY <3>1, <3>3, <3>4 DEF IInv
  <2>11. ASSUME NEW c \in Conns, Respond(c) PROVE IInv'
    <3> Cardinality(At(Unsent)) > 0
      BY <2>11, Positive DEF Respond
    <3> pending - 1 \in Nat
      BY <2>1, <2>2 DEF TypeOK, Counts, In
    <3>1. TypeOK'
      BY <2>1, <2>2, <2>11 DEF TypeOK, Respond, Drop, counters, processes, accepting
    <3>2. Moved(c)
      BY <2>1, <2>11, Moves DEF Moved, TypeOK, Respond, Drop, counters, processes, accepting
    <3>3. Counts' /\ Limits'
      BY <2>1, <2>2, <2>11, <3>2 DEF Moved, Kept, Counts, Limits, In, TypeOK, InHand, Respond, Drop, counters, processes, accepting
    <3>4. InHand' /\ Ends'
      BY <2>1, <2>11 DEF InHand, Ends, TypeOK, Respond, Drop, counters, processes, accepting
    <3> QED
      BY <3>1, <3>3, <3>4 DEF IInv
  <2>12. ASSUME NEW c \in Conns, LoadSessions(c) PROVE IInv'
    <3>1. TypeOK'
      BY <2>1, <2>2, <2>12 DEF TypeOK, LoadSessions, counters, processes, accepting
    <3>2. Moved(c)
      BY <2>1, <2>12, Moves DEF Moved, TypeOK, LoadSessions, counters, processes, accepting
    <3>3. Counts' /\ Limits'
      BY <2>1, <2>2, <2>12, <3>2 DEF Moved, Kept, Counts, Limits, In, TypeOK, InHand, LoadSessions, counters, processes, accepting
    <3>4. InHand' /\ Ends'
      BY <2>1, <2>12 DEF InHand, Ends, TypeOK, LoadSessions, counters, processes, accepting
    <3> QED
      BY <3>1, <3>3, <3>4 DEF IInv
  <2>13. ASSUME NEW c \in Conns, NoSlot(c) PROVE IInv'
    <3> Cardinality(At(Unsent)) > 0
      BY <2>13, Positive DEF NoSlot
    <3> pending - 1 \in Nat
      BY <2>1, <2>2 DEF TypeOK, Counts, In
    <3>1. TypeOK'
      BY <2>1, <2>2, <2>13 DEF TypeOK, NoSlot, Drop, counters, processes, accepting
    <3>2. Moved(c)
      BY <2>1, <2>13, Moves DEF Moved, TypeOK, NoSlot, Drop, counters, processes, accepting
    <3>3. Counts' /\ Limits'
      BY <2>1, <2>2, <2>13, <3>2 DEF Moved, Kept, Counts, Limits, In, TypeOK, InHand, NoSlot, Drop, counters, processes, accepting
    <3>4. InHand' /\ Ends'
      BY <2>1, <2>13 DEF InHand, Ends, TypeOK, NoSlot, Drop, counters, processes, accepting
    <3> QED
      BY <3>1, <3>3, <3>4 DEF IInv
  <2>14. ASSUME NEW c \in Conns, TakeSlot(c) PROVE IInv'
    <3>1. TypeOK'
      BY <2>1, <2>2, <2>14 DEF TypeOK, TakeSlot, counters, processes, accepting
    <3>2. Moved(c)
      BY <2>1, <2>14, Moves DEF Moved, TypeOK, TakeSlot, counters, processes, accepting
    <3>3. Counts' /\ Limits'
      BY <2>1, <2>2, <2>14, <3>2 DEF Moved, Kept, Counts, Limits, In, TypeOK, InHand, TakeSlot, counters, processes, accepting
    <3>4. InHand' /\ Ends'
      BY <2>1, <2>14 DEF InHand, Ends, TypeOK, TakeSlot, counters, processes, accepting
    <3> QED
      BY <3>1, <3>3, <3>4 DEF IInv
  <2>15. ASSUME NEW c \in Conns, UpgradeFails(c) PROVE IInv'
    <3> Cardinality(At(Unsent)) > 0 /\ Cardinality(At(Slotted)) > 0
      BY <2>15, Positive DEF UpgradeFails
    <3> pending - 1 \in Nat /\ sessions - 1 \in Nat
      BY <2>1, <2>2 DEF TypeOK, Counts, In
    <3>1. TypeOK'
      BY <2>1, <2>2, <2>15 DEF TypeOK, UpgradeFails, Drop, counters, processes, accepting
    <3>2. Moved(c)
      BY <2>1, <2>15, Moves DEF Moved, TypeOK, UpgradeFails, Drop, counters, processes, accepting
    <3>3. Counts' /\ Limits'
      BY <2>1, <2>2, <2>15, <3>2 DEF Moved, Kept, Counts, Limits, In, TypeOK, InHand, UpgradeFails, Drop, counters, processes, accepting
    <3>4. InHand' /\ Ends'
      BY <2>1, <2>15 DEF InHand, Ends, TypeOK, UpgradeFails, Drop, counters, processes, accepting
    <3> QED
      BY <3>1, <3>3, <3>4 DEF IInv
  <2>16. ASSUME NEW c \in Conns, Upgrade(c) PROVE IInv'
    <3> Cardinality(At(Unsent)) > 0
      BY <2>16, Positive DEF Upgrade
    <3> pending - 1 \in Nat
      BY <2>1, <2>2 DEF TypeOK, Counts, In
    <3>1. TypeOK'
      BY <2>1, <2>2, <2>16 DEF TypeOK, Upgrade, counters, processes, accepting
    <3>2. Moved(c)
      BY <2>1, <2>16, Moves DEF Moved, TypeOK, Upgrade, counters, processes, accepting
    <3>3. Counts' /\ Limits'
      BY <2>1, <2>2, <2>16, <3>2 DEF Moved, Kept, Counts, Limits, In, TypeOK, InHand, Upgrade, counters, processes, accepting
    <3>4. InHand' /\ Ends'
      BY <2>1, <2>16 DEF InHand, Ends, TypeOK, Upgrade, counters, processes, accepting
    <3> QED
      BY <3>1, <3>3, <3>4 DEF IInv
  <2>17. ASSUME NEW c \in Conns, CountProgram(c) PROVE IInv'
    <3>1. TypeOK'
      BY <2>1, <2>2, <2>17 DEF TypeOK, CountProgram, counters, processes, accepting
    <3>2. Moved(c)
      BY <2>1, <2>17, Moves DEF Moved, TypeOK, CountProgram, counters, processes, accepting
    <3>3. Counts' /\ Limits'
      BY <2>1, <2>2, <2>17, <3>2 DEF Moved, Kept, Counts, Limits, In, TypeOK, InHand, CountProgram, counters, processes, accepting
    <3>4. InHand' /\ Ends'
      BY <2>1, <2>17 DEF InHand, Ends, TypeOK, CountProgram, counters, processes, accepting
    <3> QED
      BY <3>1, <3>3, <3>4 DEF IInv
  <2>18. ASSUME NEW c \in Conns, CheckStopping(c) PROVE IInv'
    <3>1. TypeOK'
      BY <2>1, <2>2, <2>18 DEF TypeOK, CheckStopping, counters, processes, accepting
    <3>2. Moved(c)
      BY <2>1, <2>18, Moves DEF Moved, TypeOK, CheckStopping, counters, processes, accepting
    <3>3. Counts' /\ Limits'
      BY <2>1, <2>2, <2>18, <3>2 DEF Moved, Kept, Counts, Limits, In, TypeOK, InHand, CheckStopping, counters, processes, accepting
    <3>4. InHand' /\ Ends'
      BY <2>1, <2>18 DEF InHand, Ends, TypeOK, CheckStopping, counters, processes, accepting
    <3> QED
      BY <3>1, <3>3, <3>4 DEF IInv
  <2>19. ASSUME NEW c \in Conns, StartProgram(c) PROVE IInv'
    <3>1. TypeOK'
      BY <2>1, <2>2, <2>19 DEF TypeOK, StartProgram, counters, processes, accepting
    <3>2. Moved(c)
      BY <2>1, <2>19, Moves DEF Moved, TypeOK, StartProgram, counters, processes, accepting
    <3>3. Counts' /\ Limits'
      BY <2>1, <2>2, <2>19, <3>2 DEF Moved, Kept, Counts, Limits, In, TypeOK, InHand, StartProgram, counters, processes, accepting
    <3>4. InHand' /\ Ends'
      BY <2>1, <2>19 DEF InHand, Ends, TypeOK, StartProgram, counters, processes, accepting
    <3> QED
      BY <3>1, <3>3, <3>4 DEF IInv
  <2>20. ASSUME NEW c \in Conns, StartFails(c) PROVE IInv'
    <3>1. TypeOK'
      BY <2>1, <2>2, <2>20 DEF TypeOK, StartFails, counters, processes, accepting
    <3>2. Moved(c)
      BY <2>1, <2>20, Moves DEF Moved, TypeOK, StartFails, counters, processes, accepting
    <3>3. Counts' /\ Limits'
      BY <2>1, <2>2, <2>20, <3>2 DEF Moved, Kept, Counts, Limits, In, TypeOK, InHand, StartFails, counters, processes, accepting
    <3>4. InHand' /\ Ends'
      BY <2>1, <2>20 DEF InHand, Ends, TypeOK, StartFails, counters, processes, accepting
    <3> QED
      BY <3>1, <3>3, <3>4 DEF IInv
  <2>21. ASSUME NEW c \in Conns, SeesStopping(c) PROVE IInv'
    <3>1. TypeOK'
      BY <2>1, <2>2, <2>21 DEF TypeOK, SeesStopping, counters, processes, accepting
    <3>2. Moved(c)
      BY <2>1, <2>21, Moves DEF Moved, TypeOK, SeesStopping, counters, processes, accepting
    <3>3. Counts' /\ Limits'
      BY <2>1, <2>2, <2>21, <3>2 DEF Moved, Kept, Counts, Limits, In, TypeOK, InHand, SeesStopping, counters, processes, accepting
    <3>4. InHand' /\ Ends'
      BY <2>1, <2>21 DEF InHand, Ends, TypeOK, SeesStopping, counters, processes, accepting
    <3> QED
      BY <3>1, <3>3, <3>4 DEF IInv
  <2>22. ASSUME NEW c \in Conns, End(c) PROVE IInv'
    <3>1. TypeOK'
      BY <2>1, <2>2, <2>22 DEF TypeOK, End, counters, processes, accepting
    <3>2. Moved(c)
      BY <2>1, <2>22, Moves DEF Moved, TypeOK, End, counters, processes, accepting
    <3>3. Counts' /\ Limits'
      BY <2>1, <2>2, <2>22, <3>2 DEF Moved, Kept, Counts, Limits, In, TypeOK, InHand, End, counters, processes, accepting
    <3>4. InHand' /\ Ends'
      BY <2>1, <2>22 DEF InHand, Ends, TypeOK, End, counters, processes, accepting
    <3> QED
      BY <3>1, <3>3, <3>4 DEF IInv
  <2>37. ASSUME NEW c \in Conns, EndGivesUp(c) PROVE IInv'
    <3>1. TypeOK'
      BY <2>1, <2>2, <2>37 DEF TypeOK, EndGivesUp, counters, processes, accepting
    <3>2. Moved(c)
      BY <2>1, <2>37, Moves DEF Moved, TypeOK, EndGivesUp, counters, processes, accepting
    <3>3. Counts' /\ Limits'
      BY <2>1, <2>2, <2>37, <3>2 DEF Moved, Kept, Counts, Limits, In, TypeOK, InHand, EndGivesUp, counters, processes, accepting
    <3>4. InHand' /\ Ends'
      BY <2>1, <2>37 DEF InHand, Ends, TypeOK, EndGivesUp, counters, processes, accepting
    <3> QED
      BY <3>1, <3>3, <3>4 DEF IInv
  <2>23. ASSUME NEW c \in Conns, Uncount(c) PROVE IInv'
    <3> Cardinality(At(Counted)) > 0
      BY <2>23, Positive DEF Uncount
    <3> programs - 1 \in Nat
      BY <2>1, <2>2 DEF TypeOK, Counts, In
    <3>1. TypeOK'
      BY <2>1, <2>2, <2>23 DEF TypeOK, Uncount, counters, processes, accepting
    <3>2. Moved(c)
      BY <2>1, <2>23, Moves DEF Moved, TypeOK, Uncount, counters, processes, accepting
    <3>3. Counts' /\ Limits'
      BY <2>1, <2>2, <2>23, <3>2 DEF Moved, Kept, Counts, Limits, In, TypeOK, InHand, Uncount, counters, processes, accepting
    <3>4. InHand' /\ Ends'
      BY <2>1, <2>23 DEF InHand, Ends, TypeOK, Uncount, counters, processes, accepting
    <3> QED
      BY <3>1, <3>3, <3>4 DEF IInv
  <2>24. ASSUME NEW c \in Conns, Close(c) PROVE IInv'
    <3> Cardinality(At(Slotted)) > 0
      BY <2>24, Positive DEF Close
    <3> sessions - 1 \in Nat
      BY <2>1, <2>2 DEF TypeOK, Counts, In
    <3>1. TypeOK'
      BY <2>1, <2>2, <2>24 DEF TypeOK, Close, counters, processes, accepting
    <3>2. Moved(c)
      BY <2>1, <2>24, Moves DEF Moved, TypeOK, Close, counters, processes, accepting
    <3>3. Counts' /\ Limits'
      BY <2>1, <2>2, <2>24, <3>2 DEF Moved, Kept, Counts, Limits, In, TypeOK, InHand, Close, counters, processes, accepting
    <3>4. InHand' /\ Ends'
      BY <2>1, <2>24 DEF InHand, Ends, TypeOK, Close, counters, processes, accepting
    <3> QED
      BY <3>1, <3>3, <3>4 DEF IInv
  <2>25. ASSUME Incoming PROVE IInv'
    <3>1. /\ acceptor = "waiting" /\ acceptor' = "looking" /\ taken = NoConn
          /\ UNCHANGED <<loaded, pending, sessions, programs, stopping, program, outlasting, woken, handle>>
      BY <2>1, <2>25 DEF Incoming, InHand, counters, processes
    <3>2. CASE \E c \in At({"queued"}) : taken' = c /\ conn' = [conn EXCEPT ![c] = "taken"]
      <4>1. PICK c \in Conns : /\ conn[c] = "queued" /\ taken' = c
                               /\ conn' = [conn EXCEPT ![c] = "taken"]
        BY <3>2 DEF At
      <4>2. TypeOK'
        BY <2>1, <3>1, <4>1 DEF TypeOK
      <4>3. Kept
        BY <2>1, <4>1 DEF Kept, At, TypeOK
      <4>4. Counts' /\ Limits'
        BY <2>1, <3>1, <4>3 DEF Moved, Kept, Counts, Limits, In
      <4>5. InHand' /\ Ends'
        BY <2>1, <3>1, <4>1 DEF InHand, Ends, TypeOK
      <4> QED
        BY <4>2, <4>4, <4>5 DEF IInv
    <3>3. CASE UNCHANGED <<taken, conn>>
      <4>1. Kept
        BY <3>3 DEF Kept, At
      <4> QED
        BY <2>1, <3>1, <3>3, <4>1 DEF IInv, Kept, TypeOK, Counts, Limits, In, InHand, Ends
    <3> QED
      BY <2>25, <3>2, <3>3 DEF Incoming
  <2>26. ASSUME IncomingFails PROVE IInv'
    <3>1. TypeOK'
      BY <2>1, <2>2, <2>26 DEF TypeOK, IncomingFails, counters, processes, accepting
    <3>2. Kept
      BY <2>1, <2>26 DEF Kept, At, TypeOK, InHand, IncomingFails, counters, processes, accepting
    <3>3. Counts' /\ Limits'
      BY <2>1, <2>2, <2>26, <3>2 DEF Moved, Kept, Counts, Limits, In, TypeOK, InHand, IncomingFails, counters, processes, accepting
    <3>4. InHand' /\ Ends'
      BY <2>1, <2>26 DEF InHand, Ends, TypeOK, IncomingFails, counters, processes, accepting
    <3> QED
      BY <3>1, <3>3, <3>4 DEF IInv
  <2>27. ASSUME StopAccepting PROVE IInv'
    <3>1. TypeOK'
      BY <2>1, <2>2, <2>27 DEF TypeOK, StopAccepting, counters, processes, accepting
    <3>2. Kept
      BY <2>1, <2>27 DEF Kept, At, TypeOK, InHand, StopAccepting, counters, processes, accepting
    <3>3. Counts' /\ Limits'
      BY <2>1, <2>2, <2>27, <3>2 DEF Moved, Kept, Counts, Limits, In, TypeOK, InHand, StopAccepting, counters, processes, accepting
    <3>4. InHand' /\ Ends'
      BY <2>1, <2>27 DEF InHand, Ends, TypeOK, StopAccepting, counters, processes, accepting
    <3> QED
      BY <3>1, <3>3, <3>4 DEF IInv
  <2>28. ASSUME AcceptNothing PROVE IInv'
    <3>1. TypeOK'
      BY <2>1, <2>2, <2>28 DEF TypeOK, AcceptNothing, counters, processes, accepting
    <3>2. Kept
      BY <2>1, <2>28 DEF Kept, At, TypeOK, InHand, AcceptNothing, counters, processes, accepting
    <3>3. Counts' /\ Limits'
      BY <2>1, <2>2, <2>28, <3>2 DEF Moved, Kept, Counts, Limits, In, TypeOK, InHand, AcceptNothing, counters, processes, accepting
    <3>4. InHand' /\ Ends'
      BY <2>1, <2>28 DEF InHand, Ends, TypeOK, AcceptNothing, counters, processes, accepting
    <3> QED
      BY <3>1, <3>3, <3>4 DEF IInv
  <2>29. ASSUME CountPending PROVE IInv'
    <3>1. TypeOK'
      BY <2>1, <2>2, <2>29 DEF TypeOK, CountPending, counters, processes, accepting
    <3>2. Kept
      BY <2>1, <2>29 DEF Kept, At, TypeOK, InHand, CountPending, counters, processes, accepting
    <3>3. Counts' /\ Limits'
      BY <2>1, <2>2, <2>29, <3>2 DEF Moved, Kept, Counts, Limits, In, TypeOK, InHand, CountPending, counters, processes, accepting
    <3>4. InHand' /\ Ends'
      BY <2>1, <2>29 DEF InHand, Ends, TypeOK, CountPending, counters, processes, accepting
    <3> QED
      BY <3>1, <3>3, <3>4 DEF IInv
  <2>30. ASSUME Release PROVE IInv'
    <3>1. taken \in Conns /\ conn[taken] = "taken"
      BY <2>1, <2>30 DEF TypeOK, InHand, Release
    <3>2. pending - 1 \in Nat
      BY <2>1, <2>2, <2>30 DEF TypeOK, Counts, In, Release
    <3>3. TypeOK'
      BY <2>1, <2>30, <3>1, <3>2 DEF TypeOK, Release, processes
    <3>4. Kept
      BY <2>1, <2>30, <3>1 DEF Kept, At, TypeOK, Release
    <3>5. Counts' /\ Limits'
      BY <2>1, <2>2, <2>30, <3>4 DEF Moved, Kept, Counts, Limits, In, TypeOK, Release
    <3>6. InHand' /\ Ends'
      BY <2>1, <2>30, <3>1 DEF InHand, Ends, TypeOK, Release, processes
    <3> QED
      BY <3>3, <3>5, <3>6 DEF IInv
  <2>31. ASSUME SpawnConnection PROVE IInv'
    <3> DEFINE c == taken
    <3>1. /\ c \in Conns /\ conn[c] = "taken"
          /\ conn' = [conn EXCEPT ![c] = "reading"]
          /\ acceptor = "spawning" /\ acceptor' = "waiting" /\ taken' = NoConn
          /\ UNCHANGED <<loaded, pending, sessions, programs, stopping, program, outlasting, woken, handle>>
      BY <2>1, <2>31 DEF TypeOK, InHand, SpawnConnection, counters, processes
    <3> HIDE DEF c
    <3>2. /\ TypeOK' /\ conn'[c] = "reading"
      BY <2>1, <3>1 DEF TypeOK
    <3>3. Moved(c)
      BY <2>1, <3>1, <3>2, Moves DEF Moved
    <3>4. Counts' /\ Limits'
      BY <2>1, <2>2, <3>1, <3>2, <3>3 DEF Moved, Kept, Counts, Limits, In, TypeOK
    <3>5. InHand' /\ Ends'
      BY <2>1, <3>1 DEF InHand, Ends, TypeOK
    <3> QED
      BY <3>2, <3>4, <3>5 DEF IInv
  <2>32. ASSUME Stop PROVE IInv'
    <3>1. TypeOK'
      BY <2>1, <2>2, <2>32 DEF TypeOK, Stop, counters, processes, accepting
    <3>2. Kept
      BY <2>1, <2>32 DEF Kept, At, TypeOK, InHand, Stop, counters, processes, accepting
    <3>3. Counts' /\ Limits'
      BY <2>1, <2>2, <2>32, <3>2 DEF Moved, Kept, Counts, Limits, In, TypeOK, InHand, Stop, counters, processes, accepting
    <3>4. InHand' /\ Ends'
      BY <2>1, <2>32 DEF InHand, Ends, TypeOK, Stop, counters, processes, accepting
    <3> QED
      BY <3>1, <3>3, <3>4 DEF IInv
  <2>33. ASSUME WakeAcceptor PROVE IInv'
    <3>1. TypeOK'
      BY <2>1, <2>2, <2>33 DEF TypeOK, WakeAcceptor, counters, processes, accepting
    <3>2. Kept
      BY <2>1, <2>33 DEF Kept, At, TypeOK, InHand, WakeAcceptor, counters, processes, accepting
    <3>3. Counts' /\ Limits'
      BY <2>1, <2>2, <2>33, <3>2 DEF Moved, Kept, Counts, Limits, In, TypeOK, InHand, WakeAcceptor, counters, processes, accepting
    <3>4. InHand' /\ Ends'
      BY <2>1, <2>33 DEF InHand, Ends, TypeOK, WakeAcceptor, counters, processes, accepting
    <3> QED
      BY <3>1, <3>3, <3>4 DEF IInv
  <2>34. ASSUME JoinAcceptor PROVE IInv'
    <3>1. TypeOK'
      BY <2>1, <2>2, <2>34 DEF TypeOK, JoinAcceptor, counters, processes, accepting
    <3>2. Kept
      BY <2>1, <2>34 DEF Kept, At, TypeOK, InHand, JoinAcceptor, counters, processes, accepting
    <3>3. Counts' /\ Limits'
      BY <2>1, <2>2, <2>34, <3>2 DEF Moved, Kept, Counts, Limits, In, TypeOK, InHand, JoinAcceptor, counters, processes, accepting
    <3>4. InHand' /\ Ends'
      BY <2>1, <2>34 DEF InHand, Ends, TypeOK, JoinAcceptor, counters, processes, accepting
    <3> QED
      BY <3>1, <3>3, <3>4 DEF IInv
  <2>35. ASSUME Drained PROVE IInv'
    <3>1. Cardinality(At(Counted)) = 0
      BY <2>1, <2>35 DEF Counts, Drained
    <3>2. At(Counted) = {}
      BY <3>1, Finite, FS_EmptySet
    <3>3. Kept
      BY <2>35 DEF Kept, At, Drained
    <3>4. Ends'
      BY <2>1, <2>35, <3>2 DEF Ends, At, Drained, processes
    <3> QED
      BY <2>1, <2>35, <3>3, <3>4
      DEF IInv, Kept, TypeOK, Counts, Limits, In, InHand, Drained, counters, processes, accepting
  <2>36. CASE UNCHANGED vars
    <3>1. Kept
      BY <2>36 DEF Kept, At, vars
    <3> QED
      BY <2>1, <2>36, <3>1
      DEF IInv, Kept, TypeOK, Counts, Limits, InHand, Ends, vars, counters, processes, accepting
  <2> QED
    BY <2>3, <2>4, <2>5, <2>6, <2>7, <2>8, <2>9, <2>10, <2>11, <2>12, <2>13, <2>14, <2>15, <2>16, <2>17, <2>18, <2>19, <2>20, <2>21, <2>22, <2>23, <2>24, <2>25, <2>26, <2>27, <2>28, <2>29, <2>30, <2>31, <2>32, <2>33, <2>34, <2>35, <2>36, <2>37
    DEF Next, AcceptStep, ConnStep, HandleStep, Environment
<1> QED
  BY <1>1, <1>2, PTL DEF Spec
-----------------------------------------------------------------------------
\* Every variable keeps its type; the counters in particular never go below
\* zero, though the code subtracts without looking.
THEOREM TypeCorrect == Spec => []TypeOK
  BY Inductive, PTL DEF IInv

\* `sessions` is the number of sessions and stays within `max_sessions`, however
\* many threads race in Slot::acquire.
THEOREM SessionsBounded == Spec => []SessionLimit
<1>1. IInv => SessionLimit
  BY DEF IInv, Counts, Limits, SessionLimit
<1> QED
  BY <1>1, Inductive, PTL

\* No more than MAX_PENDING requests are read at once, and every one that ends or
\* becomes a session is uncounted.
THEOREM PendingBounded == Spec => []PendingLimit
<1>1. IInv => PendingLimit
  BY Numbers DEF IInv, Counts, Limits, PendingLimit, In, Admitting
<1> QED
  BY <1>1, Inductive, PTL

\* Both counters of the server at once, as the runs check them.
THEOREM CountsBounded == Spec => []CountsGivenBack
<1>1. SessionLimit /\ PendingLimit => CountsGivenBack
  BY DEF CountsGivenBack
<1> QED
  BY <1>1, SessionsBounded, PendingBounded, PTL

\* When Handle::shutdown has returned no program starts, and the only ones that run
\* are those a session hung up on and gave up on when END_WAIT was over.
THEOREM StopEndsPrograms == Spec => []StoppedIsEnded
<1>1. IInv => StoppedIsEnded
  BY DEF IInv, TypeOK, Ends, StoppedIsEnded
<1> QED
  BY <1>1, Inductive, PTL
=============================================================================
