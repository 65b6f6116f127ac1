-------------------------- MODULE PtySessionProofs --------------------------
(***************************************************************************)
(* Proofs about one program's session, for any windows, limits and rooms,  *)
(* and any amount of output and of input.                                  *)
(*                                                                         *)
(* The exit comes after the output because a turn is only counted, and an  *)
(* end only read, of an empty PTY that no program will write to (Drained), *)
(* and until the session leaves its loop every unit written is somewhere   *)
(* on its way (Accounts).  Input stays in order because each place on its  *)
(* way continues the one before it (Continued).  What the page is owed is  *)
(* bounded because it never says it drew more than it got (Owed).          *)
(***************************************************************************)
EXTENDS PtySession, QueueLemmas

\* The program writes only while it runs, and has the PTY then.
Program ==
  /\ toWrite => prog = "running" /\ made < MaxMade
  /\ tty = "free" => prog = "exited"
  /\ waiter # "poll" => prog = "exited"

\* The reader reads while there is room, and keeps what it read at once.
Room ==
  /\ held # 0 => reader = "keep"
  /\ reader \in {"read", "keep"} => buffer < Limit
  /\ eof <=> reader = "done"

\* Once the waiter has counted a turn, or the reader has read the end, nothing is
\* left in the PTY and nothing will be.
Drained ==
  /\ waited > 0 => waiter # "poll"
  /\ waited > 0 /\ ~eof => reader = "read" /\ ptyOut = 0
  /\ eof /\ ~closed => ptyOut = 0 /\ tty = "free"
  /\ status <=> waiter = "done"
  /\ status => eof \/ waited > 0

\* Every unit the program wrote is on its way, until the session drops some.
Accounts ==
  /\ delivered + buffer + held + ptyOut <= made
  /\ InLoop => delivered + buffer + held + ptyOut = made
  /\ toldExit => delivered = made /\ prog = "exited" /\ ~InLoop

\* A session that has left its loop has hung up on its program.
Ended ==
  /\ ~InLoop => hungUp \/ status
  /\ closed <=> pc = "over"
  /\ EndedOrKilled

\* The units a message says were drawn.
Drawn(i) == IF inbox[i].kind = "shown" THEN inbox[i].units ELSE 0

\* What the page has to draw, and what it says it drew, is not more than it was
\* sent: owed[i] is what it owes when the first i messages have been read.
Owed ==
  \E owed \in [0..Len(inbox) -> 0..unshown] :
    /\ wire <= owed[Len(inbox)]
    /\ \A i \in 1..Len(inbox) : \A j \in i..Len(inbox) : owed[i - 1] >= owed[j] + Drawn(i)

\* The host counts the input it has, and the session holds one input at most.
Counted ==
  /\ writer = "live" => queued = Len(keys) + Len(sending)
  /\ Len(sending) <= 1 /\ Len(waiting) <= 1
  /\ sending # <<>> => pc \in {"send", "resend"}
  /\ waiting # <<>> => pc \in {"turn", "input"}
  /\ page = "open" => Len(inbox) <= InboxCap

\* The inputs the program has read or will read before those still in the inbox.
Ahead == eaten + Len(ptyIn) + Len(keys) + Len(sending) + Len(waiting)

IsKey(i) == inbox[i].kind = "key"

Numbered ==
  /\ Ahead <= typed
  /\ \A i \in DOMAIN inbox : IsKey(i) => Ahead < inbox[i].key /\ inbox[i].key <= typed
  /\ \A i, j \in DOMAIN inbox : IsKey(i) /\ IsKey(j) /\ i < j => inbox[i].key < inbox[j].key

\* Each place the input passes continues where the one before it ends.
Continued ==
  writer = "live" /\ InLoop =>
    /\ \A i \in DOMAIN ptyIn : ptyIn[i] = eaten + i
    /\ \A i \in DOMAIN keys : keys[i] = eaten + Len(ptyIn) + i
    /\ \A i \in DOMAIN sending : sending[i] = eaten + Len(ptyIn) + Len(keys) + i
    /\ \A i \in DOMAIN waiting :
         waiting[i] = eaten + Len(ptyIn) + Len(keys) + Len(sending) + i
    /\ \A n \in Nat : Ahead < n /\ n <= typed =>
         \E i \in DOMAIN inbox : IsKey(i) /\ inbox[i].key = n

IInv ==
  /\ TypeOK
  /\ Program
  /\ Room
  /\ Drained
  /\ Accounts
  /\ Ended
  /\ Owed
  /\ Counted
  /\ Numbered
  /\ Continued
-----------------------------------------------------------------------------
LEMMA Limits ==
  /\ Window \in Nat /\ Window > 0 /\ Limit \in Nat /\ Limit > 0
  /\ Chunk \in Nat /\ Chunk > 0 /\ MaxInput \in Nat /\ MaxInput > 0
  /\ OutCap \in Nat /\ OutCap > 0 /\ InCap \in Nat /\ InCap > 0
  /\ InboxCap \in Nat /\ InboxCap > 0 /\ WaitTicks \in Nat /\ WaitTicks > 0
  /\ MaxMade \in Nat /\ MaxTyped \in Nat
BY LimitsAssumption DEF LimitsAssumption

LEMMA MinOfTwo ==
  ASSUME NEW m \in Nat, NEW n \in Nat
  PROVE  Min({m, n}) = IF m <= n THEN m ELSE n
BY DEF Min

LEMMA InitInv == Init => IInv
<1> SUFFICES ASSUME Init PROVE IInv
  OBVIOUS
<1>1. /\ <<>> \in Inputs /\ <<>> \in Seq(PageMessage)
      /\ Len(<<>>) = 0 /\ DOMAIN ptyIn = {} /\ DOMAIN keys = {} /\ DOMAIN inbox = {}
      /\ DOMAIN sending = {} /\ DOMAIN waiting = {}
  BY EmptySeq DEF Inputs, Init
<1>2. TypeOK
  <2>1. {eof, paused, closed, hungUp, status, killed, toldExit} \subseteq BOOLEAN
    BY DEF Init
  <2>2. 0 \in 0..(Limit - 1 + Chunk) /\ 0 \in 0..(Window - 1 + Limit - 1 + Chunk)
    BY Limits
  <2>3. keys \in Inputs /\ (writer = "live" => Len(keys) <= queued)
    BY <1>1 DEF Init
  <2>4. /\ ptyIn \in Inputs /\ Len(ptyIn) <= InCap
        /\ inbox \in Seq(PageMessage) /\ Len(inbox) <= InboxCap + 1
        /\ waiting \in Inputs /\ sending \in Inputs
    BY <1>1, Limits DEF Init
  <2>5. /\ prog \in {"running", "exited"} /\ tty \in {"held", "free"} /\ toWrite \in BOOLEAN
        /\ reader \in {"room", "read", "keep", "done"}
        /\ writer \in {"live", "failed", "gone"}
        /\ waiter \in {"poll", "drain", "done"}
        /\ pc \in {"turn", "input", "resend", "read", "send", "await", "over"}
        /\ page \in {"open", "closed"}
    BY DEF Init
  <2>6. /\ made \in 0..MaxMade /\ eaten \in 0..MaxTyped /\ ptyOut \in 0..OutCap
        /\ held \in 0..Chunk /\ queued \in 0..MaxInput /\ waited \in 0..WaitTicks
        /\ delivered \in 0..MaxMade /\ wire \in 0..unshown /\ typed \in 0..MaxTyped
        /\ buffer \in 0..(Limit - 1 + Chunk)
        /\ unshown \in 0..(Window - 1 + Limit - 1 + Chunk)
    BY <2>2, Limits DEF Init
  <2> QED
    BY ONLY <2>1, <2>3, <2>4, <2>5, <2>6 DEF TypeOK
<1>3. Program /\ Room /\ Drained /\ Accounts /\ Ended
  BY DEF Init, Program, Room, Drained, Accounts, Ended, EndedOrKilled, InLoop
<1>4. Owed
  <2> DEFINE owed == [i \in 0..Len(inbox) |-> 0]
  <2>1. owed \in [0..Len(inbox) -> 0..unshown] /\ wire <= owed[Len(inbox)] /\ 1..Len(inbox) = {}
    BY <1>1 DEF Init
  <2> HIDE DEF owed
  <2> QED
    BY <2>1 DEF Owed
<1>5. /\ Len(ptyIn) = 0 /\ Len(keys) = 0 /\ Len(sending) = 0 /\ Len(waiting) = 0
      /\ Len(inbox) = 0 /\ queued = 0 /\ eaten = 0 /\ typed = 0 /\ Ahead = 0
  BY <1>1 DEF Init, Ahead
<1>6. Counted
  BY <1>5, Limits DEF Init, Counted
<1>7. Numbered /\ Continued
  BY <1>1, <1>5 DEF Numbered, Continued
<1> QED
  BY <1>2, <1>3, <1>4, <1>6, <1>7 DEF IInv
-----------------------------------------------------------------------------
(* The type invariant in parts: flags and places, amounts, and inputs.      *)

Flags ==
  /\ prog \in {"running", "exited"} /\ tty \in {"held", "free"} /\ toWrite \in BOOLEAN
  /\ eof \in BOOLEAN /\ paused \in BOOLEAN /\ closed \in BOOLEAN /\ hungUp \in BOOLEAN
  /\ status \in BOOLEAN /\ killed \in BOOLEAN /\ toldExit \in BOOLEAN
  /\ reader \in {"room", "read", "keep", "done"}
  /\ writer \in {"live", "failed", "gone"}
  /\ waiter \in {"poll", "drain", "done"}
  /\ pc \in {"turn", "input", "resend", "read", "send", "await", "over"}
  /\ page \in {"open", "closed"}

Amounts ==
  /\ made \in Nat /\ made <= MaxMade
  /\ delivered \in Nat /\ delivered <= MaxMade
  /\ ptyOut \in Nat /\ ptyOut <= OutCap
  /\ held \in Nat /\ held <= Chunk
  /\ buffer \in Nat /\ buffer <= Limit - 1 + Chunk
  /\ waited \in Nat /\ waited <= WaitTicks
  /\ unshown \in Nat /\ unshown <= Window - 1 + Limit - 1 + Chunk

\* What the page is owed is in Owed.
Sent == wire \in Nat /\ wire <= unshown

Carried ==
  /\ eaten \in Nat /\ eaten <= MaxTyped
  /\ typed \in Nat /\ typed <= MaxTyped
  /\ queued \in Nat /\ queued <= MaxInput
  /\ writer = "live" => Len(keys) <= queued
  /\ ptyIn \in Inputs /\ Len(ptyIn) <= InCap
  /\ keys \in Inputs /\ waiting \in Inputs /\ sending \in Inputs
  /\ inbox \in Seq(PageMessage) /\ Len(inbox) <= InboxCap + 1

LEMMA TypeParts == TypeOK <=> Flags /\ Amounts /\ Sent /\ Carried
<1>1. \A m, n \in Nat : m \in 0..n <=> m <= n
  OBVIOUS
<1>2. {eof, paused, closed, hungUp, status, killed, toldExit} \subseteq BOOLEAN
      <=> /\ eof \in BOOLEAN /\ paused \in BOOLEAN /\ closed \in BOOLEAN
          /\ hungUp \in BOOLEAN /\ status \in BOOLEAN /\ killed \in BOOLEAN
          /\ toldExit \in BOOLEAN
  OBVIOUS
<1>3. ASSUME TypeOK PROVE Amounts /\ Sent
  BY <1>3, Limits DEF TypeOK, Amounts, Sent
<1>4. ASSUME TypeOK PROVE Flags
  BY <1>2, <1>4 DEF TypeOK, Flags
<1>5. ASSUME TypeOK PROVE Carried
  BY <1>5, Limits DEF TypeOK, Carried
<1>6. ASSUME Flags, Amounts, Sent, Carried PROVE TypeOK
  <2>1. /\ made \in 0..MaxMade /\ eaten \in 0..MaxTyped /\ ptyOut \in 0..OutCap
        /\ held \in 0..Chunk /\ queued \in 0..MaxInput /\ waited \in 0..WaitTicks
        /\ delivered \in 0..MaxMade /\ wire \in 0..unshown /\ typed \in 0..MaxTyped
        /\ buffer \in 0..(Limit - 1 + Chunk)
        /\ unshown \in 0..(Window - 1 + Limit - 1 + Chunk)
    BY <1>6, Limits DEF Amounts, Sent, Carried
  <2> QED
    BY <1>2, <1>6, <2>1 DEF TypeOK, Flags, Carried
<1> QED
  BY <1>3, <1>4, <1>5, <1>6

LEMMA HungUp ==
  ASSUME HangUp
  PROVE  hungUp' \in BOOLEAN /\ (hungUp' <=> (hungUp \/ ~status))
BY DEF HangUp

LEMMA StepFlags ==
  ASSUME Flags, [Next]_vars
  PROVE  Flags'
<1> USE DEF Flags, programVars, readerVars, writerVars, waiterVars, hostVars, loopVars,
            pageVars
<1>1. CASE ProgramReads \/ ProgramStartsWrite \/ ProgramWrites \/ ProgramExits \/ TtyFreed
  <2>1. toWrite' \in BOOLEAN
    BY <1>1 DEF ProgramReads, ProgramStartsWrite, ProgramWrites, ProgramExits, TtyFreed
  <2>2. prog' \in {"running", "exited"} /\ tty' \in {"held", "free"}
    BY <1>1 DEF ProgramReads, ProgramStartsWrite, ProgramWrites, ProgramExits, TtyFreed
  <2>3. UNCHANGED <<hostVars, loopVars, page>>
    BY <1>1 DEF ProgramReads, ProgramStartsWrite, ProgramWrites, ProgramExits, TtyFreed
  <2> QED
    BY <2>1, <2>2, <2>3
<1>2. CASE ReaderLooks \/ Read \/ Keep \/ ReadEnds
  <2>1. CASE ReaderLooks
    <3>1. CASE closed
      BY <2>1, <3>1 DEF ReaderLooks
    <3>2. CASE ~closed
      <4>1. paused' = TRUE \/ paused' = FALSE
        BY <2>1, <3>2 DEF ReaderLooks
      <4> QED
        BY <2>1, <3>2, <4>1 DEF ReaderLooks
    <3> QED
      BY <3>1, <3>2
  <2>2. CASE Read \/ Keep \/ ReadEnds
    BY <2>2 DEF Read, Keep, ReadEnds
  <2> QED
    BY <1>2, <2>1, <2>2
<1>3. CASE WriterWrites \/ WriterFails \/ WriterEnds
  BY <1>3 DEF WriterWrites, WriterFails, WriterEnds
<1>4. CASE WaiterKills \/ WaiterSees \/ WaiterTicks \/ WaiterEnds
  BY <1>4 DEF WaiterKills, WaiterSees, WaiterTicks, WaiterEnds
<1>5. CASE Turn \/ ExitStatus
  BY <1>5 DEF Turn, ExitStatus, Leave, HangUp
<1>6. CASE RetryInput \/ Send
  <2>1. hungUp' \in BOOLEAN /\ pc' \in {"turn", "read", "resend", "await"}
    BY <1>6, HungUp DEF RetryInput, Send, Leave, Count
  <2> QED
    BY <1>6, <2>1 DEF RetryInput, Send, Count
<1>7. CASE ReadTimesOut \/ ReadGone \/ ReadKey \/ ReadShown \/ ReadClose
  <2>1. CASE ReadTimesOut \/ ReadKey \/ ReadShown
    BY <2>1 DEF ReadTimesOut, ReadKey, ReadShown, Count
  <2>2. CASE ReadGone \/ ReadClose
    BY <2>2 DEF ReadGone, ReadClose, Leave, HangUp
  <2> QED
    BY <1>7, <2>1, <2>2
<1>8. CASE EndReads \/ End
  <2>1. hungUp' \in BOOLEAN
    BY <1>8, HungUp DEF EndReads, End
  <2> QED
    BY <1>8, <2>1 DEF EndReads, End
<1>9. CASE PageTypes \/ PageDraws \/ PageCloses
  BY <1>9 DEF PageTypes, PageDraws, PageCloses
<1>10. CASE UNCHANGED vars
  BY <1>10 DEF vars
<1> QED
  BY <1>1, <1>2, <1>3, <1>4, <1>5, <1>6, <1>7, <1>8, <1>9, <1>10 DEF Next
-----------------------------------------------------------------------------
\* A read of the PTY takes no more than is there.
LEMMA ReadTakes ==
  ASSUME Amounts, Read
  PROVE  held' \in Nat /\ held' <= Chunk /\ held' <= ptyOut /\ ptyOut' = ptyOut - held'
<1>1. Min({ptyOut, Chunk}) = IF ptyOut <= Chunk THEN ptyOut ELSE Chunk
  BY MinOfTwo, Limits DEF Amounts
<1> QED
  BY <1>1, Limits DEF Read, Amounts

LEMMA Message ==
  ASSUME Carried, inbox # <<>>
  PROVE  /\ Head(inbox) \in PageMessage
         /\ Head(inbox).kind = "shown" => Head(inbox).units \in Nat
         /\ Head(inbox).kind = "key" => Head(inbox).key \in 1..MaxTyped
<1>1. Head(inbox) \in PageMessage
  BY TakenOff DEF Carried
<1> QED
  BY <1>1 DEF PageMessage

\* What the page says it drew is taken off, down to nothing.
LEMMA ShownTakes ==
  ASSUME Amounts, Carried, ReadShown
  PROVE  /\ Head(inbox).units \in Nat
         /\ unshown' \in Nat /\ unshown' <= unshown
         /\ unshown' = IF unshown <= Head(inbox).units THEN 0
                       ELSE unshown - Head(inbox).units
<1>1. Head(inbox).units \in Nat
  BY Message DEF ReadShown
<1>2. Min({unshown, Head(inbox).units})
        = IF unshown <= Head(inbox).units THEN unshown ELSE Head(inbox).units
  BY <1>1, MinOfTwo DEF Amounts
<1>3. unshown' = unshown - Min({unshown, Head(inbox).units})
  BY DEF ReadShown
<1> QED
  BY <1>1, <1>2, <1>3 DEF Amounts

LEMMA StepAmounts ==
  ASSUME Amounts, Carried, Program, Room, Accounts, [Next]_vars
  PROVE  Amounts'
<1> USE Limits DEF Amounts, programVars, readerVars, writerVars, waiterVars, hostVars,
                   loopVars, pageVars
<1>1. CASE ProgramReads \/ ProgramStartsWrite \/ ProgramWrites \/ ProgramExits \/ TtyFreed
  <2>1. UNCHANGED <<delivered, held, buffer, waited, unshown>>
    BY <1>1 DEF ProgramReads, ProgramStartsWrite, ProgramWrites, ProgramExits, TtyFreed
  <2>2. \/ made' = made /\ ptyOut' = ptyOut
        \/ toWrite /\ ptyOut < OutCap /\ made' = made + 1 /\ ptyOut' = ptyOut + 1
    BY <1>1 DEF ProgramReads, ProgramStartsWrite, ProgramWrites, ProgramExits, TtyFreed
  <2> QED
    BY <2>1, <2>2 DEF Program
<1>2. CASE ReaderLooks \/ ReadEnds
  BY <1>2 DEF ReaderLooks, ReadEnds
<1>3. CASE Read
  <2>1. UNCHANGED <<made, delivered, buffer, waited, unshown>>
    BY <1>3 DEF Read
  <2> QED
    BY <1>3, <2>1, ReadTakes
<1>4. CASE Keep
  BY <1>4 DEF Keep, Room
<1>5. CASE WriterWrites \/ WriterFails \/ WriterEnds
  BY <1>5 DEF WriterWrites, WriterFails, WriterEnds
<1>6. CASE WaiterKills \/ WaiterSees \/ WaiterTicks \/ WaiterEnds
  BY <1>6 DEF WaiterKills, WaiterSees, WaiterTicks, WaiterEnds
<1>7. CASE Turn
  <2>1. UNCHANGED <<made, ptyOut, held, waited>>
    BY <1>7 DEF Turn
  <2>2. delivered + buffer <= made
    BY DEF Accounts
  <2>3. /\ delivered' = delivered \/ delivered' = delivered + buffer
        /\ buffer' = buffer \/ buffer' = 0
        /\ \/ unshown' = unshown \/ unshown' = 0
           \/ unshown < Window /\ unshown' = unshown + buffer
    BY <1>7 DEF Turn, Leave
  <2> QED
    BY <2>1, <2>2, <2>3
<1>8. CASE ExitStatus \/ RetryInput \/ Send \/ ReadTimesOut \/ ReadGone \/ ReadKey
           \/ ReadClose \/ EndReads \/ End
  <2>1. /\ UNCHANGED <<made, delivered, ptyOut, held, waited>>
        /\ unshown' = unshown \/ unshown' = 0
        /\ buffer' = buffer \/ buffer' = 0
    BY <1>8 DEF ExitStatus, RetryInput, Send, ReadTimesOut, ReadGone, ReadKey, ReadClose,
                EndReads, End, Leave
  <2> QED
    BY <2>1
<1>9. CASE ReadShown
  <2>1. UNCHANGED <<made, delivered, ptyOut, held, buffer, waited>>
    BY <1>9 DEF ReadShown
  <2> QED
    BY <1>9, <2>1, ShownTakes
<1>10. CASE PageTypes \/ PageDraws \/ PageCloses \/ UNCHANGED vars
  <2>1. UNCHANGED <<made, delivered, ptyOut, held, buffer, waited, unshown>>
    BY <1>10 DEF PageTypes, PageDraws, PageCloses, vars
  <2> QED
    BY <2>1
<1> QED
  BY <1>1, <1>2, <1>3, <1>4, <1>5, <1>6, <1>7, <1>8, <1>9, <1>10 DEF Next
-----------------------------------------------------------------------------
LEMMA StepProgram ==
  ASSUME Program, Flags, Amounts, [Next]_vars
  PROVE  Program'
<1> USE DEF Program, Flags, programVars, readerVars, writerVars, waiterVars, hostVars
<1>1. CASE ProgramReads \/ ProgramStartsWrite \/ ProgramWrites \/ ProgramExits \/ TtyFreed
  <2>1. CASE ProgramReads
    <3>1. toWrite' = FALSE \/ made < MaxMade
      BY <2>1 DEF ProgramReads
    <3> QED
      BY <2>1, <3>1 DEF ProgramReads
  <2>2. CASE ProgramStartsWrite \/ ProgramWrites
    BY <2>2 DEF ProgramStartsWrite, ProgramWrites
  <2>3. CASE ProgramExits \/ TtyFreed
    BY <2>3 DEF ProgramExits, TtyFreed
  <2> QED
    BY <1>1, <2>1, <2>2, <2>3
<1>2. CASE WaiterKills \/ WaiterSees \/ WaiterTicks \/ WaiterEnds
  BY <1>2 DEF WaiterKills, WaiterSees, WaiterTicks, WaiterEnds
<1>3. CASE ReaderLooks \/ Read \/ Keep \/ ReadEnds \/ WriterWrites \/ WriterFails
           \/ WriterEnds
  BY <1>3 DEF ReaderLooks, Read, Keep, ReadEnds, WriterWrites, WriterFails, WriterEnds
<1>4. CASE Turn \/ ExitStatus \/ RetryInput \/ Send \/ EndReads \/ End
  BY <1>4 DEF Turn, ExitStatus, RetryInput, Send, EndReads, End
<1>5. CASE ReadTimesOut \/ ReadGone \/ ReadKey \/ ReadShown \/ ReadClose
  BY <1>5 DEF ReadTimesOut, ReadGone, ReadKey, ReadShown, ReadClose
<1>6. CASE PageTypes \/ PageDraws \/ PageCloses \/ UNCHANGED vars
  BY <1>6 DEF PageTypes, PageDraws, PageCloses, vars
<1> QED
  BY <1>1, <1>2, <1>3, <1>4, <1>5, <1>6 DEF Next

LEMMA StepRoom ==
  ASSUME Room, Flags, Amounts, [Next]_vars
  PROVE  Room'
<1> USE Limits DEF Room, Flags, Amounts, programVars, readerVars, writerVars, waiterVars,
                   hostVars
<1>1. CASE ReaderLooks
  <2>1. CASE closed
    BY <1>1, <2>1 DEF ReaderLooks
  <2>2. CASE ~closed
    <3>1. reader' = "room" \/ (reader' = "read" /\ buffer < Limit)
      <4>1. CASE buffer >= Limit
        BY <1>1, <2>2, <4>1 DEF ReaderLooks
      <4>2. CASE ~(buffer >= Limit)
        BY <1>1, <2>2, <4>2 DEF ReaderLooks
      <4> QED
        BY <4>1, <4>2
    <3> QED
      BY <1>1, <2>2, <3>1 DEF ReaderLooks
  <2> QED
    BY <2>1, <2>2
<1>2. CASE Read \/ Keep \/ ReadEnds
  BY <1>2 DEF Read, Keep, ReadEnds
<1>3. CASE Turn \/ ExitStatus \/ RetryInput \/ Send \/ EndReads \/ End
  <2>1. UNCHANGED readerVars /\ (buffer' = buffer \/ buffer' = 0)
    BY <1>3 DEF Turn, ExitStatus, RetryInput, Send, EndReads, End
  <2> QED
    BY <2>1
<1>4. CASE ProgramReads \/ ProgramStartsWrite \/ ProgramWrites \/ ProgramExits \/ TtyFreed
           \/ WriterWrites \/ WriterFails \/ WriterEnds
           \/ WaiterKills \/ WaiterSees \/ WaiterTicks \/ WaiterEnds
  <2>1. UNCHANGED <<readerVars, buffer>>
    BY <1>4 DEF ProgramReads, ProgramStartsWrite, ProgramWrites, ProgramExits, TtyFreed,
                WriterWrites, WriterFails, WriterEnds, WaiterKills, WaiterSees,
                WaiterTicks, WaiterEnds
  <2> QED
    BY <2>1
<1>5. CASE ReadTimesOut \/ ReadGone \/ ReadKey \/ ReadShown \/ ReadClose
           \/ PageTypes \/ PageDraws \/ PageCloses \/ UNCHANGED vars
  <2>1. UNCHANGED <<readerVars, buffer>>
    BY <1>5 DEF ReadTimesOut, ReadGone, ReadKey, ReadShown, ReadClose, PageTypes,
                PageDraws, PageCloses, vars
  <2> QED
    BY <2>1
<1> QED
  BY <1>1, <1>2, <1>3, <1>4, <1>5 DEF Next
-----------------------------------------------------------------------------
LEMMA StepDrained ==
  ASSUME Drained, Program, Room, Flags, Amounts, [Next]_vars
  PROVE  Drained'
<1> USE Limits DEF Drained, Flags, Amounts, programVars, readerVars, writerVars, waiterVars,
                   hostVars
<1>1. CASE ProgramWrites
  BY <1>1 DEF ProgramWrites, Program
<1>2. CASE ProgramReads \/ ProgramStartsWrite \/ ProgramExits \/ TtyFreed
  <2>1. UNCHANGED <<hostVars, ptyOut>> /\ (tty = "free" => tty' = "free")
    BY <1>2 DEF ProgramReads, ProgramStartsWrite, ProgramExits, TtyFreed, Program
  <2> QED
    BY <2>1
<1>3. CASE ReaderLooks
  <2>1. ~eof
    BY <1>3 DEF ReaderLooks, Room
  <2>2. waited = 0
    BY <1>3, <2>1 DEF ReaderLooks
  <2>3. eof' => closed
    BY <1>3, <2>1 DEF ReaderLooks
  <2>4. UNCHANGED <<waiterVars, closed, ptyOut, tty>>
    BY <1>3 DEF ReaderLooks
  <2> QED
    BY <2>1, <2>2, <2>3, <2>4
<1>4. CASE Read
  <2>1. reader = "read" /\ ptyOut > 0 /\ UNCHANGED <<eof, waiterVars, closed, tty>>
    BY <1>4 DEF Read
  <2>2. ~eof
    BY <2>1 DEF Room
  <2>3. waited = 0
    BY <2>1, <2>2
  <2> QED
    BY <2>1, <2>2, <2>3
<1>5. CASE Keep
  BY <1>5 DEF Keep, Room
<1>6. CASE ReadEnds
  BY <1>6 DEF ReadEnds
<1>7. CASE WaiterKills \/ WaiterSees \/ WaiterEnds
  BY <1>7 DEF WaiterKills, WaiterSees, WaiterEnds
<1>8. CASE WaiterTicks
  BY <1>8 DEF WaiterTicks, ReaderWaits, Room
<1>9. CASE WriterWrites \/ WriterFails \/ WriterEnds
           \/ Turn \/ ExitStatus \/ RetryInput \/ Send \/ EndReads \/ End
  <2>1. UNCHANGED <<readerVars, waiterVars, ptyOut, tty>> /\ (closed => closed')
    BY <1>9 DEF WriterWrites, WriterFails, WriterEnds, Turn, ExitStatus, RetryInput, Send,
                EndReads, End
  <2> QED
    BY <2>1
<1>10. CASE ReadTimesOut \/ ReadGone \/ ReadKey \/ ReadShown \/ ReadClose
            \/ PageTypes \/ PageDraws \/ PageCloses \/ UNCHANGED vars
  <2>1. UNCHANGED <<readerVars, waiterVars, ptyOut, tty, closed>>
    BY <1>10 DEF ReadTimesOut, ReadGone, ReadKey, ReadShown, ReadClose, PageTypes,
                 PageDraws, PageCloses, vars
  <2> QED
    BY <2>1
<1> QED
  BY <1>1, <1>2, <1>3, <1>4, <1>5, <1>6, <1>7, <1>8, <1>9, <1>10 DEF Next

\* The exit is told of when nothing the program wrote is left on its way.
LEMMA StepAccounts ==
  ASSUME Accounts, Drained, Program, Room, Ended, Flags, Amounts, [Next]_vars
  PROVE  Accounts'
<1> USE DEF Accounts, Flags, Amounts, InLoop, programVars, readerVars, writerVars,
            waiterVars, hostVars, loopVars, pageVars
<1>1. CASE ProgramWrites
  BY <1>1 DEF ProgramWrites, Program
<1>2. CASE ProgramReads \/ ProgramStartsWrite \/ ProgramExits \/ TtyFreed
  <2>1. /\ UNCHANGED <<delivered, buffer, held, ptyOut, made, toldExit, pc>>
        /\ prog = "exited" => prog' = "exited"
    BY <1>2 DEF ProgramReads, ProgramStartsWrite, ProgramExits, TtyFreed
  <2> QED
    BY <2>1
<1>3. CASE Read
  <2>1. UNCHANGED <<delivered, buffer, made, toldExit, pc, prog>> /\ held = 0
    BY <1>3 DEF Read, Room
  <2> QED
    BY <1>3, <2>1, ReadTakes
<1>4. CASE Keep
  BY <1>4 DEF Keep
<1>5. CASE ReaderLooks \/ ReadEnds \/ WriterWrites \/ WriterFails \/ WriterEnds
           \/ WaiterKills \/ WaiterSees \/ WaiterTicks \/ WaiterEnds
  <2>1. UNCHANGED <<delivered, buffer, held, ptyOut, made, toldExit, pc, prog>>
    BY <1>5 DEF ReaderLooks, ReadEnds, WriterWrites, WriterFails, WriterEnds, WaiterKills,
                WaiterSees, WaiterTicks, WaiterEnds
  <2> QED
    BY <2>1
<1>6. CASE Turn
  <2>1. UNCHANGED <<held, ptyOut, made, toldExit, prog>> /\ pc = "turn"
    BY <1>6 DEF Turn
  <2>2. \/ pc' = "await" /\ delivered' = delivered /\ (buffer' = buffer \/ buffer' = 0)
        \/ pc' = "input" /\ delivered' = delivered + buffer /\ buffer' = 0
        \/ pc' = "input" /\ delivered' = delivered /\ buffer' = buffer
    BY <1>6 DEF Turn, Leave
  <2> QED
    BY <2>1, <2>2
<1>7. CASE ExitStatus
  <2>1. /\ UNCHANGED <<delivered, buffer, held, ptyOut, made, prog>>
        /\ pc = "input" /\ pc' = "await" /\ buffer = 0 /\ status
    BY <1>7 DEF ExitStatus, Exited, Leave
  <2>2. ~closed
    BY <2>1 DEF Ended
  <2>3. held = 0 /\ ptyOut = 0 /\ prog = "exited"
    BY <2>1, <2>2 DEF Drained, Room, Program
  <2> QED
    BY <2>1, <2>3
<1>8. CASE RetryInput \/ Send \/ ReadTimesOut \/ ReadGone \/ ReadKey \/ ReadShown
           \/ ReadClose \/ PageTypes \/ PageDraws \/ PageCloses \/ UNCHANGED vars
  <2>1. UNCHANGED <<delivered, buffer, held, ptyOut, made, toldExit, prog>>
    BY <1>8 DEF RetryInput, Send, ReadTimesOut, ReadGone, ReadKey, ReadShown, ReadClose,
                PageTypes, PageDraws, PageCloses, vars
  <2>2. InLoop \/ pc' = pc
    BY <1>8 DEF RetryInput, Send, ReadTimesOut, ReadGone, ReadKey, ReadShown, ReadClose,
                PageTypes, PageDraws, PageCloses, Reading, vars
  <2> QED
    BY <2>1, <2>2
<1>9. CASE EndReads \/ End
  <2>1. /\ UNCHANGED <<delivered, held, ptyOut, made, toldExit, prog>> /\ pc = "await"
        /\ buffer' = buffer \/ buffer' = 0
        /\ pc' \in {"await", "over"}
    BY <1>9 DEF EndReads, End
  <2> QED
    BY <2>1
<1> QED
  BY <1>1, <1>2, <1>3, <1>4, <1>5, <1>6, <1>7, <1>8, <1>9 DEF Next

\* A session hangs up as it leaves its loop, and ends once the waiter has acted on it.
LEMMA StepEnded ==
  ASSUME Ended, Drained, Program, Flags, [Next]_vars
  PROVE  Ended'
<1> USE DEF Ended, EndedOrKilled, Flags, InLoop, programVars, readerVars, writerVars,
            waiterVars, hostVars, loopVars
<1>1. CASE Leave /\ pc \notin {"await", "over"} /\ UNCHANGED <<closed, status, prog, killed>>
  BY <1>1, HungUp DEF Leave
<1>2. CASE End
  <2>1. pc = "await" /\ pc' = "over" /\ closed' = TRUE /\ UNCHANGED <<status, prog, killed>>
    BY <1>2 DEF End
  <2>2. hungUp' \/ status'
    BY <1>2, <2>1, HungUp DEF End
  <2>3. prog = "exited" \/ killed
    <3>1. CASE status
      BY <3>1 DEF Drained, Program
    <3>2. CASE EndWaitOver /\ ~status
      BY <2>1, <3>2 DEF EndWaitOver, Drained
    <3> QED
      BY <1>2, <3>1, <3>2 DEF End, Exited
  <2> QED
    BY <2>1, <2>2, <2>3
<1>3. CASE UNCHANGED <<closed, hungUp, pc>>
  <2>1. ASSUME prog = "exited" PROVE prog' = "exited"
    BY <2>1 DEF Next, ProgramReads, ProgramStartsWrite, ProgramWrites, ProgramExits, TtyFreed,
         ReaderLooks, Read, Keep, ReadEnds, WriterWrites, WriterFails, WriterEnds,
         WaiterKills, WaiterSees, WaiterTicks, WaiterEnds, Turn, ExitStatus, RetryInput,
         Send, ReadTimesOut, ReadGone, ReadKey, ReadShown, ReadClose, EndReads, End,
         PageTypes, PageDraws, PageCloses, vars
  <2>2. (killed => killed') /\ (status => status')
    BY DEF Next, ProgramReads, ProgramStartsWrite, ProgramWrites, ProgramExits, TtyFreed,
         ReaderLooks, Read, Keep, ReadEnds, WriterWrites, WriterFails, WriterEnds,
         WaiterKills, WaiterSees, WaiterTicks, WaiterEnds, Turn, ExitStatus, RetryInput,
         Send, ReadTimesOut, ReadGone, ReadKey, ReadShown, ReadClose, EndReads, End,
         PageTypes, PageDraws, PageCloses, vars
  <2> QED
    BY <1>3, <2>1, <2>2
<1>4. CASE pc \notin {"await", "over"} /\ pc' \notin {"await", "over"} /\ closed' = closed
  BY <1>4
<1>5. CASE ProgramReads \/ ProgramStartsWrite \/ ProgramWrites \/ ProgramExits \/ TtyFreed
           \/ ReaderLooks \/ Read \/ Keep \/ ReadEnds \/ WriterWrites \/ WriterFails
           \/ WriterEnds \/ WaiterKills \/ WaiterSees \/ WaiterTicks \/ WaiterEnds
           \/ EndReads \/ PageTypes \/ PageDraws \/ PageCloses \/ UNCHANGED vars
  <2>1. UNCHANGED <<closed, hungUp, pc>>
    BY <1>5 DEF ProgramReads, ProgramStartsWrite, ProgramWrites, ProgramExits, TtyFreed,
         ReaderLooks, Read, Keep, ReadEnds, WriterWrites, WriterFails, WriterEnds,
         WaiterKills, WaiterSees, WaiterTicks, WaiterEnds, EndReads,
         PageTypes, PageDraws, PageCloses, vars, pageVars
  <2> QED
    BY <1>3, <2>1
<1>6. CASE Turn \/ ExitStatus \/ RetryInput \/ Send \/ ReadTimesOut \/ ReadGone \/ ReadKey
           \/ ReadShown \/ ReadClose
  <2>1. /\ UNCHANGED <<closed, status, prog, killed>>
        /\ pc \notin {"await", "over"}
        /\ Leave \/ pc' \notin {"await", "over"}
    BY <1>6 DEF Turn, ExitStatus, RetryInput, Send, ReadTimesOut, ReadGone, ReadKey,
                ReadShown, ReadClose, Reading
  <2> QED
    BY <1>1, <1>4, <2>1
<1> QED
  BY <1>2, <1>5, <1>6 DEF Next
-----------------------------------------------------------------------------
(* The input.                                                               *)

Input == Carried /\ Counted /\ Numbered /\ Continued

inputVars == <<eaten, typed, queued, writer, ptyIn, keys, waiting, sending, inbox>>

LEMMA Lengths ==
  ASSUME Carried
  PROVE  /\ Len(ptyIn) \in Nat /\ DOMAIN ptyIn = 1..Len(ptyIn)
         /\ Len(keys) \in Nat /\ DOMAIN keys = 1..Len(keys)
         /\ Len(sending) \in Nat /\ DOMAIN sending = 1..Len(sending)
         /\ Len(waiting) \in Nat /\ DOMAIN waiting = 1..Len(waiting)
         /\ Len(inbox) \in Nat /\ DOMAIN inbox = 1..Len(inbox)
         /\ Ahead \in Nat
BY LenProperties DEF Carried, Inputs, Ahead

LEMMA KeyNumbers ==
  ASSUME Carried, NEW i \in DOMAIN inbox
  PROVE  /\ inbox[i] \in PageMessage /\ i \in Nat
         /\ IsKey(i) => inbox[i].key \in Nat
<1>1. inbox[i] \in PageMessage /\ i \in Nat
  BY Entry DEF Carried
<1> QED
  BY <1>1, Limits DEF PageMessage, IsKey

\* Input taken from one place and put in the next, or lost, leaves the inbox in order.
LEMMA NumberedKept ==
  ASSUME Carried, Numbered, Ahead' \in Nat, Ahead' <= Ahead, UNCHANGED <<inbox, typed>>
  PROVE  Numbered'
<1>1. \A i \in DOMAIN inbox : IsKey(i)' = IsKey(i)
  BY DEF IsKey
<1>2. Ahead \in Nat /\ typed \in Nat
  BY Lengths DEF Carried
<1>3. \A i \in DOMAIN inbox : IsKey(i) => Ahead' < inbox[i].key
  BY <1>2, KeyNumbers DEF Numbered
<1> QED
  BY <1>1, <1>2, <1>3 DEF Numbered

\* Steps that move no input.
LEMMA InputQuiet ==
  ASSUME Input, UNCHANGED <<inputVars, page>>,
         \/ pc' = pc
         \/ pc \in {"turn", "input"} /\ pc' \in {"turn", "input"}
         \/ pc \in {"turn", "input", "read"} /\ waiting = <<>> /\ pc' = "turn"
         \/ pc = "await" /\ pc' = "over"
  PROVE  Input'
<1> USE DEF Input, inputVars
<1>1. Carried' /\ Numbered'
  BY DEF Carried, Numbered, Ahead, IsKey
<1>2. Counted'
  BY DEF Counted
<1>3. InLoop' => InLoop
  BY DEF InLoop
<1>4. Continued'
  BY <1>3 DEF Continued, Ahead, IsKey
<1> QED
  BY <1>1, <1>2, <1>4

\* The session drops the input it holds and what the page has sent.
LEMMA InputLeft ==
  ASSUME Input, Leave, pc \notin {"send", "resend"},
         UNCHANGED <<eaten, typed, queued, writer, ptyIn, keys, sending>>
  PROVE  Input'
<1> USE DEF Input
<1>1. /\ pc' = "await" /\ waiting' = <<>> /\ inbox' = <<>>
      /\ Len(waiting') = 0 /\ Len(inbox') = 0 /\ DOMAIN inbox' = {}
      /\ <<>> \in Inputs /\ <<>> \in Seq(PageMessage)
  BY EmptySeq DEF Leave, Inputs
<1>2. sending = <<>>
  BY DEF Counted
<1>3. Carried'
  BY <1>1, Limits DEF Carried
<1>4. Counted'
  BY <1>1, <1>2, Limits DEF Counted
<1>5. Ahead' \in Nat /\ Ahead' <= Ahead
  BY <1>1, Lengths DEF Ahead, Carried
<1>6. Ahead' <= typed'
  BY <1>5, Lengths DEF Numbered, Carried
<1>7. Numbered'
  BY <1>1, <1>6 DEF Numbered
<1>8. Continued'
  BY <1>1 DEF Continued, InLoop
<1> QED
  BY <1>3, <1>4, <1>7, <1>8

LEMMA InputRead ==
  ASSUME Input, ProgramReads
  PROVE  Input'
<1> USE DEF Input
<1>1. /\ ptyIn # <<>> /\ ptyIn' = Tail(ptyIn) /\ eaten' = eaten + 1
      /\ UNCHANGED <<typed, queued, writer, keys, waiting, sending, inbox, pc, page>>
  BY DEF ProgramReads, hostVars, writerVars, loopVars, pageVars
<1>2. Len(ptyIn') = Len(ptyIn) - 1 /\ Len(ptyIn) # 0 /\ ptyIn' \in Inputs
      /\ \A i \in 1..Len(ptyIn') : ptyIn'[i] = ptyIn[i + 1]
  BY <1>1, HeadTailProperties, EmptySeq DEF Carried, Inputs
<1>3. /\ eaten \in Nat /\ Len(ptyIn) \in Nat /\ DOMAIN ptyIn = 1..Len(ptyIn)
      /\ DOMAIN ptyIn' = 1..Len(ptyIn')
  BY <1>2, Lengths, LenProperties DEF Carried, Inputs
<1>4. eaten' + Len(ptyIn') = eaten + Len(ptyIn)
  BY <1>1, <1>2, <1>3
<1>5. Ahead' = Ahead /\ Ahead \in Nat
  BY <1>1, <1>4, Lengths DEF Ahead
<1>6. Numbered'
  BY <1>1, <1>5, NumberedKept
<1>7. Carried'
  <2>1. eaten' <= typed
    BY <1>1, <1>2, <1>3, Lengths DEF Numbered, Ahead, Carried
  <2> QED
    BY <1>1, <1>2, <1>3, <2>1, Limits DEF Carried
<1>8. Counted'
  BY <1>1 DEF Counted
<1>9. Continued'
  <2> SUFFICES ASSUME writer = "live", InLoop PROVE Continued'
    BY <1>1 DEF Continued, InLoop
  <2>1. \A i \in DOMAIN ptyIn' : ptyIn'[i] = eaten' + i
    BY <1>1, <1>2, <1>3 DEF Continued
  <2>2. \A i \in DOMAIN keys : keys[i] = (eaten' + Len(ptyIn')) + i
    BY <1>4 DEF Continued
  <2>3. \A i \in DOMAIN sending : sending[i] = (eaten' + Len(ptyIn')) + Len(keys) + i
    BY <1>4 DEF Continued
  <2>4. \A i \in DOMAIN waiting :
          waiting[i] = (eaten' + Len(ptyIn')) + Len(keys) + Len(sending) + i
    BY <1>4 DEF Continued
  <2>5. \A n \in Nat : Ahead' < n /\ n <= typed => \E i \in DOMAIN inbox : IsKey(i)' /\ inbox[i].key = n
    BY <1>1, <1>5 DEF Continued, IsKey
  <2> QED
    BY <1>1, <2>1, <2>2, <2>3, <2>4, <2>5 DEF Continued
<1> QED
  BY <1>6, <1>7, <1>8, <1>9

\* The writer thread hands the head of its channel to the PTY.
LEMMA InputWritten ==
  ASSUME Input, WriterWrites
  PROVE  Input'
<1> USE DEF Input
<1>1. /\ writer = "live" /\ keys # <<>> /\ keys' = Tail(keys) /\ queued' = queued - 1
      /\ ptyIn' = Append(ptyIn, Head(keys)) /\ Len(ptyIn) < InCap
      /\ UNCHANGED <<eaten, typed, writer, waiting, sending, inbox, pc, page>>
  BY DEF WriterWrites, programVars, loopVars, pageVars
<1>2. /\ Len(keys') = Len(keys) - 1 /\ Len(keys) # 0 /\ keys' \in Inputs
      /\ \A i \in 1..Len(keys') : keys'[i] = keys[i + 1]
      /\ Head(keys) \in 1..MaxTyped /\ Head(keys) = keys[1]
  <2>1. Len(keys') = Len(keys) - 1 /\ Len(keys) # 0 /\ keys' \in Inputs
        /\ \A i \in 1..Len(keys') : keys'[i] = keys[i + 1]
    BY <1>1, HeadTailProperties, EmptySeq DEF Carried, Inputs
  <2>2. Head(keys) \in 1..MaxTyped /\ Head(keys) = keys[1]
    BY <1>1, TakenOff DEF Carried, Inputs
  <2> QED
    BY <2>1, <2>2
<1>3. /\ ptyIn' \in Inputs /\ Len(ptyIn') = Len(ptyIn) + 1
      /\ \A i \in 1..Len(ptyIn) : ptyIn'[i] = ptyIn[i]
      /\ ptyIn'[Len(ptyIn) + 1] = keys[1]
  BY <1>1, <1>2, AppendProperties DEF Carried, Inputs
<1>4. /\ eaten \in Nat /\ Len(ptyIn) \in Nat /\ Len(keys) \in Nat
      /\ DOMAIN ptyIn = 1..Len(ptyIn) /\ DOMAIN keys = 1..Len(keys)
      /\ DOMAIN ptyIn' = 1..Len(ptyIn') /\ DOMAIN keys' = 1..Len(keys')
  BY <1>2, <1>3, Lengths, LenProperties DEF Carried, Inputs
<1>5. (eaten + Len(ptyIn')) + Len(keys') = (eaten + Len(ptyIn)) + Len(keys)
  BY <1>2, <1>3, <1>4
<1>6. Ahead' = Ahead /\ Ahead \in Nat
  BY <1>1, <1>5, Lengths DEF Ahead
<1>7. Numbered'
  BY <1>1, <1>6, NumberedKept
<1>8. queued = Len(keys) + Len(sending) /\ Len(sending) \in Nat
  BY <1>1, Lengths DEF Counted
<1>9. queued' = Len(keys') + Len(sending) /\ queued' \in Nat /\ queued' <= MaxInput
  BY <1>1, <1>2, <1>4, <1>8, Limits DEF Carried
<1>10. Carried'
  BY <1>1, <1>2, <1>3, <1>4, <1>8, <1>9, Limits DEF Carried
<1>11. Counted'
  BY <1>1, <1>9 DEF Counted
<1>12. Continued'
  <2> SUFFICES ASSUME InLoop PROVE Continued'
    BY <1>1 DEF Continued, InLoop
  <2>1. \A i \in DOMAIN ptyIn : ptyIn[i] = eaten + i
    BY <1>1 DEF Continued
  <2>2. \A i \in DOMAIN keys : keys[i] = (eaten + Len(ptyIn)) + i
    BY <1>1 DEF Continued
  <2>3. keys[1] = eaten + (Len(ptyIn) + 1)
    BY <2>2, <1>2, <1>4
  <2>4. \A i \in DOMAIN ptyIn' : ptyIn'[i] = eaten + i
    <3> TAKE i \in DOMAIN ptyIn'
    <3>1. CASE i \in 1..Len(ptyIn)
      BY <3>1, <2>1, <1>3, <1>4
    <3>2. CASE i = Len(ptyIn) + 1
      BY <3>2, <2>3, <1>3
    <3> QED
      BY <3>1, <3>2, <1>3, <1>4
  <2>5. \A i \in DOMAIN keys' : keys'[i] = (eaten + Len(ptyIn')) + i
    <3> TAKE i \in DOMAIN keys'
    <3>1. i \in Nat /\ i + 1 \in DOMAIN keys /\ keys'[i] = keys[i + 1]
      BY <1>2, <1>4
    <3>2. keys'[i] = (eaten + Len(ptyIn)) + (i + 1)
      BY <3>1, <2>2
    <3> QED
      BY <3>1, <3>2, <1>3, <1>4
  <2>6. \A i \in DOMAIN sending : sending[i] = ((eaten + Len(ptyIn')) + Len(keys')) + i
    BY <1>1, <1>5 DEF Continued
  <2>7. \A i \in DOMAIN waiting :
          waiting[i] = (((eaten + Len(ptyIn')) + Len(keys')) + Len(sending)) + i
    BY <1>1, <1>5 DEF Continued
  <2>8. \A n \in Nat : Ahead' < n /\ n <= typed => \E i \in DOMAIN inbox : IsKey(i)' /\ inbox[i].key = n
    BY <1>1, <1>6 DEF Continued, IsKey
  <2> QED
    BY <1>1, <2>4, <2>5, <2>6, <2>7, <2>8 DEF Continued
<1> QED
  BY <1>7, <1>10, <1>11, <1>12

\* A writer thread that ends loses what is in its channel.
LEMMA InputLost ==
  ASSUME Input, WriterFails \/ WriterEnds
  PROVE  Input'
<1> USE DEF Input
<1>1. /\ writer' # "live" /\ writer' # writer
      /\ queued' = 0 \/ queued' = queued
      /\ UNCHANGED <<eaten, ptyIn, typed, waiting, sending, inbox, pc, page>>
  BY DEF WriterFails, WriterEnds, programVars, loopVars, pageVars
<1>2. keys' \in Inputs /\ Len(keys') \in Nat /\ Len(keys') <= Len(keys)
  <2>1. CASE WriterFails
    <3>1. keys # <<>> /\ keys' = Tail(keys)
      BY <2>1 DEF WriterFails
    <3>2. Len(keys') = Len(keys) - 1 /\ Len(keys) # 0 /\ keys' \in Inputs
      BY <3>1, HeadTailProperties, EmptySeq DEF Carried, Inputs
    <3> QED
      BY <3>2, Lengths
  <2>2. CASE WriterEnds
    <3>1. keys' = <<>> /\ Len(keys') = 0 /\ <<>> \in Inputs
      BY <2>2, EmptySeq DEF WriterEnds, Inputs
    <3> QED
      BY <3>1, Lengths
  <2> QED
    BY <2>1, <2>2
<1>3. Ahead' \in Nat /\ Ahead' <= Ahead
  BY <1>1, <1>2, Lengths DEF Ahead, Carried
<1>4. Numbered'
  BY <1>1, <1>3, NumberedKept
<1>5. Carried'
  BY <1>1, <1>2, Limits DEF Carried
<1>6. Counted' /\ Continued'
  BY <1>1 DEF Counted, Continued
<1> QED
  BY <1>4, <1>5, <1>6

\* Input refused before is counted, and is then what the session sends.
LEMMA InputResent ==
  ASSUME Input, pc = "input", waiting # <<>>, ~Refused, Count(waiting), waiting' = <<>>, pc' = "resend",
         UNCHANGED <<eaten, typed, writer, ptyIn, keys, inbox, page>>
  PROVE  Input'
<1> USE DEF Input
<1>1. sending = <<>> /\ sending' = waiting /\ queued' = queued + 1 /\ queued < MaxInput
      /\ <<>> \in Inputs /\ Len(sending) = 0 /\ Len(waiting') = 0 /\ DOMAIN waiting' = {}
  BY EmptySeq, Limits DEF Counted, Count, Refused, Inputs, Carried
<1>2. Len(waiting) \in Nat /\ Len(keys) \in Nat /\ queued \in Nat
      /\ eaten \in Nat /\ Len(ptyIn) \in Nat /\ Ahead \in Nat
  BY Lengths DEF Carried
<1>3. Ahead' = Ahead
  BY <1>1, <1>2 DEF Ahead
<1>4. Numbered'
  BY <1>2, <1>3, NumberedKept
<1>5. Carried'
  BY <1>1, <1>2, Limits DEF Carried
<1>6. Counted'
  <2>1. Len(waiting) # 0
    BY EmptySeq DEF Carried, Inputs
  <2>2. Len(waiting) <= 1 /\ (writer = "live" => queued = Len(keys) + Len(sending))
    BY ONLY Input DEF Input, Counted
  <2>3. Len(waiting) = 1
    <3>1. \A n \in Nat : n # 0 /\ n <= 1 => n = 1
      OBVIOUS
    <3> QED
      BY <3>1, <2>1, <2>2, <1>2
  <2>4. writer = "live" => queued' = Len(keys) + Len(sending')
    <3> SUFFICES ASSUME writer = "live" PROVE queued' = Len(keys) + Len(sending')
      OBVIOUS
    <3>1. queued = Len(keys) /\ Len(sending') = 1
      BY ONLY <2>2, <2>3, <1>1, <1>2, writer = "live"
    <3> QED
      BY <3>1, <1>1
  <2> QED
    BY <2>3, <2>4, <1>1 DEF Counted
<1>7. Continued'
  <2> SUFFICES ASSUME writer = "live", InLoop PROVE Continued'
    BY DEF Continued, InLoop
  <2>1. \A i \in DOMAIN sending' : sending'[i] = ((eaten + Len(ptyIn)) + Len(keys)) + i
    BY <1>1, <1>2 DEF Continued
  <2>2. \A n \in Nat : Ahead' < n /\ n <= typed => \E i \in DOMAIN inbox : IsKey(i)' /\ inbox[i].key = n
    BY <1>3 DEF Continued, IsKey
  <2> QED
    BY <1>1, <2>1, <2>2 DEF Continued
<1> QED
  BY <1>4, <1>5, <1>6, <1>7

\* The session puts what it counted in the channel; without a writer thread it is lost.
LEMMA InputSent ==
  ASSUME Input, Send
  PROVE  Input'
<1> USE DEF Input
<1>1. /\ pc \in {"send", "resend"} /\ sending' = <<>> /\ pc' \in {"turn", "read"}
      /\ UNCHANGED <<eaten, typed, writer, ptyIn, waiting, inbox, page>>
      /\ Len(sending') = 0 /\ DOMAIN sending' = {} /\ <<>> \in Inputs
  BY EmptySeq DEF Send, Inputs, programVars, pageVars
<1>2. /\ eaten \in Nat /\ Len(ptyIn) \in Nat /\ Len(keys) \in Nat /\ Len(sending) \in Nat
      /\ Len(waiting) \in Nat /\ Ahead \in Nat /\ waiting = <<>> /\ queued \in Nat
      /\ DOMAIN keys = 1..Len(keys) /\ DOMAIN sending = 1..Len(sending)
      /\ Len(waiting) = 0 /\ DOMAIN waiting = {}
  BY <1>1, Lengths, EmptySeq DEF Counted, Carried
<1>3. CASE writer = "gone"
  <2>1. queued' = 0 /\ keys' = keys
    BY <1>3 DEF Send
  <2>2. Ahead' \in Nat /\ Ahead' <= Ahead
    BY <2>1, <1>1, <1>2 DEF Ahead
  <2>3. Numbered'
    BY <2>2, <1>1, NumberedKept
  <2>4. Carried'
    BY <2>1, <1>1, <1>3, Limits DEF Carried
  <2>5. Counted' /\ Continued'
    BY <1>1, <1>2, <1>3 DEF Counted, Continued
  <2> QED
    BY <2>3, <2>4, <2>5
<1>4. CASE writer # "gone"
  <2>1. queued' = queued /\ keys' = keys \o sending
    BY <1>4 DEF Send
  <2>2. /\ keys' \in Inputs /\ Len(keys') = Len(keys) + Len(sending)
        /\ \A i \in 1..Len(keys') :
             keys'[i] = IF i <= Len(keys) THEN keys[i] ELSE sending[i - Len(keys)]
    BY <2>1, ConcatProperties DEF Carried, Inputs
  <2>3. DOMAIN keys' = 1..Len(keys')
    BY <2>2, LenProperties DEF Inputs
  <2>4. Ahead' = Ahead
    BY <2>2, <1>1, <1>2 DEF Ahead
  <2>5. Numbered'
    BY <2>4, <1>1, <1>2, NumberedKept
  <2>6. writer = "live" => queued' = Len(keys')
    BY <2>1, <2>2 DEF Counted
  <2>7. Carried'
    BY <2>1, <2>2, <2>6, <1>1, <1>2, Limits DEF Carried
  <2>8. Counted'
    BY <2>6, <2>2, <1>1, <1>2 DEF Counted
  <2>9. Continued'
    <3> SUFFICES ASSUME writer = "live", InLoop PROVE Continued'
      BY <1>1 DEF Continued, InLoop
    <3>1. \A i \in DOMAIN keys : keys[i] = (eaten + Len(ptyIn)) + i
      BY DEF Continued
    <3>2. \A i \in DOMAIN sending : sending[i] = (eaten + Len(ptyIn)) + Len(keys) + i
      BY DEF Continued
    <3>3. \A i \in DOMAIN keys' : keys'[i] = (eaten + Len(ptyIn)) + i
      <4> TAKE i \in DOMAIN keys'
      <4>1. CASE i <= Len(keys)
        BY <4>1, <3>1, <2>2, <2>3, <1>2
      <4>2. CASE ~(i <= Len(keys))
        <5>1. i - Len(keys) \in DOMAIN sending /\ keys'[i] = sending[i - Len(keys)] /\ i \in Nat
          BY <4>2, <2>2, <2>3, <1>2
        <5>2. keys'[i] = (eaten + Len(ptyIn)) + Len(keys) + (i - Len(keys))
          BY <5>1, <3>2
        <5> QED
          BY <5>1, <5>2, <1>2
      <4> QED
        BY <4>1, <4>2
    <3>4. \A n \in Nat : Ahead' < n /\ n <= typed => \E i \in DOMAIN inbox : IsKey(i)' /\ inbox[i].key = n
      BY <2>4, <1>1 DEF Continued, IsKey
    <3> QED
      BY <1>1, <1>2, <3>3, <3>4 DEF Continued
  <2> QED
    BY <2>5, <2>7, <2>8, <2>9
<1> QED
  BY <1>3, <1>4

LEMMA InboxTaken ==
  ASSUME Carried, inbox # <<>>, inbox' = Tail(inbox)
  PROVE  /\ 1 \in DOMAIN inbox /\ inbox[1] = Head(inbox)
         /\ inbox' \in Seq(PageMessage)
         /\ Len(inbox) \in Nat /\ Len(inbox') \in Nat /\ Len(inbox') < Len(inbox)
         /\ \A i \in DOMAIN inbox' :
              /\ i \in Nat /\ i + 1 \in DOMAIN inbox /\ i # 0
              /\ inbox'[i] = inbox[i + 1] /\ IsKey(i)' = IsKey(i + 1)
         /\ \A i \in DOMAIN inbox :
              /\ i \in Nat
              /\ i = 1 \/ /\ i - 1 \in DOMAIN inbox' /\ inbox'[i - 1] = inbox[i]
                          /\ i > 1
<1>1. inbox \in Seq(PageMessage)
  BY DEF Carried
<1>2. Len(inbox) \in Nat /\ Len(inbox) # 0 /\ Len(inbox') = Len(inbox) - 1
      /\ DOMAIN inbox = 1..Len(inbox)
  BY <1>1, HeadTailProperties, EmptySeq, LenProperties
<1>3. /\ 1 \in DOMAIN inbox /\ inbox[1] = Head(inbox)
      /\ inbox' \in Seq(PageMessage)
      /\ \A i \in DOMAIN inbox' :
              i \in Nat /\ i # 0 /\ i + 1 \in DOMAIN inbox /\ inbox'[i] = inbox[i + 1]
      /\ \A i \in DOMAIN inbox :
              i \in Nat /\ (i = 1 \/ (i - 1 \in DOMAIN inbox' /\ inbox'[i - 1] = inbox[i]))
  BY <1>1, TakenOff
<1>4. \A i \in DOMAIN inbox' : IsKey(i)' = IsKey(i + 1)
  BY <1>3 DEF IsKey
<1>5. \A i \in DOMAIN inbox : i \in Nat /\ i >= 1
  BY <1>2
<1> QED
  BY <1>2, <1>3, <1>4, <1>5

\* A read of the page finds no input held back, and none on its way to the channel.
LEMMA NothingHeld ==
  ASSUME Input, Reading
  PROVE  /\ pc \in {"read", "input"}
         /\ waiting = <<>> /\ sending = <<>> /\ Len(waiting) = 0 /\ Len(sending) = 0
         /\ Ahead = eaten + Len(ptyIn) + Len(keys)
         /\ Ahead \in Nat
<1>1. pc \in {"read", "input"} /\ waiting = <<>> /\ sending = <<>>
  BY DEF Input, Reading, Counted
<1>2. Len(waiting) = 0 /\ Len(sending) = 0
  BY <1>1
<1> QED
  BY <1>1, <1>2, Lengths DEF Input, Ahead, Carried

LEMMA InputTaken ==
  ASSUME Input, ReadKey
  PROVE  Input'
<1> USE DEF Input
<1>1. /\ Reading /\ inbox # <<>> /\ Head(inbox).kind = "key" /\ inbox' = Tail(inbox)
      /\ UNCHANGED <<eaten, typed, writer, ptyIn, keys, page>>
  BY DEF ReadKey, programVars
<1> DEFINE k == Head(inbox).key
<1>2. \/ /\ waiting' = <<k>> /\ pc' = "turn" /\ UNCHANGED <<queued, sending>>
      \/ /\ ~Refused /\ queued' = queued + 1 /\ sending' = <<k>> /\ pc' = "send"
         /\ UNCHANGED waiting
  BY DEF ReadKey, Count
<1>3. /\ inbox[1] = Head(inbox) /\ 1 \in DOMAIN inbox /\ IsKey(1) /\ inbox[1].key = k
      /\ k \in 1..MaxTyped /\ k \in Nat
  <2>1. inbox[1] = Head(inbox) /\ 1 \in DOMAIN inbox
    BY <1>1, InboxTaken
  <2>2. Head(inbox) \in PageMessage
    BY <2>1, KeyNumbers
  <2> QED
    BY <1>1, <2>1, <2>2, Limits DEF PageMessage, IsKey
<1>4. <<k>> \in Inputs /\ Len(<<k>>) = 1 /\ DOMAIN <<k>> = {1} /\ <<k>>[1] = k /\ <<k>> # <<>>
  BY <1>3 DEF Inputs
<1> HIDE DEF k
<1>5. /\ pc \in {"read", "input"} /\ waiting = <<>> /\ sending = <<>>
      /\ Len(waiting) = 0 /\ Len(sending) = 0 /\ DOMAIN waiting = {} /\ DOMAIN sending = {}
      /\ Ahead = eaten + Len(ptyIn) + Len(keys) /\ Ahead \in Nat
      /\ eaten \in Nat /\ Len(ptyIn) \in Nat /\ Len(keys) \in Nat /\ queued \in Nat
      /\ typed \in Nat
  BY <1>1, NothingHeld, Lengths DEF Carried
<1>6. Ahead' = Ahead + 1
  <2> DEFINE through == eaten + Len(ptyIn) + Len(keys)
  <2>1. through \in Nat /\ Ahead = through
    BY <1>5
  <2>2. /\ UNCHANGED <<eaten, ptyIn, keys>>
        /\ Ahead' = through + Len(sending') + Len(waiting')
    BY <1>1 DEF Ahead
  <2> HIDE DEF through
  <2>3. CASE Len(waiting') = 1 /\ Len(sending') = 0
    BY <2>1, <2>2, <2>3
  <2>4. CASE Len(waiting') = 0 /\ Len(sending') = 1
    BY <2>1, <2>2, <2>4
  <2> QED
    BY <2>3, <2>4, <1>2, <1>4, <1>5
<1>7. Ahead < k /\ k <= typed
  BY <1>3 DEF Numbered
<1>8. \A i \in DOMAIN inbox' :
        IsKey(i)' => /\ inbox'[i].key \in Nat /\ k < inbox'[i].key
                     /\ inbox'[i].key <= typed
  <2> SUFFICES ASSUME NEW i \in DOMAIN inbox', IsKey(i)'
               PROVE  /\ inbox'[i].key \in Nat /\ k < inbox'[i].key
                      /\ inbox'[i].key <= typed
    OBVIOUS
  <2>1. /\ i \in Nat /\ i # 0 /\ i + 1 \in DOMAIN inbox /\ inbox'[i] = inbox[i + 1] /\ IsKey(i + 1)
    BY <1>1, InboxTaken
  <2>2. 1 < i + 1 /\ inbox[i + 1].key \in Nat
    BY <2>1, KeyNumbers
  <2> QED
    BY <2>1, <2>2, <1>3 DEF Numbered
<1>9. Numbered'
  <2>1. Ahead' <= typed
    BY <1>5, <1>6, <1>7, <1>3
  <2>2. \A i \in DOMAIN inbox' : IsKey(i)' => Ahead' < inbox'[i].key /\ inbox'[i].key <= typed
    BY <1>3, <1>5, <1>6, <1>7, <1>8
  <2>3. \A i, j \in DOMAIN inbox' : IsKey(i)' /\ IsKey(j)' /\ i < j => inbox'[i].key < inbox'[j].key
    <3> SUFFICES ASSUME NEW i \in DOMAIN inbox', NEW j \in DOMAIN inbox',
                        IsKey(i)', IsKey(j)', i < j
                 PROVE  inbox'[i].key < inbox'[j].key
      OBVIOUS
    <3>1. /\ i \in Nat /\ i + 1 \in DOMAIN inbox /\ inbox'[i] = inbox[i + 1] /\ IsKey(i + 1)
          /\ j \in Nat /\ j + 1 \in DOMAIN inbox /\ inbox'[j] = inbox[j + 1] /\ IsKey(j + 1)
      BY <1>1, InboxTaken
    <3> QED
      BY <3>1 DEF Numbered
  <2> QED
    BY <1>1, <2>1, <2>2, <2>3 DEF Numbered
<1>10. inbox' \in Seq(PageMessage) /\ Len(inbox') \in Nat /\ Len(inbox) \in Nat
       /\ Len(inbox') < Len(inbox)
  BY <1>1, InboxTaken
<1>11. Carried'
  <2>1. waiting' \in Inputs /\ sending' \in Inputs
    BY <1>2, <1>4 DEF Carried
  <2>2. queued' \in Nat /\ queued' <= MaxInput /\ queued <= queued'
    <3>1. CASE queued' = queued
      BY <3>1, <1>5 DEF Carried
    <3>2. CASE ~Refused /\ queued' = queued + 1
      BY <3>2, <1>5, Limits DEF Refused
    <3> QED
      BY <3>1, <3>2, <1>2
  <2>3. writer = "live" => Len(keys) <= queued'
    BY <2>2, <1>5 DEF Carried
  <2> QED
    BY <2>1, <2>2, <2>3, <1>1, <1>10, Limits DEF Carried
<1>12. Counted'
  <2>1. writer = "live" => queued = Len(keys)
    BY <1>5 DEF Counted
  <2>2. writer = "live" => queued' = Len(keys) + Len(sending')
    <3> SUFFICES ASSUME writer = "live" PROVE queued' = Len(keys) + Len(sending')
      OBVIOUS
    <3>1. CASE queued' = queued /\ Len(sending') = 0
      BY <3>1, <2>1, <1>5
    <3>2. CASE queued' = queued + 1 /\ Len(sending') = 1
      BY <3>2, <2>1, <1>5
    <3> QED
      BY <3>1, <3>2, <1>2, <1>4, <1>5
  <2>3. page = "open" => Len(inbox') <= InboxCap
    BY <1>10, Limits DEF Counted
  <2> QED
    <3>1. CASE sending' = <<k>> /\ waiting' = <<>> /\ pc' = "send"
      BY <3>1, <2>2, <2>3, <1>1, <1>4, <1>5 DEF Counted
    <3>2. CASE sending' = <<>> /\ waiting' = <<k>> /\ pc' = "turn"
      BY <3>2, <2>2, <2>3, <1>1, <1>4, <1>5 DEF Counted
    <3> QED
      BY <3>1, <3>2, <1>2, <1>5
<1>13. Continued'
  <2> SUFFICES ASSUME writer = "live", InLoop PROVE Continued'
    BY <1>1, <1>5 DEF Continued, InLoop
  <2>1. \A n \in Nat : Ahead < n /\ n <= typed => \E i \in DOMAIN inbox : IsKey(i) /\ inbox[i].key = n
    BY DEF Continued
  <2>2. k = Ahead + 1
    <3>1. Ahead + 1 \in Nat /\ Ahead < Ahead + 1 /\ Ahead + 1 <= typed
      BY <1>3, <1>5, <1>7
    <3>2. PICK i \in DOMAIN inbox : IsKey(i) /\ inbox[i].key = Ahead + 1
      BY <2>1, <3>1
    <3>3. CASE i = 1
      BY <3>2, <3>3, <1>3
    <3>4. CASE i # 1
      <4>1. i > 1
        BY <3>4, <1>1, InboxTaken
      <4>2. k < Ahead + 1
        BY <4>1, <3>2, <1>3 DEF Numbered
      <4> QED
        BY <4>2, <1>3, <1>5, <1>7
    <3> QED
      BY <3>3, <3>4
  <2>3. ASSUME NEW n \in Nat, Ahead' < n, n <= typed
        PROVE  \E i \in DOMAIN inbox' : IsKey(i)' /\ inbox'[i].key = n
    <3>1. Ahead < n /\ n # k
      BY <2>2, <2>3, <1>5, <1>6
    <3>2. PICK i \in DOMAIN inbox : IsKey(i) /\ inbox[i].key = n
      BY <2>1, <2>3, <3>1
    <3>3. i # 1
      BY <3>1, <3>2, <1>3
    <3>4. i \in Nat /\ i - 1 \in DOMAIN inbox' /\ inbox'[i - 1] = inbox[i]
      BY <3>3, <1>1, InboxTaken
    <3>5. IsKey(i - 1)'
      BY <3>2, <3>4 DEF IsKey
    <3> QED
      BY <3>2, <3>4, <3>5
  <2>4. \A i \in DOMAIN sending' : sending'[i] = eaten + Len(ptyIn) + Len(keys) + i
    BY <1>2, <1>4, <1>5, <2>2
  <2>5. \A i \in DOMAIN waiting' :
          waiting'[i] = eaten + Len(ptyIn) + Len(keys) + Len(sending') + i
    BY <1>2, <1>4, <1>5, <2>2
  <2>6. /\ \A i \in DOMAIN ptyIn : ptyIn[i] = eaten + i
        /\ \A i \in DOMAIN keys : keys[i] = eaten + Len(ptyIn) + i
    BY DEF Continued
  <2> QED
    BY <1>1, <2>3, <2>4, <2>5, <2>6 DEF Continued
<1> QED
  BY <1>9, <1>11, <1>12, <1>13

\* What the page says it drew is not input.
LEMMA InputUntouched ==
  ASSUME Input, ReadShown
  PROVE  Input'
<1> USE DEF Input
<1>1. /\ Reading /\ inbox # <<>> /\ Head(inbox).kind = "shown" /\ inbox' = Tail(inbox)
      /\ pc' = "turn"
      /\ UNCHANGED <<eaten, typed, queued, writer, ptyIn, keys, waiting, sending, page>>
  BY DEF ReadShown, programVars, hostVars, writerVars
<1>2. inbox[1] = Head(inbox) /\ 1 \in DOMAIN inbox /\ ~IsKey(1)
  <2>1. inbox[1] = Head(inbox) /\ 1 \in DOMAIN inbox
    BY <1>1, InboxTaken
  <2> QED
    BY <1>1, <2>1 DEF IsKey
<1>3. Ahead' = Ahead /\ Ahead \in Nat /\ waiting = <<>> /\ sending = <<>>
  BY <1>1, NothingHeld DEF Ahead
<1>4. \A i \in DOMAIN inbox' :
        /\ i \in Nat /\ i + 1 \in DOMAIN inbox /\ inbox'[i] = inbox[i + 1]
        /\ IsKey(i)' = IsKey(i + 1)
  BY <1>1, InboxTaken
<1>5. Numbered'
  <2>1. \A i \in DOMAIN inbox' : IsKey(i)' => Ahead < inbox'[i].key /\ inbox'[i].key <= typed
    BY <1>4 DEF Numbered
  <2>2. \A i, j \in DOMAIN inbox' : IsKey(i)' /\ IsKey(j)' /\ i < j => inbox'[i].key < inbox'[j].key
    <3> SUFFICES ASSUME NEW i \in DOMAIN inbox', NEW j \in DOMAIN inbox',
                        IsKey(i)', IsKey(j)', i < j
                 PROVE  inbox'[i].key < inbox'[j].key
      OBVIOUS
    <3>1. i + 1 < j + 1
      BY <1>4
    <3> QED
      BY <3>1, <1>4 DEF Numbered
  <2> QED
    BY <1>1, <1>3, <2>1, <2>2 DEF Numbered
<1>6. inbox' \in Seq(PageMessage) /\ Len(inbox') \in Nat /\ Len(inbox) \in Nat
       /\ Len(inbox') < Len(inbox)
  BY <1>1, InboxTaken
<1>7. Carried'
  BY <1>1, <1>6, Limits DEF Carried
<1>8. Counted'
  <2>1. page = "open" => Len(inbox') <= InboxCap
    BY <1>6, Limits DEF Counted
  <2> QED
    BY <1>1, <1>3, <2>1 DEF Counted
<1>9. Continued'
  <2> SUFFICES ASSUME writer = "live", InLoop PROVE Continued'
    BY <1>1, NothingHeld DEF Continued, InLoop
  <2>1. ASSUME NEW n \in Nat, Ahead < n, n <= typed
        PROVE  \E i \in DOMAIN inbox' : IsKey(i)' /\ inbox'[i].key = n
    <3>1. PICK i \in DOMAIN inbox : IsKey(i) /\ inbox[i].key = n
      BY <2>1 DEF Continued
    <3>2. i # 1
      BY <3>1, <1>2
    <3>3. i \in Nat /\ i - 1 \in DOMAIN inbox' /\ inbox'[i - 1] = inbox[i]
      BY <3>2, <1>1, InboxTaken
    <3>4. IsKey(i - 1)'
      BY <3>1, <3>3 DEF IsKey
    <3> QED
      BY <3>1, <3>3, <3>4
  <2> QED
    BY <1>1, <1>3, <2>1 DEF Continued
<1> QED
  BY <1>5, <1>7, <1>8, <1>9

LEMMA InboxAppended ==
  ASSUME Carried, NEW message \in PageMessage, inbox' = Append(inbox, message)
  PROVE  /\ inbox' \in Seq(PageMessage)
         /\ Len(inbox) \in Nat /\ Len(inbox') = Len(inbox) + 1
         /\ DOMAIN inbox' = DOMAIN inbox \cup {Len(inbox) + 1}
         /\ inbox'[Len(inbox) + 1] = message
         /\ \A i \in DOMAIN inbox : /\ i \in Nat /\ i < Len(inbox) + 1
                                    /\ inbox'[i] = inbox[i] /\ IsKey(i)' = IsKey(i)
<1>1. inbox \in Seq(PageMessage)
  BY DEF Carried
<1>2. /\ inbox' \in Seq(PageMessage) /\ Len(inbox) \in Nat
      /\ DOMAIN inbox' = DOMAIN inbox \cup {Len(inbox) + 1}
      /\ inbox'[Len(inbox) + 1] = message
      /\ \A i \in DOMAIN inbox : i \in Nat /\ i < Len(inbox) + 1 /\ inbox'[i] = inbox[i]
  BY <1>1, Appended
<1>3. Len(inbox') = Len(inbox) + 1
  BY <1>1, AppendProperties
<1> QED
  BY <1>2, <1>3 DEF IsKey

LEMMA InputTyped ==
  ASSUME Input, PageTypes
  PROVE  Input'
<1> USE DEF Input
<1>1. /\ page = "open" /\ Len(inbox) < InboxCap /\ typed < MaxTyped /\ typed' = typed + 1
      /\ inbox' = Append(inbox, Key(typed'))
      /\ UNCHANGED <<eaten, queued, writer, ptyIn, keys, waiting, sending, page, pc>>
  BY DEF PageTypes, programVars, hostVars, writerVars, loopVars
<1>2. typed' \in 1..MaxTyped /\ typed \in Nat /\ typed' \in Nat /\ typed < typed'
  BY <1>1, Limits DEF Carried
<1> PICK last \in Nat : last = Len(inbox) + 1
  BY Lengths
<1>3. Key(typed') \in PageMessage /\ Key(typed').kind = "key" /\ Key(typed').key = typed'
  BY <1>2 DEF Key, PageMessage
<1>4. /\ inbox' \in Seq(PageMessage)
      /\ Len(inbox) \in Nat /\ Len(inbox') = Len(inbox) + 1
      /\ DOMAIN inbox' = DOMAIN inbox \cup {last}
      /\ inbox'[last] = Key(typed')
      /\ \A i \in DOMAIN inbox : /\ i \in Nat /\ i < last
                                 /\ inbox'[i] = inbox[i] /\ IsKey(i)' = IsKey(i)
  <2> PICK message \in PageMessage : message = Key(typed')
    BY <1>3
  <2> QED
    BY <1>1, InboxAppended
<1>5. IsKey(last)' /\ inbox'[last].key = typed'
  BY <1>3, <1>4 DEF IsKey
<1>6. Ahead' = Ahead /\ Ahead \in Nat
  BY <1>1, Lengths DEF Ahead
<1>7. Numbered'
  <2>1. Ahead <= typed' /\ Ahead < typed'
    BY <1>2, <1>6 DEF Numbered
  <2>2. ASSUME NEW i \in DOMAIN inbox', IsKey(i)'
        PROVE  Ahead < inbox'[i].key /\ inbox'[i].key <= typed'
    <3>1. CASE i = last
      BY <3>1, <2>1, <1>2, <1>5
    <3>2. CASE i \in DOMAIN inbox
      <4>1. IsKey(i) /\ inbox'[i] = inbox[i] /\ inbox[i].key \in Nat
        BY <2>2, <3>2, <1>4, KeyNumbers
      <4> QED
        BY <4>1, <3>2, <1>2 DEF Numbered
    <3> QED
      BY <3>1, <3>2, <1>4
  <2>3. ASSUME NEW i \in DOMAIN inbox', NEW j \in DOMAIN inbox', IsKey(i)', IsKey(j)', i < j
        PROVE  inbox'[i].key < inbox'[j].key
    <3>1. i \in DOMAIN inbox
      <4>1. i # last
        <5>1. j \in DOMAIN inbox => j \in Nat /\ j < last
          BY <1>4
        <5> QED
          BY <5>1, <2>3, <1>4
      <4> QED
        BY <4>1, <1>4
    <3>2. IsKey(i) /\ inbox'[i] = inbox[i] /\ inbox[i].key \in Nat
      BY <2>3, <3>1, <1>4, KeyNumbers
    <3>3. CASE j = last
      <4>1. inbox[i].key <= typed
        BY <3>1, <3>2 DEF Numbered
      <4> QED
        BY <4>1, <3>2, <3>3, <1>2, <1>5
    <3>4. CASE j \in DOMAIN inbox
      <4>1. IsKey(j) /\ inbox'[j] = inbox[j]
        BY <2>3, <3>4, <1>4
      <4> QED
        BY <4>1, <3>1, <3>2, <3>4, <2>3 DEF Numbered
    <3> QED
      BY <3>3, <3>4, <1>4
  <2> QED
    BY <1>6, <2>1, <2>2, <2>3 DEF Numbered
<1>8. Carried'
  <2>1. Len(inbox') <= InboxCap + 1 /\ typed' <= MaxTyped
    BY <1>1, <1>2, <1>4, Limits
  <2> QED
    BY <1>1, <1>2, <1>4, <2>1, Limits DEF Carried
<1>9. Counted'
  <2>1. Len(inbox') <= InboxCap
    BY <1>1, <1>4, Limits
  <2> QED
    BY <1>1, <2>1 DEF Counted
<1>10. Continued'
  <2> SUFFICES ASSUME writer = "live", InLoop PROVE Continued'
    BY <1>1 DEF Continued, InLoop
  <2>1. ASSUME NEW n \in Nat, Ahead < n, n <= typed'
        PROVE  \E i \in DOMAIN inbox' : IsKey(i)' /\ inbox'[i].key = n
    <3>1. CASE n = typed'
      BY <3>1, <1>4, <1>5
    <3>2. CASE n # typed'
      <4>1. n <= typed
        BY <3>2, <2>1, <1>1, <1>2
      <4>2. PICK i \in DOMAIN inbox : IsKey(i) /\ inbox[i].key = n
        BY <4>1, <2>1 DEF Continued
      <4> QED
        BY <4>2, <1>4
    <3> QED
      BY <3>1, <3>2
  <2> QED
    BY <1>1, <1>6, <2>1 DEF Continued
<1> QED
  BY <1>7, <1>8, <1>9, <1>10

\* Nor is anything else the page sends.
LEMMA InputBeside ==
  ASSUME Input, NEW message \in PageMessage, message.kind # "key",
         page = "open", Len(inbox) < InboxCap \/ page' = "closed",
         inbox' = Append(inbox, message),
         UNCHANGED <<eaten, typed, queued, writer, ptyIn, keys, waiting, sending, pc>>
  PROVE  Input'
<1> USE DEF Input
<1> PICK last \in Nat : last = Len(inbox) + 1
  BY Lengths
<1>1. /\ inbox' \in Seq(PageMessage)
      /\ Len(inbox) \in Nat /\ Len(inbox') = Len(inbox) + 1
      /\ DOMAIN inbox' = DOMAIN inbox \cup {last}
      /\ inbox'[last] = message
      /\ \A i \in DOMAIN inbox : /\ i \in Nat /\ i < last
                                 /\ inbox'[i] = inbox[i] /\ IsKey(i)' = IsKey(i)
  BY InboxAppended
<1>2. ~IsKey(last)'
  BY <1>1 DEF IsKey
<1>3. Ahead' = Ahead
  BY DEF Ahead
<1>4. \A i \in DOMAIN inbox' : IsKey(i)' => i \in DOMAIN inbox /\ IsKey(i) /\ inbox'[i] = inbox[i]
  BY <1>1, <1>2
<1>5. Numbered'
  BY <1>3, <1>4 DEF Numbered
<1>6. Len(inbox) <= InboxCap
  BY DEF Counted
<1>7. Carried'
  <2>1. Len(inbox') <= InboxCap + 1
    BY <1>1, <1>6, Limits
  <2> QED
    BY <1>1, <2>1 DEF Carried
<1>8. Counted'
  <2>1. page' = "open" => Len(inbox') <= InboxCap
    BY <1>1, Limits
  <2> QED
    BY <2>1 DEF Counted
<1>9. Continued'
  <2> SUFFICES ASSUME writer = "live", InLoop PROVE Continued'
    BY DEF Continued, InLoop
  <2>1. ASSUME NEW n \in Nat, Ahead < n, n <= typed
        PROVE  \E i \in DOMAIN inbox' : IsKey(i)' /\ inbox'[i].key = n
    <3>1. PICK i \in DOMAIN inbox : IsKey(i) /\ inbox[i].key = n
      BY <2>1 DEF Continued
    <3> QED
      BY <3>1, <1>1
  <2> QED
    BY <1>3, <2>1 DEF Continued
<1> QED
  BY <1>5, <1>7, <1>8, <1>9

LEMMA StepInput ==
  ASSUME Input, [Next]_vars
  PROVE  Input'
<1>1. CASE Leave /\ pc \notin {"send", "resend"}
           /\ UNCHANGED <<eaten, typed, queued, writer, ptyIn, keys, sending>>
  BY <1>1, InputLeft
<1>2. CASE \/ ProgramStartsWrite \/ ProgramWrites \/ ProgramExits \/ TtyFreed
           \/ ReaderLooks \/ Read \/ Keep \/ ReadEnds
           \/ WaiterKills \/ WaiterSees \/ WaiterTicks \/ WaiterEnds \/ UNCHANGED vars
  <2>1. UNCHANGED <<inputVars, page, pc>>
    BY <1>2 DEF ProgramStartsWrite, ProgramWrites, ProgramExits, TtyFreed,
         ReaderLooks, Read, Keep, ReadEnds, WaiterKills, WaiterSees, WaiterTicks,
         WaiterEnds, vars, inputVars, programVars, writerVars, hostVars, loopVars, pageVars
  <2> QED
    BY <2>1, InputQuiet
<1>3. CASE EndReads \/ End \/ ReadTimesOut
  <2>1. /\ UNCHANGED <<inputVars, page>>
        /\ \/ pc' = pc
           \/ pc = "await" /\ pc' = "over"
           \/ Reading /\ pc' = "turn"
    BY <1>3 DEF EndReads, End, ReadTimesOut, inputVars, programVars, writerVars, hostVars,
         loopVars, pageVars
  <2> QED
    BY <2>1, NothingHeld, InputQuiet
<1>4. CASE Turn
  <2>1. CASE Leave
    BY <1>1, <1>4, <2>1 DEF Turn, programVars, writerVars
  <2>2. CASE ~Leave
    <3>1. UNCHANGED <<inputVars, page>> /\ pc = "turn" /\ pc' = "input"
      BY <1>4, <2>2 DEF Turn, inputVars, programVars, writerVars
    <3> QED
      BY <3>1, InputQuiet
  <2> QED
    BY <2>1, <2>2
<1>5. CASE ExitStatus
  BY <1>1, <1>5 DEF ExitStatus, programVars, writerVars
<1>6. CASE RetryInput
  <2>1. CASE Leave /\ UNCHANGED <<queued, sending>>
    BY <1>1, <1>6, <2>1 DEF RetryInput, programVars
  <2>2. CASE pc' = "turn" /\ UNCHANGED <<queued, sending, waiting, inbox>>
    <3>1. UNCHANGED <<inputVars, page>> /\ pc = "input"
      BY <1>6, <2>2 DEF RetryInput, inputVars, programVars
    <3> QED
      BY <3>1, <2>2, InputQuiet
  <2>3. CASE ~Refused /\ Count(waiting) /\ waiting' = <<>> /\ pc' = "resend"
             /\ UNCHANGED inbox
    BY <1>6, <2>3, InputResent DEF RetryInput, programVars
  <2> QED
    BY <1>6, <2>1, <2>2, <2>3 DEF RetryInput
<1>7. CASE ReadGone \/ ReadClose
  <2>1. /\ Leave /\ Reading
        /\ UNCHANGED <<eaten, typed, queued, writer, ptyIn, keys, sending>>
    BY <1>7 DEF ReadGone, ReadClose, programVars, writerVars
  <2> QED
    BY <1>1, <2>1, NothingHeld
<1>8. CASE PageDraws
  <2>1. PICK n \in 1..wire : inbox' = Append(inbox, Shown(n))
    BY <1>8 DEF PageDraws
  <2>2. n \in Nat \ {0}
    BY <2>1
  <2>3. PICK message \in PageMessage : message = Shown(n) /\ message.kind # "key"
    <3>1. Shown(n) \in [kind: {"shown"}, units: Nat \ {0}] /\ Shown(n).kind = "shown"
      BY <2>2 DEF Shown
    <3> QED
      BY <3>1 DEF PageMessage
  <2>4. /\ page = "open" /\ Len(inbox) < InboxCap
        /\ UNCHANGED <<eaten, typed, queued, writer, ptyIn, keys, waiting, sending, pc>>
    BY <1>8 DEF PageDraws, programVars, writerVars, hostVars, loopVars
  <2> QED
    BY <2>1, <2>3, <2>4, InputBeside
<1>9. CASE PageCloses
  <2>1. /\ page = "open" /\ page' = "closed"
        /\ inbox' \in {inbox, Append(inbox, CloseFrame)}
        /\ UNCHANGED <<eaten, typed, queued, writer, ptyIn, keys, waiting, sending, pc>>
    BY <1>9 DEF PageCloses, programVars, writerVars, hostVars, loopVars
  <2>2. CASE inbox' = Append(inbox, CloseFrame)
    <3>1. PICK message \in PageMessage : message = CloseFrame /\ message.kind # "key"
      <4>1. CloseFrame \in [kind: {"close"}] /\ CloseFrame.kind = "close"
        BY DEF CloseFrame
      <4> QED
        BY <4>1 DEF PageMessage
    <3> QED
      BY <2>1, <2>2, <3>1, InputBeside
  <2>3. CASE inbox' = inbox
    <3>1. Carried' /\ Counted' /\ Numbered' /\ Continued'
      BY <2>1, <2>3 DEF Input, Carried, Counted, Numbered, Continued, Ahead, IsKey, InLoop
    <3> QED
      BY <3>1 DEF Input
  <2> QED
    BY <2>1, <2>2, <2>3
<1> QED
  BY <1>2, <1>3, <1>4, <1>5, <1>6, <1>7, <1>8, <1>9, InputRead, InputWritten, InputLost,
     InputSent, InputTaken, InputUntouched, InputTyped DEF Next
-----------------------------------------------------------------------------
(* What the page owes.                                                      *)

\* The page has nothing to draw, and has said nothing.
LEMMA NothingOwed ==
  ASSUME Amounts', wire' = 0, inbox' = <<>>
  PROVE  Owed' /\ Sent'
<1> PICK z \in Nat : z = unshown'
  BY DEF Amounts
<1> DEFINE owed == [i \in 0..0 |-> 0]
<1>1. owed \in [0..0 -> 0..z] /\ owed[0] = 0 /\ 1..0 = {}
  OBVIOUS
<1>2. Len(inbox') = 0
  OBVIOUS
<1> HIDE DEF owed
<1>3. Owed'
  BY <1>1, <1>2 DEF Owed
<1>4. Sent'
  BY DEF Sent, Amounts
<1> QED
  BY <1>3, <1>4

\* The page has sent one more message, and owes less by what it says it drew.
LEMMA OwedSent ==
  ASSUME Owed, Amounts, Sent, Carried, NEW message \in PageMessage, NEW n \in Nat,
         n = IF message.kind = "shown" THEN message.units ELSE 0,
         inbox' = Append(inbox, message), unshown' = unshown,
         wire' \in Nat, wire' + n <= wire
  PROVE  Owed' /\ Sent'
<1> PICK last \in Nat : last = Len(inbox) + 1
  BY Lengths
<1>1. /\ Len(inbox) \in Nat /\ Len(inbox) = last - 1 /\ last # 0 /\ Len(inbox') = last
      /\ DOMAIN inbox = 1..(last - 1)
      /\ inbox'[last] = message
      /\ \A i \in DOMAIN inbox : inbox'[i] = inbox[i]
  BY InboxAppended, Lengths
<1>2. wire \in Nat /\ unshown \in Nat
  BY DEF Sent, Amounts
<1>3. PICK owed \in [0..(last - 1) -> 0..unshown] :
        /\ wire <= owed[last - 1]
        /\ \A i \in 1..(last - 1) : \A j \in i..(last - 1) : owed[i - 1] >= owed[j] + Drawn(i)
  BY <1>1 DEF Owed
<1>4. \A i \in 0..(last - 1) : owed[i] \in Nat /\ owed[i] <= unshown
  BY <1>2, <1>3
<1>5. /\ owed[last - 1] \in Nat /\ n <= owed[last - 1]
      /\ owed[last - 1] - n \in Nat /\ wire' <= owed[last - 1] - n
      /\ owed[last - 1] <= unshown
  <2>1. last - 1 \in 0..(last - 1)
    BY <1>1
  <2>2. owed[last - 1] \in Nat /\ owed[last - 1] <= unshown
    BY <2>1, <1>4
  <2>3. wire <= owed[last - 1]
    BY <1>3
  <2>4. PICK most \in Nat : most = owed[last - 1]
    BY <2>2
  <2>5. wire <= most /\ n <= wire /\ wire' <= wire - n
    BY <2>3, <2>4, <1>2
  <2>6. n <= most /\ most - n \in Nat /\ wire' <= most - n
    BY <2>5, <1>2
  <2> QED
    BY <2>2, <2>4, <2>6
<1>6. Drawn(last)' = n /\ \A i \in 1..(last - 1) : Drawn(i)' = Drawn(i) /\ Drawn(i) \in Nat
  <2>1. Drawn(last)' = n
    BY <1>1 DEF Drawn
  <2>2. \A i \in 1..(last - 1) : inbox[i] \in PageMessage
    BY <1>1, KeyNumbers
  <2> QED
    BY <1>1, <2>1, <2>2 DEF Drawn, PageMessage
<1> DEFINE next == [i \in 0..last |-> IF i = last THEN owed[last - 1] - n ELSE owed[i]]
<1>7. next[last] = owed[last - 1] - n /\ \A i \in 0..(last - 1) : next[i] = owed[i]
  BY <1>1
<1>8. next \in [0..last -> 0..unshown]
  <2>1. ASSUME NEW i \in 0..last
        PROVE  (IF i = last THEN owed[last - 1] - n ELSE owed[i]) \in 0..unshown
    <3>1. CASE i = last
      BY <3>1, <1>2, <1>5
    <3>2. CASE i # last
      BY <3>2, <1>2, <1>4, <1>1
    <3> QED
      BY <3>1, <3>2
  <2> QED
    BY <2>1
<1> HIDE DEF next
<1>9. ASSUME NEW i \in 1..last, NEW j \in i..last
      PROVE  next[i - 1] >= next[j] + Drawn(i)'
  <2>1. i - 1 \in 0..(last - 1) /\ next[i - 1] = owed[i - 1] /\ owed[i - 1] \in Nat
    BY <1>1, <1>4, <1>7
  <2>2. CASE i = last
    <3>1. j = last
      BY <2>2
    <3> QED
      BY <2>1, <2>2, <3>1, <1>5, <1>6, <1>7
  <2>3. CASE i # last /\ j = last
    <3>1. i \in 1..(last - 1) /\ last - 1 \in i..(last - 1)
      BY <2>3, <1>1
    <3>2. owed[i - 1] >= owed[last - 1] + Drawn(i) /\ Drawn(i)' = Drawn(i) /\ Drawn(i) \in Nat
      BY <3>1, <1>3, <1>6
    <3> QED
      BY <2>1, <2>3, <3>2, <1>5, <1>7
  <2>4. CASE i # last /\ j # last
    <3>1. i \in 1..(last - 1) /\ j \in i..(last - 1) /\ j \in 0..(last - 1)
      BY <2>4, <1>1
    <3>2. owed[i - 1] >= owed[j] + Drawn(i) /\ Drawn(i)' = Drawn(i)
      BY <3>1, <1>3, <1>6
    <3> QED
      BY <2>1, <3>1, <3>2, <1>7
  <2> QED
    BY <2>2, <2>3, <2>4
<1>10. Owed'
  <2>1. wire' <= next[last]
    BY <1>5, <1>7
  <2> QED
    BY <2>1, <1>1, <1>8, <1>9 DEF Owed
<1>11. Sent'
  BY <1>2, <1>5 DEF Sent
<1> QED
  BY <1>10, <1>11

\* The session has read a message, and counts what it says was drawn.
LEMMA OwedRead ==
  ASSUME Owed, Amounts, Sent, Carried, inbox # <<>>, inbox' = Tail(inbox),
         unshown' = unshown - Min({unshown, Drawn(1)}), wire' = wire
  PROVE  Owed' /\ Sent'
<1> PICK last \in Nat : last = Len(inbox)
  BY Lengths
<1>1. /\ last # 0 /\ DOMAIN inbox = 1..last /\ Len(inbox') = last - 1
      /\ \A i \in 1..(last - 1) : inbox'[i] = inbox[i + 1]
  BY HeadTailProperties, EmptySeq, LenProperties DEF Carried
<1>2. wire \in Nat /\ unshown \in Nat
  BY DEF Sent, Amounts
<1>3. PICK owed \in [0..last -> 0..unshown] :
        /\ wire <= owed[last]
        /\ \A i \in 1..last : \A j \in i..last : owed[i - 1] >= owed[j] + Drawn(i)
  BY DEF Owed
<1>4. \A i \in 0..last : owed[i] \in Nat /\ owed[i] <= unshown
  BY <1>2, <1>3
<1>5. \A i \in 1..last : Drawn(i) \in Nat
  <2>1. \A i \in 1..last : inbox[i] \in PageMessage
    BY <1>1, KeyNumbers
  <2> QED
    BY <2>1 DEF Drawn, PageMessage
<1>6. \A i \in 1..(last - 1) : Drawn(i)' = Drawn(i + 1)
  BY <1>1 DEF Drawn
<1>7. \A j \in 1..last : owed[j] + Drawn(1) <= unshown
  <2> TAKE j \in 1..last
  <2>1. 1 \in 1..last /\ j \in 1..last /\ 0 \in 0..last
    BY <1>1
  <2>2. owed[1 - 1] >= owed[j] + Drawn(1)
    BY <2>1, <1>3
  <2>3. owed[1 - 1] <= unshown /\ owed[1 - 1] \in Nat
    BY <2>1, <1>4
  <2> QED
    BY <2>1, <2>2, <2>3, <1>2, <1>4, <1>5
<1>8. unshown' = unshown - Drawn(1) /\ unshown' \in Nat
  <2>1. 1 \in 1..last /\ last \in 1..last /\ Drawn(1) \in Nat
    BY <1>1, <1>5
  <2>2. Drawn(1) <= unshown
    BY <2>1, <1>2, <1>4, <1>7
  <2>3. Min({unshown, Drawn(1)}) = Drawn(1)
    BY <2>1, <2>2, <1>2, MinOfTwo
  <2> QED
    BY <2>1, <2>2, <2>3, <1>2
<1> PICK z \in Nat : z = unshown'
  BY <1>8
<1> DEFINE next == [i \in 0..(last - 1) |-> owed[i + 1]]
<1>9. \A i \in 0..(last - 1) : next[i] = owed[i + 1]
  OBVIOUS
<1>10. next \in [0..(last - 1) -> 0..z]
  <2>1. ASSUME NEW i \in 0..(last - 1) PROVE owed[i + 1] \in 0..z
    <3>1. i + 1 \in 1..last /\ i + 1 \in 0..last
      BY <1>1
    <3>2. owed[i + 1] + Drawn(1) <= unshown /\ owed[i + 1] \in Nat /\ Drawn(1) \in Nat
      BY <3>1, <1>1, <1>4, <1>5, <1>7
    <3> QED
      BY <3>2, <1>2, <1>8
  <2> QED
    BY <2>1
<1> HIDE DEF next
<1>11. wire' <= next[last - 1] /\ next[last - 1] <= z
  <2>1. last - 1 \in 0..(last - 1) /\ next[last - 1] = owed[last]
    BY <1>1, <1>9
  <2>2. wire' <= next[last - 1]
    BY <2>1, <1>3
  <2>3. next[last - 1] \in 0..z
    BY <2>1, <1>10
  <2> QED
    BY <2>2, <2>3
<1>12. ASSUME NEW i \in 1..(last - 1), NEW j \in i..(last - 1)
       PROVE  next[i - 1] >= next[j] + Drawn(i)'
  <2>1. i + 1 \in 1..last /\ j + 1 \in (i + 1)..last /\ i - 1 \in 0..(last - 1)
        /\ j \in 0..(last - 1) /\ (i + 1) - 1 = (i - 1) + 1
    BY <1>1
  <2>2. owed[(i + 1) - 1] >= owed[j + 1] + Drawn(i + 1)
    BY <2>1, <1>3
  <2>3. next[i - 1] = owed[(i - 1) + 1] /\ next[j] = owed[j + 1]
    BY <2>1, <1>9
  <2> QED
    BY <2>1, <2>2, <2>3, <1>6
<1>13. Owed'
  BY <1>1, <1>10, <1>11, <1>12 DEF Owed
<1>14. Sent'
  <2>1. next[last - 1] \in Nat
    BY <1>1, <1>10
  <2> QED
    BY <2>1, <1>2, <1>11 DEF Sent
<1> QED
  BY <1>13, <1>14

\* The page is sent what the reader has kept, and may have closed.
LEMMA OwedTurn ==
  ASSUME Owed, Amounts, Sent, Carried, UNCHANGED inbox,
         unshown' = unshown + buffer, wire' = wire + buffer \/ wire' = wire
  PROVE  Owed' /\ Sent'
<1> PICK last \in Nat : last = Len(inbox)
  BY Lengths
<1> PICK more \in Nat : more = buffer
  BY DEF Amounts
<1> PICK z \in Nat : z = unshown + more
  BY DEF Amounts
<1>1. /\ unshown \in Nat /\ wire \in Nat /\ z = unshown' /\ Len(inbox') = last
      /\ wire' = wire + more \/ wire' = wire
      /\ DOMAIN inbox = 1..last
  BY Lengths DEF Amounts, Sent
<1>2. PICK owed \in [0..last -> 0..unshown] :
        /\ wire <= owed[last]
        /\ \A i \in 1..last : \A j \in i..last : owed[i - 1] >= owed[j] + Drawn(i)
  BY DEF Owed
<1>3. \A i \in 0..last : owed[i] \in Nat /\ owed[i] <= unshown
  BY <1>1, <1>2
<1>4. \A i \in 1..last : Drawn(i)' = Drawn(i) /\ Drawn(i) \in Nat
  <2>1. \A i \in 1..last : inbox[i] \in PageMessage
    BY <1>1, KeyNumbers
  <2> QED
    BY <2>1 DEF Drawn, PageMessage
<1> DEFINE next == [i \in 0..last |-> owed[i] + more]
<1>5. /\ next \in [0..last -> 0..z]
      /\ \A i \in 0..last : next[i] = owed[i] + more
  BY <1>1, <1>3
<1> HIDE DEF next
<1>6. last \in 0..last /\ wire' <= next[last] /\ wire' <= z /\ wire' \in Nat
  <2>1. last \in 0..last /\ owed[last] \in Nat /\ owed[last] <= unshown /\ next[last] = owed[last] + more
    BY <1>3, <1>5
  <2> QED
    BY <2>1, <1>1, <1>2
<1>7. ASSUME NEW i \in 1..last, NEW j \in i..last
      PROVE  next[i - 1] >= next[j] + Drawn(i)'
  <2>1. i - 1 \in 0..last /\ j \in 0..last
    OBVIOUS
  <2>2. owed[i - 1] >= owed[j] + Drawn(i)
    BY <1>2
  <2>3. owed[i - 1] \in Nat /\ owed[j] \in Nat /\ Drawn(i) \in Nat
    BY <2>1, <1>3, <1>4
  <2>4. next[i - 1] = owed[i - 1] + more /\ next[j] = owed[j] + more
    BY <2>1, <1>5
  <2> QED
    BY <2>2, <2>3, <2>4, <1>4
<1>8. Owed'
  BY <1>1, <1>5, <1>6, <1>7 DEF Owed
<1>9. Sent'
  BY <1>1, <1>6 DEF Sent
<1> QED
  BY <1>8, <1>9

LEMMA StepOwed ==
  ASSUME Owed, Sent, Amounts, Amounts', Carried, Flags, [Next]_vars
  PROVE  Owed' /\ Sent'
<1>1. CASE Leave
  BY <1>1, NothingOwed DEF Leave
<1>2. CASE UNCHANGED <<inbox, unshown, wire>>
  BY <1>2 DEF Owed, Sent, Drawn
<1>3. CASE \/ ProgramReads \/ ProgramStartsWrite \/ ProgramWrites \/ ProgramExits \/ TtyFreed
           \/ ReaderLooks \/ Read \/ Keep \/ ReadEnds
           \/ WriterWrites \/ WriterFails \/ WriterEnds
           \/ WaiterKills \/ WaiterSees \/ WaiterTicks \/ WaiterEnds
           \/ Send \/ ReadTimesOut \/ EndReads \/ End \/ UNCHANGED vars
  <2>1. UNCHANGED <<inbox, unshown, wire>>
    BY <1>3 DEF ProgramReads, ProgramStartsWrite, ProgramWrites, ProgramExits, TtyFreed,
         ReaderLooks, Read, Keep, ReadEnds, WriterWrites, WriterFails, WriterEnds,
         WaiterKills, WaiterSees, WaiterTicks, WaiterEnds, Send, ReadTimesOut, EndReads, End,
         vars, loopVars, pageVars
  <2> QED
    BY <2>1, <1>2
<1>4. CASE Turn
  <2>1. CASE Leave
    BY <2>1, <1>1
  <2>2. CASE UNCHANGED <<inbox, unshown, wire>>
    BY <2>2, <1>2
  <2>3. CASE /\ unshown' = unshown + buffer /\ UNCHANGED inbox
             /\ wire' = wire + buffer \/ wire' = wire
    BY <2>3, OwedTurn
  <2> QED
    BY <1>4, <2>1, <2>2, <2>3 DEF Turn
<1>5. CASE ExitStatus \/ ReadGone \/ ReadClose
  BY <1>1, <1>5 DEF ExitStatus, ReadGone, ReadClose
<1>6. CASE RetryInput
  <2>1. Leave \/ UNCHANGED <<inbox, unshown, wire>>
    BY <1>6 DEF RetryInput
  <2> QED
    BY <2>1, <1>1, <1>2
<1>7. CASE ReadKey \/ ReadShown
  <2>1. inbox # <<>> /\ inbox' = Tail(inbox) /\ wire' = wire
    BY <1>7 DEF ReadKey, ReadShown
  <2>2. inbox[1] = Head(inbox) /\ inbox[1] \in PageMessage
    BY <2>1, InboxTaken, KeyNumbers
  <2>3. Drawn(1) \in Nat
    BY <2>2 DEF Drawn, PageMessage
  <2>4. unshown' = unshown - Min({unshown, Drawn(1)})
    <3>1. CASE ReadKey
      <4>1. Drawn(1) = 0 /\ unshown' = unshown /\ unshown \in Nat
        BY <3>1, <2>2 DEF ReadKey, Drawn, Amounts
      <4>2. Min({unshown, 0}) = 0
        BY <4>1, MinOfTwo
      <4> QED
        BY <4>1, <4>2
    <3>2. CASE ReadShown
      BY <3>2, <2>2 DEF ReadShown, Drawn
    <3> QED
      BY <1>7, <3>1, <3>2
  <2> QED
    BY <2>1, <2>4, OwedRead
<1>8. CASE PageTypes
  <2>1. /\ inbox' = Append(inbox, Key(typed + 1)) /\ UNCHANGED <<unshown, wire>>
        /\ typed < MaxTyped /\ typed \in Nat
    BY <1>8 DEF PageTypes, loopVars, Carried
  <2>2. PICK message \in PageMessage : message = Key(typed + 1) /\ message.kind = "key"
    <3>1. typed + 1 \in 1..MaxTyped
      BY <2>1, Limits
    <3>2. Key(typed + 1) \in [kind: {"key"}, key: 1..MaxTyped] /\ Key(typed + 1).kind = "key"
      BY <3>1 DEF Key
    <3> QED
      BY <3>2 DEF PageMessage
  <2>3. 0 = IF message.kind = "shown" THEN message.units ELSE 0
    BY <2>2
  <2>4. wire' \in Nat /\ wire' + 0 <= wire
    BY <2>1 DEF Sent
  <2> QED
    BY <2>1, <2>2, <2>3, <2>4, OwedSent
<1>9. CASE PageDraws
  <2>1. PICK n \in 1..wire : wire' = wire - n /\ inbox' = Append(inbox, Shown(n))
    BY <1>9 DEF PageDraws
  <2>2. n \in Nat \ {0} /\ wire' \in Nat /\ wire' + n <= wire /\ unshown' = unshown
    BY <1>9, <2>1 DEF PageDraws, loopVars, Sent
  <2>3. PICK message \in PageMessage : message = Shown(n)
    <3>1. Shown(n) \in [kind: {"shown"}, units: Nat \ {0}]
      BY <2>2 DEF Shown
    <3> QED
      BY <3>1 DEF PageMessage
  <2>4. n = IF message.kind = "shown" THEN message.units ELSE 0
    BY <2>3 DEF Shown
  <2> QED
    BY <2>1, <2>2, <2>3, <2>4, OwedSent
<1>10. CASE PageCloses
  <2>1. /\ inbox' \in {inbox, Append(inbox, CloseFrame)}
        /\ wire' = 0 /\ unshown' = unshown /\ wire' \in Nat /\ wire' + 0 <= wire
    BY <1>10 DEF PageCloses, loopVars, Sent
  <2>2. CASE inbox' = Append(inbox, CloseFrame)
    <3>1. PICK message \in PageMessage : message = CloseFrame /\ message.kind = "close"
      <4>1. CloseFrame \in [kind: {"close"}] /\ CloseFrame.kind = "close"
        BY DEF CloseFrame
      <4> QED
        BY <4>1 DEF PageMessage
    <3>2. 0 = IF message.kind = "shown" THEN message.units ELSE 0
      BY <3>1
    <3> QED
      BY <2>1, <2>2, <3>1, <3>2, OwedSent
  <2>3. CASE inbox' = inbox
    <3> PICK last \in Nat : last = Len(inbox)
      BY Lengths
    <3>1. PICK owed \in [0..last -> 0..unshown] :
            /\ wire <= owed[last]
            /\ \A i \in 1..last : \A j \in i..last : owed[i - 1] >= owed[j] + Drawn(i)
      BY DEF Owed
    <3>2. wire' <= owed[last]
      <4>1. last \in 0..last /\ unshown \in Nat
        BY DEF Amounts
      <4>2. owed[last] \in 0..unshown
        BY <3>1, <4>1
      <4> QED
        BY <2>1, <4>1, <4>2
    <3>3. Owed'
      BY <2>1, <2>3, <3>1, <3>2 DEF Owed, Drawn
    <3>4. Sent'
      BY <2>1 DEF Sent, Amounts
    <3> QED
      BY <3>3, <3>4
  <2> QED
    BY <2>1, <2>2, <2>3
<1> QED
  BY <1>3, <1>4, <1>5, <1>6, <1>7, <1>8, <1>9, <1>10 DEF Next
-----------------------------------------------------------------------------
\* Every step of the program, the threads, the session and the page keeps the
\* invariant.
THEOREM Inductive == Spec => []IInv
<1>1. ASSUME IInv, [Next]_vars PROVE IInv'
  <2>1. Flags /\ Amounts /\ Sent /\ Carried
    BY <1>1, TypeParts DEF IInv
  <2>2. Program /\ Room /\ Drained /\ Accounts /\ Ended /\ Owed /\ Input
    BY <1>1, <2>1 DEF IInv, Input
  <2>3. Flags' /\ Amounts'
    BY <1>1, <2>1, <2>2, StepFlags, StepAmounts
  <2>4. Program' /\ Room' /\ Drained'
    BY <1>1, <2>1, <2>2, StepProgram, StepRoom, StepDrained
  <2>5. Accounts' /\ Ended'
    BY <1>1, <2>1, <2>2, StepAccounts, StepEnded
  <2>6. Input'
    BY <1>1, <2>2, StepInput
  <2>7. Owed' /\ Sent'
    BY <1>1, <2>1, <2>2, <2>3, StepOwed
  <2>8. Carried' /\ Counted' /\ Numbered' /\ Continued'
    BY <2>6 DEF Input
  <2>9. TypeOK'
    BY <2>3, <2>7, <2>8, TypeParts, PTL
  <2> QED
    BY <2>2, <2>4, <2>5, <2>7, <2>8, <2>9 DEF IInv
<1> QED
  BY InitInv, <1>1, PTL DEF Spec

\* What a session holds of its program's output, of its page's input and of what
\* it has sent and not seen drawn is bounded by the limits it is given, whatever
\* its program and its page do (LocalPty::backpressure, Server::max_buffered).
THEOREM TypeCorrect == Spec => []TypeOK
<1>1. IInv => TypeOK
  BY DEF IInv
<1> QED
  BY <1>1, Inductive, PTL

\* A page told that the program exited was sent all its program wrote before
\* (LocalPty's waiter, exit_status).
THEOREM ExitsLast == Spec => []ExitAfterOutput
<1>1. IInv => ExitAfterOutput
  BY DEF IInv, Accounts, ExitAfterOutput
<1> QED
  BY <1>1, Inductive, PTL

\* A session that is over has seen its program exit or killed it (`end`, the
\* waiter's KILL_GRACE).
THEOREM EndedIsEnded == Spec => []EndedOrKilled
<1>1. IInv => EndedOrKilled
  BY DEF IInv, Ended
<1> QED
  BY <1>1, Inductive, PTL

\* Two queues of which the second counts on from the first count as one.
LEMMA CountedOn ==
  ASSUME NEW S, NEW s \in Seq(S), NEW t \in Seq(S), NEW from \in Nat,
         \A i \in DOMAIN s : s[i] = from + i,
         \A i \in DOMAIN t : t[i] = from + Len(s) + i
  PROVE  /\ s \o t \in Seq(S) /\ Len(s \o t) = Len(s) + Len(t) /\ Len(s) \in Nat
         /\ Len(t) \in Nat /\ DOMAIN (s \o t) = 1..Len(s \o t)
         /\ \A i \in DOMAIN (s \o t) : (s \o t)[i] = from + i
<1>1. /\ Len(s) \in Nat /\ Len(t) \in Nat /\ s \o t \in Seq(S)
      /\ DOMAIN s = 1..Len(s) /\ DOMAIN t = 1..Len(t)
      /\ Len(s \o t) = Len(s) + Len(t)
      /\ \A i \in 1..Len(s) + Len(t) :
           (s \o t)[i] = IF i <= Len(s) THEN s[i] ELSE t[i - Len(s)]
  BY LenProperties, ConcatProperties
<1>2. DOMAIN (s \o t) = 1..Len(s \o t)
  BY <1>1, LenProperties
<1>3. ASSUME NEW i \in 1..(Len(s) + Len(t)) PROVE (s \o t)[i] = from + i
  <2>1. CASE i <= Len(s)
    BY <2>1, <1>1
  <2>2. CASE ~(i <= Len(s))
    <3>1. i - Len(s) \in DOMAIN t /\ (s \o t)[i] = t[i - Len(s)]
      BY <2>2, <1>1
    <3>2. (s \o t)[i] = from + Len(s) + (i - Len(s))
      BY <3>1
    <3> QED
      BY <3>2, <1>1
  <2> QED
    BY <2>1, <2>2
<1> QED
  BY <1>1, <1>2, <1>3

\* What the page typed is on its way to the program or with it, each input once
\* and in the order it was typed, while the session and the PTY last
\* (LocalPty::write, the session's `waiting`).
THEOREM InputOrdered == Spec => []InputInOrder
<1>1. ASSUME IInv PROVE InputInOrder
  <2> DEFINE taken == ptyIn \o keys \o sending \o waiting
             typing == {i \in DOMAIN inbox : inbox[i].kind = "key"}
  <2> SUFFICES ASSUME writer = "live", InLoop
               PROVE  /\ \A i \in DOMAIN taken : taken[i] = eaten + i
                      /\ {inbox[i].key : i \in typing} = (eaten + Len(taken) + 1)..typed
                      /\ \A i, j \in typing : i < j => inbox[i].key < inbox[j].key
    BY DEF InputInOrder
  <2>1. Carried /\ Numbered /\ Continued
    BY <1>1, TypeParts DEF IInv
  <2>2. /\ ptyIn \in Seq(1..MaxTyped) /\ keys \in Seq(1..MaxTyped)
        /\ sending \in Seq(1..MaxTyped) /\ waiting \in Seq(1..MaxTyped)
        /\ eaten \in Nat /\ typed \in Nat
    BY <2>1 DEF Carried, Inputs
  <2>3. /\ \A i \in DOMAIN ptyIn : ptyIn[i] = eaten + i
        /\ \A i \in DOMAIN keys : keys[i] = eaten + Len(ptyIn) + i
        /\ \A i \in DOMAIN sending : sending[i] = eaten + Len(ptyIn) + Len(keys) + i
        /\ \A i \in DOMAIN waiting :
             waiting[i] = eaten + Len(ptyIn) + Len(keys) + Len(sending) + i
    BY <2>1 DEF Continued
  <2>4. /\ ptyIn \o keys \in Seq(1..MaxTyped) /\ Len(ptyIn \o keys) = Len(ptyIn) + Len(keys)
        /\ Len(ptyIn) \in Nat /\ Len(keys) \in Nat
        /\ \A i \in DOMAIN (ptyIn \o keys) : (ptyIn \o keys)[i] = eaten + i
    BY <2>2, <2>3, CountedOn
  <2> DEFINE counted == ptyIn \o keys
  <2>5. \A i \in DOMAIN sending : sending[i] = eaten + Len(counted) + i
    <3>1. eaten + Len(counted) = eaten + Len(ptyIn) + Len(keys)
      BY <2>2, <2>4
    <3> QED
      BY <2>3, <3>1
  <2>6. /\ counted \o sending \in Seq(1..MaxTyped)
        /\ Len(counted \o sending) = Len(counted) + Len(sending) /\ Len(sending) \in Nat
        /\ \A i \in DOMAIN (counted \o sending) : (counted \o sending)[i] = eaten + i
    <3> HIDE DEF counted
    <3>1. counted \in Seq(1..MaxTyped) /\ \A i \in DOMAIN counted : counted[i] = eaten + i
      BY <2>4 DEF counted
    <3> QED
      BY <3>1, <2>2, <2>5, CountedOn
  <2> DEFINE sent == counted \o sending
  <2>7. \A i \in DOMAIN waiting : waiting[i] = eaten + Len(sent) + i
    <3>1. eaten + Len(sent) = eaten + Len(ptyIn) + Len(keys) + Len(sending)
      BY <2>2, <2>4, <2>6
    <3> QED
      BY <2>3, <3>1
  <2>8. /\ Len(taken) = Len(sent) + Len(waiting) /\ Len(waiting) \in Nat
        /\ \A i \in DOMAIN taken : taken[i] = eaten + i
    <3> HIDE DEF sent
    <3>1. sent \in Seq(1..MaxTyped) /\ \A i \in DOMAIN sent : sent[i] = eaten + i
      BY <2>6 DEF sent
    <3>2. taken = sent \o waiting
      BY DEF sent
    <3> HIDE DEF taken
    <3> QED
      BY <3>1, <3>2, <2>2, <2>7, CountedOn
  <2>9. eaten + Len(taken) = Ahead /\ Ahead \in Nat
    BY <2>2, <2>4, <2>6, <2>8 DEF Ahead
  <2> HIDE DEF taken
  <2>10. \A i \in DOMAIN inbox : (i \in typing <=> IsKey(i)) /\ (IsKey(i) => inbox[i].key \in Nat)
    BY <2>1, KeyNumbers DEF IsKey
  <2>11. \A i, j \in typing : i < j => inbox[i].key < inbox[j].key
    BY <2>1, <2>10 DEF Numbered
  <2>12. \A i \in typing : inbox[i].key \in (Ahead + 1)..typed
    <3> TAKE i \in typing
    <3>1. i \in DOMAIN inbox /\ IsKey(i) /\ inbox[i].key \in Nat
      BY <2>10
    <3>2. Ahead < inbox[i].key /\ inbox[i].key <= typed
      BY <3>1, <2>1 DEF Numbered
    <3> QED
      BY <3>1, <3>2, <2>2, <2>9
  <2>13. \A n \in (Ahead + 1)..typed : \E i \in typing : inbox[i].key = n
    <3> TAKE n \in (Ahead + 1)..typed
    <3>1. n \in Nat /\ Ahead < n /\ n <= typed
      BY <2>2, <2>9
    <3>2. PICK i \in DOMAIN inbox : IsKey(i) /\ inbox[i].key = n
      BY <3>1, <2>1 DEF Continued
    <3> QED
      BY <3>2, <2>10
  <2> HIDE DEF typing
  <2>14. {inbox[i].key : i \in typing} = (Ahead + 1)..typed
    BY <2>12, <2>13
  <2> QED
    BY <2>8, <2>9, <2>11, <2>14 DEF taken
<1> QED
  BY <1>1, Inductive, PTL
=============================================================================
