-------------------------- MODULE LiveDisplayProofs --------------------------
(***************************************************************************)
(* Proofs about a live display, for any number of threads, lines and       *)
(* changes.                                                                *)
(*                                                                         *)
(* Lines stay in order because a thread's lines on the screen, in the      *)
(* queue and in the file are numbered upwards in that order (Lines).  A    *)
(* call returns with its work done because a message its thread waits for  *)
(* is that thread's only one (Waiting), and while the display runs no      *)
(* message is lost (Served).  The last frame is the last change's because  *)
(* a display is only stopped when no one can change it (Stopping).         *)
(***************************************************************************)
EXTENDS LiveDisplay, QueueLemmas

IsLine(i) == queue[i].kind = "line"

\* Lines come out upwards: those on the screen, then those queued or, once the
\* receiver is gone, those in the file; none has a number not yet given.
Lines ==
  /\ \A i, j \in DOMAIN screen :
       i < j /\ screen[i][1] = screen[j][1] => screen[i][2] < screen[j][2]
  /\ \A i \in DOMAIN screen : screen[i][2] <= lines[screen[i][1]]
  /\ \A i, j \in DOMAIN queue :
       i < j /\ IsLine(i) /\ IsLine(j) /\ queue[i].by = queue[j].by
         => queue[i].n < queue[j].n
  /\ \A i \in DOMAIN queue : IsLine(i) => queue[i].n <= lines[queue[i].by]
  /\ \A i \in DOMAIN screen, j \in DOMAIN queue :
       IsLine(j) /\ screen[i][1] = queue[j].by => screen[i][2] < queue[j].n
  /\ \A i, j \in DOMAIN file :
       i < j /\ file[i][1] = file[j][1] => file[i][2] < file[j][2]
  /\ \A i \in DOMAIN file : file[i][2] <= lines[file[i][1]]
  /\ \A i \in DOMAIN screen, j \in DOMAIN file :
       screen[i][1] = file[j][1] => screen[i][2] < file[j][2]

\* Messages are queued, and the screen printed to, only while the receiver is there,
\* and the file written only after.
Receiver ==
  /\ Gone => queue = <<>>
  /\ file # <<>> => Gone
  /\ at = "drawing" <=> job # NoJob
  /\ job # NoJob => job.kind # "line"

\* `holder` is the thread inside `with`, which has the lock.
Holding ==
  /\ lock = holder
  /\ \A t \in Threads : holder = t <=> pc[t] = "with"

\* The thread that queued the message waits for it, inside the call that queued it.
Expects(m) ==
  /\ pc[m.by] = IF m.kind = "line" THEN "printing" ELSE "refreshing"
  /\ m.by \notin done
  /\ m.kind = "line" => m.n = lines[m.by]

Waited(i) == queue[i].kind # "stop" /\ queue[i].wait
JobWaited == job # NoJob /\ job.kind = "frame" /\ job.wait

\* A thread waits for one message.
Waiting ==
  /\ \A i \in DOMAIN queue : Waited(i) => Expects(queue[i])
  /\ \A i, j \in DOMAIN queue :
       Waited(i) /\ Waited(j) /\ queue[i].by = queue[j].by => i = j
  /\ JobWaited => /\ Expects(job)
                  /\ \A i \in DOMAIN queue : Waited(i) => queue[i].by # job.by
  /\ \A t \in done : pc[t] \in {"printing", "refreshing"}

\* While the display runs, a thread that waits has its message on its way or its
\* `done`, and every line is printed or on its way; the line a thread is told is
\* done is its last.
Served ==
  /\ ~Over => \A t \in Threads :
                /\ pc[t] \in {"printing", "refreshing"} => t \in done \/ JobAlive(t)
                /\ \A k \in 1..lines[t] : OnScreen(<<t, k>>) \/ Queued(<<t, k>>)
  /\ \A t \in done : pc[t] = "printing" =>
       \A i \in DOMAIN queue : IsLine(i) => queue[i].by # t

\* What a refresh is told is done shows at least the progress it asked to see.
Frames ==
  /\ frame <= progress
  /\ \A t \in Threads : asOf[t] <= progress
  /\ \A t \in done : pc[t] = "refreshing" => frame >= asOf[t]

\* A message to stop is there only with a thread that stops the display, and then no
\* other is inside `with` or `refresh`.
Stopping ==
  /\ \A i \in DOMAIN queue : queue[i].kind = "stop" => ~Usable
  /\ job # NoJob /\ job.kind = "stop" => ~Usable
  /\ Over /\ ~panicked => ~Usable /\ frame = progress
  /\ ~Usable => \A u \in Threads : pc[u] \in {"free", "printing", "stopping", "stopped"}

IInv ==
  /\ TypeOK
  /\ Receiver
  /\ Holding
  /\ Lines
  /\ Waiting
  /\ Served
  /\ Frames
  /\ Stopping
-----------------------------------------------------------------------------
LEMMA InitType == Init => TypeOK
<1> SUFFICES ASSUME Init PROVE TypeOK
  OBVIOUS
<1>1. <<>> \in Seq(Message) /\ <<>> \in Seq(Line)
  BY EmptySeq
<1> QED
  BY <1>1 DEF Init, TypeOK

LEMMA InitInv == Init => IInv
<1> SUFFICES ASSUME Init PROVE IInv
  OBVIOUS
<1>1. DOMAIN queue = {} /\ DOMAIN screen = {} /\ DOMAIN file = {}
  BY EmptySeq DEF Init
<1>2. Receiver /\ Holding
  BY DisplayAssumption DEF Init, Receiver, Holding, Gone
<1>3. Lines /\ Waiting
  BY <1>1 DEF Init, Lines, Waiting, JobWaited
<1>4. Served /\ Frames /\ Stopping
  BY <1>1 DEF Init, Served, Frames, Stopping, Over, Usable
<1> QED
  BY InitType, <1>2, <1>3, <1>4 DEF IInv

\* What a message is.
LEMMA MessageTyped ==
  ASSUME NEW m \in Message
  PROVE  /\ m.kind \in {"line", "frame", "stop"}
         /\ m.kind # "stop" => m.by \in Threads /\ m.wait \in BOOLEAN
         /\ m.kind = "line" => m.n \in Nat
BY DEF Message

LEMMA Queues ==
  ASSUME TypeOK, NEW i \in DOMAIN queue
  PROVE  queue[i] \in Message /\ i \in Nat
BY Entry DEF TypeOK

LEMMA QueueHead ==
  ASSUME TypeOK, queue # <<>>
  PROVE  /\ Head(queue) \in Message
         /\ 1 \in DOMAIN queue /\ queue[1] = Head(queue)
         /\ Tail(queue) \in Seq(Message)
BY TakenOff DEF TypeOK

LEMMA Typed ==
  ASSUME TypeOK, NEW t \in Threads
  PROVE  /\ lines[t] \in Nat
         /\ LineJob(t, TRUE) \in Message /\ LineJob(t, FALSE) \in Message
         /\ [kind |-> "frame", by |-> t, wait |-> TRUE] \in Message
         /\ [kind |-> "frame", by |-> t, wait |-> FALSE] \in Message
         /\ [kind |-> "stop"] \in Message
         /\ <<t, lines[t] + 1>> \in Line
BY DEF TypeOK, LineJob, Message, Line

\* The message a write and a refresh queue.
LEMMA Jobs ==
  ASSUME TypeOK, NEW t \in Threads
  PROVE  /\ LineJob(t, holder # t) \in Message
         /\ [kind |-> "frame", by |-> t, wait |-> holder # t] \in Message
BY DEF TypeOK, LineJob, Message

LEMMA StepType ==
  ASSUME TypeOK, Receiver, [Next]_vars
  PROVE  TypeOK'
<1> USE DEF TypeOK, callerVars
<1>1. ASSUME NEW t \in Threads, Enter(t) \/ Change(t) \/ Leave(t) \/ Joined(t) PROVE TypeOK'
  <2>1. CASE Enter(t)
    BY <2>1 DEF Enter
  <2>2. CASE Change(t)
    BY <2>2 DEF Change
  <2>3. CASE Leave(t)
    BY <2>3 DEF Leave
  <2>4. CASE Joined(t)
    BY <2>4 DEF Joined
  <2> QED
    BY <1>1, <2>1, <2>2, <2>3, <2>4
<1>2. ASSUME NEW t \in Threads, Write(t) PROVE TypeOK'
  <2>1. CASE Gone
    <3>1. /\ file' = Append(file, <<t, lines[t] + 1>>)
          /\ lines' = [lines EXCEPT ![t] = @ + 1]
          /\ UNCHANGED <<pc, queue, asOf, done, lock, holder, progress, at, job, frame,
                         screen, panicked>>
      BY <1>2, <2>1 DEF Write, ToFile
    <3>2. file' \in Seq(Line)
      BY <3>1, Typed, AppendProperties
    <3> QED
      BY <3>1, <3>2
  <2>2. CASE ~Gone
    <3>1. queue' \in Seq(Message)
      <4>1. queue' = Append(queue, LineJob(t, holder # t))
        BY <1>2, <2>2 DEF Write
      <4> QED
        BY <4>1, Jobs, AppendProperties
    <3>2. pc'[t] \in {"with", "free", "printing"} /\ pc' = [pc EXCEPT ![t] = pc'[t]]
      BY <1>2, <2>2 DEF Write
    <3>3. pc' \in [Threads -> {"free", "with", "printing", "refreshing", "stopping", "stopped"}]
      BY <3>2
    <3> QED
      BY <1>2, <2>2, <3>1, <3>3 DEF Write
  <2> QED
    BY <2>1, <2>2
<1>3. ASSUME NEW t \in Threads, Refresh(t) PROVE TypeOK'
  <2>1. queue' \in Seq(Message)
    BY <1>3, Jobs, AppendProperties DEF Refresh
  <2> QED
    BY <1>3, <2>1 DEF Refresh
<1>4. ASSUME NEW t \in Threads, Return(t) PROVE TypeOK'
  BY <1>4 DEF Return
<1>5. ASSUME NEW t \in Threads, Stop(t) PROVE TypeOK'
  <2>1. queue' \in Seq(Message)
    BY <1>5, Typed, AppendProperties DEF Stop
  <2> QED
    BY <1>5, <2>1 DEF Stop
<1>6. CASE PrintLine
  <2>1. /\ <<Head(queue).by, Head(queue).n>> \in Line
        /\ Head(queue).by \in Threads
        /\ Tail(queue) \in Seq(Message)
    BY <1>6, QueueHead, MessageTyped DEF PrintLine, Line
  <2>2. screen' \in Seq(Line)
    BY <1>6, <2>1, AppendProperties DEF PrintLine
  <2> QED
    BY <1>6, <2>1, <2>2 DEF PrintLine, Done
<1>7. CASE BeginFrame \/ BeginStop
  BY <1>7, QueueHead DEF BeginFrame, BeginStop
<1>8. CASE BeginTick
  BY <1>8 DEF BeginTick
<1>9. CASE Draw
  <2>1. job # NoJob
    BY <1>9 DEF Draw, Receiver
  <2>2. job.kind = "frame" => job.by \in Threads
    BY <2>1, MessageTyped DEF Tick
  <2>3. done' \subseteq Threads
    BY <1>9, <2>2 DEF Draw, Done
  <2> QED
    BY <1>9, <2>3 DEF Draw
<1>10. CASE RenderPanics
  BY <1>10, QueueHead DEF RenderPanics
<1>11. CASE DropReceiver
  BY <1>11, EmptySeq DEF DropReceiver
<1>12. CASE UNCHANGED vars
  BY <1>12 DEF vars
<1> QED
  BY <1>1, <1>2, <1>3, <1>4, <1>5, <1>6, <1>7, <1>8, <1>9, <1>10, <1>11, <1>12
     DEF Next, RefreshThread
-----------------------------------------------------------------------------
LEMMA StepReceiver ==
  ASSUME IInv, [Next]_vars
  PROVE  Receiver'
<1> USE DEF IInv, Receiver, Gone, callerVars
<1>1. ASSUME NEW t \in Threads, Enter(t) \/ Change(t) \/ Leave(t) \/ Return(t) \/ Joined(t)
      PROVE  Receiver'
  <2>1. UNCHANGED <<queue, file, at, job>>
    BY <1>1 DEF Enter, Change, Leave, Return, Joined
  <2> QED
    BY <2>1
<1>2. ASSUME NEW t \in Threads, Write(t) \/ Refresh(t) \/ Stop(t) PROVE Receiver'
  <2>1. UNCHANGED <<at, job>> /\ (Gone => queue' = queue) /\ (~Gone => file' = file)
    BY <1>2 DEF Write, ToFile, Refresh, Stop
  <2> QED
    BY <2>1
<1>3. CASE PrintLine \/ RenderPanics \/ DropReceiver
  BY <1>3 DEF PrintLine, RenderPanics, DropReceiver
<1>4. CASE BeginFrame \/ BeginStop
  <2>1. Head(queue) # NoJob /\ Head(queue).kind # "line"
    BY <1>4, QueueHead, NoJobAssumption DEF BeginFrame, BeginStop
  <2> QED
    BY <1>4, <2>1 DEF BeginFrame, BeginStop
<1>5. CASE BeginTick
  BY <1>5, NoJobAssumption DEF BeginTick, Tick
<1>6. CASE Draw
  BY <1>6 DEF Draw
<1>7. CASE UNCHANGED vars
  BY <1>7 DEF vars
<1> QED
  BY <1>1, <1>2, <1>3, <1>4, <1>5, <1>6, <1>7 DEF Next, RefreshThread

LEMMA StepHolding ==
  ASSUME IInv, [Next]_vars
  PROVE  Holding'
<1> USE DEF IInv, TypeOK, Holding, callerVars
<1>1. ASSUME NEW t \in Threads, Enter(t) PROVE Holding'
  BY <1>1, DisplayAssumption DEF Enter
<1>2. ASSUME NEW t \in Threads, Leave(t) PROVE Holding'
  BY <1>2, DisplayAssumption DEF Leave
<1>3. CASE UNCHANGED <<lock, holder>> /\ \A u \in Threads : pc'[u] = "with" <=> pc[u] = "with"
  BY <1>3
<1>4. ASSUME NEW t \in Threads, Write(t)
      PROVE  UNCHANGED <<lock, holder>> /\ \A u \in Threads : pc'[u] = "with" <=> pc[u] = "with"
  <2>1. pc' = pc \/ (holder # t /\ pc' = [pc EXCEPT ![t] = "printing"])
    <3>1. CASE holder = t
      BY <1>4, <3>1 DEF Write, ToFile
    <3>2. CASE holder # t
      BY <1>4, <3>2 DEF Write, ToFile
    <3> QED
      BY <3>1, <3>2
  <2> QED
    BY <1>4, <2>1 DEF Write
<1>5. ASSUME NEW t \in Threads,
             Change(t) \/ Refresh(t) \/ Return(t) \/ Stop(t) \/ Joined(t)
      PROVE  UNCHANGED <<lock, holder>> /\ \A u \in Threads : pc'[u] = "with" <=> pc[u] = "with"
  BY <1>5 DEF Change, Refresh, Return, Stop, Joined
<1>6. ASSUME RefreshThread \/ BeginTick \/ UNCHANGED vars
      PROVE  UNCHANGED <<lock, holder, pc>>
  BY <1>6 DEF RefreshThread, PrintLine, BeginFrame, BeginStop, Draw, RenderPanics,
              DropReceiver, BeginTick, vars
<1> QED
  BY <1>1, <1>2, <1>3, <1>4, <1>5, <1>6 DEF Next
-----------------------------------------------------------------------------
\* The queue only loses lines, and messages waited for, from its front.
LinesFewer ==
  \E d \in Nat : \A i \in DOMAIN queue' :
    IsLine(i)' => i + d \in DOMAIN queue /\ queue'[i] = queue[i + d]

WaitsFewer ==
  \E d \in Nat : \A i \in DOMAIN queue' :
    Waited(i)' => i + d \in DOMAIN queue /\ queue'[i] = queue[i + d]

LEMMA LinesKept ==
  ASSUME IInv, TypeOK', LinesFewer, UNCHANGED <<lines, screen, file>>
  PROVE  Lines'
<1> USE DEF IInv, Lines
<1>1. PICK d \in Nat : \A i \in DOMAIN queue' :
        IsLine(i)' => i + d \in DOMAIN queue /\ queue'[i] = queue[i + d]
  BY DEF LinesFewer
<1>2. \A i \in DOMAIN queue' : i \in Nat
  BY LenProperties DEF TypeOK
<1>3. \A i \in DOMAIN queue' : IsLine(i)' => IsLine(i + d)
  BY <1>1 DEF IsLine
<1>4. ASSUME NEW i \in DOMAIN queue', NEW j \in DOMAIN queue',
             i < j, IsLine(i)', IsLine(j)', queue'[i].by = queue'[j].by
      PROVE  queue'[i].n < queue'[j].n
  <2>1. i + d < j + d
    BY <1>2, <1>4
  <2> QED
    BY <1>1, <1>3, <1>4, <2>1
<1>5. \A i \in DOMAIN queue' : IsLine(i)' => queue'[i].n <= lines[queue'[i].by]
  BY <1>1, <1>3
<1>6. \A i \in DOMAIN screen, j \in DOMAIN queue' :
        IsLine(j)' /\ screen[i][1] = queue'[j].by => screen[i][2] < queue'[j].n
  BY <1>1, <1>3
<1> QED
  BY <1>4, <1>5, <1>6

LEMMA TailFewer ==
  ASSUME TypeOK, queue # <<>>, queue' = Tail(queue)
  PROVE  LinesFewer /\ WaitsFewer
BY TakenOff DEF LinesFewer, WaitsFewer, TypeOK

LEMMA SameFewer ==
  ASSUME TypeOK, queue' = queue \/ queue' = <<>>
  PROVE  LinesFewer /\ WaitsFewer
<1>1. \A i \in DOMAIN queue' : i \in DOMAIN queue' /\ i \in Nat
  BY LenProperties, EmptySeq DEF TypeOK
<1>2. 0 \in Nat /\ \A i \in DOMAIN queue' : i + 0 \in DOMAIN queue /\ queue'[i] = queue[i + 0]
  BY <1>1, EmptySeq
<1> QED
  BY <1>2 DEF LinesFewer, WaitsFewer

LEMMA OtherFewer ==
  ASSUME TypeOK, NEW m \in Message, m.kind # "line", queue' = Append(queue, m)
  PROVE  LinesFewer
<1>1. /\ DOMAIN queue' = DOMAIN queue \cup {Len(queue) + 1}
      /\ \A i \in DOMAIN queue : i \in Nat /\ queue'[i] = queue[i]
      /\ queue'[Len(queue) + 1] = m
  BY Appended DEF TypeOK
<1>2. \A i \in DOMAIN queue' : IsLine(i)' => i + 0 \in DOMAIN queue /\ queue'[i] = queue[i + 0]
  BY <1>1 DEF IsLine
<1> QED
  BY <1>2 DEF LinesFewer

\* A line written has the highest number of its thread, and comes last.
LEMMA WriteLines ==
  ASSUME IInv, NEW t \in Threads, Write(t)
  PROVE  Lines'
<1> USE DEF IInv, TypeOK
<1> DEFINE n == lines[t] + 1
<1>1. /\ n \in Nat /\ lines[t] < n /\ screen' = screen
      /\ lines' = [lines EXCEPT ![t] = n]
  BY DEF Write
<1>2. \A u \in Threads : lines[u] \in Nat /\ lines'[u] \in Nat /\ lines[u] <= lines'[u]
  BY <1>1
<1>3. /\ \A i \in DOMAIN screen :
           screen[i][1] \in Threads /\ screen[i][2] \in Nat /\ (screen[i][1] = t => screen[i][2] < n)
      /\ \A i \in DOMAIN file :
           file[i][1] \in Threads /\ file[i][2] \in Nat /\ (file[i][1] = t => file[i][2] < n)
  <2>1. ASSUME NEW i \in DOMAIN screen
        PROVE  /\ screen[i][1] \in Threads /\ screen[i][2] \in Nat
               /\ screen[i][1] = t => screen[i][2] < n
    <3>1. screen[i] \in Line
      BY Entry
    <3>2. screen[i][1] \in Threads /\ screen[i][2] \in Nat
      BY <3>1 DEF Line
    <3>3. screen[i][2] <= lines[screen[i][1]]
      BY DEF Lines
    <3> QED
      BY <1>1, <3>2, <3>3
  <2>2. ASSUME NEW i \in DOMAIN file
        PROVE  /\ file[i][1] \in Threads /\ file[i][2] \in Nat
               /\ file[i][1] = t => file[i][2] < n
    <3>1. file[i] \in Line
      BY Entry
    <3>2. file[i][1] \in Threads /\ file[i][2] \in Nat
      BY <3>1 DEF Line
    <3>3. file[i][2] <= lines[file[i][1]]
      BY DEF Lines
    <3> QED
      BY <1>1, <3>2, <3>3
  <2> QED
    BY <2>1, <2>2
<1>4. \A i \in DOMAIN queue : IsLine(i) =>
        queue[i].by \in Threads /\ queue[i].n \in Nat /\ (queue[i].by = t => queue[i].n < n)
  BY <1>1, Queues, MessageTyped DEF Lines, IsLine
<1>5. /\ \A i \in DOMAIN screen : screen[i][2] <= lines'[screen[i][1]]
      /\ \A i \in DOMAIN file : file[i][2] <= lines'[file[i][1]]
      /\ \A i \in DOMAIN queue : IsLine(i) => queue[i].n <= lines'[queue[i].by]
  <2>1. /\ \A i \in DOMAIN screen : screen[i][2] <= lines[screen[i][1]]
        /\ \A i \in DOMAIN file : file[i][2] <= lines[file[i][1]]
        /\ \A i \in DOMAIN queue : IsLine(i) => queue[i].n <= lines[queue[i].by]
    BY DEF Lines
  <2>2. \A u \in Threads : \A k \in Nat : k <= lines[u] => k <= lines'[u]
    BY <1>2
  <2> QED
    BY <1>3, <1>4, <2>1, <2>2
<1>6. CASE Gone
  <2> DEFINE z == Len(file) + 1
  <2>1. file' = Append(file, <<t, n>>) /\ queue' = queue
    BY <1>6 DEF Write, ToFile
  <2>2. <<t, n>> \in Line
    BY <1>1 DEF Line
  <2>3. /\ DOMAIN file' = DOMAIN file \cup {z} /\ z \notin DOMAIN file
        /\ \A i \in DOMAIN file : i \in Nat /\ i < z /\ file'[i] = file[i]
        /\ file'[z] = <<t, n>>
        /\ z \in Nat
    BY <2>1, <2>2, Appended
  <2> HIDE DEF z
  <2>4. \A i, j \in DOMAIN file' :
          i < j /\ file'[i][1] = file'[j][1] => file'[i][2] < file'[j][2]
    <3> SUFFICES ASSUME NEW i \in DOMAIN file', NEW j \in DOMAIN file', i < j,
                        file'[i][1] = file'[j][1]
                 PROVE  file'[i][2] < file'[j][2]
      OBVIOUS
    <3>1. i \in DOMAIN file /\ file'[i] = file[i]
      BY <2>3
    <3>2. CASE j = z
      BY <1>3, <2>3, <3>1, <3>2
    <3>3. CASE j # z
      BY <2>3, <3>1, <3>3 DEF Lines
    <3> QED
      BY <3>2, <3>3
  <2>5. \A i \in DOMAIN file' : file'[i][2] <= lines'[file'[i][1]]
    BY <1>1, <1>5, <2>3
  <2>6. \A i \in DOMAIN screen, j \in DOMAIN file' :
          screen[i][1] = file'[j][1] => screen[i][2] < file'[j][2]
    <3> SUFFICES ASSUME NEW i \in DOMAIN screen, NEW j \in DOMAIN file',
                        screen[i][1] = file'[j][1]
                 PROVE  screen[i][2] < file'[j][2]
      OBVIOUS
    <3>1. CASE j = z
      BY <1>3, <2>3, <3>1
    <3>2. CASE j # z
      BY <2>3, <3>2 DEF Lines
    <3> QED
      BY <3>1, <3>2
  <2> QED
    BY <1>1, <1>5, <2>1, <2>4, <2>5, <2>6 DEF Lines, IsLine
<1>7. CASE ~Gone
  <2> DEFINE z == Len(queue) + 1
             m == LineJob(t, holder # t)
  <2>1. queue' = Append(queue, m) /\ file' = file
    BY <1>7 DEF Write
  <2>2. m \in Message
    BY Jobs
  <2>3. m.kind = "line" /\ m.by = t /\ m.n = n
    BY DEF LineJob
  <2> HIDE DEF m
  <2>4. /\ DOMAIN queue' = DOMAIN queue \cup {z} /\ z \notin DOMAIN queue
        /\ \A i \in DOMAIN queue : i \in Nat /\ i < z /\ queue'[i] = queue[i]
        /\ queue'[z] = m
        /\ z \in Nat
    BY <2>1, <2>2, Appended
  <2> HIDE DEF z
  <2>5. \A i \in DOMAIN queue : IsLine(i)' <=> IsLine(i)
    BY <2>4 DEF IsLine
  <2>6. \A i, j \in DOMAIN queue' :
          i < j /\ IsLine(i)' /\ IsLine(j)' /\ queue'[i].by = queue'[j].by
            => queue'[i].n < queue'[j].n
    <3> SUFFICES ASSUME NEW i \in DOMAIN queue', NEW j \in DOMAIN queue', i < j,
                        IsLine(i)', IsLine(j)', queue'[i].by = queue'[j].by
                 PROVE  queue'[i].n < queue'[j].n
      OBVIOUS
    <3>1. i \in DOMAIN queue /\ queue'[i] = queue[i] /\ IsLine(i)
      BY <2>4, <2>5
    <3>2. CASE j = z
      BY <1>4, <2>3, <2>4, <3>1, <3>2
    <3>3. CASE j # z
      BY <2>4, <2>5, <3>1, <3>3 DEF Lines
    <3> QED
      BY <3>2, <3>3
  <2>7. \A i \in DOMAIN queue' : IsLine(i)' => queue'[i].n <= lines'[queue'[i].by]
    BY <1>1, <1>5, <2>3, <2>4, <2>5
  <2>8. \A i \in DOMAIN screen, j \in DOMAIN queue' :
          IsLine(j)' /\ screen[i][1] = queue'[j].by => screen[i][2] < queue'[j].n
    <3> SUFFICES ASSUME NEW i \in DOMAIN screen, NEW j \in DOMAIN queue', IsLine(j)',
                        screen[i][1] = queue'[j].by
                 PROVE  screen[i][2] < queue'[j].n
      OBVIOUS
    <3>1. CASE j = z
      BY <1>3, <2>3, <2>4, <3>1
    <3>2. CASE j # z
      BY <2>4, <2>5, <3>2 DEF Lines
    <3> QED
      BY <3>1, <3>2
  <2>9. DOMAIN file' = {}
    BY <1>7, <2>1, EmptySeq DEF Receiver
  <2> QED
    BY <1>1, <1>5, <2>1, <2>6, <2>7, <2>8, <2>9 DEF Lines
<1> QED
  BY <1>6, <1>7

\* The first line of the queue goes to the end of the screen.
LEMMA PrintLines ==
  ASSUME IInv, TypeOK', PrintLine
  PROVE  Lines'
<1> USE DEF IInv
<1> DEFINE m == Head(queue)
           l == <<m.by, m.n>>
           z == Len(screen) + 1
<1>1. /\ queue # <<>> /\ m.kind = "line" /\ queue' = Tail(queue)
      /\ screen' = Append(screen, l) /\ lines' = lines /\ file' = file /\ at = "receiving"
  BY DEF PrintLine, callerVars
<1>2. m.by \in Threads /\ m.n \in Nat /\ l \in Line /\ l[1] = m.by /\ l[2] = m.n
  BY <1>1, QueueHead, MessageTyped DEF Line
<1> HIDE DEF m, l
<1>3. /\ 1 \in DOMAIN queue /\ queue[1] = Head(queue) /\ m = Head(queue)
      /\ \A i \in DOMAIN queue' :
           i \in Nat /\ i # 0 /\ i + 1 \in DOMAIN queue /\ queue'[i] = queue[i + 1]
  BY <1>1, TakenOff DEF TypeOK, m
<1>4. /\ DOMAIN screen' = DOMAIN screen \cup {z} /\ z \notin DOMAIN screen
      /\ \A i \in DOMAIN screen : i \in Nat /\ i < z /\ screen'[i] = screen[i]
      /\ screen'[z] = l
      /\ z \in Nat
  <2>1. screen \in Seq(Line)
    BY DEF TypeOK
  <2> HIDE DEF IInv
  <2> QED
    BY <1>1, <1>2, <2>1, Appended
<1>5. IsLine(1) /\ \A i \in DOMAIN queue' : IsLine(i)' => IsLine(i + 1) /\ 1 < i + 1
  BY <1>1, <1>3 DEF IsLine
<1>6. DOMAIN file = {}
  BY <1>1, EmptySeq DEF Receiver, Gone
<1> HIDE DEF z
<1>7. /\ \A i \in DOMAIN screen : screen[i][1] = m.by => screen[i][2] < m.n
      /\ m.n <= lines[m.by]
      /\ \A i \in DOMAIN queue' :
           IsLine(i)' /\ queue'[i].by = m.by => m.n < queue'[i].n
  BY <1>3, <1>5 DEF Lines
<1>8. \A i, j \in DOMAIN screen' :
        i < j /\ screen'[i][1] = screen'[j][1] => screen'[i][2] < screen'[j][2]
  <2> SUFFICES ASSUME NEW i \in DOMAIN screen', NEW j \in DOMAIN screen', i < j,
                      screen'[i][1] = screen'[j][1]
               PROVE  screen'[i][2] < screen'[j][2]
    OBVIOUS
  <2>1. i \in DOMAIN screen /\ screen'[i] = screen[i]
    BY <1>4
  <2>2. CASE j = z
    BY <1>2, <1>4, <1>7, <2>1, <2>2
  <2>3. CASE j # z
    BY <1>4, <2>1, <2>3 DEF Lines
  <2> QED
    BY <2>2, <2>3
<1>9. \A i \in DOMAIN screen' : screen'[i][2] <= lines[screen'[i][1]]
  BY <1>2, <1>4, <1>7 DEF Lines
<1>10. \A i \in DOMAIN screen', j \in DOMAIN queue' :
         IsLine(j)' /\ screen'[i][1] = queue'[j].by => screen'[i][2] < queue'[j].n
  <2> SUFFICES ASSUME NEW i \in DOMAIN screen', NEW j \in DOMAIN queue', IsLine(j)',
                      screen'[i][1] = queue'[j].by
               PROVE  screen'[i][2] < queue'[j].n
    OBVIOUS
  <2>1. CASE i = z
    BY <1>2, <1>4, <1>7, <2>1
  <2>2. CASE i # z
    BY <1>3, <1>4, <1>5, <2>2 DEF Lines
  <2> QED
    BY <2>1, <2>2
<1>11. LinesFewer
  BY <1>1, TailFewer
<1>12. /\ \A i, j \in DOMAIN queue' :
            i < j /\ IsLine(i)' /\ IsLine(j)' /\ queue'[i].by = queue'[j].by
              => queue'[i].n < queue'[j].n
       /\ \A i \in DOMAIN queue' : IsLine(i)' => queue'[i].n <= lines[queue'[i].by]
  <2>1. ASSUME NEW i \in DOMAIN queue', NEW j \in DOMAIN queue', i < j, IsLine(i)',
               IsLine(j)', queue'[i].by = queue'[j].by
        PROVE  queue'[i].n < queue'[j].n
    <3>1. i + 1 < j + 1
      BY <1>3, <2>1
    <3> QED
      BY <1>3, <1>5, <2>1, <3>1 DEF Lines
  <2>2. \A i \in DOMAIN queue' : IsLine(i)' => queue'[i].n <= lines[queue'[i].by]
    BY <1>3, <1>5 DEF Lines
  <2> QED
    BY <2>1, <2>2
<1> QED
  BY <1>1, <1>6, <1>8, <1>9, <1>10, <1>12 DEF Lines

LEMMA StepLines ==
  ASSUME IInv, TypeOK', [Next]_vars
  PROVE  Lines'
<1> USE DEF IInv, callerVars
<1>1. ASSUME NEW t \in Threads, Refresh(t) \/ Stop(t) PROVE Lines'
  <2>1. UNCHANGED <<lines, screen, file>>
    BY <1>1 DEF Refresh, Stop
  <2>2. CASE Refresh(t)
    <3>1. queue' = Append(queue, [kind |-> "frame", by |-> t, wait |-> holder # t])
      BY <2>2 DEF Refresh
    <3> QED
      BY <2>1, <3>1, Jobs, OtherFewer, LinesKept
  <2>3. CASE Stop(t)
    <3>1. queue' = queue \/ queue' = Append(queue, [kind |-> "stop"])
      BY <2>3 DEF Stop
    <3> QED
      BY <2>1, <3>1, Typed, OtherFewer, SameFewer, LinesKept
  <2> QED
    BY <1>1, <2>2, <2>3
<1>2. ASSUME NEW t \in Threads, Enter(t) \/ Change(t) \/ Leave(t) \/ Return(t) \/ Joined(t)
      PROVE  Lines'
  <2>1. UNCHANGED <<lines, screen, file, queue>>
    BY <1>2 DEF Enter, Change, Leave, Return, Joined
  <2> QED
    BY <2>1, SameFewer, LinesKept
<1>3. CASE BeginFrame \/ BeginStop \/ BeginTick \/ Draw \/ RenderPanics \/ DropReceiver
           \/ UNCHANGED vars
  <2>1. UNCHANGED <<lines, screen, file>>
    BY <1>3 DEF BeginFrame, BeginStop, BeginTick, Draw, RenderPanics, DropReceiver, vars
  <2>2. queue' = queue \/ queue' = <<>> \/ (queue # <<>> /\ queue' = Tail(queue))
    BY <1>3 DEF BeginFrame, BeginStop, BeginTick, Draw, RenderPanics, DropReceiver, vars
  <2> QED
    BY <2>1, <2>2, TailFewer, SameFewer, LinesKept
<1> QED
  BY <1>1, <1>2, <1>3, WriteLines, PrintLines DEF Next, RefreshThread
-----------------------------------------------------------------------------
\* A message at the end of the queue, and one off its front.
LEMMA Added ==
  ASSUME TypeOK, NEW m \in Message, queue' = Append(queue, m)
  PROVE  \E z \in Nat :
           /\ DOMAIN queue' = DOMAIN queue \cup {z} /\ z \notin DOMAIN queue
           /\ \A i \in DOMAIN queue : i \in Nat /\ i < z /\ queue'[i] = queue[i]
           /\ queue'[z] = m
<1>1. queue \in Seq(Message)
  BY DEF TypeOK
<1> QED
  BY <1>1, Appended

LEMMA Removed ==
  ASSUME TypeOK, queue # <<>>, queue' = Tail(queue)
  PROVE  /\ 1 \in DOMAIN queue /\ queue[1] = Head(queue)
         /\ \A i \in DOMAIN queue' :
              i \in Nat /\ i # 0 /\ i + 1 \in DOMAIN queue /\ queue'[i] = queue[i + 1]
         /\ \A i \in DOMAIN queue :
              i = 1 \/ (i - 1 \in DOMAIN queue' /\ queue'[i - 1] = queue[i])
<1>1. queue \in Seq(Message)
  BY DEF TypeOK
<1> QED
  BY <1>1, TakenOff

LEMMA Alive ==
  ASSUME NEW t
  PROVE  JobAlive(t) <=> \/ \E i \in DOMAIN queue : Waited(i) /\ queue[i].by = t
                         \/ JobWaited /\ job.by = t
BY DEF JobAlive, Waited, JobWaited

LEMMA WaitingKept ==
  ASSUME IInv, TypeOK', WaitsFewer,
         JobWaited' => JobWaited /\ job' = job,
         \A t \in Threads :
           JobAlive(t)' => pc'[t] = pc[t] /\ t \notin done' /\ lines'[t] = lines[t],
         \A t \in done' : pc'[t] \in {"printing", "refreshing"}
  PROVE  Waiting'
<1>1. PICK d \in Nat : \A i \in DOMAIN queue' :
        Waited(i)' => i + d \in DOMAIN queue /\ queue'[i] = queue[i + d]
  BY DEF WaitsFewer
<1>2. \A i \in DOMAIN queue' : Waited(i)' => Waited(i + d)
  BY <1>1 DEF Waited
<1>3. \A i \in DOMAIN queue' : i \in Nat
  <2>1. queue' \in Seq(Message)
    BY DEF TypeOK
  <2> QED
    BY <2>1, Entry
<1>4. \A i \in DOMAIN queue' : Waited(i)' => Expects(queue[i])'
  <2> SUFFICES ASSUME NEW i \in DOMAIN queue', Waited(i)' PROVE Expects(queue[i])'
    OBVIOUS
  <2>1. i + d \in DOMAIN queue /\ queue'[i] = queue[i + d] /\ Expects(queue[i + d])
    BY <1>1, <1>2 DEF IInv, Waiting
  <2>2. PICK u \in Threads : u = queue[i + d].by
    BY <1>2, <2>1, Queues, MessageTyped DEF IInv, Waited
  <2>3. JobAlive(u)'
    BY <2>1, <2>2 DEF JobAlive, Waited
  <2>4. pc'[u] = pc[u] /\ u \notin done' /\ lines'[u] = lines[u]
    BY <2>2, <2>3
  <2> QED
    BY <2>1, <2>2, <2>4 DEF Expects
<1>5. \A i, j \in DOMAIN queue' :
        Waited(i)' /\ Waited(j)' /\ queue'[i].by = queue'[j].by => i = j
  <2> SUFFICES ASSUME NEW i \in DOMAIN queue', NEW j \in DOMAIN queue', Waited(i)',
                      Waited(j)', queue'[i].by = queue'[j].by
               PROVE  i = j
    OBVIOUS
  <2>1. i + d = j + d
    BY <1>1, <1>2 DEF IInv, Waiting
  <2> QED
    BY <1>3, <2>1
<1>6. JobWaited' => /\ Expects(job)'
                    /\ \A i \in DOMAIN queue' : Waited(i)' => queue'[i].by # job'.by
  <2> SUFFICES ASSUME JobWaited'
               PROVE  /\ Expects(job)'
                      /\ \A i \in DOMAIN queue' : Waited(i)' => queue'[i].by # job'.by
    OBVIOUS
  <2>1. JobWaited /\ job' = job
    OBVIOUS
  <2>2. Expects(job) /\ \A i \in DOMAIN queue : Waited(i) => queue[i].by # job.by
    BY <2>1 DEF IInv, Waiting
  <2>3. job \in Message /\ job.by \in Threads
    <3>1. job \in Message
      BY <2>1 DEF IInv, TypeOK, JobWaited, Tick
    <3> QED
      BY <2>1, <3>1, MessageTyped DEF JobWaited
  <2>4. /\ pc'[job.by] = pc[job.by] /\ job.by \notin done'
        /\ lines'[job.by] = lines[job.by]
    <3>1. ASSUME NEW t \in Threads, t = job.by, JobAlive(t)'
          PROVE  pc'[t] = pc[t] /\ t \notin done' /\ lines'[t] = lines[t]
      BY <3>1
    <3>2. ASSUME NEW t \in Threads, t = job.by PROVE JobAlive(t)'
      BY <2>1, <3>2 DEF JobAlive, JobWaited
    <3> QED
      BY <2>3, <3>1, <3>2
  <2>5. Expects(job)'
    BY <2>1, <2>2, <2>4 DEF Expects
  <2>6. \A i \in DOMAIN queue' : Waited(i)' => queue'[i].by # job'.by
    BY <1>1, <1>2, <2>1, <2>2
  <2> QED
    BY <2>5, <2>6
<1> QED
  BY <1>4, <1>5, <1>6 DEF Waiting

\* Steps that leave the queue, the refresh thread and those that wait alone.
LEMMA QuietWaiting ==
  ASSUME IInv, TypeOK', UNCHANGED <<lines, done, queue, job, screen, at>>,
         \A u \in Threads :
           pc[u] \in {"printing", "refreshing"} \/ pc'[u] \in {"printing", "refreshing"}
             => pc'[u] = pc[u]
  PROVE  Waiting' /\ Served'
<1> USE DEF IInv
<1>1. \A t \in Threads : JobAlive(t)' <=> JobAlive(t)
  BY DEF JobAlive
<1>2. Waiting'
  <2>1. \A i \in DOMAIN queue : Waited(i)' = Waited(i)
    BY DEF Waited
  <2>2. \A m \in Message : Expects(m) /\ m.kind # "stop" => Expects(m)'
    BY MessageTyped DEF Expects
  <2>3. \A i \in DOMAIN queue : Waited(i) => Expects(queue[i])'
    BY <2>2, Queues DEF Waiting, Waited
  <2>4. JobWaited' = JobWaited
    BY DEF JobWaited
  <2>5. JobWaited => Expects(job)'
    <3>1. JobWaited => job \in Message /\ job.kind # "stop"
      BY DEF TypeOK, JobWaited, Tick
    <3> QED
      BY <2>2, <3>1 DEF Waiting
  <2>6. \A t \in done : pc'[t] \in {"printing", "refreshing"}
    BY DEF Waiting, TypeOK
  <2> QED
    BY <2>1, <2>3, <2>4, <2>5, <2>6 DEF Waiting
<1>3. Served'
  <2>1. Over' = Over /\ \A l : OnScreen(l)' = OnScreen(l) /\ Queued(l)' = Queued(l)
    BY DEF Over, OnScreen, Queued
  <2>2. \A i \in DOMAIN queue : IsLine(i)' = IsLine(i)
    BY DEF IsLine
  <2>3. \A t \in done : t \in Threads
    BY DEF TypeOK
  <2> QED
    BY <1>1, <2>1, <2>2, <2>3 DEF Served
<1> QED
  BY <1>2, <1>3

\* A thread that waits for its line is told only when it is printed, and has then no
\* other line queued.
LEMMA PrintWaiting ==
  ASSUME IInv, TypeOK', PrintLine
  PROVE  Waiting' /\ Served'
<1> USE DEF IInv
<1>1. PICK m \in Message :
        /\ m = Head(queue) /\ m.kind = "line" /\ queue # <<>> /\ queue' = Tail(queue)
        /\ screen' = Append(screen, <<m.by, m.n>>) /\ done' = Done(m)
        /\ UNCHANGED <<pc, lines, job, at>>
  BY QueueHead DEF PrintLine, callerVars
<1>2. m.by \in Threads /\ m.n \in Nat /\ m.wait \in BOOLEAN
  BY <1>1, MessageTyped
<1>3. /\ 1 \in DOMAIN queue /\ queue[1] = m
      /\ \A i \in DOMAIN queue' :
           i \in Nat /\ i # 0 /\ i + 1 \in DOMAIN queue /\ queue'[i] = queue[i + 1]
      /\ \A i \in DOMAIN queue :
           i = 1 \/ (i - 1 \in DOMAIN queue' /\ queue'[i - 1] = queue[i])
  BY <1>1, Removed
<1>4. \A i \in DOMAIN queue' : /\ Waited(i)' = Waited(i + 1) /\ IsLine(i)' = IsLine(i + 1)
                               /\ i + 1 # 1 /\ 1 < i + 1
  BY <1>3 DEF Waited, IsLine
<1>5. IsLine(1) /\ (m.wait => Waited(1))
  BY <1>1, <1>3 DEF Waited, IsLine
<1>6. JobWaited' = JobWaited
  BY <1>1 DEF JobWaited
<1>7. \A u : JobAlive(u)' => JobAlive(u) /\ (m.wait => u # m.by)
  <2> SUFFICES ASSUME NEW u, JobAlive(u)' PROVE JobAlive(u) /\ (m.wait => u # m.by)
    OBVIOUS
  <2>1. CASE \E i \in DOMAIN queue' : Waited(i)' /\ queue'[i].by = u
    <3>1. PICK i \in DOMAIN queue' : Waited(i)' /\ queue'[i].by = u
      BY <2>1
    <3>2. i + 1 \in DOMAIN queue /\ Waited(i + 1) /\ queue[i + 1].by = u /\ i + 1 # 1
      BY <1>3, <1>4, <3>1
    <3>3. m.wait => u # m.by
      BY <1>3, <1>5, <3>2 DEF Waiting
    <3> QED
      BY <3>2, <3>3 DEF JobAlive, Waited
  <2>2. CASE JobWaited' /\ job'.by = u
    <3>1. JobWaited /\ job.by = u
      BY <1>1, <1>6, <2>2
    <3> QED
      BY <1>3, <1>5, <3>1 DEF JobAlive, JobWaited, Waiting
  <2> QED
    BY <2>1, <2>2 DEF JobAlive, Waited, JobWaited
<1>8. \A u \in Threads : JobAlive(u) => u \notin done
  <2> SUFFICES ASSUME NEW u \in Threads, JobAlive(u) PROVE u \notin done
    OBVIOUS
  <2> QED
    BY Alive DEF Waiting, Expects
<1>9. done' = done \/ (m.wait /\ done' = done \cup {m.by})
  BY <1>1 DEF Done
<1>10. \A u \in Threads : JobAlive(u)' => u \notin done'
  BY <1>7, <1>8, <1>9
<1>11. \A t \in done' : pc[t] \in {"printing", "refreshing"}
  <2>1. m.wait => pc[m.by] = "printing"
    BY <1>1, <1>3, <1>5 DEF Waiting, Expects
  <2> QED
    BY <1>9, <2>1 DEF Waiting
<1>12. Waiting'
  BY <1>1, <1>6, <1>10, <1>11, TailFewer, WaitingKept
<1>13. ASSUME NEW t \in Threads, pc[t] \in {"printing", "refreshing"}, ~Over
       PROVE  t \in done' \/ JobAlive(t)'
  <2>1. CASE t \in done
    BY <1>9, <2>1
  <2>2. ASSUME NEW i \in DOMAIN queue, Waited(i), queue[i].by = t
        PROVE  t \in done' \/ JobAlive(t)'
    <3>1. CASE i = 1
      BY <1>1, <1>3, <2>2, <3>1 DEF Waited, Done
    <3>2. CASE i # 1
      <4>1. i - 1 \in DOMAIN queue' /\ queue'[i - 1] = queue[i]
        BY <1>3, <3>2
      <4> QED
        BY <2>2, <4>1 DEF JobAlive, Waited
    <3> QED
      BY <3>1, <3>2
  <2>3. CASE JobWaited /\ job.by = t
    BY <1>1, <2>3 DEF JobAlive, JobWaited
  <2> QED
    BY <1>13, <2>1, <2>2, <2>3, Alive DEF Served
<1>14. PICK z \in Nat : /\ DOMAIN screen' = DOMAIN screen \cup {z}
                        /\ \A i \in DOMAIN screen : screen'[i] = screen[i]
                        /\ screen'[z] = <<m.by, m.n>>
  <2>1. screen \in Seq(Line) /\ <<m.by, m.n>> \in Line
    BY <1>2 DEF TypeOK, Line
  <2> HIDE DEF IInv
  <2> QED
    BY <1>1, <2>1, Appended
<1>15. \A l : OnScreen(l) \/ Queued(l) => OnScreen(l)' \/ Queued(l)'
  <2> SUFFICES ASSUME NEW l, OnScreen(l) \/ Queued(l) PROVE OnScreen(l)' \/ Queued(l)'
    OBVIOUS
  <2>1. CASE OnScreen(l)
    BY <1>14, <2>1 DEF OnScreen
  <2>2. CASE Queued(l)
    <3>1. PICK i \in DOMAIN queue : queue[i].kind = "line" /\ <<queue[i].by, queue[i].n>> = l
      BY <2>2 DEF Queued
    <3>2. CASE i = 1
      BY <1>3, <1>14, <3>1, <3>2 DEF OnScreen
    <3>3. CASE i # 1
      BY <1>3, <3>1, <3>3 DEF Queued
    <3> QED
      BY <3>2, <3>3
  <2> QED
    BY <2>1, <2>2
<1>16. ASSUME NEW t \in done', pc[t] = "printing", NEW i \in DOMAIN queue', IsLine(i)'
       PROVE  queue'[i].by # t
  <2>1. i + 1 \in DOMAIN queue /\ queue'[i] = queue[i + 1] /\ IsLine(i + 1) /\ 1 < i + 1
    BY <1>3, <1>4, <1>16
  <2>2. CASE t \in done
    BY <1>16, <2>1, <2>2 DEF Served
  <2>3. CASE m.wait /\ t = m.by
    <3>1. m.n = lines[m.by]
      BY <1>1, <1>3, <1>5, <2>3 DEF Waiting, Expects
    <3>2. ASSUME queue[i + 1].by = m.by PROVE FALSE
      <4>1. m.n < queue[i + 1].n /\ queue[i + 1].n <= lines[m.by]
        BY <1>3, <1>5, <2>1, <3>2 DEF Lines
      <4>2. queue[i + 1].n \in Nat
        BY <2>1, Queues, MessageTyped DEF IsLine
      <4> QED
        BY <1>2, <3>1, <4>1, <4>2
    <3> QED
      BY <2>1, <2>3, <3>2
  <2> QED
    BY <1>9, <1>16, <2>2, <2>3
<1>17. Served'
  <2>1. Over' = Over
    BY <1>1 DEF Over
  <2> QED
    BY <1>1, <1>13, <1>15, <1>16, <2>1 DEF Served
<1> QED
  BY <1>12, <1>17

\* A message is added at the end: if its thread waits for it, it is the only one.
LEMMA AddWaiting ==
  ASSUME IInv, TypeOK', NEW m \in Message, queue' = Append(queue, m),
         UNCHANGED <<done, job, screen, at>>,
         \A u \in Threads : u # m.by \/ m.kind = "stop" =>
           /\ lines'[u] = lines[u]
           /\ pc[u] \in {"printing", "refreshing"} \/ pc'[u] \in {"printing", "refreshing"}
                => pc'[u] = pc[u],
         m.kind # "stop" =>
           /\ pc[m.by] \in {"free", "with"}
           /\ IF m.wait
                THEN pc'[m.by] = IF m.kind = "line" THEN "printing" ELSE "refreshing"
                ELSE pc'[m.by] = pc[m.by]
           /\ IF m.kind = "line"
                THEN lines'[m.by] = lines[m.by] + 1 /\ m.n = lines'[m.by]
                ELSE lines'[m.by] = lines[m.by]
  PROVE  Waiting' /\ Served'
<1> USE DEF IInv
<1>1. PICK z \in Nat :
        /\ DOMAIN queue' = DOMAIN queue \cup {z} /\ z \notin DOMAIN queue
        /\ \A i \in DOMAIN queue : i \in Nat /\ i < z /\ queue'[i] = queue[i]
        /\ queue'[z] = m
  BY Added
<1>2. /\ m.kind \in {"line", "frame", "stop"}
      /\ m.kind # "stop" => m.by \in Threads /\ m.wait \in BOOLEAN
      /\ m.kind = "line" => m.n \in Nat
  BY MessageTyped
<1>3. /\ \A i \in DOMAIN queue : Waited(i)' = Waited(i) /\ IsLine(i)' = IsLine(i)
      /\ Waited(z)' <=> m.kind # "stop" /\ m.wait
      /\ IsLine(z)' <=> m.kind = "line"
      /\ JobWaited' = JobWaited
  BY <1>1 DEF Waited, IsLine, JobWaited
<1>4. m.kind # "stop" => m.by \notin done /\ ~JobAlive(m.by)
  <2> SUFFICES ASSUME m.kind # "stop" PROVE m.by \notin done /\ ~JobAlive(m.by)
    OBVIOUS
  <2>1. pc[m.by] \notin {"printing", "refreshing"}
    OBVIOUS
  <2>2. m.by \notin done
    BY <2>1 DEF Waiting
  <2>3. \A i \in DOMAIN queue : Waited(i) => queue[i].by # m.by
    BY <2>1 DEF Waiting, Expects
  <2>4. ~(JobWaited /\ job.by = m.by)
    BY <2>1 DEF Waiting, Expects
  <2> QED
    BY <2>2, <2>3, <2>4 DEF JobAlive, Waited, JobWaited
<1>5. \A i \in DOMAIN queue : Waited(i) => m.kind = "stop" \/ queue[i].by # m.by
  BY <1>4 DEF JobAlive, Waited
<1>6. JobWaited => m.kind = "stop" \/ job.by # m.by
  BY <1>4 DEF JobAlive, JobWaited
<1>7. \A e \in Message :
        e.kind # "stop" /\ Expects(e) /\ (m.kind = "stop" \/ e.by # m.by) => Expects(e)'
  BY MessageTyped DEF Expects
<1>8. Waiting'
  <2>1. m.kind # "stop" /\ m.wait => Expects(m)'
    BY <1>2, <1>4 DEF Expects
  <2>2. ASSUME NEW i \in DOMAIN queue', Waited(i)' PROVE Expects(queue[i])'
    <3>1. CASE i = z
      BY <1>1, <1>3, <2>1, <2>2, <3>1 DEF Expects
    <3>2. CASE i # z
      <4>1. i \in DOMAIN queue /\ queue'[i] = queue[i] /\ Waited(i)
        BY <1>1, <1>3, <2>2, <3>2
      <4>2. queue[i] \in Message /\ queue[i].kind # "stop" /\ Expects(queue[i])
        BY <4>1, Queues DEF Waiting, Waited
      <4>3. PICK e \in Message : e = queue[i]
        BY <4>2
      <4>4. Expects(e)'
        BY <1>5, <1>7, <4>1, <4>2, <4>3
      <4> QED
        BY <4>1, <4>3, <4>4 DEF Expects
    <3> QED
      BY <3>1, <3>2
  <2>3. \A i, j \in DOMAIN queue' :
          Waited(i)' /\ Waited(j)' /\ queue'[i].by = queue'[j].by => i = j
    BY <1>1, <1>3, <1>5 DEF Waiting
  <2>4. JobWaited => Expects(job)'
    <3>1. JobWaited => job \in Message /\ job.kind # "stop"
      BY DEF TypeOK, JobWaited, Tick
    <3> QED
      BY <1>6, <1>7, <3>1 DEF Waiting
  <2>5. JobWaited => \A i \in DOMAIN queue' : Waited(i)' => queue'[i].by # job.by
    BY <1>1, <1>3, <1>6 DEF Waiting
  <2>6. \A t \in done : pc'[t] \in {"printing", "refreshing"}
    BY <1>4 DEF Waiting, TypeOK
  <2> QED
    BY <1>3, <2>2, <2>3, <2>4, <2>5, <2>6 DEF Waiting
<1>9. \A t : JobAlive(t) => JobAlive(t)'
  BY <1>1 DEF JobAlive
<1>10. \A l : /\ OnScreen(l)' = OnScreen(l)
              /\ Queued(l) => Queued(l)'
              /\ m.kind = "line" /\ <<m.by, m.n>> = l => Queued(l)'
  BY <1>1 DEF OnScreen, Queued
<1>11. Served'
  <2>1. ASSUME ~Over, NEW t \in Threads, pc'[t] \in {"printing", "refreshing"}
        PROVE  t \in done \/ JobAlive(t)'
    <3>1. CASE pc[t] \in {"printing", "refreshing"}
      BY <1>9, <2>1, <3>1 DEF Served
    <3>2. CASE pc[t] \notin {"printing", "refreshing"}
      <4>1. m.kind # "stop" /\ m.wait /\ m.by = t
        BY <1>2, <2>1, <3>2
      <4> QED
        BY <1>1, <4>1 DEF JobAlive
    <3> QED
      BY <3>1, <3>2
  <2>2. ASSUME ~Over, NEW t \in Threads, NEW k \in 1..lines'[t]
        PROVE  OnScreen(<<t, k>>)' \/ Queued(<<t, k>>)'
    <3>1. CASE k \in 1..lines[t]
      <4>1. OnScreen(<<t, k>>) \/ Queued(<<t, k>>)
        BY <2>2, <3>1 DEF Served
      <4> QED
        BY <1>10, <4>1
    <3>2. CASE k \notin 1..lines[t]
      <4>1. lines[t] \in Nat /\ m.kind = "line" /\ m.by = t /\ m.n = lines[t] + 1
            /\ lines'[t] = lines[t] + 1
        BY <1>2, <2>2, <3>2 DEF TypeOK
      <4>2. k = m.n
        BY <2>2, <3>2, <4>1
      <4> QED
        BY <1>10, <4>1, <4>2
    <3> QED
      BY <3>1, <3>2
  <2>3. ASSUME NEW t \in done, pc'[t] = "printing", NEW i \in DOMAIN queue', IsLine(i)'
        PROVE  queue'[i].by # t
    <3>1. CASE i = z
      BY <1>1, <1>2, <1>3, <1>4, <2>3, <3>1
    <3>2. CASE i # z
      <4>1. i \in DOMAIN queue /\ queue'[i] = queue[i] /\ IsLine(i)
        BY <1>1, <1>3, <2>3, <3>2
      <4>2. t \in Threads /\ pc[t] = "printing"
        BY <1>4, <2>3 DEF TypeOK
      <4> QED
        BY <4>1, <4>2 DEF Served
    <3> QED
      BY <3>1, <3>2
  <2>4. Over' = Over
    BY DEF Over
  <2> QED
    BY <2>1, <2>2, <2>3, <2>4 DEF Served
<1> QED
  BY <1>8, <1>11

LEMMA WriteWaiting ==
  ASSUME IInv, TypeOK', NEW t \in Threads, Write(t)
  PROVE  Waiting' /\ Served'
<1> USE DEF IInv
<1>1. /\ pc[t] \in {"free", "with"} /\ lines' = [lines EXCEPT ![t] = @ + 1]
      /\ UNCHANGED <<done, holder, job, screen, at>>
  BY DEF Write
<1>2. CASE Gone
  <2>1. UNCHANGED <<pc, queue>>
    BY <1>2 DEF Write, ToFile
  <2>2. DOMAIN queue = {} /\ job = NoJob
    BY <1>2, EmptySeq DEF Receiver, Gone
  <2> QED
    BY <1>1, <1>2, <2>1, <2>2
       DEF Waiting, Served, JobWaited, Over, Gone
<1>3. CASE ~Gone
  <2>1. PICK m \in Message : m = LineJob(t, holder # t)
    BY Jobs
  <2>2. m.kind = "line" /\ m.by = t /\ m.n = lines[t] + 1 /\ m.wait = (holder # t)
    BY <2>1 DEF LineJob
  <2>3. queue' = Append(queue, m) /\ pc' = [pc EXCEPT ![t] = IF holder = t THEN @ ELSE "printing"]
    BY <1>3, <2>1 DEF Write
  <2>4. /\ \A u \in Threads : u # t => lines'[u] = lines[u] /\ pc'[u] = pc[u]
        /\ lines'[t] = lines[t] + 1
        /\ pc'[t] = IF m.wait THEN "printing" ELSE pc[t]
    BY <1>1, <2>2, <2>3 DEF TypeOK
  <2> HIDE DEF IInv
  <2> QED
    BY <1>1, <2>2, <2>3, <2>4, AddWaiting
<1> QED
  BY <1>2, <1>3

LEMMA RefreshWaiting ==
  ASSUME IInv, TypeOK', NEW t \in Threads, Refresh(t)
  PROVE  Waiting' /\ Served'
<1> USE DEF IInv
<1>1. PICK m \in Message : m = [kind |-> "frame", by |-> t, wait |-> holder # t]
  BY Jobs
<1>2. m.kind = "frame" /\ m.by = t /\ m.wait = (holder # t)
  BY <1>1
<1>3. /\ pc[t] \in {"free", "with"} /\ queue' = Append(queue, m)
      /\ UNCHANGED <<lines, done, job, screen, at>>
      /\ pc' = IF holder = t THEN pc ELSE [pc EXCEPT ![t] = "refreshing"]
  BY <1>1 DEF Refresh
<1>4. /\ \A u \in Threads : u # t => pc'[u] = pc[u]
      /\ pc'[t] = IF m.wait THEN "refreshing" ELSE pc[t]
  BY <1>2, <1>3 DEF TypeOK
<1> HIDE DEF IInv
<1> QED
  BY <1>2, <1>3, <1>4, AddWaiting

LEMMA StopWaiting ==
  ASSUME IInv, TypeOK', NEW t \in Threads, Stop(t)
  PROVE  Waiting' /\ Served'
<1>1. /\ \A u \in Threads :
           pc[u] \in {"printing", "refreshing"} \/ pc'[u] \in {"printing", "refreshing"}
             => pc'[u] = pc[u]
      /\ UNCHANGED <<lines, done, job, screen, at>>
  BY DEF IInv, TypeOK, Stop
<1>2. CASE queue' = queue
  BY <1>1, <1>2, QuietWaiting
<1>3. CASE queue' = Append(queue, [kind |-> "stop"])
  <2>1. PICK m \in Message : m = [kind |-> "stop"]
    BY Typed DEF IInv
  <2> QED
    BY <1>1, <1>3, <2>1, AddWaiting
<1> QED
  BY <1>2, <1>3 DEF Stop

\* A call returns when its message is gone, done or not.
LEMMA ReturnWaiting ==
  ASSUME IInv, TypeOK', NEW t \in Threads, Return(t)
  PROVE  Waiting' /\ Served'
<1> USE DEF IInv
<1>1. /\ t \in done \/ ~JobAlive(t)
      /\ done' = done \ {t} /\ pc' = [pc EXCEPT ![t] = "free"]
      /\ UNCHANGED <<lines, queue, job, screen, at>>
  BY DEF Return
<1>2. \A u \in Threads : u # t => pc'[u] = pc[u]
  BY <1>1
<1>3. pc'[t] = "free"
  BY <1>1 DEF TypeOK
<1>4. \A u \in Threads : JobAlive(u) => u \notin done
  BY Alive DEF Waiting, Expects
<1>5. \A u : JobAlive(u)' <=> JobAlive(u)
  BY <1>1 DEF JobAlive
<1>6. Waiting'
  <2>1. \A u \in Threads :
          JobAlive(u)' => pc'[u] = pc[u] /\ u \notin done' /\ lines'[u] = lines[u]
    BY <1>1, <1>2, <1>4, <1>5
  <2>2. JobWaited' => JobWaited /\ job' = job
    BY <1>1 DEF JobWaited
  <2>3. \A u \in done' : pc'[u] \in {"printing", "refreshing"}
    BY <1>1, <1>2 DEF Waiting, TypeOK
  <2> QED
    BY <1>1, <2>1, <2>2, <2>3, SameFewer, WaitingKept
<1>7. Served'
  <2>1. Over' = Over /\ \A l : OnScreen(l)' = OnScreen(l) /\ Queued(l)' = Queued(l)
    BY <1>1 DEF Over, OnScreen, Queued
  <2>2. \A i \in DOMAIN queue : IsLine(i)' = IsLine(i)
    BY <1>1 DEF IsLine
  <2>3. \A u \in done' : u \in Threads /\ u \in done /\ u # t
    BY <1>1 DEF TypeOK
  <2> QED
    BY <1>1, <1>2, <1>3, <1>5, <2>1, <2>2, <2>3 DEF Served
<1> QED
  BY <1>6, <1>7

\* The message leaves the queue to be drawn for: its thread waits for it still.
LEMMA BeginFrameWaiting ==
  ASSUME IInv, TypeOK', BeginFrame
  PROVE  Waiting' /\ Served'
<1> USE DEF IInv
<1>1. PICK m \in Message :
        /\ m = Head(queue) /\ m.kind = "frame" /\ queue # <<>> /\ queue' = Tail(queue)
        /\ job' = m /\ at = "receiving" /\ at' = "drawing"
        /\ UNCHANGED <<pc, lines, done, screen>>
  BY QueueHead DEF BeginFrame, callerVars
<1>2. m.by \in Threads /\ m.wait \in BOOLEAN /\ m # NoJob /\ job = NoJob
  BY <1>1, MessageTyped, NoJobAssumption DEF Receiver
<1>3. /\ 1 \in DOMAIN queue /\ queue[1] = m
      /\ \A i \in DOMAIN queue' :
           i \in Nat /\ i # 0 /\ i + 1 \in DOMAIN queue /\ queue'[i] = queue[i + 1]
      /\ \A i \in DOMAIN queue :
           i = 1 \/ (i - 1 \in DOMAIN queue' /\ queue'[i - 1] = queue[i])
  BY <1>1, Removed
<1>4. \A i \in DOMAIN queue' : /\ Waited(i)' = Waited(i + 1) /\ IsLine(i)' = IsLine(i + 1)
                               /\ i + 1 # 1
  BY <1>3 DEF Waited, IsLine
<1>5. /\ ~IsLine(1) /\ (Waited(1) <=> m.wait)
      /\ JobWaited' <=> m.wait
      /\ ~JobWaited
  BY <1>1, <1>2, <1>3 DEF Waited, IsLine, JobWaited
<1>6. Waiting'
  <2>1. ASSUME NEW i \in DOMAIN queue', Waited(i)'
        PROVE  Expects(queue[i])' /\ (queue'[i].by # job'.by \/ ~JobWaited')
    <3>1. i + 1 \in DOMAIN queue /\ queue'[i] = queue[i + 1] /\ Waited(i + 1) /\ i + 1 # 1
      BY <1>3, <1>4, <2>1
    <3>2. Expects(queue[i + 1])
      BY <3>1 DEF Waiting
    <3>3. Expects(queue[i])'
      BY <1>1, <3>1, <3>2 DEF Expects
    <3>4. m.wait => queue[i + 1].by # m.by
      BY <1>3, <1>5, <3>1 DEF Waiting
    <3> QED
      BY <1>1, <1>5, <3>1, <3>3, <3>4
  <2>2. \A i, j \in DOMAIN queue' :
          Waited(i)' /\ Waited(j)' /\ queue'[i].by = queue'[j].by => i = j
    <3> SUFFICES ASSUME NEW i \in DOMAIN queue', NEW j \in DOMAIN queue', Waited(i)',
                        Waited(j)', queue'[i].by = queue'[j].by
                 PROVE  i = j
      OBVIOUS
    <3>1. i + 1 = j + 1
      BY <1>3, <1>4 DEF Waiting
    <3> QED
      BY <1>3, <3>1
  <2>3. JobWaited' => Expects(job)'
    <3>1. m.wait => Expects(m)
      BY <1>3, <1>5 DEF Waiting
    <3> QED
      BY <1>1, <1>5, <3>1 DEF Expects
  <2>4. \A u \in done' : pc'[u] \in {"printing", "refreshing"}
    BY <1>1 DEF Waiting
  <2> QED
    BY <2>1, <2>2, <2>3, <2>4 DEF Waiting
<1>7. Served'
  <2>1. ASSUME NEW t \in Threads, pc[t] \in {"printing", "refreshing"}
        PROVE  t \in done \/ JobAlive(t)'
    <3>1. ~Over
      BY <1>1 DEF Over
    <3>2. CASE t \in done
      BY <3>2
    <3>3. ASSUME NEW i \in DOMAIN queue, Waited(i), queue[i].by = t PROVE JobAlive(t)'
      <4>1. CASE i = 1
        BY <1>1, <1>3, <1>5, <3>3, <4>1 DEF JobAlive, JobWaited
      <4>2. CASE i # 1
        BY <1>3, <3>3, <4>2 DEF JobAlive, Waited
      <4> QED
        BY <4>1, <4>2
    <3> QED
      BY <1>5, <2>1, <3>1, <3>2, <3>3, Alive DEF Served
  <2>2. \A l : OnScreen(l) \/ Queued(l) => OnScreen(l)' \/ Queued(l)'
    <3> SUFFICES ASSUME NEW l, OnScreen(l) \/ Queued(l) PROVE OnScreen(l)' \/ Queued(l)'
      OBVIOUS
    <3>1. CASE OnScreen(l)
      BY <1>1, <3>1 DEF OnScreen
    <3>2. CASE Queued(l)
      <4>1. PICK i \in DOMAIN queue : queue[i].kind = "line" /\ <<queue[i].by, queue[i].n>> = l
        BY <3>2 DEF Queued
      <4>2. i # 1
        BY <1>5, <4>1 DEF IsLine
      <4> QED
        BY <1>3, <4>1, <4>2 DEF Queued
    <3> QED
      BY <3>1, <3>2
  <2>3. \A t \in done : pc[t] = "printing" =>
          \A i \in DOMAIN queue' : IsLine(i)' => queue'[i].by # t
    BY <1>3, <1>4 DEF Served
  <2>4. ~Over
    BY <1>1 DEF Over
  <2> QED
    BY <1>1, <2>1, <2>2, <2>3, <2>4 DEF Served
<1> QED
  BY <1>6, <1>7

LEMMA BeginOtherWaiting ==
  ASSUME IInv, TypeOK', BeginTick \/ BeginStop
  PROVE  Waiting' /\ Served'
<1> USE DEF IInv
<1>1. /\ UNCHANGED <<pc, lines, done, screen>>
      /\ at = "receiving" /\ at' = "drawing"
      /\ job = NoJob
      /\ \/ queue' = queue /\ job' = Tick
         \/ queue # <<>> /\ queue' = Tail(queue) /\ job' = Head(queue) /\ job'.kind = "stop"
  BY DEF BeginTick, BeginStop, callerVars, Receiver
<1>2. WaitsFewer /\ LinesFewer
  BY <1>1, SameFewer, TailFewer
<1>3. ~JobWaited' /\ ~JobWaited
  BY <1>1 DEF JobWaited, Tick
<1>4. \A i \in DOMAIN queue : queue[i].kind # "stop" =>
        \E j \in DOMAIN queue' : queue'[j] = queue[i]
  <2>1. CASE queue' = queue
    BY <2>1
  <2>2. CASE queue # <<>> /\ queue' = Tail(queue) /\ Head(queue).kind = "stop"
    BY <2>2, Removed
  <2> QED
    BY <1>1, <2>1, <2>2
<1>5. \A t : JobAlive(t) => JobAlive(t)'
  BY <1>3, <1>4 DEF JobAlive, JobWaited
<1>6. \A i \in DOMAIN queue' : \E j \in DOMAIN queue : queue[j] = queue'[i]
  <2>1. CASE queue # <<>> /\ queue' = Tail(queue)
    BY <2>1, Removed
  <2> QED
    BY <1>1, <2>1
<1>7. \A t \in Threads : JobAlive(t)' => t \notin done
  <2> SUFFICES ASSUME NEW t \in Threads, JobAlive(t)' PROVE t \notin done
    OBVIOUS
  <2>1. PICK i \in DOMAIN queue' :
          queue'[i].kind # "stop" /\ queue'[i].by = t /\ queue'[i].wait
    BY <1>3 DEF JobAlive, JobWaited
  <2>2. PICK j \in DOMAIN queue : queue[j] = queue'[i]
    BY <1>6
  <2> QED
    BY <2>1, <2>2 DEF Waiting, Waited, Expects
<1>8. Waiting'
  BY <1>1, <1>2, <1>3, <1>7, WaitingKept DEF Waiting
<1>9. Served'
  <2>1. \A l : OnScreen(l) \/ Queued(l) => OnScreen(l)' \/ Queued(l)'
    BY <1>1, <1>4 DEF OnScreen, Queued
  <2>2. \A t \in done : pc[t] = "printing" =>
          \A i \in DOMAIN queue' : IsLine(i)' => queue'[i].by # t
    BY <1>6 DEF Served, IsLine
  <2>3. ~Over
    BY <1>1 DEF Over
  <2> QED
    BY <1>1, <1>5, <2>1, <2>2, <2>3 DEF Served
<1> QED
  BY <1>8, <1>9

LEMMA DrawWaiting ==
  ASSUME IInv, TypeOK', Draw
  PROVE  Waiting' /\ Served'
<1> USE DEF IInv
<1>1. /\ UNCHANGED <<pc, lines, screen, queue>>
      /\ at = "drawing" /\ job' = NoJob /\ job # NoJob
      /\ done' = done \/ (JobWaited /\ done' = done \cup {job.by})
      /\ JobWaited => job.by \in done'
  BY DEF Draw, Done, callerVars, Receiver, JobWaited
<1>2. ~JobWaited'
  BY <1>1 DEF JobWaited
<1>3. \A i \in DOMAIN queue : IsLine(i)' = IsLine(i) /\ Waited(i)' = Waited(i)
  BY <1>1 DEF IsLine, Waited
<1>4. JobWaited => pc[job.by] = "refreshing"
  BY DEF Waiting, Expects, JobWaited
<1>5. \A t \in Threads : JobAlive(t)' => t \notin done'
  BY <1>1, <1>2 DEF JobAlive, Waiting, Expects, Waited, JobWaited
<1>6. \A t \in done' : pc[t] \in {"printing", "refreshing"}
  BY <1>1, <1>4 DEF Waiting
<1>7. Waiting'
  BY <1>1, <1>2, <1>5, <1>6, SameFewer, WaitingKept
<1>8. Served'
  <2>1. ASSUME NEW t \in Threads, pc[t] \in {"printing", "refreshing"}
        PROVE  t \in done' \/ JobAlive(t)'
    <3>1. t \in done \/ JobAlive(t)
      BY <1>1, <2>1 DEF Served, Over
    <3> QED
      BY <1>1, <3>1 DEF JobAlive, JobWaited
  <2>2. \A l : OnScreen(l)' = OnScreen(l) /\ Queued(l)' = Queued(l)
    BY <1>1 DEF OnScreen, Queued
  <2>3. \A t \in done' : pc[t] = "printing" =>
          \A i \in DOMAIN queue : IsLine(i) => queue[i].by # t
    BY <1>1, <1>4 DEF Served
  <2>4. ~Over
    BY <1>1 DEF Over
  <2> QED
    BY <1>1, <1>3, <2>1, <2>2, <2>3, <2>4 DEF Served
<1> QED
  BY <1>7, <1>8

LEMMA EndWaiting ==
  ASSUME IInv, TypeOK', RenderPanics \/ DropReceiver
  PROVE  Waiting' /\ Served'
<1> USE DEF IInv
<1>1. /\ UNCHANGED <<pc, lines, done>>
      /\ Over' /\ job' = NoJob
      /\ queue' = queue \/ queue' = <<>> \/ (queue # <<>> /\ queue' = Tail(queue))
  BY DEF RenderPanics, DropReceiver, callerVars, Over, Receiver
<1>2. WaitsFewer /\ LinesFewer
  BY <1>1, SameFewer, TailFewer
<1>3. ~JobWaited'
  BY <1>1 DEF JobWaited
<1>4. \A i \in DOMAIN queue' : \E j \in DOMAIN queue : queue[j] = queue'[i]
  <2>1. CASE queue # <<>> /\ queue' = Tail(queue)
    BY <2>1, Removed
  <2> QED
    BY <1>1, <2>1, EmptySeq
<1>5. \A t \in Threads : JobAlive(t)' => t \notin done
  <2> SUFFICES ASSUME NEW t \in Threads, JobAlive(t)' PROVE t \notin done
    OBVIOUS
  <2>1. PICK i \in DOMAIN queue' :
          queue'[i].kind # "stop" /\ queue'[i].by = t /\ queue'[i].wait
    BY <1>3 DEF JobAlive, JobWaited
  <2>2. PICK j \in DOMAIN queue : queue[j] = queue'[i]
    BY <1>4
  <2> QED
    BY <2>1, <2>2 DEF Waiting, Waited, Expects
<1>6. Waiting'
  BY <1>1, <1>2, <1>3, <1>5, WaitingKept DEF Waiting
<1>7. Served'
  BY <1>1, <1>4 DEF Served, IsLine
<1> QED
  BY <1>6, <1>7

LEMMA StepWaiting ==
  ASSUME IInv, TypeOK', [Next]_vars
  PROVE  Waiting' /\ Served'
<1>1. ASSUME NEW t \in Threads, Enter(t) \/ Change(t) \/ Leave(t) \/ Joined(t)
      PROVE  Waiting' /\ Served'
  <2>1. UNCHANGED <<lines, done, queue, job, screen, at>>
    BY <1>1 DEF Enter, Change, Leave, Joined, callerVars
  <2>2. \A u \in Threads :
          pc[u] \in {"printing", "refreshing"} \/ pc'[u] \in {"printing", "refreshing"}
            => pc'[u] = pc[u]
    BY <1>1 DEF Enter, Change, Leave, Joined, callerVars, IInv, TypeOK
  <2> QED
    BY <2>1, <2>2, QuietWaiting
<1>2. CASE UNCHANGED vars
  BY <1>2, QuietWaiting DEF vars
<1> QED
  BY <1>1, <1>2, WriteWaiting, RefreshWaiting, ReturnWaiting, StopWaiting, PrintWaiting,
     BeginFrameWaiting, BeginOtherWaiting, DrawWaiting, EndWaiting DEF Next, RefreshThread
-----------------------------------------------------------------------------
LEMMA StepFrames ==
  ASSUME IInv, TypeOK', [Next]_vars
  PROVE  Frames'
<1> USE DEF IInv, TypeOK, callerVars
<1>1. ASSUME NEW t \in Threads, Change(t) PROVE Frames'
  BY <1>1 DEF Change, Frames
<1>2. ASSUME NEW t \in Threads, Refresh(t) PROVE Frames'
  <2>1. t \notin done
    BY <1>2 DEF Refresh, Waiting
  <2>2. UNCHANGED <<done, frame, progress>>
    BY <1>2 DEF Refresh
  <2>3. CASE UNCHANGED <<pc, asOf>>
    BY <2>2, <2>3 DEF Frames
  <2>4. CASE /\ pc' = [pc EXCEPT ![t] = "refreshing"]
             /\ asOf' = [asOf EXCEPT ![t] = progress]
    <3>1. asOf'[t] = progress /\ \A u \in Threads : u # t => asOf'[u] = asOf[u]
      BY <2>4
    <3>2. \A u \in done : u # t /\ u \in Threads /\ pc'[u] = pc[u] /\ asOf'[u] = asOf[u]
      BY <2>1, <2>4
    <3>3. ASSUME NEW u \in Threads PROVE asOf'[u] <= progress
      <4>1. CASE u = t
        BY <3>1, <4>1
      <4>2. CASE u # t
        BY <3>1, <4>2 DEF Frames
      <4> QED
        BY <4>1, <4>2
    <3>4. ASSUME NEW u \in done, pc'[u] = "refreshing" PROVE frame >= asOf'[u]
      BY <3>2, <3>4 DEF Frames
    <3> QED
      BY <2>2, <3>3, <3>4 DEF Frames
  <2> QED
    BY <1>2, <2>3, <2>4 DEF Refresh
<1>3. ASSUME NEW t \in Threads, Return(t) PROVE Frames'
  BY <1>3 DEF Return, Frames
<1>4. ASSUME NEW t \in Threads, Enter(t) \/ Leave(t) \/ Write(t) \/ Stop(t) \/ Joined(t)
      PROVE  Frames'
  <2>1. UNCHANGED <<frame, progress, asOf, done>>
    BY <1>4 DEF Enter, Leave, Write, Stop, Joined
  <2>2. \A u \in Threads : pc'[u] = "refreshing" => pc[u] = "refreshing"
    <3>1. CASE Write(t)
      BY <3>1 DEF Write, ToFile
    <3>2. CASE Enter(t) \/ Leave(t) \/ Stop(t) \/ Joined(t)
      BY <3>2 DEF Enter, Leave, Stop, Joined
    <3> QED
      BY <1>4, <3>1, <3>2
  <2> QED
    BY <2>1, <2>2 DEF Frames
<1>5. CASE PrintLine
  <2>1. PICK m \in Message : /\ m = Head(queue) /\ m.kind = "line" /\ queue # <<>>
                             /\ done' = Done(m)
                             /\ UNCHANGED <<pc, frame, progress, asOf>>
    BY <1>5, QueueHead DEF PrintLine
  <2>2. m.wait => pc[m.by] = "printing"
    <3>1. 1 \in DOMAIN queue /\ queue[1] = m
      BY <2>1, QueueHead
    <3> QED
      BY <2>1, <3>1 DEF Waiting, Waited, Expects
  <2>3. \A u \in done' : pc'[u] = "refreshing" => u \in done
    BY <2>1, <2>2 DEF Done
  <2> QED
    BY <2>1, <2>3 DEF Frames
<1>6. CASE Draw
  <2>1. frame' = progress /\ UNCHANGED <<pc, progress, asOf>> /\ done' \subseteq Threads
    BY <1>6 DEF Draw
  <2> QED
    BY <2>1 DEF Frames
<1>7. CASE BeginFrame \/ BeginTick \/ BeginStop \/ RenderPanics \/ DropReceiver
           \/ UNCHANGED vars
  <2>1. UNCHANGED <<pc, frame, progress, asOf, done>>
    BY <1>7 DEF BeginFrame, BeginTick, BeginStop, RenderPanics, DropReceiver, vars
  <2> QED
    BY <2>1 DEF Frames
<1> QED
  BY <1>1, <1>2, <1>3, <1>4, <1>5, <1>6, <1>7 DEF Next, RefreshThread

\* No thread leaves a display it stops, and none starts to use it then.
LEMMA StaysUnusable ==
  ASSUME IInv, TypeOK', [Next]_vars, ~Usable
  PROVE  /\ ~Usable'
         /\ \A u \in Threads : pc'[u] \in {"free", "printing", "stopping", "stopped"}
         /\ progress' = progress
<1> USE DEF IInv, TypeOK, callerVars
<1>1. \A u \in Threads : pc[u] \in {"free", "printing", "stopping", "stopped"}
  BY DEF Stopping
<1>2. ASSUME NEW t \in Threads,
             Enter(t) \/ Change(t) \/ Leave(t) \/ Refresh(t) \/ Stop(t)
      PROVE  FALSE
  BY <1>1, <1>2 DEF Enter, Change, Leave, Refresh, Stop
<1>3. ASSUME NEW t \in Threads, Write(t) \/ Return(t) \/ Joined(t)
      PROVE  /\ progress' = progress
             /\ pc[t] # "stopped" /\ (pc[t] = "stopping" => pc'[t] = "stopped")
             /\ pc'[t] \in {"free", "printing", "stopped"}
             /\ \A u \in Threads : u # t => pc'[u] = pc[u]
  <2>1. CASE Write(t)
    BY <1>1, <2>1 DEF Write, ToFile
  <2>2. CASE Return(t) \/ Joined(t)
    BY <2>2 DEF Return, Joined
  <2> QED
    BY <1>3, <2>1, <2>2
<1>4. ASSUME RefreshThread \/ BeginTick \/ UNCHANGED vars
      PROVE  UNCHANGED <<pc, progress>>
  BY <1>4 DEF RefreshThread, PrintLine, BeginFrame, BeginStop, Draw, RenderPanics,
              DropReceiver, BeginTick, vars
<1>5. CASE UNCHANGED <<pc, progress>>
  BY <1>1, <1>5 DEF Usable
<1>6. ASSUME NEW t \in Threads, Write(t) \/ Return(t) \/ Joined(t)
      PROVE  /\ ~Usable'
             /\ \A u \in Threads : pc'[u] \in {"free", "printing", "stopping", "stopped"}
             /\ progress' = progress
  BY <1>1, <1>3, <1>6 DEF Usable
<1> QED
  BY <1>2, <1>4, <1>5, <1>6 DEF Next

LEMMA StepStopping ==
  ASSUME IInv, TypeOK', [Next]_vars
  PROVE  Stopping'
<1> USE DEF IInv
<1>1. CASE Usable
  <2>1. /\ \A i \in DOMAIN queue : queue[i].kind # "stop"
        /\ job # NoJob => job.kind # "stop"
        /\ Over => panicked
    BY <1>1 DEF Stopping
  <2>2. ASSUME NEW t \in Threads, Stop(t) PROVE Stopping'
    <3>1. pc'[t] = "stopping"
      BY <2>2 DEF Stop, TypeOK
    <3>2. ~Usable'
      BY <3>1 DEF Usable
    <3>3. \A u \in Threads : pc'[u] \in {"free", "printing", "stopping", "stopped"}
      BY <2>2 DEF Stop, TypeOK
    <3>4. UNCHANGED <<at, panicked>>
      BY <2>2 DEF Stop
    <3> QED
      BY <2>1, <3>2, <3>3, <3>4 DEF Stopping, Over
  <2>3. ASSUME ~Usable' PROVE \E t \in Threads : Stop(t)
    <3>1. PICK t \in Threads : pc'[t] \in {"stopping", "stopped"} /\ pc'[t] # pc[t]
      BY <1>1, <2>3 DEF Usable
    <3>2. ASSUME NEW u \in Threads, Enter(u) \/ Change(u) \/ Leave(u) \/ Refresh(u)
                                    \/ Return(u)
          PROVE  FALSE
      BY <3>1, <3>2 DEF Enter, Change, Leave, Refresh, Return, callerVars, TypeOK
    <3>3. ASSUME NEW u \in Threads, Write(u) PROVE FALSE
      BY <3>1, <3>3 DEF Write, ToFile, TypeOK
    <3>4. ASSUME NEW u \in Threads, Joined(u) PROVE FALSE
      BY <1>1, <3>4 DEF Joined, Usable
    <3>5. ASSUME RefreshThread \/ BeginTick \/ UNCHANGED vars PROVE FALSE
      BY <3>1, <3>5 DEF RefreshThread, PrintLine, BeginFrame, BeginStop, Draw,
                        RenderPanics, DropReceiver, BeginTick, callerVars, vars
    <3> QED
      BY <3>2, <3>3, <3>4, <3>5 DEF Next
  <2>4. CASE Usable' /\ ~\E t \in Threads : Stop(t)
    <3>1. \A i \in DOMAIN queue' : queue'[i].kind # "stop"
      <4>1. CASE queue' = queue
        BY <2>1, <4>1
      <4>2. CASE queue' = <<>>
        BY <4>2, EmptySeq
      <4>3. CASE queue # <<>> /\ queue' = Tail(queue)
        BY <2>1, <4>3, Removed
      <4>4. ASSUME NEW m \in Message, queue' = Append(queue, m), m.kind # "stop"
            PROVE  \A i \in DOMAIN queue' : queue'[i].kind # "stop"
        BY <2>1, <4>4, Added
      <4>5. ASSUME NEW t \in Threads, Write(t)
            PROVE  queue' = queue \/ queue' = Append(queue, LineJob(t, holder # t))
        BY <4>5 DEF Write, ToFile
      <4>6. ASSUME NEW t \in Threads, Write(t) PROVE \A i \in DOMAIN queue' : queue'[i].kind # "stop"
        <5>1. LineJob(t, holder # t).kind = "line"
          BY DEF LineJob
        <5> QED
          BY <4>1, <4>4, <4>5, <4>6, <5>1, Jobs
      <4>7. ASSUME NEW t \in Threads, Refresh(t) PROVE \A i \in DOMAIN queue' : queue'[i].kind # "stop"
        <5>1. PICK m \in Message : m.kind = "frame" /\ queue' = Append(queue, m)
          BY <4>7, Jobs DEF Refresh
        <5> QED
          BY <4>4, <5>1
      <4>8. ASSUME NEW t \in Threads, Enter(t) \/ Change(t) \/ Leave(t) \/ Return(t) \/ Joined(t)
            PROVE  queue' = queue
        BY <4>8 DEF Enter, Change, Leave, Return, Joined
      <4>9. ASSUME RefreshThread \/ BeginTick \/ UNCHANGED vars
            PROVE  queue' = queue \/ queue' = <<>> \/ (queue # <<>> /\ queue' = Tail(queue))
        BY <4>9 DEF RefreshThread, PrintLine, BeginFrame, BeginStop, Draw, RenderPanics,
                    DropReceiver, BeginTick, vars
      <4> QED
        BY <2>4, <4>1, <4>2, <4>3, <4>6, <4>7, <4>8, <4>9 DEF Next
    <3>2. /\ job' # NoJob => job'.kind # "stop"
          /\ Over' => panicked'
      <4>1. ~BeginStop
        BY <2>1, QueueHead DEF BeginStop
      <4>2. ASSUME NEW t \in Threads, Enter(t) \/ Change(t) \/ Leave(t) \/ Write(t)
                                      \/ Refresh(t) \/ Return(t) \/ Joined(t)
            PROVE  UNCHANGED <<job, at, panicked>>
        BY <4>2 DEF Enter, Change, Leave, Write, Refresh, Return, Joined
      <4>3. CASE UNCHANGED <<job, at, panicked>>
        BY <2>1, <4>3 DEF Over
      <4>4. CASE PrintLine \/ BeginFrame \/ BeginTick \/ RenderPanics \/ DropReceiver
        BY <2>1, <4>4 DEF PrintLine, BeginFrame, BeginTick, RenderPanics, DropReceiver,
                          Over, Tick
      <4>5. CASE Draw
        BY <2>1, <4>5 DEF Draw, Over, Receiver
      <4>6. CASE UNCHANGED vars
        BY <4>3, <4>6 DEF vars
      <4> QED
        BY <2>4, <4>1, <4>2, <4>3, <4>4, <4>5, <4>6 DEF Next, RefreshThread
    <3> QED
      BY <2>4, <3>1, <3>2 DEF Stopping
  <2> QED
    BY <2>2, <2>3, <2>4
<1>2. CASE ~Usable
  <2>1. /\ ~Usable' /\ progress' = progress
        /\ \A u \in Threads : pc'[u] \in {"free", "printing", "stopping", "stopped"}
    BY <1>2, StaysUnusable
  <2>2. Over' /\ ~panicked' => frame' = progress
    <3>1. ASSUME NEW t \in Threads, Enter(t) \/ Change(t) \/ Leave(t) \/ Write(t)
                                    \/ Refresh(t) \/ Return(t) \/ Stop(t) \/ Joined(t)
          PROVE  UNCHANGED <<frame, at, panicked>>
      BY <3>1 DEF Enter, Change, Leave, Write, Refresh, Return, Stop, Joined
    <3>2. CASE UNCHANGED <<frame, at, panicked>>
      BY <3>2 DEF Stopping, Over
    <3>3. CASE RefreshThread \/ BeginTick
      BY <3>3 DEF RefreshThread, PrintLine, BeginFrame, BeginStop, Draw, RenderPanics,
                  DropReceiver, BeginTick, Stopping, Over
    <3> QED
      BY <3>1, <3>2, <3>3 DEF Next, vars
  <2> QED
    BY <2>1, <2>2 DEF Stopping
<1> QED
  BY <1>1, <1>2
-----------------------------------------------------------------------------
\* In every reachable state lines are in order and whoever waits for the refresh
\* thread has one message on its way, or its answer.
THEOREM Inductive == Spec => []IInv
<1>1. IInv /\ [Next]_vars => IInv'
  <2> SUFFICES ASSUME IInv, [Next]_vars PROVE IInv'
    OBVIOUS
  <2>1. TypeOK'
    BY StepType DEF IInv
  <2>2. Receiver' /\ Holding'
    BY <2>1, StepReceiver, StepHolding
  <2>3. Lines' /\ Waiting' /\ Served'
    BY <2>1, StepLines, StepWaiting
  <2>4. Frames' /\ Stopping'
    BY <2>1, StepFrames, StepStopping
  <2> QED
    BY <2>1, <2>2, <2>3, <2>4 DEF IInv
<1> QED
  BY InitInv, <1>1, PTL DEF Spec

\* The types of the state of the display's threads.
THEOREM TypeCorrect == Spec => []TypeOK
<1>1. IInv => TypeOK
  BY DEF IInv
<1> QED
  BY <1>1, Inductive, PTL

\* A thread's lines come out in the order it wrote them, on the screen and then,
\* once the display is gone, in the file.
THEOREM LinesInOrder == Spec => []InOrder
<1>1. IInv => InOrder
  <2> SUFFICES ASSUME IInv,
                      NEW i \in DOMAIN (screen \o file), NEW j \in DOMAIN (screen \o file),
                      i < j, (screen \o file)[i][1] = (screen \o file)[j][1]
               PROVE  (screen \o file)[i][2] < (screen \o file)[j][2]
    BY DEF InOrder
  <2> DEFINE n == Len(screen)
  <2>1. screen \in Seq(Line) /\ file \in Seq(Line)
    BY DEF IInv, TypeOK
  <2>2. n \in Nat /\ Len(file) \in Nat /\ DOMAIN screen = 1..n /\ DOMAIN file = 1..Len(file)
    BY <2>1, LenProperties
  <2>3. /\ DOMAIN (screen \o file) = 1..(n + Len(file))
        /\ \A k \in 1..(n + Len(file)) :
             (screen \o file)[k] = IF k <= n THEN screen[k] ELSE file[k - n]
    BY <2>1, ConcatProperties, LenProperties
  <2>4. CASE j <= n
    <3>1. i \in DOMAIN screen /\ j \in DOMAIN screen
      BY <2>2, <2>3, <2>4
    <3>2. (screen \o file)[i] = screen[i] /\ (screen \o file)[j] = screen[j]
      BY <2>2, <2>3, <2>4
    <3> QED
      BY <3>1, <3>2 DEF IInv, Lines
  <2>5. CASE i <= n /\ ~(j <= n)
    <3>1. i \in DOMAIN screen /\ j - n \in DOMAIN file
      BY <2>2, <2>3, <2>5
    <3>2. (screen \o file)[i] = screen[i] /\ (screen \o file)[j] = file[j - n]
      BY <2>2, <2>3, <2>5
    <3> QED
      BY <3>1, <3>2 DEF IInv, Lines
  <2>6. CASE ~(i <= n)
    <3>1. i - n \in DOMAIN file /\ j - n \in DOMAIN file /\ i - n < j - n /\ ~(j <= n)
      BY <2>2, <2>3, <2>6
    <3>2. (screen \o file)[i] = file[i - n] /\ (screen \o file)[j] = file[j - n]
      BY <2>2, <2>3, <2>6, <3>1
    <3> QED
      BY <3>1, <3>2 DEF IInv, Lines
  <2> QED
    BY <2>4, <2>5, <2>6
<1> QED
  BY <1>1, Inductive, PTL

\* Only `run` returning ends a wait, and while the display runs it is told so.
LEMMA Returns ==
  ASSUME IInv, [Next]_vars, NEW t \in Threads,
         pc[t] \in {"printing", "refreshing"}, pc'[t] = "free"
  PROVE  ~Over => t \in done
<1> USE DEF IInv, TypeOK, callerVars
<1>1. ASSUME NEW u \in Threads,
             Enter(u) \/ Change(u) \/ Leave(u) \/ Refresh(u) \/ Stop(u) \/ Joined(u)
      PROVE  FALSE
  BY <1>1 DEF Enter, Change, Leave, Refresh, Stop, Joined
<1>2. ASSUME NEW u \in Threads, Write(u) PROVE FALSE
  BY <1>2 DEF Write, ToFile
<1>3. ASSUME RefreshThread \/ BeginTick \/ UNCHANGED vars PROVE FALSE
  BY <1>3 DEF RefreshThread, PrintLine, BeginFrame, BeginStop, Draw, RenderPanics,
              DropReceiver, BeginTick, vars
<1>4. PICK u \in Threads : Return(u)
  BY <1>1, <1>2, <1>3 DEF Next
<1>5. u = t /\ (t \in done \/ ~JobAlive(t))
  BY <1>4 DEF Return
<1> QED
  BY <1>5 DEF Served

\* While the display runs, a print that returns has its line on the screen, and every
\* line its thread printed before.
THEOREM PrintedWhenReturned == Spec => PrintedOnReturn
<1>1. IInv /\ [Next]_vars
      => [\A t \in Threads :
            (pc[t] = "printing" /\ pc'[t] = "free" /\ ~Over)
            => \A k \in 1..lines[t] : OnScreen(<<t, k>>)]_vars
  <2> SUFFICES ASSUME IInv, [Next]_vars, NEW t \in Threads,
                      pc[t] = "printing", pc'[t] = "free", ~Over,
                      NEW k \in 1..lines[t]
               PROVE  OnScreen(<<t, k>>)
    OBVIOUS
  <2>1. t \in done
    BY Returns
  <2>2. \A i \in DOMAIN queue : IsLine(i) => queue[i].by # t
    BY <2>1 DEF IInv, Served
  <2>3. ~Queued(<<t, k>>)
    BY <2>2 DEF Queued, IsLine
  <2> QED
    BY <2>3 DEF IInv, Served
<1> QED
  BY <1>1, Inductive, PTL DEF Spec, PrintedOnReturn

\* A refresh outside the lock returns with the progress on the screen as it was when
\* it was called, and the frame a display leaves is that of the last change.
THEOREM RefreshIsCurrent == Spec => FrameIsCurrent
<1>1. IInv /\ [Next]_vars
      => [\A t \in Threads :
            (pc[t] = "refreshing" /\ pc'[t] = "free") => frame >= asOf[t] \/ Over]_vars
  <2> SUFFICES ASSUME IInv, [Next]_vars, NEW t \in Threads,
                      pc[t] = "refreshing", pc'[t] = "free", ~Over
               PROVE  frame >= asOf[t]
    OBVIOUS
  <2>1. t \in done
    BY Returns
  <2> QED
    BY <2>1 DEF IInv, Frames
<1>2. IInv => FinalFrame
  BY DEF IInv, Stopping, Over, FinalFrame
<1>3. Spec => []FinalFrame
  BY <1>2, Inductive, PTL
<1>4. Spec => [][\A t \in Threads :
            (pc[t] = "refreshing" /\ pc'[t] = "free") => frame >= asOf[t] \/ Over]_vars
  BY <1>1, Inductive, PTL DEF Spec
<1>5. [][\A t \in Threads :
            (pc[t] = "refreshing" /\ pc'[t] = "free") => frame >= asOf[t] \/ Over]_vars
      /\ []FinalFrame => FrameIsCurrent
  BY PTL DEF FrameIsCurrent
<1> QED
  BY <1>3, <1>4, <1>5
=============================================================================
