---------------------------- MODULE AcpCallsProofs ----------------------------
(***************************************************************************)
(* Proofs about the calls on an ACP connection, for any number of callers, *)
(* of calls and of messages.                                               *)
(*                                                                         *)
(* That a reply reaches the call it answers rests on numbers naming calls: *)
(* wherever a number and a call are found together (Known), they are found *)
(* together everywhere (Numbered).  That the history is shown first rests  *)
(* on what the agent's output still holds: every update not yet shown, in  *)
(* order, and before the answers written after it (History).               *)
(***************************************************************************)
EXTENDS AcpCalls, QueueLemmas

AnswerTo(i, id, k) == fromAgent[i].kind = "response" /\ fromAgent[i].id = id /\ fromAgent[i].call = k

\* The request has been written: it is on its way to the agent, read by it, or
\* answered in its output.
Sent(id, k) ==
  \/ [id |-> id, call |-> k] \in asked
  \/ \E i \in DOMAIN toAgent : toAgent[i] = [id |-> id, call |-> k]
  \/ \E i \in DOMAIN fromAgent : AnswerTo(i, id, k)

\* Somewhere the number stands for the call.
Known(id, k) ==
  \/ Sent(id, k)
  \/ [id |-> id, call |-> k] \in pending
  \/ \E c \in Callers : InCall(c) /\ callId[c] = id /\ Channel(c) = k

\* One number, one call: numbers are handed out once, and before a caller takes one
\* its new call has none.
Numbered ==
  /\ \A id \in Nat, k \in Call :
       Known(id, k) => /\ id < nextId
                       /\ k[2] <= callNo[k[1]]
                       /\ pc[k[1]] = "checked" => k[2] # callNo[k[1]]
  /\ \A id, jd \in Nat, k, l \in Call :
       Known(id, k) /\ Known(jd, l) => (id = jd <=> k = l)

\* A request not yet written is nowhere else, so no reply to it can have come.
Unsent ==
  \A c \in Callers :
    pc[c] \in {"registered", "writing"} => \A k \in Call : ~Sent(callId[c], k)

\* A reply is in the channel of a call that waits.
Waited == \A c \in Callers : mailbox[c] # NoReply => pc[c] = "waiting"

\* Until the connection closes, a call without its reply has its Sender in the map.
Connected ==
  ~closed => \A c \in Callers :
               InCall(c) /\ mailbox[c] = NoReply
                 => [id |-> callId[c], call |-> Channel(c)] \in pending

ClosedOnce == ~StillReads => closed

\* A thread that writes an answer has a request in its hands.
Handles ==
  /\ holder = Reader => reader = "writing"
  /\ holder = Handler => handling > 0

IsUpdate(i) == fromAgent[i].kind = "update"
IsAnswer(i) == fromAgent[i].kind = "response"

\* The updates not yet shown are in the agent's output, in their order, and each
\* answer comes after those written before it - until the reader stops reading.
History ==
  /\ shown <= updates
  /\ \A i \in DOMAIN fromAgent :
       /\ IsUpdate(i) => shown < fromAgent[i].n /\ fromAgent[i].n <= updates
       /\ IsAnswer(i) => fromAgent[i].after <= updates
  /\ \A i, j \in DOMAIN fromAgent :
       i < j /\ IsUpdate(j) =>
         /\ IsUpdate(i) => fromAgent[i].n < fromAgent[j].n
         /\ IsAnswer(i) => fromAgent[i].after < fromAgent[j].n
  /\ StillReads => \A n \in Nat : shown < n /\ n <= updates =>
       \E i \in DOMAIN fromAgent : IsUpdate(i) /\ fromAgent[i].n = n

IInv ==
  /\ TypeOK
  /\ Numbered
  /\ Unsent
  /\ Waited
  /\ OwnReply
  /\ Connected
  /\ ClosedOnce
  /\ Handles
  /\ History
  /\ HistoryFirst
-----------------------------------------------------------------------------
LEMMA InitType == Init => TypeOK
<1> SUFFICES ASSUME Init PROVE TypeOK
  OBVIOUS
<1>1. <<>> \in Seq(Request \cup {Answer}) /\ <<>> \in Seq(Message)
  BY EmptySeq
<1> QED
  BY <1>1 DEF Init, TypeOK

LEMMA InitInv == Init => IInv
<1> SUFFICES ASSUME Init PROVE IInv
  OBVIOUS
<1>1. TypeOK
  BY InitType
<1>2. DOMAIN toAgent = {} /\ DOMAIN fromAgent = {}
  BY EmptySeq DEF Init
<1>3. \A id, k : ~Known(id, k)
  BY <1>2 DEF Init, Known, Sent, InCall
<1>4. Numbered
  BY <1>3 DEF Numbered
<1>5. Unsent /\ Waited /\ OwnReply /\ Connected /\ ClosedOnce /\ HistoryFirst /\ Handles
  BY CallsAssumption DEF Init, Unsent, Waited, OwnReply, Connected, ClosedOnce,
     HistoryFirst, InCall, Handles, StillReads
<1>6. History
  BY <1>2 DEF Init, History
<1> QED
  BY <1>1, <1>4, <1>5, <1>6 DEF IInv

\* A message out of the agent's output.
LEMMA HeadTyped ==
  ASSUME TypeOK, fromAgent # <<>>
  PROVE  /\ Head(fromAgent) \in Message
         /\ Tail(fromAgent) \in Seq(Message)
         /\ Head(fromAgent).kind = "response" =>
              /\ Head(fromAgent).id \in Nat
              /\ Head(fromAgent).call \in Call
              /\ Head(fromAgent).after \in Nat
         /\ Head(fromAgent).kind = "update" => Head(fromAgent).n \in Nat
<1>1. Head(fromAgent) \in Message /\ Tail(fromAgent) \in Seq(Message)
  BY TakenOff DEF TypeOK
<1> QED
  BY <1>1 DEF Message

LEMMA StepType ==
  ASSUME TypeOK, Handles, [Next]_vars
  PROVE  TypeOK'
<1> USE DEF TypeOK, callerVars, agentVars
<1>1. ASSUME NEW c \in Callers, CheckClosed(c) \/ EncodeFails(c) PROVE TypeOK'
  <2>1. CASE CheckClosed(c)
    BY <2>1 DEF CheckClosed
  <2>2. CASE EncodeFails(c)
    BY <2>2 DEF EncodeFails
  <2> QED
    BY <1>1, <2>1, <2>2
<1>2. ASSUME NEW c \in Callers, Register(c) PROVE TypeOK'
  <2>1. [id |-> nextId, call |-> Channel(c)] \in Request
    BY DEF Request, Call, Channel
  <2> QED
    BY <1>2, <2>1 DEF Register, Without
<1>3. ASSUME NEW c \in Callers, LockWriter(c) PROVE TypeOK'
  BY <1>3 DEF LockWriter, Without
<1>4. ASSUME NEW c \in Callers, WriteLine(c) PROVE TypeOK'
  <2>1. [id |-> callId[c], call |-> Channel(c)] \in Request
    BY DEF Request, Call, Channel
  <2>2. toAgent' \in Seq(Request \cup {Answer})
    BY <1>4, <2>1, AppendProperties DEF WriteLine
  <2> QED
    BY <1>4, <2>2 DEF WriteLine
<1>5. ASSUME NEW c \in Callers, WriteFails(c) \/ Wait(c) \/ GiveUp(c) PROVE TypeOK'
  <2>1. CASE WriteFails(c)
    BY <2>1 DEF WriteFails, Without
  <2>2. CASE Wait(c)
    BY <2>2 DEF Wait
  <2>3. CASE GiveUp(c)
    BY <2>3 DEF GiveUp
  <2> QED
    BY <1>5, <2>1, <2>2, <2>3
<1>6. CASE RouteResponse
  <2>1. /\ Tail(fromAgent) \in Seq(Message)
        /\ [call |-> Head(fromAgent).call, after |-> Head(fromAgent).after] \in Reply
    BY <1>6, HeadTyped DEF RouteResponse, Reply, Call
  <2>2. mailbox' \in [Callers -> Reply \cup {NoReply}] /\ pending' \subseteq Request
    BY <1>6, <2>1 DEF RouteResponse, Deliver, Without
  <2> QED
    BY <1>6, <2>1, <2>2 DEF RouteResponse
<1>7. CASE RouteUpdate
  BY <1>7, HeadTyped DEF RouteUpdate
<1>8. CASE ReadEnd \/ ReadFails \/ ClearPending \/ Shutdown \/ TakeWriter \/ Reap \/ Kill
  <2>1. CASE ReadEnd
    BY <2>1 DEF ReadEnd
  <2>2. CASE ReadFails
    <3>1. <<>> \in Seq(Message)
      BY EmptySeq
    <3> QED
      BY <2>2, <3>1 DEF ReadFails
  <2>3. CASE ClearPending
    <3>1. UNCHANGED <<pc, callNo, callId, mailbox, nextId, closed, writer, holder, handling>>
      BY <2>3 DEF ClearPending
    <3>2. UNCHANGED <<toAgent, asked, fromAgent, said, updates, shown, agent, inClosed,
                      outClosed, sd>>
      BY <2>3 DEF ClearPending
    <3>3. reader' = "done" /\ pending' = {}
      BY <2>3 DEF ClearPending
    <3> QED
      BY <3>1, <3>2, <3>3
  <2>4. CASE Shutdown
    BY <2>4 DEF Shutdown
  <2>5. CASE TakeWriter
    BY <2>5 DEF TakeWriter
  <2>6. CASE Reap
    BY <2>6 DEF Reap
  <2>7. CASE Kill
    BY <2>7 DEF Kill
  <2> QED
    BY <1>8, <2>1, <2>2, <2>3, <2>4, <2>5, <2>6, <2>7
<1>9. CASE AgentReads
  <2>1. Head(toAgent) \in Request \cup {Answer} /\ Tail(toAgent) \in Seq(Request \cup {Answer})
    BY <1>9, TakenOff DEF AgentReads
  <2> QED
    BY <1>9, <2>1 DEF AgentReads
<1>10. ASSUME NEW q \in asked, AgentAnswers(q) PROVE TypeOK'
  <2>1. [kind |-> "response", id |-> q.id, call |-> q.call, after |-> updates] \in Message
    BY DEF Request, Message
  <2>2. fromAgent' \in Seq(Message)
    BY <1>10, <2>1, AppendProperties DEF AgentAnswers
  <2> QED
    BY <1>10, <2>2 DEF AgentAnswers
<1>11. CASE AgentUpdates
  <2>1. [kind |-> "update", n |-> updates + 1] \in Message
    BY DEF Message
  <2>2. fromAgent' \in Seq(Message)
    BY <1>11, <2>1, AppendProperties DEF AgentUpdates
  <2> QED
    BY <1>11, <2>2 DEF AgentUpdates
<1>12. CASE OutputCloses \/ InputCloses \/ AgentExits \/ UNCHANGED vars
  <2>1. CASE InputCloses
    <3>1. <<>> \in Seq(Request \cup {Answer})
      BY EmptySeq
    <3> QED
      BY <2>1, <3>1 DEF InputCloses
  <2>2. CASE OutputCloses
    BY <2>2 DEF OutputCloses
  <2>3. CASE AgentExits
    BY <2>3 DEF AgentExits
  <2>4. CASE UNCHANGED vars
    BY <2>4 DEF vars
  <2> QED
    BY <1>12, <2>1, <2>2, <2>3, <2>4
<1>13. CASE RouteRequest
  <2>1. Tail(fromAgent) \in Seq(Message)
    BY <1>13, HeadTyped DEF RouteRequest
  <2>2. handling' \in Nat
    BY <1>13 DEF RouteRequest
  <2> QED
    BY <1>13, <2>1, <2>2 DEF RouteRequest
<1>14. CASE LockToRefuse \/ LockToAnswer
  <2>1. CASE LockToRefuse
    BY <2>1 DEF LockToRefuse
  <2>2. CASE LockToAnswer
    BY <2>2 DEF LockToAnswer
  <2> QED
    BY <1>14, <2>1, <2>2
<1>15. CASE WriteAnswer
  <2>1. Append(toAgent, Answer) \in Seq(Request \cup {Answer})
    BY AppendProperties
  <2>3. toAgent' \in Seq(Request \cup {Answer})
    BY <1>15, <2>1 DEF WriteAnswer
  <2>2. handling' \in Nat
    BY <1>15 DEF WriteAnswer, Handles
  <2>4. reader' \in {"reading", "refusing", "writing", "closing", "done"} /\ holder' = Nobody
    BY <1>15 DEF WriteAnswer
  <2> QED
    BY <1>15, <2>2, <2>3, <2>4 DEF WriteAnswer
<1>16. CASE AgentAsks
  <2>1. [kind |-> "request"] \in Message
    BY DEF Message
  <2>2. fromAgent' \in Seq(Message)
    BY <1>16, <2>1, AppendProperties DEF AgentAsks
  <2> QED
    BY <1>16, <2>2 DEF AgentAsks
<1> QED
  BY <1>1, <1>2, <1>3, <1>4, <1>5, <1>6, <1>7, <1>8, <1>9, <1>10, <1>11, <1>12, <1>13,
     <1>14, <1>15, <1>16
     DEF Next, CallerStep, ReaderStep, CloserStep, AgentStep, HeldBy
-----------------------------------------------------------------------------
\* A handler takes its request off its hands with its own write, or without one.
LEMMA HandlesStep ==
  ASSUME IInv, [Next]_vars
  PROVE  Handles'
<1> USE DEF IInv, Handles, TypeOK
<1>1. CASE UNCHANGED <<holder, handling>> /\ (reader = "writing" => reader' = "writing")
  BY <1>1
<1>2. ASSUME NEW c \in Callers, CheckClosed(c) \/ CallerStep(c) \/ EncodeFails(c) \/ GiveUp(c)
      PROVE  Handles'
  <2>1. UNCHANGED <<handling, reader>> /\ (holder' = holder \/ holder' \in {c, Nobody})
    BY <1>2 DEF CheckClosed, CallerStep, Register, LockWriter, WriteLine, WriteFails, Wait,
                EncodeFails, GiveUp
  <2> QED
    BY <1>2, <2>1, CallsAssumption
<1>3. CASE RouteRequest
  BY <1>3 DEF RouteRequest
<1>4. CASE LockToRefuse \/ LockToAnswer
  BY <1>4, CallsAssumption DEF LockToRefuse, LockToAnswer
<1>5. CASE WriteAnswer
  BY <1>5, CallsAssumption DEF WriteAnswer
<1>6. ASSUME RouteResponse \/ RouteUpdate \/ ReadEnd \/ ReadFails \/ ClearPending
             \/ Shutdown \/ CloserStep \/ AgentStep \/ UNCHANGED vars
      PROVE  UNCHANGED <<holder, handling>> /\ (reader = "writing" => reader' = "writing")
  BY <1>6 DEF RouteResponse, RouteUpdate, ReadEnd, ReadFails, ClearPending, Shutdown,
              CloserStep, TakeWriter, Reap, Kill, AgentStep, AgentReads, AgentAnswers,
              AgentUpdates, AgentAsks, OutputCloses, InputCloses, AgentExits, vars
<1> QED
  BY <1>1, <1>2, <1>3, <1>4, <1>5, <1>6 DEF Next, ReaderStep, HeldBy
-----------------------------------------------------------------------------
\* What a step that numbers no new call owes: it makes no number known that was
\* not, keeps the callers' counts, and sends nothing that is not sent.
NoNewNumber ==
  /\ \A id \in Nat, k \in Call : Known(id, k)' => Known(id, k)
  /\ nextId' = nextId /\ callNo' = callNo
  /\ \A c \in Callers : pc'[c] = "checked" => pc[c] = "checked"

LEMMA NumberedKept ==
  ASSUME TypeOK, Numbered, NoNewNumber
  PROVE  Numbered'
<1>1. ASSUME NEW id \in Nat, NEW k \in Call, Known(id, k)'
      PROVE  /\ id < nextId'
             /\ k[2] <= callNo'[k[1]]
             /\ pc'[k[1]] = "checked" => k[2] # callNo'[k[1]]
  <2>1. Known(id, k) /\ k[1] \in Callers
    BY <1>1 DEF NoNewNumber, Call
  <2>2. /\ id < nextId
        /\ k[2] <= callNo[k[1]]
        /\ pc[k[1]] = "checked" => k[2] # callNo[k[1]]
    BY <2>1 DEF Numbered
  <2>3. nextId' = nextId /\ callNo' = callNo /\ (pc'[k[1]] = "checked" => pc[k[1]] = "checked")
    BY <2>1 DEF NoNewNumber
  <2> QED
    BY ONLY <2>2, <2>3
<1>2. ASSUME NEW id \in Nat, NEW jd \in Nat, NEW k \in Call, NEW l \in Call,
             Known(id, k)', Known(jd, l)'
      PROVE  id = jd <=> k = l
  <2>1. Known(id, k) /\ Known(jd, l)
    BY <1>2 DEF NoNewNumber
  <2> QED
    BY <2>1 DEF Numbered
<1> QED
  BY <1>1, <1>2 DEF Numbered

\* No message moves: what is sent stays so.
LEMMA SentSame ==
  ASSUME UNCHANGED <<asked, toAgent, fromAgent>>, NEW id, NEW k
  PROVE  Sent(id, k)' <=> Sent(id, k)
BY DEF Sent, AnswerTo

LEMMA CheckClosedKnown ==
  ASSUME IInv, NEW c \in Callers, CheckClosed(c)
  PROVE  Numbered' /\ Unsent'
<1> USE DEF IInv, TypeOK
<1>1. UNCHANGED <<asked, toAgent, fromAgent, pending, callId, nextId>>
  BY DEF CheckClosed, agentVars
<1>2. /\ callNo' = [callNo EXCEPT ![c] = @ + 1] /\ pc' = [pc EXCEPT ![c] = "checked"]
      /\ pc[c] = "idle"
  BY DEF CheckClosed
<1>3. \A d \in Callers : InCall(d)' => InCall(d) /\ d # c /\ Channel(d)' = Channel(d)
  BY <1>2 DEF InCall, Channel
<1>4. \A id \in Nat, k \in Call : Known(id, k)' => Known(id, k)
  BY <1>1, <1>3, SentSame DEF Known
<1>5. \A id \in Nat, k \in Call :
        Known(id, k) => k[2] <= callNo'[k[1]] /\ (pc'[k[1]] = "checked" => k[2] # callNo'[k[1]])
  <2> SUFFICES ASSUME NEW id \in Nat, NEW k \in Call, Known(id, k)
               PROVE  /\ k[2] <= callNo'[k[1]]
                      /\ pc'[k[1]] = "checked" => k[2] # callNo'[k[1]]
    OBVIOUS
  <2>1. k[1] \in Callers /\ k[2] \in Nat /\ callNo[k[1]] \in Nat
    BY DEF Call
  <2>2. k[2] <= callNo[k[1]] /\ (pc[k[1]] = "checked" => k[2] # callNo[k[1]])
    BY DEF Numbered
  <2> QED
    BY <1>2, <2>1, <2>2
<1>6. Numbered'
  <2>1. \A id \in Nat, k \in Call :
          Known(id, k)' => /\ id < nextId'
                           /\ k[2] <= callNo'[k[1]]
                           /\ pc'[k[1]] = "checked" => k[2] # callNo'[k[1]]
    BY <1>1, <1>4, <1>5 DEF Numbered
  <2>2. \A id, jd \in Nat, k, l \in Call : Known(id, k)' /\ Known(jd, l)' => (id = jd <=> k = l)
    BY <1>4 DEF Numbered
  <2> QED
    BY <2>1, <2>2 DEF Numbered
<1>7. Unsent'
  BY <1>1, <1>2, SentSame DEF Unsent
<1> QED
  BY <1>6, <1>7

\* The number handed out is new, and the call has none yet.
LEMMA RegisterKnown ==
  ASSUME IInv, NEW c \in Callers, Register(c)
  PROVE  Numbered' /\ Unsent'
<1> USE DEF IInv, TypeOK
<1>1. UNCHANGED <<asked, toAgent, fromAgent, callNo>>
  BY DEF Register, agentVars
<1>2. /\ pc[c] = "checked" /\ pc' = [pc EXCEPT ![c] = "registered"]
      /\ callId' = [callId EXCEPT ![c] = nextId] /\ nextId' = nextId + 1
      /\ \A e \in pending' : e \in pending \/ e = [id |-> nextId, call |-> Channel(c)]
  BY DEF Register, Without
<1>3. Channel(c) \in Call /\ Channel(c)[1] = c /\ Channel(c)[2] = callNo[c]
  BY DEF Channel, Call
<1>4. \A d \in Callers : Channel(d)' = Channel(d) /\ (d # c /\ InCall(d)' => InCall(d))
  BY <1>1, <1>2 DEF Channel, InCall
<1>5. \A id \in Nat, k \in Call :
        Known(id, k)' => Known(id, k) \/ (id = nextId /\ k = Channel(c))
  <2> SUFFICES ASSUME NEW id \in Nat, NEW k \in Call, Known(id, k)'
               PROVE  Known(id, k) \/ (id = nextId /\ k = Channel(c))
    OBVIOUS
  <2>1. CASE Sent(id, k)'
    BY <1>1, <2>1, SentSame DEF Known
  <2>2. CASE [id |-> id, call |-> k] \in pending'
    BY <1>2, <2>2 DEF Known
  <2>3. ASSUME NEW d \in Callers, InCall(d)', callId'[d] = id, Channel(d)' = k
        PROVE  Known(id, k) \/ (id = nextId /\ k = Channel(c))
    <3>1. CASE d = c
      BY <1>2, <1>4, <2>3, <3>1
    <3>2. CASE d # c
      BY <1>2, <1>4, <2>3, <3>2 DEF Known
    <3> QED
      BY <3>1, <3>2
  <2> QED
    BY <2>1, <2>2, <2>3 DEF Known
<1>6. \A id \in Nat, k \in Call : Known(id, k) => id # nextId /\ k # Channel(c)
  BY <1>2, <1>3 DEF Numbered
<1>7. \A id \in Nat, k \in Call :
        Known(id, k)' => /\ id < nextId'
                         /\ k[2] <= callNo'[k[1]]
                         /\ pc'[k[1]] = "checked" => k[2] # callNo'[k[1]]
  <2> SUFFICES ASSUME NEW id \in Nat, NEW k \in Call, Known(id, k)'
               PROVE  /\ id < nextId'
                      /\ k[2] <= callNo'[k[1]]
                      /\ pc'[k[1]] = "checked" => k[2] # callNo'[k[1]]
    OBVIOUS
  <2>1. CASE Known(id, k)
    <3>1. k[1] \in Callers
      BY DEF Call
    <3>2. id < nextId /\ k[2] <= callNo[k[1]] /\ (pc[k[1]] = "checked" => k[2] # callNo[k[1]])
      BY <2>1 DEF Numbered
    <3> QED
      BY <1>1, <1>2, <3>1, <3>2
  <2>2. CASE id = nextId /\ k = Channel(c)
    BY <1>1, <1>2, <1>3, <2>2
  <2> QED
    BY <1>5, <2>1, <2>2
<1>8. \A id, jd \in Nat, k, l \in Call : Known(id, k)' /\ Known(jd, l)' => (id = jd <=> k = l)
  BY <1>5, <1>6 DEF Numbered
<1>9. Unsent'
  <2> SUFFICES ASSUME NEW d \in Callers, pc'[d] \in {"registered", "writing"},
                      NEW k \in Call, Sent(callId'[d], k)
               PROVE  FALSE
    BY <1>1, SentSame DEF Unsent
  <2>1. CASE d = c
    BY <1>2, <1>6, <2>1 DEF Known
  <2>2. CASE d # c
    BY <1>2, <2>2 DEF Unsent
  <2> QED
    BY <2>1, <2>2
<1> QED
  BY <1>7, <1>8, <1>9 DEF Numbered

\* A caller's step that leaves the call, or goes on with it, before it is written.
LEMMA QuietCallerKnown ==
  ASSUME IInv, NEW c \in Callers,
         EncodeFails(c) \/ LockWriter(c) \/ WriteFails(c) \/ Wait(c) \/ GiveUp(c)
  PROVE  Numbered' /\ Unsent'
<1> USE DEF IInv, TypeOK
<1>1. /\ UNCHANGED <<asked, toAgent, fromAgent, callNo, callId, nextId>>
      /\ pending' \subseteq pending
  BY DEF EncodeFails, LockWriter, WriteFails, Wait, GiveUp, Without, agentVars
<1>2. /\ \A d \in Callers : d # c => pc'[d] = pc[d]
      /\ pc'[c] \in {"idle", "writing"}
      /\ pc'[c] = "writing" => pc[c] = "registered"
  BY DEF EncodeFails, LockWriter, WriteFails, Wait, GiveUp
<1>3. \A d \in Callers : Channel(d)' = Channel(d) /\ (InCall(d)' => InCall(d))
  BY <1>1, <1>2 DEF Channel, InCall
<1>4. \A id \in Nat, k \in Call : Known(id, k)' => Known(id, k)
  BY <1>1, <1>3, SentSame DEF Known
<1>5. NoNewNumber
  BY <1>1, <1>2, <1>4 DEF NoNewNumber
<1>6. Unsent'
  BY <1>1, <1>2, SentSame DEF Unsent
<1> QED
  BY <1>5, <1>6, NumberedKept

\* The line written is of a call known already, and of no other caller's.
LEMMA WriteLineKnown ==
  ASSUME IInv, NEW c \in Callers, WriteLine(c)
  PROVE  Numbered' /\ Unsent'
<1> USE DEF IInv, TypeOK
<1> DEFINE line == [id |-> callId[c], call |-> Channel(c)]
<1>1. /\ UNCHANGED <<asked, fromAgent, callNo, callId, nextId, pending>>
      /\ toAgent' = Append(toAgent, line)
      /\ pc' = [pc EXCEPT ![c] = "waiting"] /\ pc[c] = "writing"
  BY DEF WriteLine, agentVars
<1>2. line \in Request /\ callId[c] \in Nat /\ Channel(c) \in Call
  BY DEF Request, Call, Channel
<1>3. /\ DOMAIN toAgent' = DOMAIN toAgent \cup {Len(toAgent) + 1}
      /\ \A i \in DOMAIN toAgent : toAgent'[i] = toAgent[i]
      /\ toAgent'[Len(toAgent) + 1] = line
  BY <1>1, <1>2, Appended
<1>4. \A id \in Nat, k \in Call :
        Sent(id, k)' => Sent(id, k) \/ (id = callId[c] /\ k = Channel(c))
  BY <1>1, <1>3 DEF Sent, AnswerTo
<1>5. Known(callId[c], Channel(c))
  BY <1>1 DEF Known, InCall
<1>6. \A d \in Callers : Channel(d)' = Channel(d) /\ (InCall(d)' => InCall(d))
  BY <1>1 DEF Channel, InCall
<1>7. \A id \in Nat, k \in Call : Known(id, k)' => Known(id, k)
  BY <1>1, <1>4, <1>5, <1>6 DEF Known
<1>8. NoNewNumber
  BY <1>1, <1>7 DEF NoNewNumber
<1>9. Unsent'
  <2> SUFFICES ASSUME NEW d \in Callers, pc'[d] \in {"registered", "writing"},
                      NEW k \in Call, NEW id \in Nat, id = callId'[d], Sent(id, k)'
               PROVE  FALSE
    BY <1>1 DEF Unsent, Sent, AnswerTo
  <2>1. d # c /\ pc[d] \in {"registered", "writing"} /\ callId[d] = id
    BY <1>1
  <2>2. callId[d] = callId[c]
    BY <1>4, <2>1 DEF Unsent
  <2>3. Known(callId[d], Channel(d)) /\ Channel(d) \in Call
    BY <2>1 DEF Known, InCall, Channel, Call
  <2>4. Channel(d) = Channel(c)
    BY <1>2, <1>5, <2>1, <2>2, <2>3 DEF Numbered
  <2> QED
    BY <2>1, <2>4 DEF Channel
<1> QED
  BY <1>8, <1>9, NumberedKept

\* The reader takes messages and Senders away.
LEMMA ReaderKnown ==
  ASSUME IInv, RouteResponse \/ RouteUpdate \/ RouteRequest \/ ReadEnd \/ ReadFails
               \/ ClearPending
  PROVE  Numbered' /\ Unsent'
<1> USE DEF IInv, TypeOK
<1>1. /\ UNCHANGED <<asked, toAgent, callNo, callId, nextId, pc>>
      /\ pending' \subseteq pending
  BY DEF RouteResponse, RouteUpdate, RouteRequest, ReadEnd, ReadFails, ClearPending,
         Without, agentVars, callerVars
<1>2. \/ fromAgent' = fromAgent
      \/ fromAgent # <<>> /\ fromAgent' = Tail(fromAgent)
      \/ fromAgent' = <<>>
  BY DEF RouteResponse, RouteUpdate, RouteRequest, ReadEnd, ReadFails, ClearPending
<1>3. \A id \in Nat, k \in Call : Sent(id, k)' => Sent(id, k)
  <2>1. CASE fromAgent' = fromAgent
    BY <1>1, <2>1, SentSame
  <2>2. CASE fromAgent # <<>> /\ fromAgent' = Tail(fromAgent)
    <3>1. \A i \in DOMAIN fromAgent' : i + 1 \in DOMAIN fromAgent /\ fromAgent'[i] = fromAgent[i + 1]
      BY <2>2, TakenOff
    <3> QED
      BY <1>1, <3>1 DEF Sent, AnswerTo
  <2>3. CASE fromAgent' = <<>>
    <3>1. DOMAIN fromAgent' = {}
      BY <2>3, EmptySeq
    <3> QED
      BY <1>1, <3>1 DEF Sent, AnswerTo
  <2> QED
    BY <1>2, <2>1, <2>2, <2>3
<1>4. \A d \in Callers : Channel(d)' = Channel(d) /\ InCall(d)' = InCall(d)
  BY <1>1 DEF Channel, InCall
<1>5. \A id \in Nat, k \in Call : Known(id, k)' => Known(id, k)
  BY <1>1, <1>3, <1>4 DEF Known
<1>6. NoNewNumber
  BY <1>1, <1>5 DEF NoNewNumber
<1>7. Unsent'
  BY <1>1, <1>3 DEF Unsent
<1> QED
  BY <1>6, <1>7, NumberedKept

\* The agent answers what it has read, and reads what was sent to it.
LEMMA AgentKnown ==
  ASSUME IInv, AgentReads \/ (\E q \in asked : AgentAnswers(q)) \/ AgentUpdates \/ AgentAsks
  PROVE  Numbered' /\ Unsent'
<1> USE DEF IInv, TypeOK
<1>1. UNCHANGED <<pc, callNo, callId, nextId, pending>>
  BY DEF AgentReads, AgentAnswers, AgentUpdates, AgentAsks, callerVars
<1>2. \A id \in Nat, k \in Call : Sent(id, k)' => Sent(id, k)
  <2>1. CASE AgentReads
    <3>1. fromAgent' = fromAgent /\ toAgent # <<>> /\ toAgent' = Tail(toAgent)
          /\ asked' = asked \cup ({Head(toAgent)} \ {Answer})
      BY <2>1 DEF AgentReads
    <3>2. /\ 1 \in DOMAIN toAgent /\ toAgent[1] = Head(toAgent)
          /\ \A i \in DOMAIN toAgent' : i + 1 \in DOMAIN toAgent /\ toAgent'[i] = toAgent[i + 1]
      BY <3>1, TakenOff
    <3> QED
      BY <3>1, <3>2 DEF Sent, AnswerTo
  <2>2. ASSUME NEW q \in asked, AgentAnswers(q)
        PROVE  \A id \in Nat, k \in Call : Sent(id, k)' => Sent(id, k)
    <3> DEFINE m == [kind |-> "response", id |-> q.id, call |-> q.call, after |-> updates]
    <3>1. fromAgent' = Append(fromAgent, m) /\ UNCHANGED <<asked, toAgent>>
      BY <2>2 DEF AgentAnswers
    <3>2. m \in Message /\ q = [id |-> q.id, call |-> q.call]
      BY DEF Message, Request
    <3>3. /\ DOMAIN fromAgent' = DOMAIN fromAgent \cup {Len(fromAgent) + 1}
          /\ \A i \in DOMAIN fromAgent : fromAgent'[i] = fromAgent[i]
          /\ fromAgent'[Len(fromAgent) + 1] = m
      BY <3>1, <3>2, Appended
    <3>4. m.id = q.id /\ m.call = q.call
      OBVIOUS
    <3> HIDE DEF m
    <3> QED
      BY <3>1, <3>2, <3>3, <3>4 DEF Sent, AnswerTo
  <2>3. CASE AgentUpdates
    <3> DEFINE m == [kind |-> "update", n |-> updates + 1]
    <3>1. fromAgent' = Append(fromAgent, m) /\ UNCHANGED <<asked, toAgent>>
      BY <2>3 DEF AgentUpdates
    <3>2. m \in Message /\ m.kind = "update"
      BY DEF Message
    <3>3. /\ DOMAIN fromAgent' = DOMAIN fromAgent \cup {Len(fromAgent) + 1}
          /\ \A i \in DOMAIN fromAgent : fromAgent'[i] = fromAgent[i]
          /\ fromAgent'[Len(fromAgent) + 1] = m
      BY <3>1, <3>2, Appended
    <3> HIDE DEF m
    <3> QED
      BY <3>1, <3>2, <3>3 DEF Sent, AnswerTo
  <2>4. CASE AgentAsks
    <3> DEFINE m == [kind |-> "request"]
    <3>1. fromAgent' = Append(fromAgent, m) /\ UNCHANGED <<asked, toAgent>>
      BY <2>4 DEF AgentAsks
    <3>2. m \in Message /\ m.kind = "request"
      BY DEF Message
    <3>3. /\ DOMAIN fromAgent' = DOMAIN fromAgent \cup {Len(fromAgent) + 1}
          /\ \A i \in DOMAIN fromAgent : fromAgent'[i] = fromAgent[i]
          /\ fromAgent'[Len(fromAgent) + 1] = m
      BY <3>1, <3>2, Appended
    <3> HIDE DEF m
    <3> QED
      BY <3>1, <3>2, <3>3 DEF Sent, AnswerTo
  <2> QED
    BY <2>1, <2>2, <2>3, <2>4
<1>3. \A d \in Callers : Channel(d)' = Channel(d) /\ InCall(d)' = InCall(d)
  BY <1>1 DEF Channel, InCall
<1>4. \A id \in Nat, k \in Call : Known(id, k)' => Known(id, k)
  BY <1>1, <1>2, <1>3 DEF Known
<1>5. NoNewNumber
  BY <1>1, <1>4 DEF NoNewNumber
<1>6. Unsent'
  BY <1>1, <1>2 DEF Unsent
<1> QED
  BY <1>5, <1>6, NumberedKept

\* The client's answers are no requests, and what the agent's input loses is only lost.
LEMMA AnswersKnown ==
  ASSUME IInv, WriteAnswer \/ InputCloses
  PROVE  Numbered' /\ Unsent'
<1> USE DEF IInv, TypeOK
<1>1. UNCHANGED <<asked, fromAgent, pc, callNo, callId, nextId, pending>>
  BY DEF WriteAnswer, InputCloses, callerVars, agentVars
<1>2. \A id \in Nat, k \in Call : Sent(id, k)' => Sent(id, k)
  <2>1. CASE toAgent' = toAgent
    BY <1>1, <2>1, SentSame
  <2>2. CASE toAgent' = Append(toAgent, Answer)
    <3>1. /\ DOMAIN toAgent' = DOMAIN toAgent \cup {Len(toAgent) + 1}
          /\ \A i \in DOMAIN toAgent : toAgent'[i] = toAgent[i]
          /\ toAgent'[Len(toAgent) + 1] = Answer
      BY <2>2, Appended
    <3>2. \A id \in Nat, k \in Call : Answer # [id |-> id, call |-> k]
      BY CallsAssumption DEF Call
    <3> QED
      BY <1>1, <3>1, <3>2 DEF Sent, AnswerTo
  <2>3. CASE toAgent' = <<>>
    <3>1. DOMAIN toAgent' = {}
      BY <2>3, EmptySeq
    <3> QED
      BY <1>1, <3>1 DEF Sent, AnswerTo
  <2> QED
    BY <2>1, <2>2, <2>3 DEF WriteAnswer, InputCloses
<1>3. \A d \in Callers : Channel(d)' = Channel(d) /\ InCall(d)' = InCall(d)
  BY <1>1 DEF Channel, InCall
<1>4. \A id \in Nat, k \in Call : Known(id, k)' => Known(id, k)
  BY <1>1, <1>2, <1>3 DEF Known
<1>5. NoNewNumber
  BY <1>1, <1>4 DEF NoNewNumber
<1>6. Unsent'
  BY <1>1, <1>2 DEF Unsent
<1> QED
  BY <1>5, <1>6, NumberedKept

\* Steps that touch neither the calls nor the messages.
LEMMA ElseKnown ==
  ASSUME IInv, UNCHANGED <<asked, toAgent, fromAgent, pc, callNo, callId, nextId, pending>>
  PROVE  Numbered' /\ Unsent'
<1>1. \A d \in Callers : Channel(d)' = Channel(d) /\ InCall(d)' = InCall(d)
  BY DEF Channel, InCall
<1>2. \A id, k : Known(id, k)' => Known(id, k)
  BY <1>1, SentSame DEF Known
<1>3. NoNewNumber
  BY <1>2 DEF NoNewNumber
<1>4. Unsent'
  BY SentSame DEF IInv, Unsent
<1> QED
  BY <1>3, <1>4, NumberedKept DEF IInv

LEMMA KnownStep ==
  ASSUME IInv, [Next]_vars
  PROVE  Numbered' /\ Unsent'
<1>1. CASE Shutdown \/ TakeWriter \/ Reap \/ Kill \/ OutputCloses \/ AgentExits
           \/ LockToRefuse \/ LockToAnswer \/ UNCHANGED vars
  <2>1. UNCHANGED <<asked, toAgent, fromAgent, pc, callNo, callId, nextId, pending>>
    BY <1>1 DEF Shutdown, TakeWriter, Reap, Kill, OutputCloses, AgentExits, LockToRefuse,
                LockToAnswer, vars, callerVars, agentVars
  <2> QED
    BY <2>1, ElseKnown
<1> QED
  BY <1>1, CheckClosedKnown, RegisterKnown, QuietCallerKnown, WriteLineKnown, ReaderKnown,
     AgentKnown, AnswersKnown DEF Next, CallerStep, ReaderStep, CloserStep, AgentStep, HeldBy
-----------------------------------------------------------------------------
\* What a step owes that delivers no reply, removes no other call's Sender, and
\* shows nothing.
Undisturbed ==
  /\ \A c \in Callers : mailbox'[c] # NoReply =>
       /\ mailbox'[c] = mailbox[c] /\ Channel(c)' = Channel(c) /\ pc'[c] = pc[c]
  /\ ~closed' => /\ ~closed
                 /\ \A c \in Callers :
                      InCall(c)' /\ mailbox'[c] = NoReply
                        => [id |-> callId[c], call |-> Channel(c)]' \in pending'
  /\ ~StillReads' => ~StillReads \/ closed'
  /\ closed => closed'
  /\ shown' = shown

LEMMA RepliesKept ==
  ASSUME IInv, Undisturbed
  PROVE  Waited' /\ OwnReply' /\ Connected' /\ ClosedOnce' /\ HistoryFirst'
<1> USE DEF IInv, Undisturbed
<1>1. Waited' /\ OwnReply' /\ HistoryFirst'
  BY DEF Waited, OwnReply, HistoryFirst
<1>2. Connected' /\ ClosedOnce'
  BY DEF Connected, ClosedOnce, StillReads
<1> QED
  BY <1>1, <1>2

\* The Sender a refused or failed write takes out is the caller's own.
LEMMA OwnSender ==
  ASSUME IInv, NEW c \in Callers, NEW d \in Callers, InCall(c), InCall(d), c # d
  PROVE  callId[c] # callId[d]
<1>1. /\ Channel(c) \in Call /\ Channel(d) \in Call /\ Channel(c) # Channel(d)
      /\ callId[c] \in Nat /\ callId[d] \in Nat
  BY DEF IInv, TypeOK, Channel, Call
<1>2. Known(callId[c], Channel(c)) /\ Known(callId[d], Channel(d))
  BY DEF Known
<1> QED
  BY <1>1, <1>2 DEF IInv, Numbered

LEMMA CallerReplies ==
  ASSUME IInv, NEW c \in Callers,
         CheckClosed(c) \/ CallerStep(c) \/ EncodeFails(c) \/ GiveUp(c)
  PROVE  Undisturbed
<1> USE DEF IInv, TypeOK
<1>1. UNCHANGED <<closed, reader, shown>>
  BY DEF CheckClosed, CallerStep, Register, LockWriter, WriteLine, WriteFails, Wait,
         EncodeFails, GiveUp
<1>2. \A d \in Callers : d # c => /\ mailbox'[d] = mailbox[d] /\ pc'[d] = pc[d]
                                  /\ callNo'[d] = callNo[d] /\ callId'[d] = callId[d]
  BY DEF CheckClosed, CallerStep, Register, LockWriter, WriteLine, WriteFails, Wait,
         EncodeFails, GiveUp
<1>3. \A d \in Callers : d # c => /\ Channel(d)' = Channel(d)
                                  /\ InCall(d)' = InCall(d)
                                  /\ [id |-> callId[d], call |-> Channel(d)]'
                                       = [id |-> callId[d], call |-> Channel(d)]
  BY <1>2 DEF Channel, InCall
<1>4. mailbox'[c] = NoReply
  BY DEF Waited, CheckClosed, CallerStep, Register, LockWriter, WriteLine, WriteFails,
         Wait, EncodeFails, GiveUp
<1>5. \A e \in pending : (\E d \in Callers : d # c /\ InCall(d) /\ e.id = callId[d]
                                             /\ e.call = Channel(d)) => e \in pending'
  <2> SUFFICES ASSUME NEW e \in pending, NEW d \in Callers, d # c, InCall(d),
                      e.id = callId[d]
               PROVE  e \in pending'
    OBVIOUS
  <2>1. CASE Register(c)
    <3>1. callId[d] < nextId
      <4>1. Channel(d) \in Call
        BY DEF Channel, Call
      <4>2. Known(callId[d], Channel(d)) /\ callId[d] \in Nat
        BY DEF Known
      <4> QED
        BY <4>1, <4>2 DEF Numbered
    <3> QED
      BY <2>1, <3>1 DEF Register, Without
  <2>2. CASE LockWriter(c) \/ WriteFails(c)
    <3>1. InCall(c)
      BY <2>2 DEF LockWriter, WriteFails, InCall
    <3>2. callId[c] # callId[d]
      BY <3>1, OwnSender
    <3> QED
      BY <2>2, <3>2 DEF LockWriter, WriteFails, Without
  <2>3. CASE pending' = pending
    BY <2>3
  <2> QED
    BY <2>1, <2>2, <2>3 DEF CheckClosed, CallerStep, WriteLine, Wait, EncodeFails, GiveUp
<1>6. ~closed /\ InCall(c)' => [id |-> callId[c], call |-> Channel(c)]' \in pending'
  <2>1. CASE Register(c)
    BY <2>1 DEF Register, Channel
  <2>2. CASE LockWriter(c)
    BY <2>2 DEF LockWriter, InCall, Connected, Waited, Channel
  <2>3. CASE WriteLine(c)
    BY <2>3 DEF WriteLine, InCall, Connected, Waited, Channel
  <2>4. CASE CheckClosed(c) \/ WriteFails(c) \/ Wait(c) \/ EncodeFails(c) \/ GiveUp(c)
    BY <2>4 DEF CheckClosed, WriteFails, Wait, EncodeFails, GiveUp, InCall
  <2> QED
    BY <2>1, <2>2, <2>3, <2>4 DEF CallerStep
<1>7. ASSUME NEW d \in Callers, mailbox'[d] # NoReply
      PROVE  mailbox'[d] = mailbox[d] /\ Channel(d)' = Channel(d) /\ pc'[d] = pc[d]
  BY <1>2, <1>3, <1>4, <1>7
<1>8. ASSUME ~closed, NEW d \in Callers, InCall(d)', mailbox'[d] = NoReply
      PROVE  [id |-> callId[d], call |-> Channel(d)]' \in pending'
  <2>1. CASE d = c
    BY <1>6, <1>8, <2>1
  <2>2. CASE d # c
    <3>1. [id |-> callId[d], call |-> Channel(d)] \in pending
      BY <1>2, <1>3, <1>8, <2>2 DEF Connected
    <3> QED
      BY <1>3, <1>5, <1>8, <2>2, <3>1
  <2> QED
    BY <2>1, <2>2
<1> QED
  BY <1>1, <1>7, <1>8 DEF Undisturbed, StillReads
-----------------------------------------------------------------------------
\* The answer at the front comes after every update shown before it: one not shown
\* would be in the agent's output still, ahead of it.
LEMMA HeadAnswered ==
  ASSUME IInv, fromAgent # <<>>, Head(fromAgent).kind = "response"
  PROVE  StillReads => Head(fromAgent).after <= shown
<1> USE DEF IInv
<1> DEFINE a == Head(fromAgent).after
<1>1. /\ 1 \in DOMAIN fromAgent /\ fromAgent[1] = Head(fromAgent)
      /\ \A i \in DOMAIN fromAgent : i \in Nat /\ (i = 1 \/ i - 1 \in DOMAIN Tail(fromAgent))
      /\ \A i \in DOMAIN Tail(fromAgent) : i \in Nat /\ i # 0
  BY TakenOff DEF TypeOK
<1>2. a \in Nat /\ shown \in Nat /\ updates \in Nat
  BY HeadTyped DEF TypeOK
<1>3. a <= updates
  BY <1>1 DEF History, IsAnswer
<1>4. ASSUME StillReads, shown < a PROVE FALSE
  <2>1. PICK i \in DOMAIN fromAgent : IsUpdate(i) /\ fromAgent[i].n = a
    BY <1>2, <1>3, <1>4 DEF History
  <2>2. i # 1
    BY <1>1, <2>1 DEF IsUpdate
  <2>3. 1 < i
    BY <1>1, <2>2
  <2>4. fromAgent[1].after < fromAgent[i].n
    BY <1>1, <2>1, <2>3 DEF History, IsAnswer
  <2> QED
    BY <1>1, <1>2, <2>1, <2>4
<1> QED
  BY <1>2, <1>4

\* The reply goes to the call it answers: the Sender under its number is that call's,
\* and it waits, having been written.
LEMMA RouteResponseReplies ==
  ASSUME IInv, RouteResponse
  PROVE  Waited' /\ OwnReply' /\ Connected' /\ ClosedOnce' /\ HistoryFirst'
<1> USE DEF IInv
<1> DEFINE m == Head(fromAgent)
<1>1. /\ fromAgent # <<>> /\ m.kind = "response" /\ reader = "reading"
      /\ UNCHANGED <<pc, callNo, callId, closed, reader, shown>>
  BY DEF RouteResponse, callerVars
<1>2. m.id \in Nat /\ m.call \in Call /\ m.after \in Nat
  BY <1>1, HeadTyped
<1>3. Sent(m.id, m.call)
  <2>1. 1 \in DOMAIN fromAgent /\ fromAgent[1] = m
    BY <1>1, TakenOff DEF TypeOK
  <2> QED
    BY <1>1, <2>1 DEF Sent, AnswerTo
<1>4. m.after <= shown
  BY <1>1, HeadAnswered DEF StillReads
<1>5. \A c \in Callers : Channel(c)' = Channel(c) /\ InCall(c)' = InCall(c)
  BY <1>1 DEF Channel, InCall
<1>6. CASE UNCHANGED <<pending, mailbox>>
  BY <1>1, <1>5, <1>6 DEF Waited, OwnReply, Connected, ClosedOnce, HistoryFirst,
     StillReads
<1>7. ASSUME NEW e \in pending, e.id = m.id, Deliver(e, m), pending' = Without(e.id)
      PROVE  Waited' /\ OwnReply' /\ Connected' /\ ClosedOnce' /\ HistoryFirst'
  <2> DEFINE to == e.call[1]
  <2>1. e = [id |-> e.id, call |-> e.call] /\ e.call \in Call /\ to \in Callers /\ e.id \in Nat
    BY DEF TypeOK, Request, Call
  <2>2. e.call = m.call
    <3>1. Known(e.id, e.call)
      BY <2>1 DEF Known
    <3>2. Known(m.id, m.call)
      BY <1>3 DEF Known
    <3> HIDE DEF m
    <3> QED
      BY <1>2, <1>7, <2>1, <3>1, <3>2 DEF Numbered
  <2>3. CASE InCall(to) /\ Channel(to) = e.call
    <3>1. mailbox' = [mailbox EXCEPT ![to] = [call |-> m.call, after |-> m.after]]
      BY <1>7, <2>3 DEF Deliver
    <3>2. /\ \A d \in Callers : d # to => mailbox'[d] = mailbox[d]
          /\ mailbox'[to] = [call |-> m.call, after |-> m.after]
      BY <2>1, <3>1 DEF TypeOK
    <3>3. mailbox'[to] # NoReply /\ mailbox'[to].call = m.call /\ mailbox'[to].after = m.after
      BY <1>2, <3>2, CallsAssumption DEF Call
    <3>4. Known(callId[to], e.call) /\ callId[to] \in Nat
      BY <2>1, <2>3 DEF Known, TypeOK
    <3>5. callId[to] = e.id
      BY <1>2, <1>3, <1>7, <2>1, <2>2, <3>4 DEF Known, Numbered
    <3>6. pc[to] = "waiting"
      BY <1>2, <1>3, <1>7, <2>1, <2>2, <2>3, <3>5 DEF Unsent, InCall
    <3>7. Waited' /\ OwnReply'
      BY <1>1, <1>5, <2>2, <2>3, <3>2, <3>3, <3>6 DEF Waited, OwnReply
    <3>8. HistoryFirst'
      BY <1>1, <1>4, <3>2, <3>3 DEF HistoryFirst
    <3>9. Connected'
      <4> SUFFICES ASSUME ~closed, NEW c \in Callers, InCall(c), mailbox'[c] = NoReply
                   PROVE  [id |-> callId[c], call |-> Channel(c)] \in pending'
        BY <1>1, <1>5 DEF Connected
      <4>1. c # to /\ mailbox[c] = NoReply
        BY <3>2, <3>3
      <4>2. [id |-> callId[c], call |-> Channel(c)] \in pending
        BY <4>1 DEF Connected
      <4>3. callId[c] # e.id
        BY <2>1, <2>3, <3>5, <4>1, OwnSender
      <4> QED
        BY <1>7, <4>2, <4>3 DEF Without
    <3> QED
      BY <1>1, <3>7, <3>8, <3>9 DEF ClosedOnce, StillReads
  <2>4. CASE ~(InCall(to) /\ Channel(to) = e.call)
    <3>1. mailbox' = mailbox
      BY <1>7, <2>4 DEF Deliver
    <3>2. Connected'
      <4> SUFFICES ASSUME ~closed, NEW c \in Callers, InCall(c), mailbox[c] = NoReply
                   PROVE  [id |-> callId[c], call |-> Channel(c)] \in pending'
        BY <1>1, <1>5, <3>1 DEF Connected
      <4>1. [id |-> callId[c], call |-> Channel(c)] \in pending
        BY DEF Connected
      <4>2. Channel(c) \in Call /\ Channel(c)[1] = c /\ callId[c] \in Nat
        BY DEF TypeOK, Channel, Call
      <4>3. Channel(c) # e.call
        BY <2>4, <4>2
      <4>4. callId[c] # e.id
        <5>1. Known(callId[c], Channel(c)) /\ Known(e.id, e.call)
          BY <2>1 DEF Known
        <5> QED
          BY <2>1, <4>2, <4>3, <5>1 DEF Numbered
      <4> QED
        BY <1>7, <4>1, <4>4 DEF Without
    <3> QED
      BY <1>1, <1>5, <3>1, <3>2 DEF Waited, OwnReply, ClosedOnce, HistoryFirst,
         StillReads
  <2> QED
    BY <2>3, <2>4
<1> QED
  BY <1>6, <1>7 DEF RouteResponse

\* The rest leave every call where it is; showing an update only shows more.
LEMMA ElseReplies ==
  ASSUME IInv, RouteUpdate \/ RouteRequest \/ LockToRefuse \/ LockToAnswer
               \/ WriteAnswer \/ ReadEnd \/ ReadFails \/ ClearPending \/ Shutdown
               \/ CloserStep \/ AgentStep \/ UNCHANGED vars
  PROVE  Waited' /\ OwnReply' /\ Connected' /\ ClosedOnce' /\ HistoryFirst'
<1> USE DEF IInv
<1>1. UNCHANGED <<pc, callNo, callId, mailbox>>
  BY DEF RouteUpdate, RouteRequest, LockToRefuse, LockToAnswer, WriteAnswer, ReadEnd, ReadFails, ClearPending, Shutdown, CloserStep, TakeWriter,
         Reap, Kill, AgentStep, AgentReads, AgentAnswers, AgentUpdates,
         AgentAsks, OutputCloses, InputCloses, AgentExits, vars, callerVars
<1>2. \A c \in Callers : Channel(c)' = Channel(c) /\ InCall(c)' = InCall(c)
  BY <1>1 DEF Channel, InCall
<1>3. Waited' /\ OwnReply'
  BY <1>1, <1>2 DEF Waited, OwnReply
<1>4. (closed' = closed /\ StillReads' = StillReads /\ pending' = pending) \/ closed'
  BY DEF RouteUpdate, RouteRequest, LockToRefuse, LockToAnswer, WriteAnswer, ReadEnd, ReadFails, ClearPending, Shutdown, CloserStep, TakeWriter,
         Reap, Kill, AgentStep, AgentReads, AgentAnswers, AgentUpdates,
         AgentAsks, OutputCloses, InputCloses, AgentExits, vars, ClosedOnce, StillReads
<1>5. Connected' /\ ClosedOnce'
  BY <1>1, <1>2, <1>4 DEF Connected, ClosedOnce
<1>6. shown' \in Nat /\ shown <= shown'
  <2>1. CASE RouteUpdate
    <3>1. Head(fromAgent).n \in Nat /\ 1 \in DOMAIN fromAgent /\ fromAgent[1] = Head(fromAgent)
      BY <2>1, HeadTyped, TakenOff DEF RouteUpdate, TypeOK
    <3>2. shown < Head(fromAgent).n
      BY <2>1, <3>1 DEF RouteUpdate, History, IsUpdate
    <3> QED
      BY <2>1, <3>1, <3>2 DEF RouteUpdate, TypeOK
  <2>2. CASE shown' = shown
    BY <2>2 DEF TypeOK
  <2> QED
    BY <2>1, <2>2 DEF RouteRequest, LockToRefuse, LockToAnswer, WriteAnswer, ReadEnd, ReadFails, ClearPending, Shutdown, CloserStep, TakeWriter,
         Reap, Kill, AgentStep, AgentReads, AgentAnswers, AgentUpdates,
         AgentAsks, OutputCloses, InputCloses, AgentExits, vars
<1>7. HistoryFirst'
  <2> SUFFICES ASSUME NEW c \in Callers, mailbox[c] # NoReply
               PROVE  mailbox[c].after <= shown'
    BY <1>1 DEF HistoryFirst
  <2>1. mailbox[c].after \in Nat /\ mailbox[c].after <= shown /\ shown \in Nat
    BY DEF TypeOK, Reply, HistoryFirst
  <2> QED
    BY <1>6, <2>1
<1> QED
  BY <1>3, <1>5, <1>7
-----------------------------------------------------------------------------
LEMMA HistoryRead ==
  ASSUME IInv, StillReads, fromAgent # <<>>, fromAgent' = Tail(fromAgent), updates' = updates,
         IF Head(fromAgent).kind = "update"
           THEN shown' = Head(fromAgent).n
           ELSE shown' = shown
  PROVE  History'
<1> USE DEF IInv, History, IsUpdate, IsAnswer
<1>1. /\ 1 \in DOMAIN fromAgent /\ fromAgent[1] = Head(fromAgent)
      /\ Head(fromAgent) \in Message
      /\ \A i \in DOMAIN fromAgent' :
           i \in Nat /\ i # 0 /\ i + 1 \in DOMAIN fromAgent /\ fromAgent'[i] = fromAgent[i + 1]
      /\ \A i \in DOMAIN fromAgent :
           i \in Nat /\ (i = 1 \/ (i - 1 \in DOMAIN fromAgent' /\ fromAgent'[i - 1] = fromAgent[i]))
  BY TakenOff DEF TypeOK
<1>2. Head(fromAgent).kind \in {"update", "response", "request"}
  BY <1>1 DEF Message
<1>3. shown' \in Nat /\ shown \in Nat /\ updates \in Nat /\ shown <= shown'
  <2>1. CASE Head(fromAgent).kind = "update"
    <3>1. shown < Head(fromAgent).n /\ Head(fromAgent).n \in Nat
      BY <1>1, <2>1, HeadTyped
    <3> QED
      BY <2>1, <3>1 DEF TypeOK
  <2>2. CASE Head(fromAgent).kind # "update"
    BY <2>2 DEF TypeOK
  <2> QED
    BY <2>1, <2>2
<1>4. ASSUME NEW i \in DOMAIN fromAgent'
      PROVE  /\ IsUpdate(i)' => shown' < fromAgent'[i].n /\ fromAgent'[i].n <= updates'
             /\ IsAnswer(i)' => fromAgent'[i].after <= updates'
  <2>1. /\ i + 1 \in DOMAIN fromAgent /\ fromAgent'[i] = fromAgent[i + 1]
        /\ 1 < i + 1
    BY <1>1
  <2>2. IsAnswer(i)' => fromAgent'[i].after <= updates'
    BY <2>1
  <2>3. ASSUME IsUpdate(i)' PROVE shown' < fromAgent'[i].n /\ fromAgent'[i].n <= updates'
    <3>1. shown < fromAgent[i + 1].n /\ fromAgent[i + 1].n <= updates
      BY <2>1, <2>3
    <3>2. CASE Head(fromAgent).kind = "update"
      <4>1. fromAgent[1].n < fromAgent[i + 1].n
        BY <1>1, <2>1, <2>3, <3>2
      <4> QED
        BY <1>1, <2>1, <3>1, <3>2, <4>1
    <3>3. CASE Head(fromAgent).kind # "update"
      BY <2>1, <3>1, <3>3
    <3> QED
      BY <3>2, <3>3
  <2> QED
    BY <2>2, <2>3
<1>5. ASSUME NEW i \in DOMAIN fromAgent', NEW j \in DOMAIN fromAgent', i < j, IsUpdate(j)'
      PROVE  /\ IsUpdate(i)' => fromAgent'[i].n < fromAgent'[j].n
             /\ IsAnswer(i)' => fromAgent'[i].after < fromAgent'[j].n
  <2>1. /\ i + 1 \in DOMAIN fromAgent /\ fromAgent'[i] = fromAgent[i + 1]
        /\ j + 1 \in DOMAIN fromAgent /\ fromAgent'[j] = fromAgent[j + 1]
        /\ i + 1 < j + 1
    BY <1>1, <1>5
  <2> QED
    BY <1>5, <2>1
<1>6. ASSUME NEW n \in Nat, shown' < n, n <= updates'
      PROVE  \E i \in DOMAIN fromAgent' : IsUpdate(i)' /\ fromAgent'[i].n = n
  <2>1. shown < n /\ n <= updates
    BY <1>3, <1>6
  <2>2. PICK j \in DOMAIN fromAgent : IsUpdate(j) /\ fromAgent[j].n = n
    BY <2>1
  <2>3. j # 1
    BY <1>1, <1>3, <1>6, <2>2
  <2>4. j - 1 \in DOMAIN fromAgent' /\ fromAgent'[j - 1] = fromAgent[j]
    BY <1>1, <2>3
  <2> QED
    BY <2>2, <2>4
<1>7. shown' <= updates'
  <2>1. Head(fromAgent).kind = "update" => Head(fromAgent).n <= updates
    BY <1>1
  <2> QED
    BY <1>3, <2>1
<1> QED
  BY <1>4, <1>5, <1>6, <1>7 DEF History

\* A message at the end: an update is the next one, an answer comes after all of them.
LEMMA HistoryWritten ==
  ASSUME IInv, StillReads, NEW m \in Message, fromAgent' = Append(fromAgent, m), shown' = shown,
         \/ m.kind = "update" /\ updates' = updates + 1 /\ m.n = updates'
         \/ m.kind = "response" /\ updates' = updates /\ m.after = updates
         \/ m.kind = "request" /\ updates' = updates
  PROVE  History'
<1> USE DEF IInv, History, IsUpdate, IsAnswer
<1> DEFINE z == Len(fromAgent) + 1
<1>1. /\ DOMAIN fromAgent' = DOMAIN fromAgent \cup {z}
      /\ \A i \in DOMAIN fromAgent : i \in Nat /\ i < z /\ fromAgent'[i] = fromAgent[i]
      /\ fromAgent'[z] = m
      /\ z \in Nat
  BY Appended DEF TypeOK
<1>2. updates \in Nat /\ updates' \in Nat /\ shown \in Nat /\ updates <= updates'
  BY DEF TypeOK
<1>3. \A i \in DOMAIN fromAgent : /\ IsUpdate(i) => fromAgent[i].n \in Nat
                                  /\ IsAnswer(i) => fromAgent[i].after \in Nat
  <2> TAKE i \in DOMAIN fromAgent
  <2>1. fromAgent[i] \in Message
    BY ElementOfSeq, LenProperties DEF TypeOK
  <2> QED
    BY <2>1 DEF Message
<1>4. shown <= updates
  OBVIOUS
<1> HIDE DEF z
<1>5. ASSUME NEW i \in DOMAIN fromAgent'
      PROVE  /\ IsUpdate(i)' => shown' < fromAgent'[i].n /\ fromAgent'[i].n <= updates'
             /\ IsAnswer(i)' => fromAgent'[i].after <= updates'
  <2>1. CASE i = z
    BY <1>1, <1>2, <1>4, <2>1
  <2>2. CASE i # z
    <3>1. i \in DOMAIN fromAgent /\ fromAgent'[i] = fromAgent[i]
      BY <1>1, <2>2
    <3>2. /\ IsUpdate(i) => shown < fromAgent[i].n /\ fromAgent[i].n <= updates
          /\ IsAnswer(i) => fromAgent[i].after <= updates
      BY <3>1
    <3> QED
      BY <1>2, <1>3, <3>1, <3>2
  <2> QED
    BY <2>1, <2>2
<1>6. ASSUME NEW i \in DOMAIN fromAgent', NEW j \in DOMAIN fromAgent', i < j, IsUpdate(j)'
      PROVE  /\ IsUpdate(i)' => fromAgent'[i].n < fromAgent'[j].n
             /\ IsAnswer(i)' => fromAgent'[i].after < fromAgent'[j].n
  <2>1. i \in DOMAIN fromAgent /\ fromAgent'[i] = fromAgent[i]
    BY <1>1, <1>6
  <2>2. /\ IsUpdate(i) => fromAgent[i].n <= updates
        /\ IsAnswer(i) => fromAgent[i].after <= updates
    BY <2>1
  <2>3. CASE j = z
    <3>1. fromAgent'[j].n = updates + 1
      BY <1>1, <1>6, <2>3
    <3> QED
      BY <1>2, <1>3, <2>1, <2>2, <3>1
  <2>4. CASE j # z
    BY <1>1, <1>6, <2>1, <2>4
  <2> QED
    BY <2>3, <2>4
<1>7. ASSUME NEW n \in Nat, shown' < n, n <= updates'
      PROVE  \E i \in DOMAIN fromAgent' : IsUpdate(i)' /\ fromAgent'[i].n = n
  <2>1. CASE n <= updates
    <3>1. PICK j \in DOMAIN fromAgent : IsUpdate(j) /\ fromAgent[j].n = n
      BY <1>7, <2>1
    <3> QED
      BY <1>1, <3>1
  <2>2. CASE ~(n <= updates)
    <3>1. m.kind = "update" /\ m.n = n
      BY <1>2, <1>7, <2>2
    <3> QED
      BY <1>1, <3>1
  <2> QED
    BY <2>1, <2>2
<1>8. shown' <= updates'
  BY <1>2, <1>4
<1> QED
  BY <1>5, <1>6, <1>7, <1>8 DEF History

LEMMA HistoryStep ==
  ASSUME IInv, [Next]_vars
  PROVE  History'
<1>1. CASE RouteResponse \/ RouteUpdate \/ RouteRequest
  BY <1>1, HistoryRead DEF RouteResponse, RouteUpdate, RouteRequest, StillReads, agentVars
<1>2. ASSUME NEW q \in asked, AgentAnswers(q) PROVE History'
  <2> DEFINE m == [kind |-> "response", id |-> q.id, call |-> q.call, after |-> updates]
  <2>1. m \in Message /\ m.kind = "response" /\ m.after = updates
    BY DEF Message, IInv, TypeOK, Request
  <2>2. /\ fromAgent' = Append(fromAgent, m) /\ updates' = updates /\ shown' = shown
        /\ StillReads
    BY <1>2 DEF AgentAnswers, CanSay
  <2> HIDE DEF m
  <2> QED
    BY <2>1, <2>2, HistoryWritten
<1>3. CASE AgentUpdates
  <2> DEFINE m == [kind |-> "update", n |-> updates + 1]
  <2>1. m \in Message /\ m.kind = "update" /\ m.n = updates + 1
    BY DEF Message, IInv, TypeOK
  <2>2. /\ fromAgent' = Append(fromAgent, m) /\ updates' = updates + 1 /\ shown' = shown
        /\ StillReads
    BY <1>3 DEF AgentUpdates, CanSay
  <2> HIDE DEF m
  <2> QED
    BY <2>1, <2>2, HistoryWritten
<1>4. CASE AgentAsks
  <2> DEFINE m == [kind |-> "request"]
  <2>1. m \in Message /\ m.kind = "request"
    BY DEF Message
  <2>2. /\ fromAgent' = Append(fromAgent, m) /\ updates' = updates /\ shown' = shown
        /\ StillReads
    BY <1>4 DEF AgentAsks, CanSay
  <2> HIDE DEF m
  <2> QED
    BY <2>1, <2>2, HistoryWritten
<1>5. CASE ReadFails
  <2>1. /\ fromAgent' = <<>> /\ UNCHANGED <<shown, updates>>
        /\ ~StillReads'
    BY <1>5 DEF ReadFails, StillReads, agentVars
  <2>2. DOMAIN fromAgent' = {}
    BY <2>1, EmptySeq
  <2> QED
    BY <2>1, <2>2 DEF IInv, History
<1>6. CASE UNCHANGED <<fromAgent, updates, shown>> /\ (StillReads' => StillReads)
  BY <1>6 DEF IInv, History, IsUpdate, IsAnswer
<1>7. ASSUME NEW c \in Callers, CheckClosed(c) \/ CallerStep(c) \/ EncodeFails(c) \/ GiveUp(c)
      PROVE  UNCHANGED <<fromAgent, updates, shown>> /\ (StillReads' => StillReads)
  BY <1>7 DEF CheckClosed, CallerStep, Register, LockWriter, WriteLine, WriteFails, Wait,
              EncodeFails, GiveUp, agentVars, StillReads
<1>8. ASSUME LockToRefuse \/ LockToAnswer \/ WriteAnswer
             \/ ReadEnd \/ ClearPending
             \/ Shutdown \/ CloserStep
             \/ AgentReads \/ OutputCloses \/ InputCloses \/ AgentExits \/ UNCHANGED vars
      PROVE  UNCHANGED <<fromAgent, updates, shown>> /\ (StillReads' => StillReads)
  <2>1. CASE LockToRefuse \/ LockToAnswer \/ WriteAnswer
    BY <2>1 DEF LockToRefuse, LockToAnswer, WriteAnswer, agentVars, StillReads, IInv, Handles
  <2>2. CASE ReadEnd \/ ClearPending
    BY <2>2 DEF ReadEnd, ClearPending, agentVars, StillReads
  <2>3. CASE Shutdown \/ CloserStep
    BY <2>3 DEF Shutdown, CloserStep, TakeWriter, Reap, Kill, agentVars, StillReads
  <2>4. CASE AgentReads \/ OutputCloses \/ InputCloses \/ AgentExits \/ UNCHANGED vars
    BY <2>4 DEF AgentReads, OutputCloses, InputCloses, AgentExits, vars, StillReads
  <2> QED
    BY <1>8, <2>1, <2>2, <2>3, <2>4
<1> QED
  BY <1>1, <1>2, <1>3, <1>4, <1>5, <1>6, <1>7, <1>8 DEF Next, ReaderStep, AgentStep, HeldBy
-----------------------------------------------------------------------------
LEMMA RepliesStep ==
  ASSUME IInv, [Next]_vars
  PROVE  Waited' /\ OwnReply' /\ Connected' /\ ClosedOnce' /\ HistoryFirst'
<1>1. ASSUME NEW c \in Callers, CheckClosed(c) \/ CallerStep(c) \/ EncodeFails(c) \/ GiveUp(c)
      PROVE  Undisturbed
  BY <1>1, CallerReplies
<1> QED
  BY <1>1, RepliesKept, RouteResponseReplies, ElseReplies DEF Next, ReaderStep, HeldBy

\* In every reachable state numbers name calls, a call that waits can still be
\* answered until the connection closes, and no update is out of order.
THEOREM Inductive == Spec => []IInv
<1>1. IInv /\ [Next]_vars => IInv'
  <2> SUFFICES ASSUME IInv, [Next]_vars PROVE IInv'
    OBVIOUS
  <2>1. TypeOK'
    BY StepType DEF IInv
  <2> QED
    BY <2>1, KnownStep, RepliesStep, HandlesStep, HistoryStep DEF IInv
<1> QED
  BY InitInv, <1>1, PTL DEF Spec

\* The types of the connection's state, which the other proofs rest on.
THEOREM TypeCorrect == Spec => []TypeOK
BY Inductive, PTL DEF IInv

\* No reply reaches another thread's call, or a later call of the same thread.
THEOREM RepliesAreOwn == Spec => []OwnReply
BY Inductive, PTL DEF IInv

\* The history a session loads with has been shown when its answer can be read.
THEOREM HistoryIsFirst == Spec => []HistoryFirst
BY Inductive, PTL DEF IInv

\* A waiting call's Sender leaves the map only with its reply, or when the
\* connection closes.
THEOREM ClosedMeansClosed == Spec => []ClosedIsTrue
<1>1. IInv => ClosedIsTrue
  <2> SUFFICES ASSUME IInv, NEW c \in Callers, pc[c] = "waiting", mailbox[c] = NoReply,
                      Disconnected(c), ~closed
               PROVE  FALSE
    BY DEF ClosedIsTrue
  <2>1. [id |-> callId[c], call |-> Channel(c)] \in pending
    BY DEF IInv, Connected, InCall
  <2> QED
    BY <2>1 DEF Disconnected
<1> QED
  BY <1>1, Inductive, PTL
=============================================================================
