------------------------------ MODULE AcpCalls ------------------------------
(***************************************************************************)
(* The client end of an ACP connection (crates/rich-acp/src/connection.rs),*)
(* seen from the calls it makes: `Connection::request` numbers a request,  *)
(* leaves a Sender for its reply in the `pending` map, writes one line to  *)
(* the agent under the writer lock, and `Pending::wait` blocks until the   *)
(* reader thread has sent the reply or dropped the Sender.                 *)
(*                                                                         *)
(* Threads: any number of callers, the reader thread (`read_loop`), the    *)
(* threads that handle what the agent asks, and one thread in `shutdown`.  *)
(* All but the last write under the writer's lock.  The agent is the       *)
(* environment: it reads lines, answers in any order, answers twice, asks  *)
(* something itself, exits.  The other ends of its pipes close on their    *)
(* own: a process it started may hold them after it has exited.            *)
(***************************************************************************)
EXTENDS Naturals, Sequences

CONSTANTS
  Callers,   \* threads that share the connection
  Spawned,   \* the agent is a child process (spawn), not a pair of streams
  PipeCap,   \* lines the agent's input holds before a write blocks
  MaxCalls,  \* bound: requests numbered
  MaxSaid,   \* bound: messages the agent writes
  Reader, Handler,  \* the threads but the callers that hold the writer lock
  Nobody,    \* no holder of the writer lock
  NoReply,   \* an empty reply channel
  Answer     \* a line that answers a request of the agent's

ASSUME CallsAssumption ==
  /\ Spawned \in BOOLEAN
  /\ PipeCap \in Nat \ {0}
  /\ MaxCalls \in Nat
  /\ MaxSaid \in Nat
  /\ Reader # Handler /\ Nobody \notin {Reader, Handler}
  /\ {Reader, Handler, Nobody} \cap Callers = {}
  /\ NoReply \notin [call: Callers \X Nat, after: Nat]
  /\ Answer \notin [id: Nat, call: Callers \X Nat]

VARIABLES
  pc,        \* where each caller is in request / wait
  callNo,    \* calls each caller has made: names the channel of the current one
  callId,    \* the JSON-RPC id of each caller's current call
  mailbox,   \* the reply in the channel of each caller's current call
  nextId,    \* Shared.next_id
  pending,   \* Shared.pending: id -> the Sender of a call's channel
  closed,    \* Shared.closed
  reader,    \* where the reader thread is
  writer,    \* Shared.writer: Some ("open") or None ("taken")
  holder,    \* the thread inside Shared::write
  handling,  \* requests of the agent in the hands of a thread of their own
  toAgent,   \* lines in the agent's input
  asked,     \* requests the agent has read
  fromAgent, \* messages in the agent's output
  inClosed,  \* no process has the agent's input open
  said,      \* messages the agent has written
  updates,   \* session/update notifications among them
  shown,     \* updates the client's session_update has returned from
  agent,     \* "running" or "exited"
  outClosed, \* no process has the agent's output open
  sd         \* where the thread in shutdown is

callerVars == <<pc, callNo, callId>>
agentVars  == <<asked, said, updates, agent, inClosed, outClosed>>
vars == <<pc, callNo, callId, mailbox, nextId, pending, closed, reader, writer,
          holder, handling, toAgent, asked, fromAgent, inClosed, said, updates,
          shown, agent, outClosed, sd>>

Call    == Callers \X Nat
Request == [id: Nat, call: Call]
Reply   == [call: Call, after: Nat]
Message == [kind: {"response"}, id: Nat, call: Call, after: Nat]
             \cup [kind: {"update"}, n: Nat]
             \cup [kind: {"request"}]

\* The channel a caller's current call waits on.
Channel(c) == <<c, callNo[c]>>

\* The call holds the receiving end of its channel.
InCall(c) == pc[c] \in {"registered", "writing", "waiting"}

\* No Sender for this caller's channel is left in the map.
Disconnected(c) == \A e \in pending : e.call # Channel(c)

\* The reader is in read_loop's loop.
StillReads == reader \notin {"closing", "done"}

\* HashMap::remove
Without(id) == {e \in pending : e.id # id}
-----------------------------------------------------------------------------
Init ==
  /\ pc = [c \in Callers |-> "idle"]
  /\ callNo = [c \in Callers |-> 0]
  /\ callId = [c \in Callers |-> 0]
  /\ mailbox = [c \in Callers |-> NoReply]
  /\ nextId = 0
  /\ pending = {}
  /\ closed = FALSE
  /\ reader = "reading"
  /\ writer = "open"
  /\ holder = Nobody
  /\ handling = 0
  /\ toAgent = <<>>
  /\ asked = {}
  /\ fromAgent = <<>>
  /\ said = 0
  /\ updates = 0
  /\ shown = 0
  /\ agent = "running"
  /\ inClosed = FALSE
  /\ outClosed = FALSE
  /\ sd = "idle"

(***************************************************************************)
(* Connection::request and Pending.                                        *)
(***************************************************************************)

\* `if self.is_closed() { return Err(Error::Closed) }`: a refused call changes
\* nothing, so only the call that goes on is an action.
CheckClosed(c) ==
  /\ pc[c] = "idle"
  /\ nextId < MaxCalls
  /\ ~closed
  /\ pc' = [pc EXCEPT ![c] = "checked"]
  /\ callNo' = [callNo EXCEPT ![c] = @ + 1]
  /\ UNCHANGED <<callId, mailbox, nextId, pending, closed, reader, writer, holder,
                 handling, toAgent, fromAgent, shown, sd, agentVars>>

\* `next_id.fetch_add(1)`, then `pending.insert(id, sender)`: no other thread
\* sees the number before the entry is in the map.
Register(c) ==
  /\ pc[c] = "checked"
  /\ pc' = [pc EXCEPT ![c] = "registered"]
  /\ callId' = [callId EXCEPT ![c] = nextId]
  /\ nextId' = nextId + 1
  /\ pending' = Without(nextId) \cup {[id |-> nextId, call |-> Channel(c)]}
  /\ UNCHANGED <<callNo, mailbox, closed, reader, writer, holder, handling, toAgent,
                 fromAgent, shown, sd, agentVars>>

\* `serde_json::to_value(params)?` fails: the call ends, its entry stays.
EncodeFails(c) ==
  /\ pc[c] = "registered"
  /\ pc' = [pc EXCEPT ![c] = "idle"]
  /\ UNCHANGED <<callNo, callId, mailbox, nextId, pending, closed, reader, writer,
                 holder, handling, toAgent, fromAgent, shown, sd, agentVars>>

\* Shared::write takes the lock.  A taken writer is Error::Closed, and the
\* refused request takes its entry out again.
LockWriter(c) ==
  /\ pc[c] = "registered"
  /\ holder = Nobody
  /\ IF writer = "open"
       THEN /\ holder' = c
            /\ pc' = [pc EXCEPT ![c] = "writing"]
            /\ UNCHANGED pending
       ELSE /\ pc' = [pc EXCEPT ![c] = "idle"]
            /\ pending' = Without(callId[c])
            /\ UNCHANGED holder
  /\ UNCHANGED <<callNo, callId, mailbox, nextId, closed, reader, writer, handling,
                 toAgent, fromAgent, shown, sd, agentVars>>

\* write_all goes through: the agent's input is open and has room.
CanWrite == ~inClosed /\ Len(toAgent) < PipeCap

\* write_all and flush.
WriteLine(c) ==
  /\ pc[c] = "writing"
  /\ CanWrite
  /\ toAgent' = Append(toAgent, [id |-> callId[c], call |-> Channel(c)])
  /\ holder' = Nobody
  /\ pc' = [pc EXCEPT ![c] = "waiting"]
  /\ UNCHANGED <<callNo, callId, mailbox, nextId, pending, closed, reader, writer,
                 handling, fromAgent, shown, sd, agentVars>>

\* write_all fails: no one has the agent's input open any more.
WriteFails(c) ==
  /\ pc[c] = "writing"
  /\ inClosed
  /\ holder' = Nobody
  /\ pc' = [pc EXCEPT ![c] = "idle"]
  /\ pending' = Without(callId[c])
  /\ UNCHANGED <<callNo, callId, mailbox, nextId, closed, reader, writer, handling,
                 toAgent, fromAgent, shown, sd, agentVars>>

\* `wait`: the reply, or the Sender is gone and the channel empty (Closed).
Wait(c) ==
  /\ pc[c] = "waiting"
  /\ mailbox[c] # NoReply \/ Disconnected(c)
  /\ pc' = [pc EXCEPT ![c] = "idle"]
  /\ mailbox' = [mailbox EXCEPT ![c] = NoReply]
  /\ UNCHANGED <<callNo, callId, nextId, pending, closed, reader, writer, holder,
                 handling, toAgent, fromAgent, shown, sd, agentVars>>

\* `wait_timeout` runs out and the caller drops its Pending; a caller that
\* waits again has changed nothing.
GiveUp(c) ==
  /\ pc[c] = "waiting"
  /\ pc' = [pc EXCEPT ![c] = "idle"]
  /\ mailbox' = [mailbox EXCEPT ![c] = NoReply]
  /\ UNCHANGED <<callNo, callId, nextId, pending, closed, reader, writer, holder,
                 handling, toAgent, fromAgent, shown, sd, agentVars>>
-----------------------------------------------------------------------------
(***************************************************************************)
(* read_loop, route and Shared::close, on the reader thread.               *)
(***************************************************************************)

\* Mutant: the message goes to the caller as it came.
DeliverRaw(e, m) ==
  mailbox' = IF InCall(e.call[1]) /\ Channel(e.call[1]) = e.call
               THEN [mailbox EXCEPT ![e.call[1]] = m]
               ELSE mailbox

\* `pending.remove(&id)`, then `sender.send(reply)`: a call that has dropped its
\* receiver loses the reply.
Deliver(e, m) ==
  mailbox' = IF InCall(e.call[1]) /\ Channel(e.call[1]) = e.call
               THEN [mailbox EXCEPT ![e.call[1]] = [call |-> m.call, after |-> m.after]]
               ELSE mailbox

\* Mutant: a reply is handed to the newest call, not to the one that asked.
RouteResponseToNewest ==
  /\ reader = "reading"
  /\ fromAgent # <<>>
  /\ Head(fromAgent).kind = "response"
  /\ fromAgent' = Tail(fromAgent)
  /\ IF pending # {}
       THEN \E e \in pending : /\ \A f \in pending : f.id <= e.id
                               /\ Deliver(e, Head(fromAgent))
                               /\ pending' = Without(e.id)
       ELSE UNCHANGED <<pending, mailbox>>
  /\ UNCHANGED <<callerVars, nextId, closed, reader, writer, holder, handling,
                 toAgent, shown, sd, agentVars>>

\* A response to an unknown request is reported (protocol_error) and skipped.
RouteResponse ==
  /\ reader = "reading"
  /\ fromAgent # <<>>
  /\ Head(fromAgent).kind = "response"
  /\ fromAgent' = Tail(fromAgent)
  /\ IF \E e \in pending : e.id = Head(fromAgent).id
       THEN \E e \in pending : /\ e.id = Head(fromAgent).id
                               /\ Deliver(e, Head(fromAgent))
                               /\ pending' = Without(e.id)
       ELSE UNCHANGED <<pending, mailbox>>
  /\ UNCHANGED <<callerVars, nextId, closed, reader, writer, holder, handling,
                 toAgent, shown, sd, agentVars>>

\* Mutant: the update is handed to a thread of its own, which may still be
\* running when the next message is read.
RouteUpdateLater ==
  /\ reader = "reading"
  /\ fromAgent # <<>>
  /\ Head(fromAgent).kind = "update"
  /\ fromAgent' = Tail(fromAgent)
  /\ shown' \in {shown, Head(fromAgent).n}
  /\ UNCHANGED <<callerVars, mailbox, nextId, pending, closed, reader, writer,
                 holder, handling, toAgent, sd, agentVars>>

\* incoming_notification: session_update returns before the next line is read.
RouteUpdate ==
  /\ reader = "reading"
  /\ fromAgent # <<>>
  /\ Head(fromAgent).kind = "update"
  /\ fromAgent' = Tail(fromAgent)
  /\ shown' = Head(fromAgent).n
  /\ UNCHANGED <<callerVars, mailbox, nextId, pending, closed, reader, writer,
                 holder, handling, toAgent, sd, agentVars>>

\* incoming_request: the reader refuses what was not offered, or what it cannot start
\* a thread for, itself; the rest is a handler's, which answers when it likes.
RouteRequest ==
  /\ reader = "reading"
  /\ fromAgent # <<>>
  /\ Head(fromAgent).kind = "request"
  /\ fromAgent' = Tail(fromAgent)
  /\ \/ reader' = "refusing" /\ UNCHANGED handling
     \/ handling' = handling + 1 /\ UNCHANGED reader
  /\ UNCHANGED <<callerVars, mailbox, nextId, pending, closed, writer, holder, toAgent,
                 shown, sd, agentVars>>

\* Shared::respond, whose Error::Closed is ignored, on the reader thread,
LockToRefuse ==
  /\ reader = "refusing"
  /\ holder = Nobody
  /\ IF writer = "open"
       THEN holder' = Reader /\ reader' = "writing"
       ELSE holder' = Nobody /\ reader' = "reading"
  /\ UNCHANGED <<callerVars, mailbox, nextId, pending, closed, writer, handling,
                 toAgent, fromAgent, shown, sd, agentVars>>

\* and on a handler's.
LockToAnswer ==
  /\ handling > 0
  /\ holder = Nobody
  /\ IF writer = "open"
       THEN holder' = Handler /\ UNCHANGED handling
       ELSE holder' = Nobody /\ handling' = handling - 1
  /\ UNCHANGED <<callerVars, mailbox, nextId, pending, closed, reader, writer, toAgent,
                 fromAgent, shown, sd, agentVars>>

\* The answer is written once there is room, or fails and is forgotten.
WriteAnswer ==
  /\ holder \in {Reader, Handler}
  /\ \/ CanWrite /\ toAgent' = Append(toAgent, Answer)
     \/ inClosed /\ UNCHANGED toAgent
  /\ holder' = Nobody
  /\ IF holder = Reader
       THEN reader' = "reading" /\ UNCHANGED handling
       ELSE handling' = handling - 1 /\ UNCHANGED reader
  /\ UNCHANGED <<callerVars, mailbox, nextId, pending, closed, writer, fromAgent,
                 shown, sd, agentVars>>

\* Mutant: the Senders go first, the flag is raised after (by ClearPending's step).
ReadEndFlagLate ==
  /\ reader = "reading"
  /\ fromAgent = <<>>
  /\ outClosed
  /\ reader' = "closing"
  /\ pending' = {}
  /\ UNCHANGED <<callerVars, mailbox, nextId, closed, writer, holder, handling,
                 toAgent, fromAgent, shown, sd, agentVars>>

\* read_until returned Ok(0): `closed.store(true)`, the first half of close.
ReadEnd ==
  /\ reader = "reading"
  /\ fromAgent = <<>>
  /\ outClosed
  /\ reader' = "closing"
  /\ closed' = TRUE
  /\ UNCHANGED <<callerVars, mailbox, nextId, pending, writer, holder, handling,
                 toAgent, fromAgent, shown, sd, agentVars>>

\* read_until returned Err: what the agent had written is not read.
ReadFails ==
  /\ reader = "reading"
  /\ reader' = "closing"
  /\ closed' = TRUE
  /\ fromAgent' = <<>>
  /\ UNCHANGED <<callerVars, mailbox, nextId, pending, writer, holder, handling,
                 toAgent, shown, sd, agentVars>>

\* Mutant: close only raises the flag and keeps the Senders.
ClearPendingForgotten ==
  /\ reader = "closing"
  /\ reader' = "done"
  /\ UNCHANGED <<callerVars, mailbox, nextId, pending, closed, writer, holder,
                 handling, toAgent, fromAgent, shown, sd, agentVars>>

\* `lock(&self.pending).clear()`, the second half of close.
ClearPending ==
  /\ reader = "closing"
  /\ reader' = "done"
  /\ pending' = {}
  /\ UNCHANGED <<callerVars, mailbox, nextId, closed, writer, holder, handling,
                 toAgent, fromAgent, shown, sd, agentVars>>
-----------------------------------------------------------------------------
(***************************************************************************)
(* Connection::shutdown.                                                   *)
(***************************************************************************)
Shutdown ==
  /\ sd = "idle"
  /\ sd' = "called"
  /\ UNCHANGED <<callerVars, mailbox, nextId, pending, closed, reader, writer,
                 holder, handling, toAgent, fromAgent, shown, agentVars>>

\* `lock(&self.shared.writer).take()`, then `child.take()`: a connection over
\* streams has no child and returns here.
TakeWriter ==
  /\ sd = "called"
  /\ holder = Nobody
  /\ writer' = "taken"
  /\ sd' = IF Spawned THEN "grace" ELSE "done"
  /\ UNCHANGED <<callerVars, mailbox, nextId, pending, closed, reader, holder,
                 handling, toAgent, fromAgent, shown, agentVars>>

\* try_wait sees the exit within the grace.
Reap ==
  /\ sd = "grace"
  /\ agent = "exited"
  /\ sd' = "done"
  /\ UNCHANGED <<callerVars, mailbox, nextId, pending, closed, reader, writer,
                 holder, handling, toAgent, fromAgent, shown, agentVars>>

\* Mutant: the grace runs out and the agent is left running.
KillSkipped ==
  /\ sd = "grace"
  /\ sd' = "done"
  /\ UNCHANGED <<callerVars, mailbox, nextId, pending, closed, reader, writer,
                 holder, handling, toAgent, fromAgent, shown, agentVars>>

\* The grace runs out: kill, then wait.  Only the child is killed.
Kill ==
  /\ sd = "grace"
  /\ sd' = "done"
  /\ agent' = "exited"
  /\ UNCHANGED <<callerVars, mailbox, nextId, pending, closed, reader, writer,
                 holder, handling, toAgent, asked, fromAgent, inClosed, said,
                 updates, shown, outClosed>>
-----------------------------------------------------------------------------
(***************************************************************************)
(* The agent, and what it started: external, as the connection's use of    *)
(* its two streams and its process sees them.                              *)
(***************************************************************************)
AgentReads ==
  /\ toAgent # <<>>
  /\ asked' = asked \cup ({Head(toAgent)} \ {Answer})
  /\ toAgent' = Tail(toAgent)
  /\ UNCHANGED <<callerVars, mailbox, nextId, pending, closed, reader, writer,
                 holder, handling, fromAgent, inClosed, said, updates, shown, agent,
                 outClosed, sd>>

\* Its output is open, and is still read: what comes later is lost.
CanSay == ~outClosed /\ StillReads /\ said < MaxSaid

\* Any request it has read, in any order, even one it has answered before.
AgentAnswers(q) ==
  /\ CanSay
  /\ fromAgent' = Append(fromAgent, [kind |-> "response", id |-> q.id,
                                     call |-> q.call, after |-> updates])
  /\ said' = said + 1
  /\ UNCHANGED <<callerVars, mailbox, nextId, pending, closed, reader, writer,
                 holder, handling, toAgent, asked, inClosed, updates, shown, agent,
                 outClosed, sd>>

AgentUpdates ==
  /\ CanSay
  /\ fromAgent' = Append(fromAgent, [kind |-> "update", n |-> updates + 1])
  /\ said' = said + 1
  /\ updates' = updates + 1
  /\ UNCHANGED <<callerVars, mailbox, nextId, pending, closed, reader, writer,
                 holder, handling, toAgent, asked, inClosed, shown, agent,
                 outClosed, sd>>

AgentAsks ==
  /\ CanSay
  /\ fromAgent' = Append(fromAgent, [kind |-> "request"])
  /\ said' = said + 1
  /\ UNCHANGED <<callerVars, mailbox, nextId, pending, closed, reader, writer,
                 holder, handling, toAgent, asked, inClosed, updates, shown, agent,
                 outClosed, sd>>

\* It may stop answering and go on reading, or the other way round.
OutputCloses ==
  /\ ~outClosed
  /\ outClosed' = TRUE
  /\ UNCHANGED <<callerVars, mailbox, nextId, pending, closed, reader, writer,
                 holder, handling, toAgent, asked, fromAgent, inClosed, said,
                 updates, shown, agent, sd>>

\* What it has not read is lost.  It shows in a failing write alone, and is taken no
\* earlier: until then the agent just does not read.
InputCloses ==
  /\ ~inClosed
  /\ holder # Nobody
  /\ inClosed' = TRUE
  /\ toAgent' = <<>>
  /\ UNCHANGED <<callerVars, mailbox, nextId, pending, closed, reader, writer,
                 holder, handling, asked, fromAgent, said, updates, shown, agent,
                 outClosed, sd>>

\* An exit shows in try_wait alone (its pipes have steps of their own).
AgentExits ==
  /\ sd = "grace"
  /\ agent = "running"
  /\ agent' = "exited"
  /\ UNCHANGED <<callerVars, mailbox, nextId, pending, closed, reader, writer,
                 holder, handling, toAgent, asked, fromAgent, inClosed, said,
                 updates, shown, outClosed, sd>>
-----------------------------------------------------------------------------
\* What a caller's thread does on its own once it has called.
CallerStep(c) ==
  \/ Register(c)
  \/ LockWriter(c)
  \/ WriteLine(c)
  \/ WriteFails(c)
  \/ Wait(c)

\* `HeldBy(Reader)` and `HeldBy(Handler)` are the two threads' writes.
HeldBy(thread) == WriteAnswer /\ holder = thread

ReaderStep ==
  \/ RouteResponse \/ RouteUpdate \/ RouteRequest
  \/ LockToRefuse \/ HeldBy(Reader)
  \/ ReadEnd \/ ClearPending

CloserStep == TakeWriter \/ Reap \/ Kill

AgentStep ==
  \/ AgentReads
  \/ \E q \in asked : AgentAnswers(q)
  \/ AgentUpdates
  \/ AgentAsks
  \/ OutputCloses
  \/ InputCloses
  \/ AgentExits

Next ==
  \/ \E c \in Callers : CheckClosed(c) \/ CallerStep(c) \/ EncodeFails(c) \/ GiveUp(c)
  \/ ReaderStep
  \/ ReadFails
  \/ LockToAnswer \/ HeldBy(Handler)
  \/ Shutdown
  \/ CloserStep
  \/ AgentStep

Spec == Init /\ [][Next]_vars

\* The operating system runs every thread that can run: one in write_all runs only
\* once there is room.  The agent is under no obligation, a handler may never
\* return, and no one has to call, give up or shut down.
Fairness ==
  /\ \A c \in Callers : WF_vars(CallerStep(c))
  /\ WF_vars(ReaderStep)
  /\ WF_vars(HeldBy(Handler))
  /\ WF_vars(CloserStep)

FairSpec == Spec /\ Fairness
-----------------------------------------------------------------------------
TypeOK ==
  /\ pc \in [Callers -> {"idle", "checked", "registered", "writing",
                         "waiting"}]
  /\ callNo \in [Callers -> Nat]
  /\ callId \in [Callers -> Nat]
  /\ mailbox \in [Callers -> Reply \cup {NoReply}]
  /\ nextId \in Nat
  /\ pending \subseteq Request
  /\ closed \in BOOLEAN
  /\ reader \in {"reading", "refusing", "writing", "closing", "done"}
  /\ writer \in {"open", "taken"}
  /\ holder \in Callers \cup {Reader, Handler, Nobody}
  /\ handling \in Nat
  /\ toAgent \in Seq(Request \cup {Answer})
  /\ asked \subseteq Request
  /\ fromAgent \in Seq(Message)
  /\ said \in Nat
  /\ updates \in Nat
  /\ shown \in Nat
  /\ agent \in {"running", "exited"}
  /\ inClosed \in BOOLEAN
  /\ outClosed \in BOOLEAN
  /\ sd \in {"idle", "called", "grace", "done"}

\* The reply a call reads is the agent's answer to that very call: never to
\* another thread's, nor to an earlier call this thread timed out on and
\* dropped.  (`request` numbers calls, `route` finds the Sender by number.)
OwnReply ==
  \A c \in Callers : mailbox[c] # NoReply => mailbox[c].call = Channel(c)

\* Every session/update the agent wrote before its answer has been shown when
\* the answer can be read: what `load_session` promises of the history.
HistoryFirst ==
  \A c \in Callers : mailbox[c] # NoReply => mailbox[c].after <= shown

\* A call is told Closed only when the connection is closed: while a call waits,
\* its Sender is in the map, or its reply is in its channel, or `closed` is up.
\* No other call's number, late answer or failed write takes its Sender away.
ClosedIsTrue ==
  \A c \in Callers :
    pc[c] = "waiting" /\ mailbox[c] = NoReply /\ Disconnected(c) => closed

\* The agent's input is full, and it does not read.
Full == Len(toAgent) = PipeCap

\* A call waiting when the agent's output ends (closed, or the last process that had
\* it open is gone) returns, with its reply or Closed, as long as the reader has not
\* yet dropped the Senders - unless the agent has left its input full for good: the
\* reader may have to write a refusal before it reads on, and then never comes to
\* the end of the output.
OutputEndWakes ==
  \A c \in Callers :
    (pc[c] = "waiting" /\ outClosed /\ reader # "done") ~> (pc[c] # "waiting" \/ []Full)

\* Once `shutdown` has the writer of a spawned agent it returns, and the agent has
\* ended, whatever the agent does.  (What the agent started, and with it the
\* connection, may last longer.)
ShutdownEndsAgent ==
  (writer = "taken" /\ Spawned) ~> (agent = "exited" /\ sd = "done")

\* `Pending::wait` "Blocks until the agent answers, or the connection closes".
WaitEndsOnClose ==
  \A c \in Callers : (pc[c] = "waiting" /\ closed) ~> (pc[c] # "waiting")

\* `shutdown` "waits up to `grace` for a spawned agent to exit, killing it after".
ShutdownReturns == (sd = "called") ~> (sd = "done")
=============================================================================
