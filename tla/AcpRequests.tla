----------------------------- MODULE AcpRequests -----------------------------
(***************************************************************************)
(* The requests an agent makes of the client                               *)
(* (crates/rich-acp/src/connection.rs: incoming_request, cancel, respond).  *)
(*                                                                         *)
(* The reader thread refuses what was not offered, notes each permission   *)
(* request in `permissions`, and starts a thread for the handler.  A turn  *)
(* can be cancelled from any thread while a handler waits on the user; the *)
(* permission requests of the session are then answered `cancelled`, and   *)
(* the map decides which of the two answers is written.                    *)
(*                                                                         *)
(* The model keeps the agent's side of the bargain too: which request each *)
(* answer, known only by its JSON-RPC id, reaches.                         *)
(***************************************************************************)
EXTENDS FiniteSets

CONSTANTS
  Requests,    \* requests the agent makes, each once
  IdOf,        \* the JSON-RPC id it gives each
  Sessions,
  Cancellers,  \* threads that call `cancel`
  NoAnswer     \* a request the agent still waits on

Kinds == {"permission",  \* session/request_permission
          "gated"}       \* fs/* and terminal/*; an extension is one always offered

AnswerKinds == {"handler", "cancelled", "refused", "internal"}

ASSUME RequestsAssumption ==
  /\ Requests = DOMAIN IdOf /\ Sessions # {}
  /\ NoAnswer \notin [kind: AnswerKinds, by: Requests]

VARIABLES
  kind, session, \* what each request is: fixed once the agent has chosen
  offered,       \* ClientCapabilities: whether the gated methods are offered
  stage,         \* how far each request has come
  permissions,   \* Shared.permissions, by the request that made the entry
  canceller,     \* where each `cancel` is, of which session, what it drained
  output,        \* what a Shared::write meets: "open", "stalled" (it blocks) or "closed"
  got,           \* the answer each request got
  stray          \* handlings whose answer named a request not waiting for one

vars == <<kind, session, offered, stage, permissions, canceller, output, got, stray>>

Idle == [at |-> "idle", session |-> CHOOSE s \in Sessions : TRUE, drained |-> {}]

\* The agent waits for an answer to r.
Outstanding(r) == stage[r] # "unsent" /\ got[r] = NoAnswer

\* HashMap::remove by the id of r.
WithoutIdOf(r) == {p \in permissions : IdOf[p] # IdOf[r]}

HasIdOf(r) == \E p \in permissions : IdOf[p] = IdOf[r]
-----------------------------------------------------------------------------
Init ==
  /\ kind \in [Requests -> Kinds]
  /\ session \in [Requests -> Sessions]
  /\ offered = FALSE
  /\ stage = [r \in Requests |-> "unsent"]
  /\ permissions = {}
  /\ canceller = [k \in Cancellers |-> Idle]
  /\ output = "open"
  /\ got = [r \in Requests |-> NoAnswer]
  /\ stray = {}

\* Shared::respond for the handling of r: a line with r's id, written when the agent's
\* input has room, and lost if the agent is gone.  The agent gives it to the request it
\* still waits on under that id.
Respond(r, k) ==
  /\ output # "stalled"
  /\ IF output = "closed"
       THEN UNCHANGED <<got, stray>>
       ELSE LET waiting == {q \in Requests : Outstanding(q) /\ IdOf[q] = IdOf[r]}
            IN /\ got' = [q \in Requests |->
                            IF q \in waiting THEN [kind |-> k, by |-> r] ELSE got[q]]
               /\ stray' = IF waiting = {} THEN stray \cup {r} ELSE stray

\* `initialize` stores what it offers before the agent is asked.
Initialize ==
  /\ ~offered
  /\ offered' = TRUE
  /\ UNCHANGED <<kind, session, stage, permissions, canceller, output, got, stray>>

\* The agent: an id is free again once its request has been answered.
Send(r) ==
  /\ stage[r] = "unsent"
  /\ \A q \in Requests : IdOf[q] = IdOf[r] => ~Outstanding(q)
  /\ stage' = [stage EXCEPT ![r] = "sent"]
  /\ UNCHANGED <<kind, session, offered, permissions, canceller, output, got, stray>>

(***************************************************************************)
(* incoming_request, on the reader thread, one request at a time: while an *)
(* answer of the reader's own is not written, it reads no further.         *)
(***************************************************************************)
ReaderFree == \A r \in Requests : stage[r] \notin {"refusing", "starting", "failing"}

Allowed(r) == kind[r] = "gated" => offered

Refuse(r) ==
  /\ ReaderFree
  /\ stage[r] = "sent"
  /\ ~Allowed(r)
  /\ stage' = [stage EXCEPT ![r] = "refusing"]
  /\ UNCHANGED <<kind, session, offered, permissions, canceller, output, got, stray>>

AnswerRefused(r) ==
  /\ stage[r] = "refusing"
  /\ stage' = [stage EXCEPT ![r] = "ended"]
  /\ Respond(r, "refused")
  /\ UNCHANGED <<kind, session, offered, permissions, canceller, output>>

\* Mutant: the entry is made by the handler's thread, after it is started.
AcceptUnnoted(r) ==
  /\ ReaderFree
  /\ stage[r] = "sent"
  /\ Allowed(r)
  /\ stage' = [stage EXCEPT ![r] = "starting"]
  /\ UNCHANGED <<kind, session, offered, permissions, canceller, output, got, stray>>

\* Mutant: the session is noted for the key.
AcceptSwapped(r) ==
  /\ ReaderFree
  /\ stage[r] = "sent"
  /\ Allowed(r)
  /\ stage' = [stage EXCEPT ![r] = "starting"]
  /\ permissions' = IF kind[r] = "permission" THEN permissions \cup {session[r]}
                                               ELSE permissions
  /\ UNCHANGED <<kind, session, offered, canceller, output, got, stray>>

\* `permissions.insert(key, ..)`, before the handler's thread is started.
Accept(r) ==
  /\ ReaderFree
  /\ stage[r] = "sent"
  /\ Allowed(r)
  /\ stage' = [stage EXCEPT ![r] = "starting"]
  /\ permissions' = IF kind[r] = "permission" THEN WithoutIdOf(r) \cup {r}
                                               ELSE permissions
  /\ UNCHANGED <<kind, session, offered, canceller, output, got, stray>>

SpawnHandler(r) ==
  /\ stage[r] = "starting"
  /\ stage' = [stage EXCEPT ![r] = "running"]
  /\ UNCHANGED <<kind, session, offered, permissions, canceller, output, got, stray>>

\* No thread: the reader answers, but a permission request keeps its entry.
SpawnFails(r) ==
  /\ stage[r] = "starting"
  /\ stage' = [stage EXCEPT ![r] = "failing"]
  /\ UNCHANGED <<kind, session, offered, permissions, canceller, output, got, stray>>

AnswerFailed(r) ==
  /\ stage[r] = "failing"
  /\ stage' = [stage EXCEPT ![r] = "unspawned"]
  /\ Respond(r, "internal")
  /\ UNCHANGED <<kind, session, offered, permissions, canceller, output>>

(***************************************************************************)
(* The handler's thread.                                                   *)
(***************************************************************************)

\* `dispatch` returns: for a permission request, the user has answered.
HandlerReturns(r) ==
  /\ stage[r] = "running"
  /\ stage' = [stage EXCEPT ![r] = "returned"]
  /\ UNCHANGED <<kind, session, offered, permissions, canceller, output, got, stray>>

\* Mutant: the handler looks whether its entry is still there, but leaves it.
ClaimLooksOnly(r) ==
  /\ stage[r] = "returned"
  /\ stage' = [stage EXCEPT ![r] =
                 IF kind[r] = "permission" /\ ~HasIdOf(r) THEN "ended" ELSE "answering"]
  /\ UNCHANGED <<kind, session, offered, permissions, canceller, output, got, stray>>

\* `permissions.remove(&key).is_none()`: cancelled, so answered already.
Claim(r) ==
  /\ stage[r] = "returned"
  /\ stage' = [stage EXCEPT ![r] =
                 IF kind[r] = "permission" /\ ~HasIdOf(r) THEN "ended" ELSE "answering"]
  /\ permissions' = IF kind[r] = "permission" THEN WithoutIdOf(r) ELSE permissions
  /\ UNCHANGED <<kind, session, offered, canceller, output, got, stray>>

Answer(r) ==
  /\ stage[r] = "answering"
  /\ stage' = [stage EXCEPT ![r] = "ended"]
  /\ Respond(r, "handler")
  /\ UNCHANGED <<kind, session, offered, permissions, canceller, output>>
-----------------------------------------------------------------------------
(***************************************************************************)
(* Connection::cancel.                                                     *)
(***************************************************************************)

\* The notification goes out first; `?` ends the call if it cannot be written.
Cancel(k, s) ==
  /\ canceller[k].at = "idle"
  /\ output = "open"
  /\ canceller' = [canceller EXCEPT ![k] = [at |-> "notified", session |-> s,
                                            drained |-> {}]]
  /\ UNCHANGED <<kind, session, offered, stage, permissions, output, got, stray>>

OpenIn(s) == {p \in permissions : session[p] = s}

\* Mutant: the session's entries are copied, and stay in the map.
DrainCopies(k) ==
  /\ canceller[k].at = "notified"
  /\ canceller' = [canceller EXCEPT ![k].at = "drained",
                                    ![k].drained = OpenIn(canceller[k].session)]
  /\ UNCHANGED <<kind, session, offered, stage, permissions, output, got, stray>>

\* Mutant: the entries of every session are taken.
DrainEverySession(k) ==
  /\ canceller[k].at = "notified"
  /\ canceller' = [canceller EXCEPT ![k].at = "drained", ![k].drained = permissions]
  /\ permissions' = {}
  /\ UNCHANGED <<kind, session, offered, stage, output, got, stray>>

\* The session's entries leave the map in one critical section.
Drain(k) ==
  /\ canceller[k].at = "notified"
  /\ canceller' = [canceller EXCEPT ![k].at = "drained",
                                    ![k].drained = OpenIn(canceller[k].session)]
  /\ permissions' = permissions \ OpenIn(canceller[k].session)
  /\ UNCHANGED <<kind, session, offered, stage, output, got, stray>>

\* Mutant: `cancel` answers one of the drained requests and returns.
AnswerOneCancelled(k) ==
  /\ canceller[k].at = "drained"
  /\ \E r \in canceller[k].drained : Respond(r, "cancelled")
  /\ canceller' = [canceller EXCEPT ![k] = Idle]
  /\ UNCHANGED <<kind, session, offered, stage, permissions, output>>

AnswerCancelled(k) ==
  /\ canceller[k].at = "drained"
  /\ \E r \in canceller[k].drained :
       /\ Respond(r, "cancelled")
       /\ canceller' = [canceller EXCEPT ![k].drained = @ \ {r}]
  /\ UNCHANGED <<kind, session, offered, stage, permissions, output>>

CancelReturns(k) ==
  /\ canceller[k].at = "drained"
  /\ canceller[k].drained = {}
  /\ canceller' = [canceller EXCEPT ![k] = Idle]
  /\ UNCHANGED <<kind, session, offered, stage, permissions, output, got, stray>>

\* The agent reads no more, and its input is full: a write never returns.  (One that
\* waits for room for a while is a late one.)
AgentStalls ==
  /\ output = "open"
  /\ output' = "stalled"
  /\ UNCHANGED <<kind, session, offered, stage, permissions, canceller, got, stray>>

\* The agent exits, or `shutdown` takes the writer: writes go nowhere.
OutputCloses ==
  /\ output # "closed"
  /\ output' = "closed"
  /\ UNCHANGED <<kind, session, offered, stage, permissions, canceller, got, stray>>
-----------------------------------------------------------------------------
ReaderStep(r) ==
  \/ Refuse(r) \/ AnswerRefused(r)
  \/ Accept(r) \/ SpawnHandler(r)
  \/ SpawnFails(r) \/ AnswerFailed(r)

\* What the handler's thread does once the client's handler has returned.
ReplyStep(r) == Claim(r) \/ Answer(r)

CancelStep(k) == Drain(k) \/ AnswerCancelled(k) \/ CancelReturns(k)

Next ==
  \/ Initialize
  \/ \E r \in Requests : Send(r) \/ ReaderStep(r) \/ HandlerReturns(r) \/ ReplyStep(r)
  \/ \E k \in Cancellers, s \in Sessions : Cancel(k, s)
  \/ \E k \in Cancellers : CancelStep(k)
  \/ AgentStalls
  \/ OutputCloses

Spec == Init /\ [][Next]_vars

\* Every thread that can run does, and an agent that reads gets what it is written.  The
\* user may never answer, no one has to cancel, and the agent may never ask, nor read.
Fairness ==
  /\ \A r \in Requests : WF_vars(ReaderStep(r)) /\ WF_vars(ReplyStep(r))
  /\ \A k \in Cancellers : WF_vars(CancelStep(k))

FairSpec == Spec /\ Fairness
-----------------------------------------------------------------------------
Stages == {"unsent", "sent", "refusing", "starting", "failing", "running", "returned",
           "answering", "ended", "unspawned"}

TypeOK ==
  /\ kind \in [Requests -> Kinds]
  /\ session \in [Requests -> Sessions]
  /\ offered \in BOOLEAN
  /\ stage \in [Requests -> Stages]
  /\ permissions \subseteq Requests
  /\ canceller \in [Cancellers -> [at: {"idle", "notified", "drained"},
                                   session: Sessions, drained: SUBSET Requests]]
  /\ output \in {"open", "stalled", "closed"}
  /\ got \in [Requests -> [kind: AnswerKinds, by: Requests] \cup {NoAnswer}]
  /\ stray \subseteq Requests

\* No request is answered twice: of the handler and every `cancel` racing it,
\* one writes.  The exception is the one `incoming_request` leaves: a permission
\* request whose handler could not be started keeps its entry.
NoSecondAnswer == \A r \in stray : stage[r] = "unspawned"

\* `cancel` answers requests of its own session only: another session's user is not
\* cut off, whichever cancels and handlers run at once.
OnlyItsSession ==
  [][\A r \in Requests :
       got[r] = NoAnswer /\ got'[r] # NoAnswer /\ got'[r].kind = "cancelled"
       => \E k \in Cancellers :
            canceller[k].at = "drained" /\ canceller[k].session = session[r]]_vars

\* A permission request still in its handler and not answered is in the map, or
\* one `cancel` holds it and will answer it: it cannot be forgotten by both.
NeverForgotten ==
  \A r \in Requests :
    (kind[r] = "permission" /\ stage[r] \in {"starting", "running", "returned"}
       /\ got[r] = NoAnswer /\ output # "closed")
    => (r \in permissions) # (\E k \in Cancellers : r \in canceller[k].drained)

\* A permission request open when its session is cancelled is answered, even if the
\* user never answers - unless the agent stops reading, which holds up the answers, or
\* goes: `cancel` asks the agent "to stop the session's turn", and every permission
\* request of that session still unanswered is answered.
CancelAnswers ==
  \A r \in Requests, k \in Cancellers :
    (r \in permissions /\ canceller[k].at = "notified"
       /\ canceller[k].session = session[r])
    ~> (got[r] # NoAnswer \/ output # "open")
=============================================================================
