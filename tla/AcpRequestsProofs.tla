-------------------------- MODULE AcpRequestsProofs --------------------------
(***************************************************************************)
(* A request of the agent is answered once, by its handler or by the       *)
(* `cancel` that took it from the map, for any number of requests,         *)
(* sessions and threads that cancel.                                       *)
(*                                                                         *)
(* The invariant follows the right to answer a permission request: it is   *)
(* the entry in `permissions`, which the handler or one `cancel` removes,  *)
(* and who removed it is the only one who answers.  The entry is found by  *)
(* its id, so the argument needs an agent that gives each request one of   *)
(* its own; the types do not.                                              *)
(***************************************************************************)
EXTENDS AcpRequests, TLAPS

\* The agent gives no id twice, as a JSON-RPC client that counts does.
DistinctIds == \A p, q \in Requests : IdOf[p] = IdOf[q] => p = q

\* Where a permission request can be while it has an entry.
Entered == {"starting", "failing", "running", "returned", "unspawned"}

Unanswered(r) == got[r] = NoAnswer \/ stage[r] = "unspawned"

\* An entry is an open permission request.
Noted ==
  \A r \in permissions : kind[r] = "permission" /\ stage[r] \in Entered /\ Unanswered(r)

\* What a `cancel` drained is its own to answer.
Drained ==
  \A k \in Cancellers :
    /\ canceller[k].at # "drained" => canceller[k].drained = {}
    /\ \A r \in canceller[k].drained :
         /\ kind[r] = "permission" /\ stage[r] \in Entered \cup {"ended"} /\ Unanswered(r)
         /\ session[r] = canceller[k].session
         /\ r \notin permissions
         /\ \A j \in Cancellers : r \in canceller[j].drained => j = k

\* A request no one has the answer of yet still waits for it.
Waits ==
  \A r \in Requests :
    /\ stage[r] \in {"unsent", "sent", "refusing", "answering"} => got[r] = NoAnswer
    /\ kind[r] = "gated" /\ stage[r] \in {"starting", "failing", "running", "returned"}
         => got[r] = NoAnswer

\* Someone holds the right to answer a permission request in its handler.
Held ==
  \A r \in Requests :
    (kind[r] = "permission" /\ stage[r] \in {"starting", "running", "returned"}
       /\ got[r] = NoAnswer /\ output # "closed")
    => r \in permissions \/ \E k \in Cancellers : r \in canceller[k].drained

IInv == TypeOK /\ Noted /\ Drained /\ Waits /\ Held /\ NoSecondAnswer
-----------------------------------------------------------------------------
\* An answer reaches the requests that wait for one, and nothing else changes:
\* the types hold whatever the ids are.
LEMMA RespondTyped ==
  ASSUME TypeOK, NEW r \in Requests, NEW k \in AnswerKinds, Respond(r, k)
  PROVE  /\ got' \in [Requests -> [kind: AnswerKinds, by: Requests] \cup {NoAnswer}]
         /\ stray' \subseteq Requests
<1> DEFINE waiting == {q \in Requests : Outstanding(q) /\ IdOf[q] = IdOf[r]}
<1>1. CASE output = "closed"
  BY <1>1 DEF Respond, TypeOK
<1>2. CASE output # "closed"
  <2>1. /\ got' = [q \in Requests |-> IF q \in waiting THEN [kind |-> k, by |-> r] ELSE got[q]]
        /\ stray' = IF waiting = {} THEN stray \cup {r} ELSE stray
    BY <1>2 DEF Respond
  <2> HIDE DEF waiting
  <2> QED
    BY <2>1 DEF TypeOK
<1> QED
  BY <1>1, <1>2

\* With an id for each, it reaches its own request, or none when that has one.
LEMMA RespondDistinct ==
  ASSUME TypeOK, DistinctIds, NEW r \in Requests, NEW k \in AnswerKinds, Respond(r, k)
  PROVE  /\ \A q \in Requests : q # r => got'[q] = got[q]
         /\ output = "closed" => got' = got /\ stray' = stray
         /\ output # "closed" /\ Outstanding(r)
              => got'[r] = [kind |-> k, by |-> r] /\ got'[r] # NoAnswer /\ stray' = stray
         /\ output # "closed" /\ ~Outstanding(r)
              => got'[r] = got[r] /\ stray' = stray \cup {r}
<1> DEFINE waiting == {q \in Requests : Outstanding(q) /\ IdOf[q] = IdOf[r]}
<1>1. CASE output = "closed"
  BY <1>1 DEF Respond
<1>2. CASE output # "closed"
  <2>1. /\ got' = [q \in Requests |-> IF q \in waiting THEN [kind |-> k, by |-> r] ELSE got[q]]
        /\ stray' = IF waiting = {} THEN stray \cup {r} ELSE stray
    BY <1>2 DEF Respond
  <2>2. waiting = IF Outstanding(r) THEN {r} ELSE {}
    BY DEF DistinctIds
  <2>3. [kind |-> k, by |-> r] # NoAnswer
    BY RequestsAssumption DEF RequestsAssumption
  <2> HIDE DEF waiting
  <2> QED
    BY <1>2, <2>1, <2>2, <2>3
<1> QED
  BY <1>1, <1>2

\* Idle is a state of a thread that cancels.
LEMMA IdleTyped ==
  Idle \in [at: {"idle", "notified", "drained"}, session: Sessions, drained: SUBSET Requests]
<1>1. (CHOOSE s \in Sessions : TRUE) \in Sessions
  BY RequestsAssumption DEF RequestsAssumption
<1> QED
  BY <1>1 DEF Idle

\* Every variable keeps its type.
LEMMA TypeStep ==
  ASSUME TypeOK, [Next]_vars
  PROVE  TypeOK'
<1> USE DEF TypeOK, Stages
<1>1. CASE Initialize \/ AgentStalls \/ OutputCloses \/ UNCHANGED vars
  <2>1. CASE Initialize
    BY <2>1 DEF Initialize
  <2>2. CASE AgentStalls
    BY <2>2 DEF AgentStalls
  <2>3. CASE OutputCloses
    BY <2>3 DEF OutputCloses
  <2>4. CASE UNCHANGED vars
    BY <2>4 DEF vars
  <2> QED
    BY <1>1, <2>1, <2>2, <2>3, <2>4
<1>2. ASSUME NEW r \in Requests,
             \/ Send(r) \/ Refuse(r) \/ Accept(r) \/ SpawnHandler(r) \/ SpawnFails(r)
             \/ HandlerReturns(r) \/ Claim(r)
      PROVE  TypeOK'
  <2>1. CASE Send(r)
    BY <2>1 DEF Send
  <2>2. CASE Refuse(r)
    BY <2>2 DEF Refuse
  <2>3. CASE Accept(r)
    BY <2>3 DEF Accept, WithoutIdOf
  <2>4. CASE SpawnHandler(r)
    BY <2>4 DEF SpawnHandler
  <2>5. CASE SpawnFails(r)
    BY <2>5 DEF SpawnFails, WithoutIdOf
  <2>6. CASE HandlerReturns(r)
    BY <2>6 DEF HandlerReturns
  <2>7. CASE Claim(r)
    BY <2>7 DEF Claim, WithoutIdOf
  <2> QED
    BY <1>2, <2>1, <2>2, <2>3, <2>4, <2>5, <2>6, <2>7
<1>3. ASSUME NEW r \in Requests, AnswerRefused(r) \/ AnswerFailed(r) \/ Answer(r)
      PROVE  TypeOK'
  <2>1. PICK k \in AnswerKinds : Respond(r, k)
    BY <1>3 DEF AnswerRefused, AnswerFailed, Answer, AnswerKinds
  <2>2. /\ got' \in [Requests -> [kind: AnswerKinds, by: Requests] \cup {NoAnswer}]
        /\ stray' \subseteq Requests
    BY <2>1, RespondTyped
  <2> QED
    BY <1>3, <2>2 DEF AnswerRefused, AnswerFailed, Answer
<1>4. ASSUME NEW k \in Cancellers, NEW s \in Sessions, Cancel(k, s)
      PROVE  TypeOK'
  BY <1>4 DEF Cancel
<1>5. ASSUME NEW k \in Cancellers, Drain(k) \/ CancelReturns(k)
      PROVE  TypeOK'
  <2>1. CASE Drain(k)
    <3>1. OpenIn(canceller[k].session) \subseteq Requests
      BY DEF OpenIn
    <3>2. [canceller[k] EXCEPT !.at = "drained", !.drained = OpenIn(canceller[k].session)]
            \in [at: {"idle", "notified", "drained"}, session: Sessions,
                 drained: SUBSET Requests]
      BY <3>1
    <3> QED
      BY <2>1, <3>1, <3>2 DEF Drain
  <2>2. CASE CancelReturns(k)
    BY <2>2, IdleTyped DEF CancelReturns
  <2> QED
    BY <1>5, <2>1, <2>2
<1>6. ASSUME NEW k \in Cancellers, AnswerCancelled(k)
      PROVE  TypeOK'
  <2>1. PICK r \in canceller[k].drained :
           /\ Respond(r, "cancelled")
           /\ canceller' = [canceller EXCEPT ![k].drained = @ \ {r}]
    BY <1>6 DEF AnswerCancelled
  <2>2. r \in Requests /\ "cancelled" \in AnswerKinds
    BY DEF AnswerKinds
  <2>3. /\ got' \in [Requests -> [kind: AnswerKinds, by: Requests] \cup {NoAnswer}]
        /\ stray' \subseteq Requests
    BY <2>1, <2>2, RespondTyped
  <2> QED
    BY <1>6, <2>1, <2>3 DEF AnswerCancelled
<1> QED
  BY <1>1, <1>2, <1>3, <1>4, <1>5, <1>6 DEF Next, ReaderStep, ReplyStep, CancelStep

\* The types hold for any agent, one that uses an id again too.
THEOREM TypeCorrect == Spec => []TypeOK
<1>1. Init => TypeOK
  BY IdleTyped DEF Init, TypeOK, Stages
<1>2. TypeOK /\ [Next]_vars => TypeOK'
  BY TypeStep
<1> QED
  BY <1>1, <1>2, PTL DEF Spec
-----------------------------------------------------------------------------
(* From here on each request has an id of its own.                           *)

\* A removal by id removes one request's entry.
LEMMA OneEntry ==
  ASSUME DistinctIds, TypeOK, NEW r \in Requests
  PROVE  WithoutIdOf(r) = permissions \ {r} /\ (HasIdOf(r) <=> r \in permissions)
  BY DEF DistinctIds, TypeOK, WithoutIdOf, HasIdOf

\* The right to answer passes from the map to the one who answers.
LEMMA InvStep ==
  ASSUME DistinctIds, IInv, [Next]_vars
  PROVE  IInv'
<1> USE DEF IInv
<1>0. TypeOK /\ TypeOK'
  BY TypeStep
<1> DEFINE Rest == Noted' /\ Drained' /\ Waits' /\ Held' /\ NoSecondAnswer'
<1> SUFFICES Rest
  BY <1>0
<1> USE DEF TypeOK, Entered, Unanswered, Noted, Drained, Waits, Held, NoSecondAnswer
<1>1. CASE Initialize \/ UNCHANGED vars
  BY <1>1 DEF Initialize, vars
<1>2. CASE AgentStalls \/ OutputCloses
  BY <1>2 DEF AgentStalls, OutputCloses
<1>3. ASSUME NEW r \in Requests,
             Send(r) \/ Refuse(r) \/ SpawnHandler(r) \/ SpawnFails(r) \/ HandlerReturns(r)
      PROVE  Rest
  BY <1>3 DEF Send, Refuse, SpawnHandler, SpawnFails, HandlerReturns
<1>4. ASSUME NEW r \in Requests, Accept(r)
      PROVE  Rest
  BY <1>4, OneEntry DEF Accept
<1>5. ASSUME NEW r \in Requests, Claim(r)
      PROVE  Rest
  BY <1>5, OneEntry DEF Claim, Kinds
<1>6. ASSUME NEW r \in Requests, NEW k \in AnswerKinds, NEW st \in {"ended", "unspawned"},
             \/ stage[r] \in {"refusing", "answering"}
             \/ stage[r] = "failing" /\ st = "unspawned",
             stage' = [stage EXCEPT ![r] = st], Respond(r, k),
             UNCHANGED <<kind, session, permissions, canceller, output>>
      PROVE  Rest
  <2>1. r \in permissions \/ (\E j \in Cancellers : r \in canceller[j].drained)
           => stage[r] = "failing"
    BY <1>6
  <2>2. stage[r] \in {"refusing", "answering"} => Outstanding(r)
    BY DEF Outstanding
  <2>3. /\ \A q \in Requests : q # r => got'[q] = got[q]
        /\ stray' = stray \/ (stage[r] = "failing" /\ stray' = stray \cup {r})
    BY <1>0, <1>6, <2>2, RespondDistinct
  <2>4. stage'[r] = st /\ \A q \in Requests : q # r => stage'[q] = stage[q]
    BY <1>6
  <2>5. Noted' /\ Drained'
    BY <1>6, <2>1, <2>3, <2>4
  <2>6. Waits' /\ Held' /\ NoSecondAnswer'
    BY <1>6, <2>3, <2>4
  <2> QED
    BY <2>5, <2>6
<1>7. ASSUME NEW r \in Requests, AnswerRefused(r) \/ AnswerFailed(r) \/ Answer(r)
      PROVE  Rest
  BY <1>6, <1>7 DEF AnswerRefused, AnswerFailed, Answer, AnswerKinds
<1>8. ASSUME NEW k \in Cancellers, NEW s \in Sessions, Cancel(k, s)
      PROVE  Rest
  BY <1>8 DEF Cancel
<1>9. ASSUME NEW k \in Cancellers, Drain(k)
      PROVE  Rest
  BY <1>9 DEF Drain, OpenIn
<1>10. ASSUME NEW k \in Cancellers, CancelReturns(k)
       PROVE  Rest
  BY <1>10 DEF CancelReturns, Idle
<1>11. ASSUME NEW k \in Cancellers, AnswerCancelled(k)
       PROVE  Rest
  <2>1. PICK r \in canceller[k].drained :
           /\ Respond(r, "cancelled")
           /\ canceller' = [canceller EXCEPT ![k].drained = @ \ {r}]
    BY <1>11 DEF AnswerCancelled
  <2>2. r \in Requests /\ "cancelled" \in AnswerKinds
    BY DEF AnswerKinds
  <2>3. /\ \A q \in Requests : q # r => got'[q] = got[q]
        /\ output = "closed" => got' = got /\ stray' = stray
        /\ output # "closed" /\ Outstanding(r) => got'[r] # NoAnswer /\ stray' = stray
        /\ output # "closed" /\ ~Outstanding(r) => got'[r] = got[r] /\ stray' = stray \cup {r}
    BY <1>0, <2>1, <2>2, RespondDistinct
  <2>4. ~Outstanding(r) => stage[r] = "unspawned"
    BY <1>11, <2>1 DEF Outstanding
  <2>5. UNCHANGED <<kind, session, stage, permissions, output>>
    BY <1>11 DEF AnswerCancelled
  <2>6. Noted' /\ Drained'
    BY <2>1, <2>2, <2>3, <2>5
  <2>7. Waits' /\ NoSecondAnswer'
    BY <2>1, <2>2, <2>3, <2>4, <2>5
  <2>8. Held'
    BY <2>1, <2>2, <2>3, <2>4, <2>5
  <2> QED
    BY <2>6, <2>7, <2>8
<1> QED
  BY <1>1, <1>2, <1>3, <1>4, <1>5, <1>7, <1>8, <1>9, <1>10, <1>11
  DEF Next, ReaderStep, ReplyStep, CancelStep

\* In every reachable state someone holds the right to answer each open permission
\* request, and one only.
THEOREM Inductive ==
  ASSUME DistinctIds
  PROVE  Spec => []IInv
<1>1. Init => IInv
  <2> SUFFICES ASSUME Init PROVE IInv
    OBVIOUS
  <2>1. TypeOK
    BY IdleTyped DEF Init, TypeOK, Stages
  <2>2. \A k \in Cancellers : canceller[k].at = "idle" /\ canceller[k].drained = {}
    BY DEF Init, Idle
  <2>3. Noted /\ Drained /\ Waits /\ Held /\ NoSecondAnswer
    BY <2>2 DEF Init, Noted, Drained, Waits, Held, NoSecondAnswer
  <2> QED
    BY <2>1, <2>3 DEF IInv
<1>2. IInv /\ [Next]_vars => IInv'
  BY InvStep
<1> QED
  BY <1>1, <1>2, PTL DEF Spec

\* No request is answered twice.
THEOREM AnsweredOnce ==
  ASSUME DistinctIds
  PROVE  Spec => []NoSecondAnswer
  BY Inductive, PTL DEF IInv

\* No permission request is forgotten by both its handler and `cancel`.
THEOREM NotForgotten ==
  ASSUME DistinctIds
  PROVE  Spec => []NeverForgotten
<1>1. IInv => NeverForgotten
  BY DEF IInv, Held, Drained, NeverForgotten
<1> QED
  BY <1>1, Inductive, PTL

\* A request answered `cancelled` is of a session being cancelled.
THEOREM SessionsApart ==
  ASSUME DistinctIds
  PROVE  Spec => OnlyItsSession
<1> DEFINE Only ==
       \A r \in Requests :
         got[r] = NoAnswer /\ got'[r] # NoAnswer /\ got'[r].kind = "cancelled"
         => \E k \in Cancellers :
              canceller[k].at = "drained" /\ canceller[k].session = session[r]
<1>1. IInv /\ [Next]_vars => [Only]_vars
  <2> SUFFICES ASSUME IInv, Next PROVE Only
    OBVIOUS
  <2>1. ASSUME NEW q \in Requests, NEW r \in Requests, NEW k \in AnswerKinds \ {"cancelled"},
               Respond(r, k)
        PROVE  got'[q] # got[q] => got'[q].kind # "cancelled"
    <3>1. got'[q] # got[q] => got'[q] = [kind |-> k, by |-> r]
      BY <2>1, RespondDistinct DEF IInv
    <3> QED
      BY <3>1
  <2>2. ASSUME NEW r \in Requests, AnswerRefused(r) \/ AnswerFailed(r) \/ Answer(r)
        PROVE  Only
    BY <2>1, <2>2 DEF AnswerRefused, AnswerFailed, Answer, AnswerKinds
  <2>3. ASSUME NEW k \in Cancellers, AnswerCancelled(k)
        PROVE  Only
    <3>1. PICK r \in canceller[k].drained : Respond(r, "cancelled")
      BY <2>3 DEF AnswerCancelled
    <3>2. r \in Requests /\ "cancelled" \in AnswerKinds /\ session[r] = canceller[k].session
      BY DEF IInv, TypeOK, Drained, AnswerKinds
    <3>3. \A q \in Requests : q # r => got'[q] = got[q]
      BY <3>1, <3>2, RespondDistinct DEF IInv
    <3> QED
      BY <2>3, <3>2, <3>3 DEF AnswerCancelled
  <2>4. CASE UNCHANGED got
    BY <2>4
  <2> QED
    BY <2>2, <2>3, <2>4
    DEF Next, ReaderStep, ReplyStep, CancelStep, Initialize, Send, Refuse, Accept,
        SpawnHandler, SpawnFails, HandlerReturns, Claim, Cancel, Drain, CancelReturns,
        AgentStalls, OutputCloses
<1> QED
  BY <1>1, Inductive, PTL DEF Spec, OnlyItsSession
=============================================================================
