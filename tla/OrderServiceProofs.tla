------------------------- MODULE OrderServiceProofs -------------------------
(* The order API, for any set of orders and any number of concurrent        *)
(* requests and cancellations, and the process around it.                   *)
EXTENDS ServiceLife, TLAPS

\* The audit events of an order, and the one of a rotation.
LEMMA EventOfOrder ==
  ASSUME NEW r \in Requests, NEW t \in {"order_placed", "fill", "order_canceled"}
  PROVE  [type |-> t, id |-> r] \in AuditEvents
  BY OrderAssumption DEF AuditEvents, Requests

LEMMA EventOfNone == [type |-> "credential_rotation", id |-> 0] \in AuditEvents
  BY OrderAssumption DEF AuditEvents

\* Requests, connector, store, audit trail and bus keep their types.
THEOREM OrderTyping == Spec => []TypeOK
<1>1. Init => TypeOK
  BY OrderAssumption DEF Init, TypeOK
<1>2. TypeOK /\ [Next]_vars => TypeOK'
  <2> SUFFICES ASSUME TypeOK, [Next]_vars
               PROVE  TypeOK'
    OBVIOUS
  <2> USE OrderAssumption DEF TypeOK, client, parts, cancelling, Go
  <2>1. CASE UNCHANGED vars
    BY <2>1 DEF vars
  <2>2. ASSUME NEW i \in Intents, Submit(i)
        PROVE  TypeOK'
    <3>1. asked' \in Seq(Intents) /\ Len(asked') = Len(asked) + 1
      BY <2>2 DEF Submit
    <3>2. Len(asked') <= MaxRequests
      BY <2>2, <3>1 DEF Submit
    <3>3. pc' = [pc EXCEPT ![Len(asked) + 1] = "decode"]
      BY <2>2 DEF Submit
    <3> QED
      BY <2>2, <3>1, <3>2, <3>3 DEF Submit
  <2>3. ASSUME NEW r \in Requests, GiveUp(r)
        PROVE  TypeOK'
    BY <2>3 DEF GiveUp
  <2>4. ASSUME NEW r \in Requests, RejectRequest(r)
        PROVE  TypeOK'
    BY <2>4 DEF RejectRequest, Reply
  <2>5. ASSUME NEW r \in Requests, AcceptRequest(r)
        PROVE  TypeOK'
    BY <2>5 DEF AcceptRequest
  <2>6. ASSUME NEW r \in Requests, PlaceRefused(r)
        PROVE  TypeOK'
    BY <2>6 DEF PlaceRefused, Reply
  <2>7. ASSUME NEW r \in Requests, PlaceOrder(r)
        PROVE  TypeOK'
    BY <2>7 DEF PlaceOrder, PlacedStatus
  <2>8. ASSUME NEW r \in Requests, RecordOrder(r)
        PROVE  TypeOK'
    BY <2>8 DEF RecordOrder
  <2>9. ASSUME NEW r \in Requests, RecordFill(r)
        PROVE  TypeOK'
    BY <2>9 DEF RecordFill, AfterStore
  <2>10. ASSUME NEW r \in Requests, AuditPlaced(r)
         PROVE  TypeOK'
    <3>1. [type |-> "order_placed", id |-> r] \in AuditEvents
      BY EventOfOrder
    <3> QED
      BY <2>10, <3>1 DEF AuditPlaced, EmitPlaced, Emit
  <2>11. ASSUME NEW r \in Requests, AuditFill(r)
         PROVE  TypeOK'
    <3>1. [type |-> "fill", id |-> r] \in AuditEvents
      BY EventOfOrder
    <3> QED
      BY <2>11, <3>1 DEF AuditFill, Emit
  <2>12. ASSUME NEW r \in Requests, PublishFill(r)
         PROVE  TypeOK'
    BY <2>12 DEF PublishFill
  <2>13. ASSUME NEW r \in Requests, Respond(r)
         PROVE  TypeOK'
    BY <2>13 DEF Respond, Reply
  <2>14. ASSUME NEW r \in Requests, CancelOrder(r)
         PROVE  TypeOK'
    BY <2>14 DEF CancelOrder
  <2>15. ASSUME NEW r \in Requests, AuditCanceled(r)
         PROVE  TypeOK'
    <3>1. [type |-> "order_canceled", id |-> r] \in AuditEvents
      BY EventOfOrder
    <3> QED
      BY <2>15, <3>1 DEF AuditCanceled, Emit
  <2>16. CASE CancelRefused
    BY <2>16 DEF CancelRefused
  <2>17. CASE RotateCreds
    <3>1. [type |-> "credential_rotation", id |-> 0] \in AuditEvents
      BY EventOfNone
    <3> QED
      BY <2>17, <3>1 DEF RotateCreds, Emit
  <2> QED
    BY <2>1, <2>2, <2>3, <2>4, <2>5, <2>6, <2>7, <2>8, <2>9, <2>10, <2>11,
       <2>12, <2>13, <2>14, <2>15, <2>16, <2>17 DEF Next, Handler
<1> QED
  BY <1>1, <1>2, PTL DEF Spec

\* The trail only grows: what it tells of an order stays told.
LEMMA TrailGrows ==
  ASSUME TypeOK, NEW r \in Requests,
         NEW e \in AuditEvents,
         trail' = Append(trail, e)
  PROVE  /\ Len(trail') = Len(trail) + 1
         /\ trail'[Len(trail')] = e
         /\ \A i \in 1..Len(trail) : trail'[i] = trail[i] /\ i \in 1..Len(trail')
         /\ Audited("order_placed", r) => Audited("order_placed", r)'
         /\ StoryTold(r) => StoryTold(r)'
<1>1. /\ Len(trail') = Len(trail) + 1
      /\ trail'[Len(trail')] = e
      /\ \A i \in 1..Len(trail) : trail'[i] = trail[i] /\ i \in 1..Len(trail')
  BY DEF TypeOK
<1>2. Audited("order_placed", r) => Audited("order_placed", r)'
  BY <1>1 DEF Audited, At
<1>3. StoryTold(r) => StoryTold(r)'
  BY <1>1 DEF StoryTold, At
<1> QED
  BY <1>1, <1>2, <1>3

\* A step that leaves the trail alone keeps the trail's part of the invariant
\* if it moves no handler into the calls that follow an audit event.
LEMMA TrailUntouched ==
  ASSUME TrailInv, AuditComesFirst, UNCHANGED trail,
         \A r \in Requests :
            /\ pc'[r] = "auditFill" => pc[r] = "auditFill"
            /\ pc'[r] \in {"publish", "respond"} => pc[r] \in {"publish", "respond"}
            /\ answer'[r] = "ok" => answer[r] = "ok" \/ pc[r] = "respond"
            /\ r \in published' => r \in published \/ pc[r] = "publish"
  PROVE  TrailInv' /\ AuditComesFirst'
  BY DEF TrailInv, AuditComesFirst, Audited, StoryTold, At

\* Every step of the callers, the handlers and the cancellations keeps it.
LEMMA TrailStep ==
  ASSUME TypeOK, TrailInv, AuditComesFirst, [Next]_vars
  PROVE  TrailInv' /\ AuditComesFirst'
<1> USE DEF client, parts, cancelling, Go
<1>1. CASE UNCHANGED vars
  BY <1>1, TrailUntouched DEF vars
<1>2. ASSUME NEW i \in Intents, Submit(i)
      PROVE  TrailInv' /\ AuditComesFirst'
  BY <1>2, TrailUntouched DEF Submit, TypeOK
<1>3. ASSUME NEW r \in Requests, GiveUp(r)
      PROVE  TrailInv' /\ AuditComesFirst'
  BY <1>3, TrailUntouched DEF GiveUp
<1>4. ASSUME NEW r \in Requests, RejectRequest(r) \/ PlaceRefused(r)
      PROVE  TrailInv' /\ AuditComesFirst'
  BY <1>4, TrailUntouched DEF RejectRequest, PlaceRefused, Reply, TypeOK
<1>5. ASSUME NEW r \in Requests, AcceptRequest(r)
      PROVE  TrailInv' /\ AuditComesFirst'
  BY <1>5, TrailUntouched DEF AcceptRequest, TypeOK
<1>6. ASSUME NEW r \in Requests, PlaceOrder(r) \/ RecordOrder(r) \/ RecordFill(r)
      PROVE  TrailInv' /\ AuditComesFirst'
  BY <1>6, TrailUntouched DEF PlaceOrder, RecordOrder, RecordFill, AfterStore, TypeOK
<1>7. ASSUME NEW r \in Requests, AuditPlaced(r)
      PROVE  TrailInv' /\ AuditComesFirst'
  <2> DEFINE e == [type |-> "order_placed", id |-> r]
  <2>1. /\ trail' = Append(trail, e) /\ answer' = answer /\ published' = published
        /\ pc' = [pc EXCEPT ![r] = "auditFill"]
        /\ e \in AuditEvents
    BY <1>7, EventOfOrder DEF AuditPlaced, EmitPlaced, Emit
  <2>2. \A q \in Requests :
           /\ Audited("order_placed", q) => Audited("order_placed", q)'
           /\ StoryTold(q) => StoryTold(q)'
    BY <2>1, TrailGrows
  <2>3. Len(trail') \in 1..Len(trail') /\ trail'[Len(trail')] = e
    BY <2>1 DEF TypeOK
  <2>4. Audited("order_placed", r)'
    BY <2>3 DEF Audited, At
  <2> QED
    BY <2>1, <2>2, <2>4 DEF TrailInv, AuditComesFirst, TypeOK
<1>8. ASSUME NEW r \in Requests, AuditFill(r)
      PROVE  TrailInv' /\ AuditComesFirst'
  <2> DEFINE e == [type |-> "fill", id |-> r]
  <2>1. /\ trail' = Append(trail, e) /\ answer' = answer /\ published' = published
        /\ pc' = [pc EXCEPT ![r] = "publish"] /\ pc[r] = "auditFill"
        /\ e \in AuditEvents
    BY <1>8, EventOfOrder DEF AuditFill, Emit
  <2>2. \A q \in Requests :
           /\ Audited("order_placed", q) => Audited("order_placed", q)'
           /\ StoryTold(q) => StoryTold(q)'
    BY <2>1, TrailGrows
  <2>3. PICK i \in 1..Len(trail) : At(i, "order_placed", r)
    BY <2>1 DEF TrailInv, Audited
  <2>4. /\ Len(trail') \in 1..Len(trail') /\ trail'[Len(trail')] = e
        /\ i \in 1..Len(trail') /\ i < Len(trail') /\ trail'[i] = trail[i]
    BY <2>1, <2>3 DEF TypeOK
  <2>5. StoryTold(r)'
    BY <2>3, <2>4 DEF StoryTold, At
  <2> QED
    BY <2>1, <2>2, <2>5 DEF TrailInv, AuditComesFirst, TypeOK
<1>9. ASSUME NEW r \in Requests, PublishFill(r)
      PROVE  TrailInv' /\ AuditComesFirst'
  BY <1>9, TrailUntouched DEF PublishFill, TypeOK
<1>10. ASSUME NEW r \in Requests, Respond(r)
       PROVE  TrailInv' /\ AuditComesFirst'
  BY <1>10, TrailUntouched DEF Respond, Reply, TypeOK
<1>11. ASSUME NEW r \in Requests, CancelOrder(r)
       PROVE  TrailInv' /\ AuditComesFirst'
  BY <1>11, TrailUntouched DEF CancelOrder
<1>12. ASSUME NEW r \in Requests, AuditCanceled(r)
       PROVE  TrailInv' /\ AuditComesFirst'
  <2> DEFINE e == [type |-> "order_canceled", id |-> r]
  <2>1. /\ trail' = Append(trail, e) /\ answer' = answer /\ published' = published
        /\ pc' = pc
        /\ e \in AuditEvents
    BY <1>12, EventOfOrder DEF AuditCanceled, Emit
  <2>2. \A q \in Requests :
           /\ Audited("order_placed", q) => Audited("order_placed", q)'
           /\ StoryTold(q) => StoryTold(q)'
    BY <2>1, TrailGrows
  <2> QED
    BY <2>1, <2>2 DEF TrailInv, AuditComesFirst
<1>13. CASE CancelRefused
  BY <1>13, TrailUntouched DEF CancelRefused
<1>14. CASE RotateCreds
  <2> DEFINE e == [type |-> "credential_rotation", id |-> 0]
  <2>1. /\ trail' = Append(trail, e) /\ answer' = answer /\ published' = published
        /\ pc' = pc
        /\ e \in AuditEvents
    BY <1>14, EventOfNone DEF RotateCreds, Emit
  <2>2. \A q \in Requests :
           /\ Audited("order_placed", q) => Audited("order_placed", q)'
           /\ StoryTold(q) => StoryTold(q)'
    BY <2>1, TrailGrows
  <2> QED
    BY <2>1, <2>2 DEF TrailInv, AuditComesFirst
<1> QED
  BY <1>1, <1>2, <1>3, <1>4, <1>5, <1>6, <1>7, <1>8, <1>9, <1>10, <1>11, <1>12,
     <1>13, <1>14 DEF Next, Handler

\* Nobody learns of an order before the audit trail has its whole story.
THEOREM OrderAuditComesFirst == Spec => []AuditComesFirst
<1>1. Init => TrailInv /\ AuditComesFirst
  BY DEF Init, TrailInv, AuditComesFirst
<1>2. TypeOK /\ TrailInv /\ AuditComesFirst /\ [Next]_vars
        => TrailInv' /\ AuditComesFirst'
  BY TrailStep
<1> QED
  BY OrderTyping, <1>1, <1>2, PTL DEF Spec

-----------------------------------------------------------------------------
(* Retries.                                                                *)

\* A step that sends no request, and answers errors only before a placement.
LEMMA RetryUntouched ==
  ASSUME TypeOK, RetryInv, UNCHANGED asked, NEW r \in Requests,
         \A q \in Requests \ {r} :
            pc'[q] = pc[q] /\ answer'[q] = answer[q] /\ orders'[q] = orders[q],
         \A q \in Requests : gone[q] => gone'[q],
         pc[r] # "unsent" \/ pc'[r] = "unsent",
         pc'[r] \in {"unsent", "decode", "place"} => orders'[r] = "none",
         answer[r] = "error" => answer'[r] = "error",
         answer'[r] = "error" => pc'[r] = "done" /\ orders'[r] = "none"
  PROVE  RetryInv'
<1>1. 1..Len(asked) \subseteq Requests /\ Len(asked) \in Nat
  BY OrderAssumption DEF TypeOK, Requests
<1>2. \A q \in Requests : q > Len(asked') => pc'[q] = "unsent"
  BY DEF RetryInv
<1>3. \A q \in Requests :
         /\ pc'[q] \in {"unsent", "decode", "place"} => orders'[q] = "none"
         /\ answer'[q] = "error" => pc'[q] = "done" /\ orders'[q] = "none"
  BY DEF RetryInv
<1>4. \A q \in Requests :
         gone[q] \/ answer[q] = "error" => gone'[q] \/ answer'[q] = "error"
  OBVIOUS
<1> QED
  BY <1>1, <1>2, <1>3, <1>4 DEF RetryInv

\* Every step of the callers, the handlers and the cancellations keeps it.
LEMMA RetryStep ==
  ASSUME TypeOK, RetryInv, [Next]_vars
  PROVE  RetryInv'
<1> USE DEF client, parts, cancelling, Go
<1>1. CASE UNCHANGED vars
  BY <1>1 DEF vars, RetryInv
<1>2. ASSUME NEW i \in Intents, Submit(i)
      PROVE  RetryInv'
  <2> DEFINE n == Len(asked) + 1
  <2>1. /\ asked' = Append(asked, i) /\ n \in Requests
        /\ asked \in Seq(Intents) /\ Len(asked) \in Nat
        /\ pc' = [pc EXCEPT ![n] = "decode"]
        /\ gone' = gone /\ answer' = answer /\ orders' = orders
    BY <1>2, OrderAssumption DEF Submit, TypeOK, Requests
  <2>2. /\ Len(asked') = n
        /\ asked'[n] = i
        /\ \A q \in 1..Len(asked) : asked'[q] = asked[q] /\ q \in Requests
    BY <2>1, OrderAssumption DEF Requests, TypeOK
  <2>3. orders[n] = "none" /\ answer[n] # "error"
    BY <2>1 DEF RetryInv
  <2>4. \A q \in 1..Len(asked) : asked[q] = i => gone[q] \/ answer[q] = "error"
    BY <1>2, <2>2 DEF Submit, Settled, Pending, TypeOK
  <2>5. \A r \in Requests :
           /\ r > Len(asked') => pc'[r] = "unsent"
           /\ pc'[r] \in {"unsent", "decode", "place"} => orders'[r] = "none"
           /\ answer'[r] = "error" => pc'[r] = "done" /\ orders'[r] = "none"
    BY <2>1, <2>2, <2>3 DEF RetryInv, TypeOK, Requests
  <2>6. ASSUME NEW q \in 1..Len(asked'), NEW r \in 1..Len(asked'),
               q < r, asked'[q] = asked'[r]
        PROVE  gone'[q] \/ answer'[q] = "error"
    <3>1. q \in 1..Len(asked)
      BY <2>1, <2>2, <2>6
    <3>2. CASE r = n
      BY <2>1, <2>2, <2>4, <2>6, <3>1, <3>2
    <3>3. CASE r \in 1..Len(asked)
      BY <2>1, <2>2, <2>6, <3>1, <3>3 DEF RetryInv
    <3> QED
      BY <2>1, <2>2, <3>2, <3>3
  <2> QED
    BY <2>5, <2>6 DEF RetryInv
<1>3. ASSUME NEW r \in Requests, GiveUp(r)
      PROVE  RetryInv'
  BY <1>3, RetryUntouched DEF GiveUp, TypeOK, RetryInv
<1>4. ASSUME NEW r \in Requests, RejectRequest(r) \/ PlaceRefused(r)
      PROVE  RetryInv'
  <2>1. /\ UNCHANGED <<asked, gone, orders>>
        /\ pc[r] \in {"decode", "place"} /\ pc' = [pc EXCEPT ![r] = "done"]
        /\ \A q \in Requests \ {r} : answer'[q] = answer[q]
    BY <1>4 DEF RejectRequest, PlaceRefused, Reply, TypeOK
  <2>2. orders[r] = "none" /\ answer[r] # "error"
    BY <2>1 DEF RetryInv
  <2> QED
    BY <2>1, <2>2, RetryUntouched DEF TypeOK
<1>5. ASSUME NEW r \in Requests, AcceptRequest(r)
      PROVE  RetryInv'
  BY <1>5, RetryUntouched DEF AcceptRequest, TypeOK, RetryInv
<1>6. ASSUME NEW r \in Requests, PlaceOrder(r)
      PROVE  RetryInv'
  BY <1>6, RetryUntouched DEF PlaceOrder, TypeOK, RetryInv
<1>7. ASSUME NEW r \in Requests, RecordOrder(r) \/ RecordFill(r)
      PROVE  RetryInv'
  BY <1>7, RetryUntouched DEF RecordOrder, RecordFill, AfterStore, TypeOK, RetryInv
<1>8. ASSUME NEW r \in Requests, AuditPlaced(r) \/ AuditFill(r) \/ PublishFill(r)
      PROVE  RetryInv'
  BY <1>8, RetryUntouched DEF AuditPlaced, AuditFill, PublishFill, TypeOK, RetryInv
<1>9. ASSUME NEW r \in Requests, Respond(r)
      PROVE  RetryInv'
  BY <1>9, RetryUntouched DEF Respond, Reply, TypeOK, RetryInv
<1>10. ASSUME NEW r \in Requests, CancelOrder(r)
       PROVE  RetryInv'
  BY <1>10, RetryUntouched DEF CancelOrder, TypeOK, RetryInv
<1>11. ASSUME NEW r \in Requests, AuditCanceled(r)
       PROVE  RetryInv'
  BY <1>11, RetryUntouched DEF AuditCanceled, TypeOK, RetryInv
<1>12. CASE CancelRefused \/ RotateCreds
  BY <1>12 DEF CancelRefused, RotateCreds, RetryInv
<1> QED
  BY <1>1, <1>2, <1>3, <1>4, <1>5, <1>6, <1>7, <1>8, <1>9, <1>10, <1>11, <1>12
     DEF Next, Handler

\* An order is placed twice only after its caller gave up on a request: no
\* failure of store, audit or bus makes the API answer a placed order with an
\* error.
THEOREM OrderDoubleOnlyAfterGiveUp == Spec => []DoubleOnlyAfterGiveUp
<1>1. Init => RetryInv
  BY DEF Init, RetryInv
<1>2. TypeOK /\ RetryInv /\ [Next]_vars => RetryInv'
  BY RetryStep
<1>3. TypeOK /\ RetryInv => DoubleOnlyAfterGiveUp
  <2>1. TypeOK => 1..Len(asked) \subseteq Requests
    BY OrderAssumption DEF TypeOK, Requests
  <2> QED
    BY <2>1 DEF RetryInv, DoubleOnlyAfterGiveUp
<1> QED
  BY OrderTyping, <1>1, <1>2, <1>3, PTL DEF Spec

-----------------------------------------------------------------------------
(* The handler of an order.                                                *)

\* The calls the handler of an order still makes, at most.
CallsLeft ==
    [unsent |-> 9, decode |-> 8, place |-> 7, recordOrder |-> 6, recordFill |-> 5,
     auditPlaced |-> 4, auditFill |-> 3, publish |-> 2, respond |-> 1, done |-> 0]

\* The handler of a request gets nearer to its end with every step of its own,
\* and is not set back by another request, a cancellation, or a caller that is
\* gone.
HandlerWindsUp ==
    \A r \in Requests : pc'[r] = pc[r] \/ CallsLeft[pc'[r]] < CallsLeft[pc[r]]

\* A handler makes at most nine calls, whatever goes on beside it.
THEOREM OrderHandlerIsBounded == Spec => [][HandlerWindsUp]_vars
<1>1. TypeOK /\ RetryInv /\ [Next]_vars => [HandlerWindsUp]_vars
  <2> SUFFICES ASSUME TypeOK, RetryInv, [Next]_vars, NEW q \in Requests
               PROVE  pc'[q] = pc[q] \/ CallsLeft[pc'[q]] < CallsLeft[pc[q]]
    BY DEF HandlerWindsUp
  <2>0. /\ Len(asked) \in Nat /\ MaxRequests \in Nat
        /\ pc \in [Requests -> {"unsent", "decode", "place", "recordOrder", "recordFill",
                                "auditPlaced", "auditFill", "publish", "respond", "done"}]
    BY OrderAssumption DEF TypeOK
  <2>1. ASSUME NEW i \in Intents, Submit(i)
        PROVE  pc'[q] = pc[q] \/ CallsLeft[pc'[q]] < CallsLeft[pc[q]]
    <3>1. Len(asked) + 1 \in Requests /\ Len(asked) + 1 > Len(asked)
      BY <2>0, <2>1 DEF Submit, Requests
    <3>2. pc[Len(asked) + 1] = "unsent"
      BY <3>1 DEF RetryInv
    <3> QED
      BY <2>0, <2>1, <3>1, <3>2 DEF Submit, CallsLeft
  <2>2. ASSUME NEW r \in Requests, Handler(r)
        PROVE  pc'[q] = pc[q] \/ CallsLeft[pc'[q]] < CallsLeft[pc[q]]
    <3> USE <2>0 DEF Go, CallsLeft
    <3>1. CASE RejectRequest(r) \/ AcceptRequest(r)
      BY <3>1 DEF RejectRequest, AcceptRequest
    <3>2. CASE PlaceRefused(r) \/ PlaceOrder(r)
      BY <3>2 DEF PlaceRefused, PlaceOrder
    <3>3. CASE RecordOrder(r) \/ RecordFill(r)
      BY <3>3 DEF RecordOrder, RecordFill, AfterStore
    <3>4. CASE AuditPlaced(r) \/ AuditFill(r)
      BY <3>4 DEF AuditPlaced, AuditFill
    <3>5. CASE PublishFill(r) \/ Respond(r)
      BY <3>5 DEF PublishFill, Respond
    <3> QED
      BY <2>2, <3>1, <3>2, <3>3, <3>4, <3>5 DEF Handler
  <2>3. ASSUME NEW r \in Requests, GiveUp(r) \/ CancelOrder(r) \/ AuditCanceled(r)
        PROVE  pc' = pc
    BY <2>3 DEF GiveUp, CancelOrder, AuditCanceled
  <2>4. CASE CancelRefused \/ RotateCreds \/ UNCHANGED vars
    BY <2>4 DEF CancelRefused, RotateCreds, vars
  <2> QED
    BY <2>1, <2>2, <2>3, <2>4 DEF Next
<1>2. Init => RetryInv
  BY DEF Init, RetryInv
<1>3. TypeOK /\ RetryInv /\ [Next]_vars => RetryInv'
  BY RetryStep
<1> QED
  BY <1>1, <1>2, <1>3, OrderTyping, PTL DEF Spec

-----------------------------------------------------------------------------
(* The process.                                                            *)

\* Start-up, the balances handler and the stop are no steps of the order API,
\* and every other step of the process is one.
LEMMA LifeStep ==
  ASSUME [LifeNext]_lifeVars
  PROVE  [Next]_vars
<1>1. CASE UNCHANGED lifeVars
  BY <1>1 DEF lifeVars
<1>2. CASE Start
  BY <1>2 DEF Start, OtelInit, SelectConnector, NewAuditSink, NewEventBus, NewStore,
              NewService, ListenFails, Proceed, ProceedGiven
<1>3. CASE CallersMove
  BY <1>3 DEF CallersMove, Next
<1>4. ASSUME NEW r \in Requests, HandlerMoves(r) \/ CancelMoves(r)
      PROVE  [Next]_vars
  BY <1>4 DEF HandlerMoves, CancelMoves, Next
<1>5. CASE GetBalances \/ HandleBalances
  BY <1>5 DEF GetBalances, HandleBalances, EmitBalance, PublishBalance, AnswerBalances
<1>6. CASE Stop
  BY <1>6 DEF Stop, Signal, Drained, DrainTimesOut, CloseAndExit, MainMoves
<1> QED
  BY <1>1, <1>2, <1>3, <1>4, <1>5, <1>6 DEF LifeNext

\* The process implements the order API: whatever holds of OrderService holds
\* of every process that starts, serves and stops.
THEOREM LifeRefinesOrders == LifeSafe => Spec
<1>1. LifeInit => Init
  BY DEF LifeInit
<1>2. [LifeNext]_lifeVars => [Next]_vars
  BY LifeStep
<1> QED
  BY <1>1, <1>2, PTL DEF LifeSafe, Spec

\* The safety half of EveryFillAudited: start-up, a signal and the drain do not
\* hold up a handler either.  By LifeGracefulStop's EndsTold it does not end
\* without the audit events of the order it placed.
THEOREM LifeHandlerIsBounded == LifeSafe => [][HandlerWindsUp]_vars
  BY LifeRefinesOrders, OrderHandlerIsBounded, PTL

\* What start-up has checked by the time it reaches a phase.
Checked ==
    /\ phase \in {"audit", "bus", "store", "service"} \cup Up => dev
    /\ phase \in Up => family # "otc"
    /\ family \in {"dummy", "binance", "kraken", "otc"}

\* How far StartsWhenConfigured is from the code: loadExchangeCreds and the
\* dummy's guard let no process past the connector without DEV_MODE=1, and
\* SubscribeBook lets none past NewService for the OTC desk.
ServesInDevModeOnly == phase \in Up => dev /\ family # "otc"

\* No process ever serves outside dev mode, and none for the OTC desk,
\* whatever the environment holds and whichever parts of start-up succeed.
THEOREM LifeServesInDevModeOnly == LifeSafe => []ServesInDevModeOnly
<1>1. LifeInit => Checked
  BY DEF LifeInit, Checked, Up
<1>2. Checked /\ [LifeNext]_lifeVars => Checked'
  <2> SUFFICES ASSUME Checked, [LifeNext]_lifeVars
               PROVE  Checked'
    OBVIOUS
  <2> USE DEF Checked, Up
  <2>1. CASE UNCHANGED lifeVars
    BY <2>1 DEF lifeVars, mainVars
  <2>2. CASE OtelInit \/ NewAuditSink \/ NewEventBus \/ NewStore \/ ListenFails
    BY <2>2 DEF OtelInit, NewAuditSink, NewEventBus, NewStore, ListenFails, Proceed, ProceedGiven
  <2>3. CASE SelectConnector
    BY <2>3 DEF SelectConnector, CredsLoaded, Proceed, ProceedGiven
  <2>4. CASE NewService
    BY <2>4 DEF NewService, ProceedGiven
  <2>5. CASE CallersMove
    BY <2>5 DEF CallersMove, mainVars
  <2>6. ASSUME NEW r \in Requests, HandlerMoves(r) \/ CancelMoves(r)
        PROVE  Checked'
    BY <2>6 DEF HandlerMoves, CancelMoves, mainVars
  <2>7. CASE GetBalances \/ HandleBalances
    BY <2>7 DEF GetBalances, HandleBalances, EmitBalance, PublishBalance,
                AnswerBalances, mainVars
  <2>8. CASE Stop
    BY <2>8 DEF Stop, Signal, Drained, DrainTimesOut, CloseAndExit, MainMoves
  <2> QED
    BY <2>1, <2>2, <2>3, <2>4, <2>5, <2>6, <2>7, <2>8 DEF LifeNext, Start
<1>3. Checked => ServesInDevModeOnly
  BY DEF Checked, ServesInDevModeOnly
<1> QED
  BY <1>1, <1>2, <1>3, PTL DEF LifeSafe

-----------------------------------------------------------------------------
(* The graceful stop.                                                      *)

\* A step that leaves the trail alone and ends no handler keeps EndsTold.
LEMMA EndsToldUntouched ==
  ASSUME EndsTold, UNCHANGED trail,
         \A r \in Requests :
            /\ pc'[r] = "done" => pc[r] = "done"
            /\ orders'[r] # "none" /\ pc[r] = "done" => orders[r] # "none"
            /\ answer[r] = "ok" \/ gone[r] => answer'[r] = "ok" \/ gone'[r]
  PROVE  EndsTold'
  BY DEF EndsTold, StoryTold, At

\* Every step of the order API keeps EndsTold.
LEMMA EndsToldStep ==
  ASSUME TypeOK, TrailInv, RetryInv, EndsTold, [Next]_vars
  PROVE  EndsTold'
<1> USE DEF client, parts, cancelling, Go
<1>1. CASE UNCHANGED vars
  BY <1>1, EndsToldUntouched DEF vars
<1>2. ASSUME NEW i \in Intents, Submit(i)
      PROVE  EndsTold'
  BY <1>2, EndsToldUntouched DEF Submit, TypeOK
<1>3. ASSUME NEW r \in Requests, GiveUp(r)
      PROVE  EndsTold'
  BY <1>3, EndsToldUntouched DEF GiveUp, TypeOK
<1>4. ASSUME NEW r \in Requests, RejectRequest(r) \/ PlaceRefused(r)
      PROVE  EndsTold'
  <2>1. /\ UNCHANGED <<trail, gone, orders>>
        /\ pc[r] \in {"decode", "place"} /\ pc' = [pc EXCEPT ![r] = "done"]
        /\ \A q \in Requests \ {r} : answer'[q] = answer[q]
    BY <1>4 DEF RejectRequest, PlaceRefused, Reply, TypeOK
  <2>2. orders[r] = "none"
    BY <2>1 DEF RetryInv
  <2> QED
    BY <2>1, <2>2 DEF EndsTold, StoryTold, At, TypeOK
<1>5. ASSUME NEW r \in Requests, AcceptRequest(r) \/ PlaceOrder(r)
      PROVE  EndsTold'
  BY <1>5, EndsToldUntouched DEF AcceptRequest, PlaceOrder, TypeOK
<1>6. ASSUME NEW r \in Requests, RecordOrder(r) \/ RecordFill(r) \/ PublishFill(r)
      PROVE  EndsTold'
  BY <1>6, EndsToldUntouched DEF RecordOrder, RecordFill, AfterStore, PublishFill, TypeOK
<1>7. ASSUME NEW r \in Requests, AuditPlaced(r) \/ AuditFill(r) \/ AuditCanceled(r)
      PROVE  EndsTold'
  <2>1. PICK t \in {"order_placed", "fill", "order_canceled"} :
           trail' = Append(trail, [type |-> t, id |-> r])
    BY <1>7 DEF AuditPlaced, EmitPlaced, AuditFill, AuditCanceled, Emit
  <2>2. \A q \in Requests : StoryTold(q) => StoryTold(q)'
    <3> DEFINE e == [type |-> t, id |-> r]
    <3>1. e \in AuditEvents
      BY EventOfOrder
    <3> QED
      BY <2>1, <3>1, TrailGrows
  <2>3. /\ UNCHANGED <<answer, gone, orders>>
        /\ \A q \in Requests : pc'[q] = "done" => pc[q] = "done"
    BY <1>7 DEF AuditPlaced, AuditFill, AuditCanceled, TypeOK
  <2> QED
    BY <2>2, <2>3 DEF EndsTold
<1>8. ASSUME NEW r \in Requests, Respond(r)
      PROVE  EndsTold'
  <2>1. /\ UNCHANGED <<trail, gone, orders>>
        /\ pc[r] = "respond" /\ pc' = [pc EXCEPT ![r] = "done"]
        /\ answer' = [answer EXCEPT ![r] = IF gone[r] THEN "none" ELSE "ok"]
    BY <1>8 DEF Respond, Reply
  <2>2. StoryTold(r)
    BY <2>1 DEF TrailInv
  <2>3. \A q \in Requests : StoryTold(q) => StoryTold(q)'
    BY <2>1 DEF StoryTold, At
  <2>4. answer'[r] = "ok" \/ gone'[r]
    BY <2>1 DEF TypeOK
  <2> QED
    BY <2>1, <2>2, <2>3, <2>4 DEF EndsTold, TypeOK
<1>9. ASSUME NEW r \in Requests, CancelOrder(r)
      PROVE  EndsTold'
  BY <1>9, EndsToldUntouched DEF CancelOrder, TypeOK
<1>10. CASE CancelRefused
  BY <1>10, EndsToldUntouched DEF CancelRefused
<1>11. CASE RotateCreds
  <2> DEFINE e == [type |-> "credential_rotation", id |-> 0]
  <2>1. /\ trail' = Append(trail, e) /\ e \in AuditEvents
        /\ UNCHANGED <<pc, answer, gone, orders>>
    BY <1>11, EventOfNone DEF RotateCreds, Emit
  <2>2. \A q \in Requests : StoryTold(q) => StoryTold(q)'
    BY <2>1, TrailGrows
  <2> QED
    BY <2>1, <2>2 DEF EndsTold
<1> QED
  BY <1>1, <1>2, <1>3, <1>4, <1>5, <1>6, <1>7, <1>8, <1>9, <1>10, <1>11 DEF Next, Handler

\* Every step of the process keeps StopInv.
LEMMA StopStep ==
  ASSUME StopInv, [LifeNext]_lifeVars
  PROVE  StopInv'
<1> USE DEF StopInv
<1>1. CASE UNCHANGED lifeVars
  BY <1>1 DEF lifeVars, vars, mainVars, HandlersDone
<1>2. CASE Start
  BY <1>2 DEF Start, OtelInit, SelectConnector, NewAuditSink, NewEventBus, NewStore,
              NewService, ListenFails, Proceed, ProceedGiven
<1>3. CASE CallersMove
  <2>1. CASE CallersConnect
    BY <1>3, <2>1 DEF CallersMove, CallersConnect, mainVars
  <2>2. ASSUME NEW r \in Requests, GiveUp(r)
        PROVE  StopInv'
    BY <1>3, <2>2 DEF CallersMove, GiveUp, parts, cancelling, mainVars, HandlersDone
  <2> QED
    BY <1>3, <2>1, <2>2 DEF CallersMove
<1>4. ASSUME NEW r \in Requests, HandlerMoves(r) \/ CancelMoves(r)
      PROVE  StopInv'
  <2>1. UNCHANGED <<phase, timedOut, balances>>
    BY <1>4 DEF HandlerMoves, CancelMoves, mainVars
  <2>2. ~HandlersDone
    BY <1>4 DEF HandlerMoves, CancelMoves, Handler, RejectRequest, AcceptRequest,
                PlaceRefused, PlaceOrder, RecordOrder, RecordFill, AuditPlaced,
                AuditFill, PublishFill, Respond, AuditCanceled, Go, HandlersDone
  <2> QED
    BY <2>1, <2>2
<1>5. CASE GetBalances
  BY <1>5 DEF GetBalances, CallersConnect, mainVars
<1>6. CASE HandleBalances
  <2>1. UNCHANGED <<phase, timedOut>> /\ balances.pc \in {"range", "publish"}
    BY <1>6 DEF HandleBalances, EmitBalance, PublishBalance, AnswerBalances, mainVars
  <2>2. ~HandlersDone
    BY <2>1 DEF HandlersDone
  <2>3. /\ balances' \in [pc : {"unsent", "range", "publish", "done"}, audited : SUBSET Assets]
        /\ balances'.pc # "unsent"
        /\ balances'.pc = "done" => balances'.audited \in {{}, Assets}
    <3>1. ASSUME NEW a \in Assets, EmitBalance(a)
          PROVE  /\ balances'.pc = "publish" /\ balances'.audited = balances.audited \cup {a}
                 /\ balances' \in [pc : {"publish"}, audited : SUBSET Assets]
      BY <3>1 DEF EmitBalance
    <3>2. CASE PublishBalance
      BY <3>2 DEF PublishBalance
    <3>3. CASE AnswerBalances
      BY <3>3 DEF AnswerBalances
    <3> QED
      BY <1>6, <3>1, <3>2, <3>3 DEF HandleBalances
  <2> QED
    BY <2>1, <2>2, <2>3
<1>7. CASE Stop
  BY <1>7 DEF Stop, Signal, Drained, DrainTimesOut, CloseAndExit, MainMoves, vars,
              HandlersDone
<1> QED
  BY <1>1, <1>2, <1>3, <1>4, <1>5, <1>6, <1>7 DEF LifeNext

\* A stop that does not time out loses no order, answer, cancellation or
\* balance event, for any number of requests.
THEOREM LifeGracefulStop == LifeSafe => []GracefulStop
<1>1. LifeInit => StopInv /\ EndsTold /\ TypeOK /\ TrailInv /\ AuditComesFirst /\ RetryInv
  <2> SUFFICES ASSUME LifeInit
               PROVE  StopInv /\ EndsTold /\ TypeOK /\ TrailInv /\ AuditComesFirst /\ RetryInv
    OBVIOUS
  <2>1. StopInv
    BY DEF LifeInit, StopInv, NoRequest
  <2>2. EndsTold /\ TrailInv /\ AuditComesFirst /\ RetryInv
    BY DEF LifeInit, Init, EndsTold, TrailInv, AuditComesFirst, RetryInv
  <2>3. TypeOK
    BY OrderAssumption DEF LifeInit, Init, TypeOK
  <2> QED
    BY <2>1, <2>2, <2>3
<1>2. TypeOK /\ TrailInv /\ AuditComesFirst /\ [LifeNext]_lifeVars
        => TrailInv' /\ AuditComesFirst'
  BY LifeStep, TrailStep
<1>3. TypeOK /\ RetryInv /\ [LifeNext]_lifeVars => RetryInv'
  BY LifeStep, RetryStep
<1>4. TypeOK /\ TrailInv /\ RetryInv /\ EndsTold /\ [LifeNext]_lifeVars => EndsTold'
  BY LifeStep, EndsToldStep
<1>5. StopInv /\ [LifeNext]_lifeVars => StopInv'
  BY StopStep
<1>6. TypeOK /\ RetryInv /\ EndsTold /\ StopInv => GracefulStop
  <2> SUFFICES ASSUME TypeOK, RetryInv, EndsTold, StopInv,
                      phase \in {"closing", "exited"}, ~timedOut
               PROVE  /\ \A r \in Requests : orders[r] # "none" =>
                            StoryTold(r) /\ (answer[r] = "ok" \/ gone[r])
                      /\ canceling = {}
                      /\ balances.audited \in {{}, Assets}
    BY DEF GracefulStop
  <2>1. HandlersDone
    BY DEF StopInv
  <2>2. \A r \in Requests : orders[r] # "none" => pc[r] = "done"
    BY <2>1 DEF HandlersDone, RetryInv
  <2> QED
    BY <2>1, <2>2 DEF HandlersDone, EndsTold, StopInv
<1> QED
  BY LifeRefinesOrders, OrderTyping, <1>1, <1>2, <1>3, <1>4, <1>5, <1>6, PTL
     DEF LifeSafe

=============================================================================
