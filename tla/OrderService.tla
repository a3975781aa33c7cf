---------------------------- MODULE OrderService ----------------------------
(***************************************************************************)
(* The order API (internal/server handleOrdersRoot and the cancel branch   *)
(* of handleOrderSub) with the parts a request passes through: the         *)
(* connector, the store, the audit sink and the event bus.  Every request  *)
(* is a goroutine whose calls to those parts interleave with the others'.  *)
(*                                                                         *)
(* VENUE_FAMILY picks the connector at start-up.  The API has no field for *)
(* a client_order_id and the handler sets none, so the live adapters       *)
(* (Binance, Kraken, OTC) refuse every order, and the dummy connector      *)
(* makes up a fresh id: the order of request r is called r.  The dummy     *)
(* fills every order at once, in one fill.                                 *)
(***************************************************************************)
EXTENDS Naturals, Sequences

CONSTANTS
    Intents,        \* orders the upstream callers want placed
    MaxRequests,    \* bound: POST /v1/orders requests
    MaxCancels      \* bound: cancel and rotation requests

Requests == 1..MaxRequests

ASSUME OrderAssumption == MaxRequests \in Nat /\ MaxCancels \in Nat

VARIABLES
    live,       \* whether the connector is a live adapter
    asked,      \* the orders the requests sent so far ask for
    pc,         \* request -> the next call of its handler
    gone,       \* request -> its caller has given up; its context is done
    answer,     \* request -> what its caller has received
    orders,     \* DummyVenueConnector.orders: id -> status
    trail,      \* audit events in the order of their Emit calls
    published,  \* ids whose fill PublishFill put on the bus
    cancels,    \* cancel and rotation requests sent so far
    canceling   \* ids cancelled at the connector, audit event due

vars == <<live, asked, pc, gone, answer, orders, trail, published,
          cancels, canceling>>
client == <<live, asked, gone>>
parts == <<orders, trail, published>>
cancelling == <<cancels, canceling>>

Init ==
    /\ live \in BOOLEAN
    /\ asked = <<>>
    /\ pc = [r \in Requests |-> "unsent"]
    /\ gone = [r \in Requests |-> FALSE]
    /\ answer = [r \in Requests |-> "none"]
    /\ orders = [r \in Requests |-> "none"]
    /\ trail = <<>>
    /\ published = {}
    /\ cancels = 0
    /\ canceling = {}

-----------------------------------------------------------------------------
(* The callers (external): they send an order, and send it again when they  *)
(* have given up on the previous request or it was answered with an error.  *)

Settled(i) == \E r \in 1..Len(asked) : asked[r] = i /\ answer[r] = "ok"
Pending(i) ==
    \E r \in 1..Len(asked) : asked[r] = i /\ ~gone[r] /\ answer[r] = "none"

Submit(i) ==
    /\ Len(asked) < MaxRequests
    /\ ~Settled(i)
    /\ ~Pending(i)
    /\ asked' = Append(asked, i)
    /\ pc' = [pc EXCEPT ![Len(asked) + 1] = "decode"]
    /\ UNCHANGED <<live, gone, answer, parts, cancelling>>

\* A timeout or a broken connection; net/http cancels the request's context.
GiveUp(r) ==
    /\ pc[r] # "unsent"
    /\ ~gone[r]
    /\ answer[r] = "none"
    /\ gone' = [gone EXCEPT ![r] = TRUE]
    /\ UNCHANGED <<live, asked, pc, answer, parts, cancelling>>

-----------------------------------------------------------------------------
(* handleOrdersRoot.                                                       *)

\* The handler of r makes its next call.
Go(r, from, to) ==
    /\ pc[r] = from
    /\ pc' = [pc EXCEPT ![r] = to]

\* The handler returns; its answer is lost on a caller that is gone.
Reply(r, what) == answer' = [answer EXCEPT ![r] = IF gone[r] THEN "none" ELSE what]

\* 400: not JSON, a missing field, a bad amount or price.
RejectRequest(r) ==
    /\ Go(r, "decode", "done")
    /\ Reply(r, "error")
    /\ UNCHANGED <<client, parts, cancelling>>

AcceptRequest(r) ==
    /\ Go(r, "decode", "place")
    /\ UNCHANGED <<client, answer, parts, cancelling>>

\* 502: a live adapter finds no client_order_id in the request.
PlaceRefused(r) ==
    /\ live
    /\ Go(r, "place", "done")
    /\ Reply(r, "error")
    /\ UNCHANGED <<client, parts, cancelling>>

\* DummyVenueConnector.PlaceOrder: a fresh order, filled at once.
PlacedStatus == "filled"

PlaceOrder(r) ==
    /\ ~live
    /\ Go(r, "place", "recordOrder")
    /\ orders' = [orders EXCEPT ![r] = PlacedStatus]
    /\ UNCHANGED <<client, answer, trail, published, cancelling>>

\* store.RecordOrder and store.RecordFill: what became of the rows (OrderStore)
\* is not looked at, and neither is a context that is done.
RecordOrder(r) ==
    /\ Go(r, "recordOrder", "recordFill")
    /\ UNCHANGED <<client, answer, parts, cancelling>>

StopIfGone(r) == IF gone[r] THEN "done" ELSE "auditPlaced"
AfterStore(r) == "auditPlaced"

RecordFill(r) ==
    /\ Go(r, "recordFill", AfterStore(r))
    /\ UNCHANGED <<client, answer, parts, cancelling>>

Emit(type, r) == trail' = Append(trail, [type |-> type, id |-> r])

\* The audit events of the order and of its fill, in that order.
FillFirst(r) == Emit("fill", r)
EmitPlaced(r) == Emit("order_placed", r)

AuditPlaced(r) ==
    /\ Go(r, "auditPlaced", "auditFill")
    /\ EmitPlaced(r)
    /\ UNCHANGED <<client, answer, orders, published, cancelling>>

AuditFill(r) ==
    /\ Go(r, "auditFill", "publish")
    /\ Emit("fill", r)
    /\ UNCHANGED <<client, answer, orders, published, cancelling>>

\* Bus.PublishFill under the request's context; an error is ignored.
PublishFill(r) ==
    /\ Go(r, "publish", "respond")
    /\ \E ok \in BOOLEAN : published' = IF ok THEN published \cup {r} ELSE published
    /\ UNCHANGED <<client, answer, orders, trail, cancelling>>

\* 200 with the venue order id, whatever became of store and bus.
RespondIfPublished(r) ==
    /\ Go(r, "respond", "done")
    /\ Reply(r, IF r \in published THEN "ok" ELSE "error")
    /\ UNCHANGED <<client, parts, cancelling>>
Respond(r) ==
    /\ Go(r, "respond", "done")
    /\ Reply(r, "ok")
    /\ UNCHANGED <<client, parts, cancelling>>

-----------------------------------------------------------------------------
(* The cancel branch of handleOrderSub.                                    *)

\* The connector cancels: with the dummy one the order becomes canceled,
\* whatever its status, and an unknown id is no error; a live adapter passes
\* the id on to its venue, where the order was not placed by this API.
CancelOrder(r) ==
    /\ cancels < MaxCancels
    /\ cancels' = cancels + 1
    /\ r \notin canceling
    /\ canceling' = canceling \cup {r}
    /\ orders' = [orders EXCEPT ![r] = IF @ = "none" THEN @ ELSE "canceled"]
    /\ UNCHANGED <<client, pc, answer, trail, published>>

\* 502: the venue, the limiter or the network refuses a live adapter.
CancelRefused ==
    /\ live
    /\ cancels < MaxCancels
    /\ cancels' = cancels + 1
    /\ UNCHANGED <<client, pc, answer, parts, canceling>>

\* The audit event, then 200; the store is not told.
AuditCanceled(r) ==
    /\ r \in canceling
    /\ canceling' = canceling \ {r}
    /\ Emit("order_canceled", r)
    /\ UNCHANGED <<client, pc, answer, orders, published, cancels>>

\* handleRotateCreds: an audit event of no order, and nothing is rotated.
RotateCreds ==
    /\ cancels < MaxCancels
    /\ cancels' = cancels + 1
    /\ Emit("credential_rotation", 0)
    /\ UNCHANGED <<client, pc, answer, orders, published, canceling>>

Handler(r) ==
    \/ RejectRequest(r)
    \/ AcceptRequest(r)
    \/ PlaceRefused(r)
    \/ PlaceOrder(r)
    \/ RecordOrder(r)
    \/ RecordFill(r)
    \/ AuditPlaced(r)
    \/ AuditFill(r)
    \/ PublishFill(r)
    \/ Respond(r)

Next ==
    \/ \E i \in Intents : Submit(i)
    \/ CancelRefused
    \/ RotateCreds
    \/ \E r \in Requests :
          \/ GiveUp(r)
          \/ Handler(r)
          \/ CancelOrder(r)
          \/ AuditCanceled(r)

Spec == Init /\ [][Next]_vars

-----------------------------------------------------------------------------
(* Properties.                                                             *)

AuditEvents == [type : {"order_placed", "fill", "order_canceled", "credential_rotation"},
                id : 0..MaxRequests]

\* Types.
TypeOK ==
    /\ live \in BOOLEAN
    /\ asked \in Seq(Intents)
    /\ Len(asked) <= MaxRequests
    /\ pc \in [Requests -> {"unsent", "decode", "place", "recordOrder",
                            "recordFill", "auditPlaced", "auditFill",
                            "publish", "respond", "done"}]
    /\ gone \in [Requests -> BOOLEAN]
    /\ answer \in [Requests -> {"none", "ok", "error"}]
    /\ orders \in [Requests -> {"none", "filled", "canceled"}]
    /\ trail \in Seq(AuditEvents)
    /\ published \subseteq Requests
    /\ cancels \in 0..MaxCancels
    /\ canceling \subseteq Requests

At(i, type, r) == trail[i].type = type /\ trail[i].id = r
Audited(type, r) == \E i \in 1..Len(trail) : At(i, type, r)
StoryTold(r) ==
    \E i, j \in 1..Len(trail) : i < j /\ At(i, "order_placed", r) /\ At(j, "fill", r)

\* Nobody learns of an order before the audit trail does: an order that was
\* answered with 200, or whose fill is on the bus, has its placement and then
\* its fill in the trail, however requests and cancellations interleave.
AuditComesFirst ==
    \A r \in Requests : answer[r] = "ok" \/ r \in published => StoryTold(r)

\* The strengthening that makes AuditComesFirst inductive.
TrailInv ==
    \A r \in Requests :
        /\ pc[r] = "auditFill" => Audited("order_placed", r)
        /\ pc[r] \in {"publish", "respond"} => StoryTold(r)

\* A caller may retry after an error answer without owning two orders:
\* although the API drops the client_order_id that would make a retry safe,
\* an order is placed twice only after its caller gave up on an unanswered
\* request, never because a step after the placement failed.
DoubleOnlyAfterGiveUp ==
    \A q, r \in 1..Len(asked) :
        q < r /\ asked[q] = asked[r] /\ orders[q] # "none" /\ orders[r] # "none"
            => gone[q]

\* The strengthening that makes it inductive: an error is answered only before
\* the placement, and a request follows another for the same order only after
\* an error or a caller that gave up.
RetryInv ==
    /\ \A r \in Requests :
          /\ r > Len(asked) => pc[r] = "unsent"
          /\ pc[r] \in {"unsent", "decode", "place"} => orders[r] = "none"
          /\ answer[r] = "error" => pc[r] = "done" /\ orders[r] = "none"
    /\ \A q, r \in 1..Len(asked) :
          q < r /\ asked[q] = asked[r] => gone[q] \/ answer[q] = "error"

=============================================================================
