------------------------------ MODULE OtcDesk ------------------------------
(***************************************************************************)
(* The OTC adapter (internal/adapters/otc) over its request limiter: the   *)
(* two-call RFQ-then-accept PlaceOrder, GetOrder, CancelOrder, the two     *)
(* list reads, and a desk that quotes, trades and settles.  Every request  *)
(* passes Connector.do, so each step here that touches the limiter is a    *)
(* step of RPSLimiter.                                                     *)
(*                                                                         *)
(* Prices, sizes and fees are left out; a quote is its position in desk,   *)
(* and the trade made from a quote has the same number.                    *)
(***************************************************************************)
EXTENDS RPSLimiter, Sequences

CONSTANTS
    ClientIds,      \* the client_order_ids orders are placed under
    MaxQuotes       \* bound: quotes the desk gives in one behaviour

\* The empty client_order_id, which PlaceOrder refuses.
NoKey == "no key"

ASSUME OtcAssumption == MaxQuotes \in Nat /\ NoKey \notin ClientIds

VARIABLES
    call,       \* caller -> the connector method it is in
    desk,       \* the desk's quotes, and the trades made from them
    strays,     \* accepts still on the wire whose caller has given up
    orders,     \* the keys of Connector.orders
    unsure      \* client ids of accepts that were sent and never answered

deskVars == <<call, desk, strays, orders, unsure>>
otcVars == <<vars, deskVars>>

NoAnswer == [id |-> 0, status |-> "none"]
Asking(op, id, key) == [op |-> op, id |-> id, key |-> key, ans |-> NoAnswer]
Idle == Asking("none", 0, NoKey)

OtcInit ==
    /\ Init
    /\ call = [c \in Callers |-> Idle]
    /\ desk = <<>>
    /\ strays = {}
    /\ orders = {}
    /\ unsure = {}

Traded(q) == desk[q].state \notin {"quoted", "lapsed"}
Trades == {q \in DOMAIN desk : Traded(q)}

-----------------------------------------------------------------------------
(* The methods of the connector up to their first do.                      *)

Begin(c, op, id, key) ==
    /\ call[c] = Idle
    /\ call' = [call EXCEPT ![c] = Asking(op, id, key)]
    /\ UNCHANGED <<vars, desk, strays, orders, unsure>>

\* An empty client id is refused before anything happens.
PlaceOrder(c, k) == Begin(c, "rfq", 0, k)

GetOrder(c, o) == Begin(c, "order", o, NoKey)

CancelOrder(c, o) == Begin(c, "cancel", o, NoKey)

\* GetFills and GetBalances: one request, and nothing kept of its answer.
GetFills(c) == Begin(c, "read", 0, NoKey)
GetBalances(c) == Begin(c, "read", 0, NoKey)

-----------------------------------------------------------------------------
(* Connector.do: the limiter, then the request.                            *)

\* Wait refuses: the method returns, also between the quote and its accept.
Refused(c) ==
    /\ call[c] # Idle
    /\ WaitInBackoff(c) \/ WaitExhausted(c)
    /\ call' = [call EXCEPT ![c] = Idle]
    /\ UNCHANGED <<desk, strays, orders, unsure>>

Sent(c) ==
    /\ call[c] # Idle
    /\ WaitAdmitted(c)
    /\ UNCHANGED deskVars

OnTheWire(c) == pc[c] = "sent" /\ call[c].ans = NoAnswer

\* A transport error, the caller's deadline, a body that cannot be read or a
\* 5xx.  What was sent may have been executed, or be executed later.
GiveUp(c) ==
    /\ Answered(c)
    /\ call' = [call EXCEPT ![c] = Idle]
    /\ unsure' = IF call[c].op = "accept" THEN unsure \cup {call[c].key} ELSE unsure
    /\ strays' = IF call[c].op = "accept" /\ OnTheWire(c)
                 THEN strays \cup {[id |-> call[c].id, key |-> call[c].key]}
                 ELSE strays
    /\ UNCHANGED <<desk, orders>>

\* Status 429: not executed; do starts the back-off and the method returns.
TooMany(c) ==
    /\ OnTheWire(c)
    /\ RateLimited(c)
    /\ call' = [call EXCEPT ![c] = Idle]
    /\ UNCHANGED <<desk, strays, orders, unsure>>

-----------------------------------------------------------------------------
(* What the methods do with the answer.                                    *)

StatusOf(s) ==
    CASE s \in {"new", "pending", "open"} -> "new"
      [] s \in {"partial", "partially_filled"} -> "partial"
      [] s \in {"filled", "settled", "completed"} -> "filled"
      [] s \in {"canceled", "cancelled", "rejected"} -> "canceled"
      [] OTHER -> s

\* The settlement status only overrides a status that maps to new.
SettledWins(a) == IF a.settled THEN "filled" ELSE StatusOf(a.status)
OrderStatus(a) ==
    IF a.settled /\ StatusOf(a.status) = "new" THEN "filled" ELSE StatusOf(a.status)

HasAnswer(c, op) ==
    /\ call[c].op = op
    /\ call[c].ans # NoAnswer
    /\ Answered(c)

Finish(c) == call' = [call EXCEPT ![c] = Idle]

\* The client id sent along with the accept.
NoClientId(c) == NoKey
AcceptKey(c) == call[c].key

\* PlaceOrder reads the quote: a rejected or expired one is an error, any
\* other is accepted at once (ExpiresAt is not looked at).
QuoteRead(c) ==
    /\ HasAnswer(c, "rfq")
    /\ IF call[c].ans.status \in {"rejected", "expired"}
       THEN Finish(c)
       ELSE call' = [call EXCEPT ![c] = Asking("accept", call[c].ans.id, AcceptKey(c))]
    /\ UNCHANGED <<desk, strays, orders, unsure>>

\* PlaceOrder records the trade under Connector.mu and returns it.
RecordNothing(c) == orders' = orders
Record(c) == orders' = orders \cup {call[c].ans.id}

AcceptRead(c) ==
    /\ HasAnswer(c, "accept")
    /\ Record(c)
    /\ Finish(c)
    /\ UNCHANGED <<desk, strays, unsure>>

\* GetOrder returns OrderStatus of the answer; CancelOrder, GetFills and
\* GetBalances keep nothing of it either.
OtherRead(c) ==
    /\ \E op \in {"order", "cancel", "read"} : HasAnswer(c, op)
    /\ Finish(c)
    /\ UNCHANGED <<desk, strays, orders, unsure>>

-----------------------------------------------------------------------------
(* The desk (external).  It makes one trade per client id it is sent.      *)

Reply(c, ans) == call' = [call EXCEPT ![c].ans = ans]

State(q) == [id |-> q, status |-> desk[q].state, settled |-> desk[q].settled]

\* The desk answers an RFQ with a quote or with a rejection.
Quotes(c) ==
    /\ OnTheWire(c) /\ call[c].op = "rfq"
    /\ \/ /\ Len(desk) < MaxQuotes
          /\ desk' = Append(desk, [key |-> call[c].key, client |-> NoKey,
                                   state |-> "quoted", settled |-> FALSE])
          /\ Reply(c, [id |-> Len(desk) + 1, status |-> "quoted"])
       \/ Reply(c, [id |-> 0, status |-> "rejected"]) /\ UNCHANGED desk
    /\ UNCHANGED <<vars, strays, orders, unsure>>

Earlier(key) == {p \in Trades : key # NoKey /\ desk[p].client = key}

\* An accept makes the trade, or finds the one its client id already has.
Trade(q, key) ==
    \/ /\ Earlier(key) = {}
       /\ desk[q].state = "quoted"
       /\ \E s \in {"pending", "completed"} :
             desk' = [desk EXCEPT ![q].client = key, ![q].state = s]
    \/ Earlier(key) # {} /\ UNCHANGED desk

TradeMade(q, key) == IF Earlier(key) = {} THEN q ELSE CHOOSE p \in Earlier(key) : TRUE

Accepts(c) ==
    /\ OnTheWire(c) /\ call[c].op = "accept"
    /\ Trade(call[c].id, call[c].key)
    /\ LET t == TradeMade(call[c].id, call[c].key)
       IN  Reply(c, [id |-> t, status |-> desk'[t].state])
    /\ UNCHANGED <<vars, strays, orders, unsure>>

AcceptsStray(a) ==
    /\ Trade(a.id, a.key)
    /\ strays' = strays \ {a}
    /\ UNCHANGED <<vars, call, orders, unsure>>

\* A lapsed quote, a quote already traded under another id, or an order that
\* is unknown or final: a status >= 400, and the method returns an error.
Declines(c) ==
    /\ OnTheWire(c)
    /\ Answered(c)
    /\ \/ call[c].op = "accept" /\ desk[call[c].id].state # "quoted"
                                /\ Earlier(call[c].key) = {}
       \/ call[c].op = "order" /\ call[c].id \notin Trades
       \/ /\ call[c].op = "cancel"
          /\ call[c].id \in Trades => desk[call[c].id].state # "pending"
    /\ Finish(c)
    /\ UNCHANGED <<desk, strays, orders, unsure>>

Reports(c) ==
    /\ OnTheWire(c)
    /\ \/ /\ call[c].op = "order" /\ call[c].id \in Trades
          /\ Reply(c, State(call[c].id))
       \/ call[c].op = "read" /\ Reply(c, [id |-> 0, status |-> "list"])
    /\ UNCHANGED <<vars, desk, strays, orders, unsure>>

Cancels(c) ==
    /\ OnTheWire(c) /\ call[c].op = "cancel"
    /\ call[c].id \in Trades
    /\ desk[call[c].id].state = "pending" /\ ~desk[call[c].id].settled
    /\ desk' = [desk EXCEPT ![call[c].id].state = "cancelled"]
    /\ Reply(c, [id |-> call[c].id, status |-> "cancelled"])
    /\ UNCHANGED <<vars, strays, orders, unsure>>

\* Quotes lapse, trades complete, and settlement closes the file of a trade,
\* a cancelled one included.
DeskMoves(q) ==
    /\ \/ desk[q].state = "quoted" /\ desk' = [desk EXCEPT ![q].state = "lapsed"]
       \/ desk[q].state = "pending" /\ desk' = [desk EXCEPT ![q].state = "completed"]
       \/ Traded(q) /\ ~desk[q].settled /\ desk' = [desk EXCEPT ![q].settled = TRUE]
    /\ UNCHANGED <<vars, call, strays, orders, unsure>>

OtcNext ==
    \/ \E c \in Callers :
          \/ \E k \in ClientIds : PlaceOrder(c, k)
          \/ \E o \in DOMAIN desk : GetOrder(c, o) \/ CancelOrder(c, o)
          \/ GetFills(c) \/ GetBalances(c)
          \/ Refused(c) \/ Sent(c) \/ GiveUp(c) \/ TooMany(c)
          \/ QuoteRead(c) \/ AcceptRead(c) \/ OtherRead(c)
          \/ Quotes(c) \/ Accepts(c) \/ Declines(c) \/ Reports(c) \/ Cancels(c)
    \/ \E a \in strays : AcceptsStray(a)
    \/ \E q \in DOMAIN desk : DeskMoves(q)
    \/ Tick /\ UNCHANGED deskVars

OtcSpec == OtcInit /\ [][OtcNext]_otcVars

\* As in FairSpec: time passes, and nothing else is promised.
OtcFairSpec == OtcSpec /\ WF_otcVars(Tick /\ UNCHANGED deskVars)

-----------------------------------------------------------------------------
(* Properties.                                                             *)

\* However PlaceOrder is retried (two callers, a give-up after the accept was
\* sent, an accept that arrives late), one client_order_id makes one trade,
\* because the accept carries the id the RFQ was sent with.
OneTradePerOrder ==
    \A p, q \in Trades : desk[p].key = desk[q].key => p = q

\* A trade at the desk is in Connector.orders, or PlaceOrder is about to put
\* it there, or its caller was told that the accept went unanswered.
TradeKnownOrUnsure ==
    \A q \in Trades :
        \/ q \in orders
        \/ desk[q].key \in unsure
        \/ \E c \in Callers : call[c].op = "accept" /\ call[c].ans.id = q

\* A status that ends an order is never taken back by the desk, however late
\* the answer is read: what GetOrder is about to call filled is completed or
\* will be, and what it calls canceled has been cancelled, settled or not.
FinalStatusHolds ==
    \A c \in Callers :
        call[c].op = "order" /\ call[c].ans # NoAnswer =>
            LET trade == desk[call[c].id] status == OrderStatus(call[c].ans) IN
            /\ status = "filled" =>
                  \/ trade.state = "completed"
                  \/ trade.state = "pending" /\ trade.settled
            /\ status = "canceled" => trade.state = "cancelled"

=============================================================================
