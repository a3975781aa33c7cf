---------------------------- MODULE ServiceLife ----------------------------
(***************************************************************************)
(* One life of the process (cmd/exchange-connectors main): start-up, where *)
(* a part that cannot be built ends it with log.Fatalf, the order API of   *)
(* OrderService with GET /v1/balances beside it, and the stop on SIGTERM:  *)
(* Shutdown waits a few seconds for the handlers, the bus is closed, main  *)
(* returns and ends whatever handler is still running.                     *)
(*                                                                         *)
(* Each environment variable is read once, so its value is chosen where it *)
(* is read.  The endpoints that only read (status, fills, admin status,    *)
(* health, book) are left out.                                             *)
(***************************************************************************)
EXTENDS OrderService

CONSTANTS
    Assets,     \* assets in the venue's answer to GetBalances
    MaxOthers   \* bound: cancel, rotation and balances requests together

VARIABLES
    phase,      \* how far main has come
    dev,        \* DEV_MODE=1
    family,     \* VENUE_FAMILY
    refused,    \* history: main ended although the part at hand had been
                \* given what its message, or the README, asks for
    timedOut,   \* Shutdown gave up waiting for the handlers
    balances    \* the GET /v1/balances request

mainVars == <<phase, dev, family, refused, timedOut>>
lifeVars == <<vars, mainVars, balances>>

Up == {"serving", "draining", "closing"}

\* A balances handler: its next call and the assets it has audited so far.
NoRequest == [pc |-> "unsent", audited |-> {}]
Others == cancels + IF balances.pc = "unsent" THEN 0 ELSE 1

LifeInit ==
    /\ Init
    /\ phase = "otel"
    /\ dev \in BOOLEAN
    /\ family \in IF live THEN {"binance", "kraken", "otc"} ELSE {"dummy"}
    /\ refused = FALSE
    /\ timedOut = FALSE
    /\ balances = NoRequest

-----------------------------------------------------------------------------
(* Start-up, in the order of main.                                         *)

\* main makes its next call, unless the one at hand ends the process, which
\* it has reason to if it was not given what it needs.
ProceedGiven(from, given, ok, to) ==
    /\ phase = from
    /\ phase' = IF ok THEN to ELSE "fatal"
    /\ refused' = (given /\ ~ok)
    /\ UNCHANGED <<vars, dev, family, timedOut, balances>>

Proceed(from, ok, to) == ProceedGiven(from, ok, ok, to)

OtelInit == \E ok \in BOOLEAN : Proceed("otel", ok, "connector")

\* loadExchangeCreds: in production the URL is required, and the process ends
\* whether or not it is set.
UrlRequired(url) == dev \/ url
CredsLoaded(url) == dev

SelectConnector ==
    \E url \in BOOLEAN :
        IF live THEN ProceedGiven("connector", UrlRequired(url), CredsLoaded(url), "audit")
        ELSE Proceed("connector", dev, "audit")

\* Without usable brokers the audit events stay in memory, in dev mode only.
NewAuditSink == \E brokers \in BOOLEAN : Proceed("audit", brokers \/ dev, "bus")

\* No bus, and no error, if EVENT_BUS_URL is unset or cannot be parsed; the
\* handlers then publish nothing, as if every publication failed.
NewEventBus == Proceed("bus", TRUE, "store")

\* Postgres if it opens, else memory, which in this API never fails.
NewStore ==
    \E dsn \in {"unset", "opens", "fails"} :
        Proceed("store", dsn = "opens" \/ (dsn = "unset" /\ dev), "service")

\* SubscribeBook refuses the venues an empty list of pairs, and refuses OTC
\* with any.
NewService ==
    \E pairs \in BOOLEAN :
        ProceedGiven("service", family = "dummy" \/ pairs,
                     family = "dummy" \/ (family # "otc" /\ pairs), "serving")

\* ListenAndServe fails, at once or later, in its own goroutine.
ListenFails == Proceed("serving", FALSE, "serving")

Start ==
    \/ OtelInit \/ SelectConnector \/ NewAuditSink \/ NewEventBus \/ NewStore
    \/ NewService \/ ListenFails

-----------------------------------------------------------------------------
(* The order API inside the process.                                       *)

\* The listener is closed first, but a connection accepted before may still
\* send its request, until Shutdown has seen every connection closed.
CallersConnect == phase \in {"serving", "draining"} \/ (phase \in Up /\ timedOut)

HandlerMoves(r) == phase \in Up /\ Handler(r) /\ UNCHANGED <<mainVars, balances>>

CallersMove ==
    /\ \/ CallersConnect /\ \E i \in Intents : Submit(i)
       \/ /\ CallersConnect /\ Others < MaxOthers
          /\ CancelRefused \/ RotateCreds \/ \E r \in Requests : CancelOrder(r)
       \/ phase \in Up /\ \E r \in Requests : GiveUp(r)
    /\ UNCHANGED <<mainVars, balances>>

CancelMoves(r) == phase \in Up /\ AuditCanceled(r) /\ UNCHANGED <<mainVars, balances>>

-----------------------------------------------------------------------------
(* handleBalances: per asset an audit event and then an event on the bus.  *)

GetBalances ==
    /\ CallersConnect
    /\ balances.pc = "unsent"
    /\ Others < MaxOthers
    /\ \E ok \in IF live THEN BOOLEAN ELSE {TRUE} :
          balances' = [balances EXCEPT !.pc = IF ok THEN "range" ELSE "done"]
    /\ UNCHANGED <<vars, mainVars>>

\* The assets are the keys of a map, ranged over in any order.
EmitBalance(a) ==
    /\ phase \in Up
    /\ balances.pc = "range"
    /\ a \notin balances.audited
    /\ balances' = [balances EXCEPT !.pc = "publish", !.audited = @ \cup {a}]
    /\ UNCHANGED <<vars, mainVars>>

\* PublishBalance returns (EventBus); its error is ignored.
PublishBalance ==
    /\ phase \in Up
    /\ balances.pc = "publish"
    /\ balances' = [balances EXCEPT !.pc = "range"]
    /\ UNCHANGED <<vars, mainVars>>

AnswerBalances ==
    /\ phase \in Up
    /\ balances.pc = "range"
    /\ balances.audited = Assets
    /\ balances' = [balances EXCEPT !.pc = "done"]
    /\ UNCHANGED <<vars, mainVars>>

HandleBalances ==
    \/ \E a \in Assets : EmitBalance(a)
    \/ PublishBalance
    \/ AnswerBalances

-----------------------------------------------------------------------------
(* The stop.                                                               *)

MainMoves(from, to) ==
    /\ phase = from
    /\ phase' = to
    /\ UNCHANGED <<vars, dev, family, refused, balances>>

Signal == MainMoves("serving", "draining") /\ UNCHANGED timedOut

\* Shutdown returns when no connection has a handler, whether or not the
\* handler's caller is still there, or when five seconds have passed.
OnlyWaitedFor ==
    /\ \A r \in Requests : pc[r] \in {"unsent", "done"} \/ gone[r]
    /\ canceling = {}
    /\ balances.pc \in {"unsent", "done"}
HandlersDone ==
    /\ \A r \in Requests : pc[r] \in {"unsent", "done"}
    /\ canceling = {}
    /\ balances.pc \in {"unsent", "done"}

Drained == HandlersDone /\ MainMoves("draining", "closing") /\ UNCHANGED timedOut

DrainTimesOut == MainMoves("draining", "closing") /\ timedOut' = TRUE

\* The publisher is closed, which fails the publications still under way, and
\* main returns; the audit sink is not closed.
CloseAndExit == MainMoves("closing", "exited") /\ UNCHANGED timedOut

Stop == Signal \/ Drained \/ DrainTimesOut \/ CloseAndExit

LifeNext ==
    \/ Start
    \/ CallersMove
    \/ \E r \in Requests : HandlerMoves(r) \/ CancelMoves(r)
    \/ GetBalances
    \/ HandleBalances
    \/ Stop

LifeSafe == LifeInit /\ [][LifeNext]_lifeVars

\* A handler goroutine runs to its end, whether or not its caller waits, as
\* long as the process does.
LifeSpec ==
    /\ LifeSafe
    /\ \A r \in Requests : WF_lifeVars(HandlerMoves(r))

-----------------------------------------------------------------------------
(* Properties.                                                             *)

\* "one deployable per venue family (binance, kraken, otc)", and of production
\* mode: "require the URL and refuse to start without it".  A process that has
\* been given what each part of start-up asks for is not ended by that part.
StartsWhenConfigured == ~refused

\* A stop that does not time out loses nothing: once Shutdown has returned,
\* every order that reached the venue has its placement and then its fill in
\* the audit trail and its caller has the answer or is gone, every
\* cancellation is audited, and a balances answer was audited asset by asset.
GracefulStop ==
    phase \in {"closing", "exited"} /\ ~timedOut =>
        /\ \A r \in Requests :
              orders[r] # "none" => StoryTold(r) /\ (answer[r] = "ok" \/ gone[r])
        /\ canceling = {}
        /\ balances.audited \in {{}, Assets}

\* "Every order/fill lifecycle action produces an audit event": the fill of
\* an order that reached the venue is audited even if its caller is gone or a
\* stop is under way, unless the process ends before its handler does.
EveryFillAudited ==
    \A r \in Requests :
        orders[r] # "none" ~> Audited("fill", r) \/ phase = "fatal" \/ timedOut

\* What makes GracefulStop inductive: a handler that placed an order ends with
\* its story told and its caller answered, a balances handler ends before the
\* first asset or after the last, and nothing runs any more once Shutdown has
\* returned in time.
EndsTold ==
    \A r \in Requests :
        pc[r] = "done" /\ orders[r] # "none" =>
            StoryTold(r) /\ (answer[r] = "ok" \/ gone[r])
StopInv ==
    /\ balances \in [pc : {"unsent", "range", "publish", "done"}, audited : SUBSET Assets]
    /\ balances.pc = "unsent" => balances.audited = {}
    /\ balances.pc = "done" => balances.audited \in {{}, Assets}
    /\ phase \in {"closing", "exited"} /\ ~timedOut => HandlersDone

=============================================================================
