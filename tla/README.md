# Verification of exchange-connectors

TLA+ models of the exchange connectors, checked with TLC on small instances,
and proofs checked with TLAPS for all values of the constants. Source paths
below are relative to the root of the repository; `PROJECT.json` maps every
modelled definition to its lines.

## 1. The system

A connector is a process that speaks to one venue (Binance, Kraken, an OTC
desk, or a dummy) and serves an HTTP API to the routing layer. Its parts:

| Part | State | Operations | Interacts with |
|---|---|---|---|
| Rate limiters (`internal/ratelimit`) | counter or used weight, start of the window, end of the back-off, behind a mutex | `Wait`, `Backoff`, `UpdateUsed`, `SetBudget` | called by the `do` of every adapter, from any number of goroutines |
| Binance and Kraken REST adapters (`internal/adapters/*`) | the counter nonces or timestamps are drawn from | place, cancel, query, fills, balances | limiter, venue |
| OTC adapter (`internal/adapters/otc`) | trades it has seen | quote then accept, query, cancel, reads | limiter, desk |
| WebSocket client (`internal/ws` `Client`) | `conn`, `closed` | `Connect`, `Run`, `WriteJSON`, `Close` | adapter goroutine, context, peer |
| Book reconstruction (`internal/ws` `BookReconstructor`, `adapters/*/book.go`) | two price maps, `lastSeq` | `ApplySnapshot`, `ApplyDiff`, `MarkGap`, `TopN` | stream handler, snapshot endpoint, update channel |
| Book aggregator (`internal/book`) | best bid and ask per pair | `consume`, `Get` | update channel, `GET /v1/book/` |
| Order API (`internal/server`) | none of its own | order, cancel, reads, balances, rotation endpoint | connector, store, audit sink, event bus, caller that may go away |
| Dummy connector (`internal/venue`) | table of orders | `PlaceOrder`, `CancelOrder`, reads | order API |
| Stores (`internal/store`) | rows of orders and fills | record, update, list | order API |
| Migrations (`internal/store/migrations`) | `schema_migrations`, the tables | `Up`, `Down` | every deployable at start-up, on one database |
| Event bus (`internal/events`) | retry loop per call | `PublishFill`, `PublishBalance` | Kafka, request context, dead-letter handler (in the program the no-op of `NewBus`) |
| Audit (`internal/audit`) | bounded queue, drop counter | `Emit`, `Close`, the loop goroutine | delegate sink; main does not construct it, the order API emits straight to the memory or Kafka sink |
| Credentials (`internal/secrets`) | current pair and lease | `Load`, `Rotate`, `RevokeOld` | vault, prober; main does not construct it |
| Process (`cmd/`) | how far it has started or stopped | start-up with its refusals, SIGTERM, `Shutdown` with a deadline | environment, all parts |
| Metrics, tracing | instruments | | |

The circuit breaker that README.md describes is not in the code, so there is
nothing to model. Two packages are in the code and not in the process:
`main.go` constructs neither `audit.AsyncSink` nor `secrets.Manager`, and it
never calls `SetDeadLetterHandler`, so a fill that is dead-lettered is handed to
a function that does nothing (`internal/events/events.go:137`).

What is hard in it, and what makes each part correct:

- **Limiters.** Time, lazily applied windows and several callers. Correct when
  what reaches the venue in any stretch of time is bounded, and when no answer,
  however late, silences the adapter for good.
- **REST adapters.** A stamp is drawn before the limiter and the network, calls
  overlap, requests arrive after their caller gave up, the process restarts.
  Correct when the venue takes the stamps, and when the status reported is true
  at the time it is read.
- **OTC orders.** Two requests make one order, and either may be refused, lost
  or answered late. Correct when one client id makes one trade and no trade is
  made behind everybody's back.
- **Book.** Snapshot and stream come from different servers, at different
  times, with gaps and reconnections. Correct when the book kept is a book the
  venue had.
- **WebSocket client.** `Close`, cancellation and the peer race with the
  goroutine. Correct when no socket is leaked, `Close` ends `Run`, and what is
  read has been subscribed.
- **Order API.** The calls of one request interleave with other requests and
  cancellations, the caller may give up, and stores and bus may fail in the
  middle. Correct when the audit trail misses nothing and is ahead of everybody
  else, and a retry does not place twice.
- **Event bus.** The writer retries inside every attempt, a write that failed
  may still land, and the request may end during the back-off. Correct when
  duplicates are bounded, order is kept and every fill is published or handed
  to the dead-letter handler.
- **Audit queue.** Emitters, loop and `Close`. Correct when it is a FIFO that
  accounts for every event.
- **Credentials.** Two reads and an install that is not atomic with them.
  Correct when no key is revoked before its successor works, and the key in use
  is not a revoked one.
- **Migrations.** Two statements per version, several processes, crashes.
  Correct when who serves has all tables.
- **Stores.** Two implementations with different keys, queries that do not ask
  for the venue, errors that are ignored, and restarts that only one of them
  survives. Correct when they differ nowhere else.
- **Process.** A chain of refusals at start-up, and a stop that waits only so
  long. Correct when what is configured starts and a stop that is not cut short
  loses nothing.

`PROJECT.json` lists the hazards one by one, at their lines.

## 2. Modules

| Module | Models | Proofs |
|---|---|---|
| `RPSLimiter` | OTC limiter and the OTC `do` | `RPSLimiterProofs` |
| `OtcDesk` (extends `RPSLimiter`) | every method of the OTC adapter over its limiter, and a desk | `RPSLimiterProofs` |
| `CounterLimiter`, `LeakyBucket` | Kraken limiter and its `do`; the abstract bucket it implements | `RestProofs` |
| `WeightedLimiter` | Binance limiter, its `do`, the venue's counter with what reaches it past the limiter | `WeightedLimiterProofs` |
| `SignedCalls` | the life of a signed call, shared by the next two | |
| `KrakenRest`, `BinanceRest` (extend `SignedCalls`) | the methods of the two adapters, their stamps, their order statuses | `RestProofs` |
| `BinanceBook` | Binance `SubscribeBook`, `BookReconstructor`, update channel, aggregator | `BinanceBookProofs` |
| `KrakenBook` | Kraken message handler, `BookReconstructor` with clock numbers, `sortLevels`, update channel, aggregator | `StreamProofs` |
| `WsClient` | `ws.Client` under the start-up of both adapters | `StreamProofs` |
| `OrderService` | order, cancel and rotation requests through connector, store, audit sink and bus | `OrderServiceProofs` |
| `ServiceLife` (extends `OrderService`) | start-up, the order API with balances in a running process, stop | `OrderServiceProofs` |
| `OrderStore` | the memory store of each venue beside the shared tables, restarts | `StoreProofs` |
| `EventBus` | `PublishFill`, `PublishBalance`, Kafka writer | `StreamProofs` |
| `AsyncSink`, `LossyFifo` | the audit queue; the abstract queue it implements | `StoreProofs` |
| `Credentials` | the credential manager and the vault | `CredentialsProofs` |
| `Migrations` | `Up` and `Down` by several deployables | `StoreProofs` |
| `MCOtc`, `MCKraken`, `MCBinance`, `MCKrakenBook`, `MCOrders`, `MCStore`, `MCUnwired` | instances of two or three modules side by side | |

Side by side means that a constant-valued variable `part` says which of the
modules moves in a behaviour; the others keep their initial state. They are
independent in the code at this level (a limiter and the nonces, a client and
the handler it calls, a handler and the attempts inside its call of
`PublishFill`), so nothing is lost by not interleaving them, and each property
is checked on all behaviours of its own module. Where two modules do interact,
one extends the other and they move together: `OtcDesk` passes through
`RPSLimiter`, `ServiceLife` through `OrderService`, and the theorems
`OtcRefinesLimiter` and `LifeRefinesOrders` say that they do so faithfully.

Conventions. An action is a stretch of code that nothing else can interleave
with: a critical section, one database statement, one vault call, one network
exchange. `pc` says where a goroutine is between two of them. A variable named
after a field is that field; history variables are marked as such in the
module (`seen`, `base`, `overlapped` and their like). A small operator such as
`HasRoom` or `ReadLoopEnds` stands for one test or assignment of the code, and
beside it stands a wrong version of the same line; substituting the wrong version makes the property that depends on
it fail, which shows that the property sees that line.

### Limiters

Times are kept as distances from now, so the state space is finite without a
horizon: `now - start` saturates at the window, the only value it is compared
with, and `backoff - now` stops at 0. `Tick` is the clock. `Wait` is three
actions (refused during back-off, refused for lack of room, admitted), each
with the lazy rollover, decay or refill the code does first, also on the paths
that then refuse. A caller is `sent` between `Wait` and the answer, so 429s of
several requests in flight overlap. An observer with a stopwatch that may be
started at any time (`StartStopwatch`) counts what is sent, so a property of
the observer is a property of every stretch of time.

`LeakyBucket` is the abstract specification of a counter that is decayed on
time; `CounterLimiter` implements it with
`level <- current minus the whole periods elapsed` and
`phase <- elapsed % Decay` (`LazyDecayIsExact`).

`WeightedLimiter` has the venue's counter beside the adapter's, with a minute
that need not be aligned with the limiter's. Steps of `do` after `Wait` are:
the venue serves the request (or it is lost), the header is read, the status is
read. A caller may also give up while the request is on its way (`GivenUp`); the
venue then counts it later (`adrift`, `ArrivesLate`) and the limiter, whose
reservation a refill may have cleared meanwhile, is not told. Nor is it told of
the snapshots that `refreshSnapshot` fetches with a client of its own
(`RefreshSnapshot`). `stray` is the weight the venue has counted in its minute
for either.

### REST adapters

`SignedCalls` has what the two adapters share: a counter set to the clock by
`NewConnector`, a stamp drawn from it before `Wait`, the request on its way, a
caller that gives up while it is (the request may still arrive: `wire`), an
answer read late, a restart that sets the counter to the clock again. The
limiter may refuse or admit at any time, which is all that a call sees of it;
what it really does is the matter of the limiter modules. The venue is external:
an order is a state and an executed volume, Kraken takes a stamp above the last
one it took, Binance one within `recvWindow` of its clock. `GetFills` and
`GetBalances` keep nothing of their answer and are calls like the others.

### OTC adapter

`OtcDesk` is composed with `RPSLimiter`: every request of every method takes
the limiter's own actions `WaitInBackoff`, `WaitExhausted`, `WaitAdmitted`,
`Answered` or `RateLimited`. `PlaceOrder` is two such requests. The desk
(external) quotes, lets quotes lapse, trades once per client id it is sent
(README.md:67-68 calls this venue-side dedup), completes, cancels and settles.
`unsure` is the history of callers that got an error after their accept was
sent.

### Binance book

A book is a function from levels to sizes; the venue is the sequence `hist` of
the books it has had; event s carries the levels in which book s differs from
book s - 1. A connection starts at a recent event, delivers in order, may skip
events and may lag by `MaxLag`, as may the snapshot. `base` (version of the
snapshot) and `anchored` (the first event applied after it joined on to it) are
history: the code does not keep them, which is what `book_integrity` is about.
The handler of a message is one action, its snapshot refresh and `emitUpdate`
included, since it runs on the read goroutine and nothing else touches the
reconstructor meanwhile.

### Kraken book

Prices are sequences of digits, because `sortLevels` compares texts; a map is
iterated in any order and sorted by the insertion of the code. The number of a
diff is the clock, so only its distance from `lastSeq` matters, and it is never
exactly one nanosecond. Of an update the first level of each side is kept,
which is what the aggregator reads. `behind` (a diff was refused as a gap since
the last whole book) and `outdated` (an update of such a book was sent) are
history: the code does not look at what `ApplyDiff` returns.

### WebSocket client

Connections are numbered by handshake. `readLoop` reads on its own copy
(`reading`) of `conn`. `Close` is two actions: it sets `closed` and copies
`conn` under the lock, and closes the copy after it. Run looks at the context
only at three places, as in the code. Both start-ups are initial states
(`byMessage`).

### Order API

One action per call the handler makes, in the order of the code, with errors of
store and bus as alternatives that are ignored where the code ignores them.
`live` is the choice of `VENUE_FAMILY`: the live adapters refuse an order
without `client_order_id`, and the API never sets one. Giving up ends the
request context, which fails the calls that look at it. What the store keeps is
the matter of `OrderStore`: here its calls return, with or without an error.
Audited means handed to the sink; the Kafka sink counts and drops an event whose
write fails.

`ServiceLife` puts a process around it. Every environment variable is read once,
so its value is chosen where it is read, and a part that refuses ends the
process; `refused` remembers that a part did so although it had been given what
its message or README.md asks for. After the signal, connections accepted earlier may still bring
requests; `Shutdown` returns when no handler runs or when its time is over
(`timedOut`), and after that main returns and takes the remaining handlers with
it. `GET /v1/balances` is a handler that audits and publishes asset by asset.

### Stores

`OrderStore` makes every call on the memory store of the calling venue and on
the shared tables, so that the two can be compared: `INSERT ... ON CONFLICT` with
its target, the primary key that is not that target, and a database that gives no
answer, whether or not it has committed. `GetOrderByClientID` and `FillsForOrder`
are the queries as they are, without the venue. `Restart` empties the memory of
one venue and leaves the tables; `missed` and `forgotten` are the history of the
two ways in which the stores come apart.

### Event bus

`events.go:69` leaves the Kafka writer (external) at its default of ten attempts
and without idempotence, so one call of `Publish` may make several copies of an
event. `tries` counts the writes inside a call; each of them is acknowledged, or
fails and is lost, or fails and is appended later (`late`), also when the call
has long returned. A call whose context has ended returns at once and leaves the
writer to its remaining writes (`WritesLeft`). Of the bus the model keeps the
order in which the first copy of each event came (`log`) and how many copies
there are (`copies`). The context may end at any time; the select in the back-off
picks either ready branch. `dead` is what was handed to the dead-letter handler,
which in the program keeps nothing of it.

### Audit queue, credentials, migrations

`AsyncSink`: `Emit` is the non-blocking send and, separately, the counting of a
drop under the lock; `Close` is the flag and, separately, closing the channel,
on which an emitter that comes later panics. `Credentials`: every vault call is
an action and the vault may be rewritten, key and secret separately, between
them. `Migrations`: every statement is an action and a process may die before
each.

## 3. Runs

Passing runs, their bounds and why these reach the interesting cases:

| Run | Instance | Shows |
|---|---|---|
| `otc` | 2 callers, limit 2, window and back-off 2 ticks, 1 client id, 2 quotes | at most twice the limit in any stretch shorter than a window (`BurstBound`); back-off ends (`BackoffEnds`); `OneTradePerOrder`, `TradeKnownOrUnsure`, `FinalStatusHolds`. Two callers place the same order, so each may hold a quote while the other trades; the limit lets one of them through to the quote and refuses its accept. |
| `kraken` | 2 callers, costs 1 and 3, budget 4, decay 2, up to 11 ticks without a call; 2 goroutines, 3 nonces, 2 clock ticks, 1 order of volume 2 | `CostBound`, and `LazyDecayIsExact`: 11 ticks empty the bucket and leave a remainder. `SerialNonces`, `KrakenVerdictHolds`: three nonces are two that overlap and one after a restart, and volume 2 has a partial state. |
| `binance` | 2 callers, weights 1 and 2, budget 2 or 1, refill 3, back-off 1, one late arrival per weight, one snapshot a minute; 1 goroutine, `recvWindow` 1, 3 clock ticks and stamps; 1 bid, 1 ask, sizes 0 and 1, 5 versions, lag 1, channel of 1 | `SequentialWithinLimit`, `BudgetRecovers`: the header can exceed a lowered budget, the venue's minute starts anywhere in the limiter's, and one request of each kind reaches the venue past the limiter. `BinanceVerdictHolds`: one goroutine is enough, since stamps are compared with the clock and not with each other. `AnchoredBookExact`: five versions are a snapshot, an applied event, a gap, a refresh and an event after it. |
| `ws_client` | 4 handshakes, back-off capped at 5 units; bids 8, 9, 10, asks 11, 12, channel of 2 | `NoSocketLeft`, `CloseEndsRun`, `CancelEndsRunUnlessReading`: four handshakes are Kraken's first and three of Run. `ReaderCatchesUp`: three bids, of two lengths, in every order of iteration. |
| `orders` | 2 requests for 2 orders, 1 request of another kind (cancel, rotation or balances of 2 assets), one life of the process; 2 publishing handlers, one with a fill and then a balance, one with a fill that has no order id, 1 retry, 2 writes per attempt | `AuditComesFirst`, `EveryFillAudited`, `DoubleOnlyAfterGiveUp`, `GracefulStop`: the second request may be a retry of the first, and requests only share the connector, the trail and the bus, so two of them and another are all pairs of interleavings. `BoundedDuplicates`, `AcknowledgedInOrder`, `ReturnedFillSettled`, `PublishReturns`: two attempts of two writes are the least in which both loops repeat, up to four copies; the code has four of ten. |
| `store` | 2 deployables, 3 migrations; 2 venues, 2 order ids, 2 client ids, 2 trade ids, orders and fills in behaviours of their own | `ReadyIsMigrated`, `AppliedInOrder`: the repository has one migration so far; three give a first, a middle and a last one. `StoresAgree`, `LostOnlyToSameId`: two of each id make every kind of collision, before and after restarts. |
| `unwired` | 2 goroutines, 3 versions of a credential; 2 emitters of 3 events, queue of 2 | The packages that main does not construct. `RevokedAfterProbe`, `SerialKeepsAlive`: three versions let one call sleep over two rotations of the vault. `FifoAudit`, `DropsCounted`, `ImplementsFifo`, `AcceptedIsDelivered`: two emitters fill the queue while the loop holds an event. |

Type invariants: those of the components are proved (section 4), so the
runs spend their properties on other things. `ws_client` checks `TypeOK` all the
same, for the cap of the back-off.

Five runs are expected to fail. Each checks one statement of the documents, and
TLC shows how the code contradicts it:

| Run | Statement | What happens |
|---|---|---|
| `book_integrity` | PROJECT_PLAN.md:98, reconnecting does not lose book integrity | events between snapshot and first event are lost unnoticed, because a snapshot leaves `lastSeq` at 0 and whatever comes first is accepted as the next event |
| `ws_resubscribe` | README.md:69-71, resubscribe after reconnect | Kraken's subscription goes to a connection that `Run` replaces at once |
| `kraken_gap` | README.md:70-71, PROJECT_PLAN.md:92 and :99, a gap forces a snapshot refresh (`GapForcesRefresh`) | a one-sided diff is numbered with the clock, so the second one is refused as a gap; the handler does not look at the refusal, asks for no snapshot and emits the book that misses the diff. `KrakenOneDiff` proves that nothing but a whole book from the venue ever mends it |
| `binance_timestamp` | PROJECT_PLAN.md:43, signed requests include a valid timestamp (`TimestampValid`) | the timestamp is the time of start-up plus the number of calls, and falls behind `recvWindow`; `BinanceBehindIsRefused` proves what that costs |
| `production_start` | main.go:124-125, the URL is required in production; README.md:27-28 and :220-222, one deployable per venue family (`StartsWhenConfigured`) | `loadExchangeCreds` is fatal with `SECRETS_MANAGER_URL` as without it; `LifeServesInDevModeOnly` proves that no process serves outside dev mode, and none for the OTC desk |

### Where the code keeps less than one would expect

Some properties hold only under a condition that the documents do not mention,
or say less than a reader of the documents expects.
The condition is part of the property, and dropping it makes TLC find the
behaviour described here:

- *Never exceed venue limits* (README.md:72). The OTC limiter counts in fixed
  windows, and the tail of one and the head of the next carry up to twice the
  limit (`BurstBound` is tight). The Binance limiter is not told of the
  snapshots of the book stream nor of requests that arrive after their caller
  gave up, and the venue's counter exceeds the limit by as much
  (`SequentialWithinLimit`). Even that bound needs that no two calls of `do`
  overlap: the used weight in the first answer is written over the reservation
  of the second request.
- *Signed requests include incrementing nonce* (PROJECT_PLAN.md:61). Drawn
  incrementing, but before the limiter and the network, so overlapping calls can
  arrive in the other order; and a restart may set the counter back
  (`SerialNonces`).
- *Every update reaches the reader.* An update is lost when the channel is full,
  until the next one that finds room, and the top of book is the best price only
  among prices of one length (`ReaderCatchesUp`).
- *Order status.* Kraken's open orders are reported as new however much of them
  is executed, and expired ones too (`KrakenVerdictHolds` bounds what may be
  relied on: filled, partial and canceled).
- *Orders are kept by venue and client id.* The primary key of the table is the
  venue order id alone: an order whose id another venue has used is not
  recorded, and its INSERT's error is ignored (`LostOnlyToSameId`). The queries
  do not ask for the venue, so `GetOrderByClientID` may return another venue's
  order and `FillsForOrder` another venue's fills with one's own; `StoresAgree`
  compares the rows of the venue that asks. The memory store has neither fault
  and loses everything on a restart.
- *Drop stale diffs* (PROJECT_PLAN.md:92). After a snapshot `lastSeq` is 0, so
  an event older than the snapshot is applied on top of it; the book is right
  again when the chain has caught up, if it was anchored (`AnchoredInv`).
- *Retries do not double-place* (README.md:67-68). The API has no field for a
  `client_order_id`; a retry after an error is safe, one after a timeout is not
  (`DoubleOnlyAfterGiveUp`). For the same reason every live adapter refuses
  every order that comes through the API.
- *Retries + dead-letter* (PROJECT_PLAN.md:148). A fill whose request ends
  during the back-off is not dead-lettered, and one that is goes to a handler
  that does nothing: `NewBus` installs it and main does not replace it.
  `ReturnedFillSettled` is about the call of the handler, and in the program as
  it is wired an exhausted fill never gets to the bus, and the error that says
  so is ignored by `handleOrdersRoot`. A fill that gets through may do so forty times
  (`BoundedDuplicates` with four attempts of ten writes each).
- *Old keys are revoked only after the connector confirms the new key is
  active* (README.md:169). Each rotation does so (`RevokedAfterProbe`), but a
  slow `Load` beside it can put the revoked pair back (`SerialKeepsAlive`), and
  `RevokeOld`, which both properties set apart, revokes the pair in use.
- *Events are keyed* (internal/events/events.go:60). They are not: messages are
  written without key. The model's log is the order of appending.
- *A process that starts has its tables.* Unless a `Down` died between its
  statement and its row, which `ReadyIsMigrated` sets apart (`interrupted`): the
  next `Up` believes the row.

Deadlock is checked in all but the runs `kraken`, `binance` and `orders`, and
those expected to fail on `BinanceBook`, `BinanceRest` and `ServiceLife`, where
the work, or the clock, is bounded and the system stops when it is done.

### Fairness

- `RPSLimiter` (`MCOtc`), `WeightedLimiter` (`MCBinance`): time passes. An answer may never come, and
  nobody need call `Wait`.
- `EventBus` (`MCOrders`): the goroutine in the retry loop runs and its timer fires; a write
  returns. That the context ends is not assumed.
- `ServiceLife` (`MCOrders`): the goroutine of an order handler runs as long as the process
  does; its calls return. That callers stay, that main gets on with its start or
  that a signal comes is not assumed.
- `AsyncSink` (`MCUnwired`): the loop goroutine runs and the delegate returns. Emitters and
  `Close` need not come.
- `WsClient` (`MCKrakenBook`): the goroutine runs, a call of `Close` gets to its end and a read
  on a socket closed by this process fails. That the peer sends or hangs up is
  not assumed.

## 4. Proofs

All are of the form `Spec => []P`, `Spec => [][A]_vars` or a refinement, for
every value of the constants under the `ASSUME` of the module. The assumptions
say that bounds are natural numbers and periods are not zero; that a budget set
later is not above the venue's limit, weights are positive and 0 is a size; that
the empty client id is not among the ids an order may carry (`PlaceOrder`
refuses it); that no event is published twice by the handlers (each has an id of
its own); that finitely many goroutines emit audit events; and that Kraken's
prices are finitely many texts of digits. Fairness is not used.

Induction over numbers is done on sets: the library proves that `<` is well
founded, so a set of numbers has a least one (`LeastNumber`), and a set with 0
that is closed under the next number has them all (`CountUp`). `Recursion` builds
from it the functions that `SortLevels` and `Value` define recursively.

| Theorem | Says | Inductive strengthening |
|---|---|---|
| `RPSTyping`, `RPSBurstBound` | `TypeOK`, `BurstBound` | `BurstInv`: what the observer saw is in the current window, or that window was opened after the observer started and the surplus fits the one before |
| `OtcRefinesLimiter`, `OtcBurstBound` | `OtcSpec => Spec` of the limiter, hence `BurstBound` of the adapter's traffic | none: each step of the adapter is one of the limiter or leaves it alone |
| `OtcOneTrade`, `OtcTradeKnown`, `OtcFinalStatus` | `OneTradePerOrder`, `TradeKnownOrUnsure`, `FinalStatusHolds` | `OtcInv`. What a caller holds between two exchanges (`CallInv`) is a quote the desk made for its own client id (`QuotedTo`), what it was told was true when it was told and final statuses last (`ReportHolds`), and an accept that went astray belongs to an id whose caller knows it. Only then does the desk's rule, one trade per id, carry over to the adapter |
| `CounterTyping`, `CounterCostBound`, `CounterRefinesBucket` | `TypeOK`, `CostBound`, `LazyDecayIsExact` | `CostInv`: what was sent is still in the bucket or has leaked. The refinement rests on lemmas about quotient and remainder (`OneTick`, `AfterDecay`) |
| `KrakenSerialNonces` | `SerialNonces` | `SignedInv` (the phases of a call and the nonces drawn, common to both adapters) and `SerialInv`: until calls overlap or a restart sets the counter back, the one nonce under way is above all the venue has seen |
| `KrakenVerdict`, `BinanceVerdict` | `KrakenVerdictHolds`, `BinanceVerdictHolds` | `SignedInv` and that every step of the venue keeps what it has answered (`VenueKeeps`) |
| `BinanceBehindIsRefused` | `BehindIsRefused`, an action property: why `TimestampValid` fails | `TimestampInv`: the last stamp is the start plus the number of calls, and no call under way has a later one |
| `WeightedTyping`, `WeightedSequential` | `TypeOK`, `SequentialWithinLimit` | `SequentialInv`: while calls do not overlap one request at most is in flight, and but for what strayed past the limiter the local counter covers the venue's and the reservation in flight |
| `BookTyping`, `AnchoredBook` | `DepthTypeOK`, `AnchoredBookExact` | `AnchoredInv` (while older events are replayed over a newer snapshot each level is the one's or the other's) and `SnapshotInv` |
| `OrderTyping`, `OrderAuditComesFirst`, `OrderDoubleOnlyAfterGiveUp` | `TypeOK`, `AuditComesFirst`, `DoubleOnlyAfterGiveUp` | `TrailInv`: by the time a handler publishes or answers, its story is in the trail. `RetryInv`: errors are answered only before the placement |
| `LifeRefinesOrders` | `LifeSafe => Spec` of the order API, so the three theorems above hold in the process | none |
| `LifeServesInDevModeOnly`, `LifeGracefulStop` | no process serves outside dev mode or for the OTC desk (how far `StartsWhenConfigured` is from the code), `GracefulStop` | past the connector only dev mode is left. `StopInv`: once `Shutdown` has returned in time no handler runs, and a balances handler ends before its first asset or after its last; `EndsTold`: a handler that placed an order ends with its story in the trail and its caller answered or gone (from `TrailInv` and `RetryInv`) |
| `CredentialsTyping`, `CredentialsRevokedAfterProbe`, `CredentialsSerial` | `TypeOK`, `RevokedAfterProbe`, `SerialKeepsAlive` | `RotationInv`: what a rotation read is no older than what it replaces, and probed before it revokes. `SerialInv`: the one call under way never steps back, and what was revoked is older than the current pair |
| `MigrationsTyping`, `MigrationsReady`, `MigrationsInOrder` | `TypeOK`, `ReadyIsMigrated`, `AppliedInOrder` | `UpInv` (the loop of Up leaves rows behind it) and `DownInv` (Down runs alone and leaves none), `RowsHaveTables` |
| `StoresAgreeUntilRestart`, `StoreLosesOnlyToSameId` | `StoresAgree`, `LostOnlyToSameId` | `StoreTypeOK`, the types, and for the first `KeysAgree`: what each store holds under one key, as sets, which a restart makes an exception of (`RestartedMem`) and no other step sets apart |
| `SinkTyping`, `SinkFifo`, `SinkDrained` | `SinkTypeOK`, `FifoAudit`, and that the loop returns only when the delegate has had everything | `QueueInv` (both together) and, for the last, `DrainedInv`: a loop that returned left a closed and empty channel |
| `SinkDropsCounted` | `DropsCounted` | `CountInv`, with the finiteness of the sets it counts |
| `SinkRefinesFifo` | `ImplementsFifo`: `SinkSpec` implements `LossyFifo` | the types. `Deliver` is the queue's `Pass`, `EmitDropped` its `Lose` (the count comes later, which the mapping makes up for), `Take` a stutter |
| `WsTyping`, `WsNoSocketLeft` | `TypeOK`, `NoSocketLeft` | `WsInv`: between two connections of `Run` nothing is open but Kraken's first, and before `Run` there was one handshake at most |
| `KrakenOneDiff` | `OnlyWholeBooks`, an action property: why `GapForcesRefresh` fails and nothing but a whole book mends it | `DiffInv`: the clock is where it was when the last diff was merged, or at least two readings on |
| `KrakenNewestIsCurrent` | the newest update on its way to the reader is one that `emitUpdate` would send of the book as it is now, unless it found the channel full | `TopInv`, with the channel within its capacity |
| `KrakenSortLevels` | `sortLevels` returns the levels it is given, every two of them in order, for lists of any length and texts of any lengths | by induction over its rounds: after n of them the first n levels are in order. The order of texts is total (`TextTotal`) and transitive (`TextTransitive`), seen from where two texts part |
| `KrakenReaderCatchesUp` | `ReaderCatchesUp` | `TopInv` again, and that the first of the sorted levels is the best one (`FirstIsBest`) and, among texts of one length, the best price (`TextIsValue`, by induction over the digits) |
| `BusTyping`, `BusBoundedDuplicates` | `BusTypeOK`, `BoundedDuplicates` | `TallyInv`: copies of an event and writes of it that may still land are together at most the writes made, over all attempts of `Publish` and of the writer inside each; a late append turns one into the other |
| `BusAcknowledgedInOrder` | `AcknowledgedInOrder` | `OrderInv`: an acknowledged event precedes whatever its handler published later, acknowledged or not; what is still ahead of the handler has no copies (from `TallyInv`), and an event is in `log` exactly if it has one |
| `BusFillSettled` | `ReturnedFillSettled` | the types |

What makes the liveness properties true without any fairness is that something
runs out. That is proved too, as action properties: a number goes down with the
steps the fairness condition promises, and no other step sets it back.

| Theorem | What runs out | Safety half of |
|---|---|---|
| `WsCloseIsBounded` | after `Close`, the five steps (`StepsToStop`) that `Run` may be away from its end | `CloseEndsRun` |
| `WsCancelIsBounded` | with the context done, the three steps to the return; there is no further handshake, and only a message from the peer takes `Run` a step back | `CancelEndsRunUnlessReading` |
| `BusPublishIsBounded` | the attempts of `Publish`, and within each the writes of the writer. What a call leaves behind is `BusFillSettled` | `PublishReturns` |
| `SinkDeliveryIsBounded` | the steps of the loop before an event's turn, two for each event ahead of it and itself (from `QueueInv`). That the loop does not return before is `SinkDrained` | `AcceptedIsDelivered` |
| `RPSBackoffIsBounded`, `OtcBackoffIsBounded` | the requests in flight, which alone can prolong a back-off | `BackoffEnds` |
| `WeightedRefusalIsBounded` | while every request is refused, the calls under way; without a step of theirs neither back-off nor used weight rises | `BudgetRecovers` |
| `OrderHandlerIsBounded`, `LifeHandlerIsBounded` | the nine calls of an order's handler (from `RetryInv`: a request number is used once). That it does not end before the audit is `EndsTold` | `EveryFillAudited` |

Only model-checked:

- liveness itself (`BackoffEnds`, `BudgetRecovers`, `PublishReturns`,
  `EveryFillAudited`, `AcceptedIsDelivered`, `CloseEndsRun`,
  `CancelEndsRunUnlessReading`): that the step which brings the number down is
  always possible and is taken, under fairness, is out of the prover's reach;
- the five statements of the documents that fail.

## 5. What the models leave out

- **Texts of sizes.** A level is set or deleted; that only `0` and the empty text
  delete one (and `0.00000000` does not) is taken from the code, not derived from texts.
- **Snapshot depth.** A snapshot is the whole book, not its first 100 levels.
- **Audit queue of size 0.** The channel has at least one slot.
- **Leases.** Not empty; a version of the api-key stands for its lease.
- **Migrations.** `Down` runs only while no deployable is up: nothing in the
  repository calls it while serving. A file is executed as a whole, and its
  statements can be repeated.
- **Binance pairs.** One pair: reconstructors of different pairs share nothing
  but the socket and the channel.
- **Kraken prices.** The digits of a price are kept and its point is not: the
  prices of a pair have the same number of decimals.
- **Kraken numbers.** Two readings of the clock are never exactly one nanosecond
  apart.
- **Venues.** Kraken, Binance and the desk are modelled from how the adapters use
  them; whether a real venue deduplicates client ids is not decided here.
- **Kafka audit sink.** Its failed writes, which it counts and drops.
- **Weight of snapshots.** One number; the venue charges by depth, and the adapter
  always asks for the same.
- **Position of later copies.** Of an event's copies on the bus only the first has
  a place.
- **Reads.** Endpoints, store queries and connector queries that keep nothing.
- **Dummy connector.** The book updates it generates.
- **Credential records, redaction, metrics, logs, traces, SFTP file, formatting**
  of requests and answers.

## 6. Plan

All parts with a state of their own have a module. What is left:

1. Failing writes of the Kafka audit sink in `ServiceLife`, and with them the
   audit theorems of the process.
2. When main comes to construct `AsyncSink` and `secrets.Manager`, their modules
   inside `ServiceLife`: `SinkDrained` then has to be asked of a process that
   exits, and `StartsWhenConfigured` of one whose credentials come from a vault.
