---------------------------- MODULE StreamProofs ----------------------------
(***************************************************************************)
(* Proofs about what flows between the service and the outside over long   *)
(* lived channels: the WebSocket client, the Kraken order book stream it   *)
(* feeds, and the event bus.  The three specifications share no variable   *)
(* and their theorems are about each one by itself.                        *)
(***************************************************************************)
EXTENDS WsClient, KrakenBook, EventBus, FiniteSetTheorems, SequenceTheorems,
        WellFoundedInduction, TLAPS

-----------------------------------------------------------------------------
(* The WebSocket client.                                                   *)

\* The connection made before Run, which Run never closes.
Stranded == IF byMessage THEN {1} ELSE {}

\* Where the goroutine may hold a connection that is current and open.
Holding == {"subscribe", "read", "reading", "after", "done"}

\* What NoSocketLeft needs: between two connections of Run nothing but the
\* first one is open, and the owner has dialled at most once before Run.
WsInv ==
    /\ TypeOK
    /\ open \subseteq (IF pc \in Holding THEN {conn} ELSE {}) \cup Stranded
    /\ pc = "first" => byMessage /\ dials = 0
    /\ pc = "subscribe" => byMessage /\ dials = 1 /\ conn = 1

\* The back-off stays between 100 ms and its cap.
LEMMA BackoffCapped ==
    ASSUME NEW prev \in 1..MaxBackoff, NEW d \in NextBackoff(prev)
    PROVE  d \in 1..MaxBackoff
<1>1. PICK j \in Jittered(prev) : d = IF j > MaxBackoff THEN MaxBackoff ELSE j
    BY DEF NextBackoff
<1>2. j \in Nat /\ j >= 1
    BY <1>1, WsAssumption DEF Jittered
<1> QED
    BY <1>1, <1>2, WsAssumption

LEMMA WsInitially == Init => WsInv
<1> SUFFICES ASSUME Init
             PROVE  WsInv
    OBVIOUS
<1>1. pc = IF byMessage THEN "first" ELSE "top"
    BY DEF Init
<1>2. pc \in {"first", "top"} /\ (pc = "first" => byMessage)
    BY <1>1
<1>3. 1 \in 1..MaxBackoff /\ 0 \in 0..MaxDials
    BY WsAssumption
<1>4. TypeOK
    BY <1>2, <1>3 DEF Init, TypeOK
<1> QED
    BY <1>2, <1>4 DEF Init, WsInv

LEMMA WsStep == WsInv /\ [Next]_vars => WsInv'
<1> SUFFICES ASSUME WsInv, [Next]_vars
             PROVE  WsInv'
    OBVIOUS
<1> USE WsAssumption DEF WsInv, TypeOK, Go, Stranded, Holding, Dialled
<1>1. CASE ConnectFirst
    BY <1>1 DEF ConnectFirst, Dial, stopping
<1>2. CASE ConnectFirstFails
    BY <1>2 DEF ConnectFirstFails, stopping, sockets
<1>3. CASE Subscribe
    BY <1>3 DEF Subscribe, stopping, sockets
<1>4. CASE LoopTop
    BY <1>4 DEF LoopTop, stopping, sockets
<1>5. CASE Connect
    BY <1>5 DEF Connect, Dial, stopping
<1>6. CASE ConnectFails
    <2>1. backoff' \in 1..MaxBackoff
        BY <1>6, BackoffCapped DEF ConnectFails
    <2> QED
        BY <1>6, <2>1 DEF ConnectFails, stopping, sockets
<1>7. CASE ReadMessage
    BY <1>7 DEF ReadMessage, stopping, sockets
<1>8. CASE AfterRead
    <2>1. backoff' \in 1..MaxBackoff
        BY <1>8, BackoffCapped DEF AfterRead
    <2> QED
        BY <1>8, <2>1 DEF AfterRead, OpenAfterRead, stopping
<1>9. CASE Slept
    BY <1>9 DEF Slept, stopping, sockets
<1>10. CASE ContextDone
    BY <1>10 DEF ContextDone, stopping, sockets
<1>11. CASE Message
    BY <1>11 DEF Message, stopping, sockets
<1>12. CASE ReadFails
    BY <1>12 DEF ReadFails, stopping, sockets
<1>13. CASE Close
    BY <1>13 DEF Close, sockets
<1>14. CASE CloseConn
    BY <1>14 DEF CloseConn
<1>15. CASE Cancel
    BY <1>15 DEF Cancel, sockets
<1>16. CASE UNCHANGED vars
    BY <1>16 DEF vars
<1> QED
    BY <1>1, <1>2, <1>3, <1>4, <1>5, <1>6, <1>7, <1>8, <1>9, <1>10, <1>11, <1>12,
       <1>13, <1>14, <1>15, <1>16 DEF Next, Owner

\* Type correctness of the WebSocket client; its back-off never passes the cap.
THEOREM WsTyping == Spec => []TypeOK
<1>1. WsInv => TypeOK
    BY DEF WsInv
<1> QED
    BY <1>1, WsInitially, WsStep, PTL DEF Spec

\* However Close, Run and the peer race, for any number of reconnections, no
\* socket is left open but the current one and the one the Kraken adapter
\* made before Run.
THEOREM WsNoSocketLeft == Spec => []NoSocketLeft
<1>1. WsInv => NoSocketLeft
    BY DEF WsInv, NoSocketLeft, Stranded
<1> QED
    BY <1>1, WsInitially, WsStep, PTL DEF Spec

\* How many steps the goroutine of the client still takes once Close has been
\* called, at most.
StepsToStop ==
    [first |-> 3, subscribe |-> 2, top |-> 1, connect |-> 5, read |-> 4,
     reading |-> 5, after |-> 3, sleep |-> 2, done |-> 0]

\* After Close every step of the goroutine brings it nearer to its end: it
\* may finish a handshake and read one message, and makes no other round.
ClosedWindsUp ==
    closed => closed' /\ (pc' = pc \/ StepsToStop[pc'] < StepsToStop[pc])

\* This half of CloseEndsRun holds wherever Close finds Run, in at most five
\* steps; that the goroutine takes them is the other half, and needs fairness.
THEOREM WsCloseIsBounded == Spec => [][ClosedWindsUp]_vars
<1>1. ASSUME [Next]_vars
      PROVE  [ClosedWindsUp]_vars
    <2> SUFFICES ASSUME closed
                 PROVE  closed' /\ (pc' = pc \/ StepsToStop[pc'] < StepsToStop[pc])
        BY DEF ClosedWindsUp
    <2> USE DEF Go, StepsToStop
    <2>1. CASE ConnectFirst
        BY <2>1 DEF ConnectFirst, stopping
    <2>2. CASE ConnectFirstFails
        BY <2>2 DEF ConnectFirstFails, stopping
    <2>3. CASE Subscribe
        BY <2>3 DEF Subscribe, stopping
    <2>4. CASE LoopTop
        BY <2>4 DEF LoopTop, stopping
    <2>5. CASE Connect
        BY <2>5 DEF Connect, stopping
    <2>6. CASE ConnectFails
        BY <2>6 DEF ConnectFails, stopping
    <2>7. CASE ReadMessage
        BY <2>7 DEF ReadMessage, ReadLoopEnds, stopping
    <2>8. CASE Message
        BY <2>8 DEF Message, stopping
    <2>9. CASE ReadFails
        BY <2>9 DEF ReadFails, stopping
    <2>10. CASE AfterRead
        BY <2>10 DEF AfterRead, stopping
    <2>11. CASE Slept
        BY <2>11 DEF Slept, stopping
    <2>12. CASE ContextDone
        BY <2>12 DEF ContextDone, stopping
    <2>13. CASE Close \/ CloseConn \/ Cancel \/ UNCHANGED vars
        BY <2>13 DEF Close, CloseConn, Cancel, vars
    <2> QED
        BY <1>1, <2>1, <2>2, <2>3, <2>4, <2>5, <2>6, <2>7, <2>8, <2>9, <2>10, <2>11,
           <2>12, <2>13 DEF Next, Owner
<1> QED
    BY <1>1, PTL DEF Spec

\* The same once the context is done, as far as the goroutine gets by itself.
StepsToReturn ==
    [first |-> 1, subscribe |-> 3, top |-> 2, connect |-> 1, read |-> 3,
     reading |-> 2, after |-> 1, sleep |-> 3, done |-> 0]

\* With its context done the client makes no further handshake, and nothing
\* but a message from the peer takes it a step back.
CancelledWindsUp ==
    cancelled =>
        /\ cancelled' /\ dials' = dials
        /\ \/ pc' = pc
           \/ StepsToReturn[pc'] < StepsToReturn[pc]
           \/ Message

\* This half of CancelEndsRunUnlessReading holds wherever the cancellation
\* finds Run.
THEOREM WsCancelIsBounded == Spec => [][CancelledWindsUp]_vars
<1>1. ASSUME [Next]_vars
      PROVE  [CancelledWindsUp]_vars
    <2> SUFFICES ASSUME cancelled
                 PROVE  /\ cancelled' /\ dials' = dials
                        /\ \/ pc' = pc
                           \/ StepsToReturn[pc'] < StepsToReturn[pc]
                           \/ Message
        BY DEF CancelledWindsUp
    <2> USE DEF Go, StepsToReturn
    <2>1. CASE ConnectFirst \/ Connect \/ ConnectFails \/ AfterRead
        BY <2>1 DEF ConnectFirst, Connect, ConnectFails, AfterRead, Dial, ContextEnds
    <2>2. CASE ConnectFirstFails
        BY <2>2 DEF ConnectFirstFails, stopping, sockets
    <2>3. CASE Subscribe
        BY <2>3 DEF Subscribe, stopping, sockets
    <2>4. CASE LoopTop
        BY <2>4 DEF LoopTop, stopping, sockets
    <2>5. CASE ReadMessage
        BY <2>5 DEF ReadMessage, stopping, sockets
    <2>6. CASE Message
        BY <2>6 DEF Message, stopping, sockets
    <2>7. CASE ReadFails
        BY <2>7 DEF ReadFails, stopping, sockets
    <2>8. CASE Slept
        BY <2>8 DEF Slept, stopping, sockets
    <2>9. CASE ContextDone
        BY <2>9 DEF ContextDone, stopping, sockets
    <2>10. CASE Close \/ CloseConn \/ Cancel \/ UNCHANGED vars
        BY <2>10 DEF Close, CloseConn, Cancel, vars, sockets
    <2> QED
        BY <1>1, <2>1, <2>2, <2>3, <2>4, <2>5, <2>6, <2>7, <2>8, <2>9, <2>10
           DEF Next, Owner
<1> QED
    BY <1>1, PTL DEF Spec

-----------------------------------------------------------------------------
(* The Kraken order book stream.                                           *)

\* The clock is where it was when the last diff was merged, or at least two
\* readings further.
DiffInv ==
    /\ numbered \in BOOLEAN
    /\ since \in {0, 2}

\* So a diff that finds the book numbered is refused.
LEMMA NumberedRefuses ==
    ASSUME DiffInv, numbered
    PROVE  IsStale \/ IsGap
<1>1. since = 0 \/ since > 1
    BY DEF DiffInv
<1> QED
    BY <1>1 DEF IsStale, IsGap

LEMMA DiffStep == DiffInv /\ [BookNext]_bookVars => DiffInv'
<1> SUFFICES ASSUME DiffInv, [BookNext]_bookVars
             PROVE  DiffInv'
    OBVIOUS
<1> USE DEF DiffInv
<1>1. ASSUME NEW b, NEW a, HandleDiff(b, a)
      PROVE  DiffInv'
    <2>1. CASE IsStale \/ IsGap
        BY <1>1, <2>1 DEF HandleDiff
    <2>2. CASE ~(IsStale \/ IsGap)
        BY <1>1, <2>2 DEF HandleDiff
    <2> QED
        BY <2>1, <2>2
<1>2. ASSUME NEW b, NEW a, HandleSnapshot(b, a)
      PROVE  DiffInv'
    BY <1>2 DEF HandleSnapshot
<1>3. CASE HandleUndecoded
    BY <1>3 DEF HandleUndecoded, reconstructor
<1>4. CASE Later
    BY <1>4 DEF Later
<1>5. CASE ConsumeTop
    BY <1>5 DEF ConsumeTop, reconstructor
<1>6. CASE UNCHANGED bookVars
    BY <1>6 DEF bookVars, reconstructor
<1> QED
    BY <1>1, <1>2, <1>3, <1>4, <1>5, <1>6 DEF BookNext, HandleBids, HandleAsks

\* Once a diff has numbered the book, the book changes by a whole two-sided
\* message only, and only such a message brings back a book that is behind.
OnlyWholeBooks ==
    numbered =>
        \/ UNCHANGED <<bids, asks>> /\ (behind => behind')
        \/ \E b \in SUBSET BidPrices, a \in SUBSET AskPrices : HandleSnapshot(b, a)

\* Why GapForcesRefresh fails and nothing heals it: a one-sided diff is
\* numbered with the clock, so over the life of a subscription, reconnections
\* included, the first one is merged and every later one is refused, for any
\* prices and whatever the venue sends.
THEOREM KrakenOneDiff == BookSpec => [][OnlyWholeBooks]_bookVars
<1>1. BookInit => DiffInv
    BY DEF BookInit, DiffInv
<1>2. DiffInv /\ [BookNext]_bookVars => [OnlyWholeBooks]_bookVars
    <2> SUFFICES ASSUME DiffInv, BookNext, numbered
                 PROVE  \/ UNCHANGED <<bids, asks>> /\ (behind => behind')
                        \/ \E b \in SUBSET BidPrices, a \in SUBSET AskPrices : HandleSnapshot(b, a)
        BY DEF OnlyWholeBooks
    <2>1. ASSUME NEW b, NEW a, HandleDiff(b, a)
          PROVE  UNCHANGED <<bids, asks>> /\ (behind => behind')
        BY <2>1, NumberedRefuses DEF HandleDiff
    <2>2. CASE HandleUndecoded
        BY <2>2 DEF HandleUndecoded, reconstructor
    <2>3. CASE Later
        BY <2>3 DEF Later
    <2>4. CASE ConsumeTop
        BY <2>4 DEF ConsumeTop, reconstructor
    <2> QED
        BY <2>1, <2>2, <2>3, <2>4 DEF BookNext, HandleBids, HandleAsks
<1> QED
    BY <1>1, <1>2, DiffStep, PTL DEF BookSpec

\* What an update may carry: the first levels of two non-empty sides.
Tops ==
    [bid : UNION {Firsts(b, TRUE) : b \in SUBSET BidPrices},
     ask : UNION {Firsts(a, FALSE) : a \in SUBSET AskPrices}]

\* The newest update is one that emitUpdate would send of the book as it is
\* now, unless it did not fit in the channel.
NewestIsCurrent ==
    bids # {} /\ asks # {} /\ ~skipped =>
        Newest.bid \in Firsts(bids, TRUE) /\ Newest.ask \in Firsts(asks, FALSE)

\* What it needs besides: prices of their sides, and a channel within its
\* capacity.
ChannelInv ==
    /\ bids \subseteq BidPrices
    /\ asks \subseteq AskPrices
    /\ out \in Seq(Tops)
    /\ Len(out) <= OutCap
    /\ skipped \in BOOLEAN

TopInv == ChannelInv /\ NewestIsCurrent

\* The end of every handler: emitUpdate of the book as the handler leaves it.
LEMMA EmitKeepsTop ==
    ASSUME ChannelInv, NEW b \in SUBSET BidPrices, NEW a \in SUBSET AskPrices,
           bids' = b, asks' = a, EmitUpdate(b, a)
    PROVE  TopInv'
<1>1. CASE b = {} \/ a = {}
    <2>1. UNCHANGED reader
        BY <1>1 DEF EmitUpdate
    <2>2. ChannelInv'
        BY <2>1 DEF ChannelInv, reader
    <2>3. NewestIsCurrent'
        BY <1>1 DEF NewestIsCurrent
    <2> QED
        BY <2>2, <2>3 DEF TopInv
<1>2. CASE ~(b = {} \/ a = {})
    <2>1. PICK bid \in Firsts(b, TRUE), ask \in Firsts(a, FALSE) :
             /\ out' = IF Len(out) < OutCap THEN Append(out, [bid |-> bid, ask |-> ask]) ELSE out
             /\ skipped' = (Len(out) = OutCap)
        BY <1>2 DEF EmitUpdate
    <2>2. PICK top \in Tops : top = [bid |-> bid, ask |-> ask]
        BY DEF Tops
    <2>3. Len(out) \in Nat /\ OutCap \in Nat /\ Len(out) <= OutCap /\ out \in Seq(Tops)
        BY KrakenBookAssumption DEF ChannelInv
    <2>4. CASE Len(out) < OutCap
        <3>0. Len(out) # OutCap
            BY <2>3, <2>4
        <3>1. out' = Append(out, top) /\ skipped' \in BOOLEAN
            BY <2>1, <2>2, <2>4, <3>0
        <3>2. out' \in Seq(Tops) /\ Len(out') = Len(out) + 1 /\ out'[Len(out')] = top /\ out' # <<>>
            BY <2>3, <3>1
        <3>3. Len(out') <= OutCap
            BY <2>3, <2>4, <3>2
        <3>3a. ChannelInv'
            BY <3>1, <3>2, <3>3 DEF ChannelInv
        <3>4. Newest' = top
            BY <3>2 DEF Newest, Last
        <3>5. Newest'.bid = bid /\ Newest'.ask = ask
            BY <2>2, <3>4
        <3>6. NewestIsCurrent'
            BY <3>5 DEF NewestIsCurrent
        <3> QED
            BY <3>3a, <3>6 DEF TopInv
    <2>5. CASE Len(out) = OutCap
        <3>1. ~(Len(out) < OutCap)
            BY <2>3, <2>5
        <3>2. out' = out
            BY <2>1, <3>1
        <3>3. skipped' /\ skipped' \in BOOLEAN
            BY <2>1, <2>5
        <3> QED
            BY <2>3, <3>2, <3>3 DEF ChannelInv, TopInv, NewestIsCurrent
    <2> QED
        BY <2>3, <2>4, <2>5
<1> QED
    BY <1>1, <1>2

LEMMA TopStep == TopInv /\ [BookNext]_bookVars => TopInv'
<1> SUFFICES ASSUME TopInv, [BookNext]_bookVars
             PROVE  TopInv'
    OBVIOUS
<1>0. /\ ChannelInv /\ bids \in SUBSET BidPrices /\ asks \in SUBSET AskPrices
      /\ out \in Seq(Tops)
    BY DEF TopInv, ChannelInv
<1>1. ASSUME NEW b \in SUBSET BidPrices, NEW a \in SUBSET AskPrices, HandleSnapshot(b, a)
      PROVE  TopInv'
    BY <1>0, <1>1, EmitKeepsTop DEF HandleSnapshot
<1>2. ASSUME NEW b \in SUBSET BidPrices, NEW a \in SUBSET AskPrices, HandleDiff(b, a)
      PROVE  TopInv'
    <2>1. PICK c \in SUBSET BidPrices, d \in SUBSET AskPrices :
             bids' = c /\ asks' = d /\ EmitUpdate(bids', asks')
        BY <1>0, <1>2 DEF HandleDiff, reconstructor
    <2>2. EmitUpdate(c, d)
        BY <2>1
    <2> QED
        BY <1>0, <2>1, <2>2, EmitKeepsTop
<1>3. ASSUME NEW diff \in Diffs(BidPrices), HandleBids(diff)
      PROVE  TopInv'
    <2>1. PICK b \in SUBSET BidPrices : b = Merged(bids, diff)
        BY <1>0 DEF Merged, Diffs
    <2>2. PICK a \in SUBSET AskPrices : a = asks
        BY <1>0
    <2> QED
        BY <1>2, <1>3, <2>1, <2>2 DEF HandleBids
<1>4. ASSUME NEW diff \in Diffs(AskPrices), HandleAsks(diff)
      PROVE  TopInv'
    <2>1. PICK a \in SUBSET AskPrices : a = Merged(asks, diff)
        BY <1>0 DEF Merged, Diffs
    <2>2. PICK b \in SUBSET BidPrices : b = bids
        BY <1>0
    <2> QED
        BY <1>2, <1>4, <2>1, <2>2 DEF HandleAsks
<1>5. CASE HandleUndecoded
    <2>1. PICK b \in SUBSET BidPrices, a \in SUBSET AskPrices : b = bids /\ a = asks
        BY <1>0
    <2> QED
        BY <1>0, <1>5, <2>1, EmitKeepsTop DEF HandleUndecoded, reconstructor
<1>6. CASE Later \/ UNCHANGED bookVars
    BY <1>6 DEF Later, bookVars, reconstructor, reader, TopInv, ChannelInv, NewestIsCurrent, Newest
<1>7. CASE ConsumeTop
    <2>1. /\ out # <<>> /\ latest' = <<Head(out)>> /\ out' = Tail(out)
          /\ UNCHANGED <<bids, asks, skipped>>
        BY <1>7 DEF ConsumeTop, reconstructor
    <2>2. /\ out' \in Seq(Tops) /\ Len(out') = Len(out) - 1 /\ Len(out) \in Nat
          /\ \A i \in 1..Len(out') : out'[i] = out[i + 1]
        BY <1>0, <2>1
    <2>3. ChannelInv'
        BY <1>0, <2>1, <2>2, KrakenBookAssumption DEF ChannelInv
    <2>4. Newest' = Newest
        <3>1. CASE out' = <<>>
            <4>1. Len(out) = 1
                BY <2>2, <3>1
            <4>2. Head(latest') = Head(out) /\ Head(out) = out[1]
                BY <1>0, <2>1
            <4> QED
                BY <2>1, <3>1, <4>1, <4>2 DEF Newest, Last
        <3>2. CASE out' # <<>>
            <4>1. Len(out') \in 1..Len(out')
                BY <2>2, <3>2
            <4>2. out'[Len(out')] = out[Len(out)]
                BY <2>2, <4>1
            <4> QED
                BY <2>1, <3>2, <4>2 DEF Newest, Last
        <3> QED
            BY <3>1, <3>2
    <2>5. NewestIsCurrent'
        BY <2>1, <2>4 DEF TopInv, NewestIsCurrent
    <2> QED
        BY <2>3, <2>5 DEF TopInv
<1> QED
    BY <1>1, <1>3, <1>4, <1>5, <1>6, <1>7 DEF BookNext

LEMMA TopInitially == BookInit => TopInv
<1>1. <<>> \in Seq(Tops) /\ Len(<<>>) <= OutCap
    BY KrakenBookAssumption
<1> QED
    BY <1>1 DEF BookInit, TopInv, ChannelInv, NewestIsCurrent

\* The update on its way to the reader shows the book as it is now, for any
\* prices, any channel and any consumer, unless the newest one found the
\* channel full.  What its levels are worth is KrakenReaderCatchesUp.
THEOREM KrakenNewestIsCurrent == BookSpec => []NewestIsCurrent
<1>1. TopInv => NewestIsCurrent
    BY DEF TopInv
<1> QED
    BY <1>1, TopInitially, TopStep, PTL DEF BookSpec

-----------------------------------------------------------------------------
(* Induction and recursion over the numbers up to N, from the library's    *)
(* theorem that < is well founded.  A property of numbers is the set of    *)
(* the numbers that have it.                                               *)

\* Some number of a set is the least.
LEMMA LeastNumber ==
    ASSUME NEW T \in SUBSET Nat, T # {}
    PROVE  \E x \in T : \A y \in T : x <= y
<1> DEFINE R == OpToRel(<, Nat)
<1>1. IsWellFoundedOn(R, Nat)
    BY NatLessThanWellFounded
<1>2. \A x, y \in Nat : x < y => <<x, y>> \in R
    BY DEF OpToRel
<1> HIDE DEF R
<1>3. PICK x \in T : \A y \in T : ~(<<y, x>> \in R)
    BY <1>1, WFMin
<1>4. \A y \in T : ~(y < x)
    BY <1>2, <1>3, Zenon
<1>5. \A y \in T : x <= y
    BY <1>4
<1> QED
    BY <1>5

\* A set that holds 0, and n + 1 with n, holds the numbers up to N.
LEMMA CountUp ==
    ASSUME NEW N \in Nat, NEW T, 0 \in T, \A n \in 0..(N - 1) : n \in T => n + 1 \in T
    PROVE  \A n \in 0..N : n \in T
<1> SUFFICES ASSUME {n \in 0..N : n \notin T} # {}
             PROVE  FALSE
    OBVIOUS
<1>1. PICK x \in {n \in 0..N : n \notin T} : \A y \in {n \in 0..N : n \notin T} : x <= y
    <2>1. {n \in 0..N : n \notin T} \in SUBSET Nat
        OBVIOUS
    <2> QED
        BY <2>1, LeastNumber
<1>2. x # 0
    BY <1>1
<1>3. x - 1 \in 0..(N - 1) /\ (x - 1) + 1 = x
    BY <1>1, <1>2
<1>4. x - 1 \in T
    BY <1>1, <1>3
<1> QED
    BY <1>1, <1>3, <1>4

\* A function given by its value c at 0 and by the step s from n - 1 to n.
Recurs(g, N, X, c, s) ==
    /\ g \in [0..N -> X]
    /\ g[0] = c
    /\ \A n \in 1..N : g[n] = s[<<g[n - 1], n>>]

\* Such a function exists, whatever the step.
LEMMA Recursion ==
    ASSUME NEW N \in Nat, NEW X, NEW c \in X, NEW s \in [X \X (1..N) -> X]
    PROVE  \E g : Recurs(g, N, X, c, s)
<1> DEFINE Good(g, m) == g[0] = c /\ \A n \in 1..m : g[n] = s[<<g[n - 1], n>>]
           T == {m \in 0..N : \E g \in [0..m -> X] : Good(g, m)}
<1>1. 0 \in T
    <2>1. PICK g \in [0..0 -> X] : g = [k \in 0..0 |-> c]
        OBVIOUS
    <2>2. Good(g, 0)
        BY <2>1
    <2> HIDE DEF Good
    <2> QED
        BY <2>2
<1>2. \A m \in 0..(N - 1) : m \in T => m + 1 \in T
    <2> SUFFICES ASSUME NEW m \in 0..(N - 1), m \in T
                 PROVE  m + 1 \in T
        OBVIOUS
    <2>1. PICK g \in [0..m -> X] : Good(g, m)
        OBVIOUS
    <2>2. m \in 0..m /\ m + 1 \in 1..N /\ m + 1 \in 0..N
        OBVIOUS
    <2>3. s[<<g[m], m + 1>>] \in X
        BY <2>2
    <2>4. PICK e \in X : e = s[<<g[m], m + 1>>]
        BY <2>3
    <2>5. PICK h \in [0..(m + 1) -> X] : h = [k \in 0..(m + 1) |-> IF k = m + 1 THEN e ELSE g[k]]
        <3>1. \A k \in 0..(m + 1) : k # m + 1 => g[k] \in X
            OBVIOUS
        <3> QED
            BY <3>1
    <2>6. ASSUME NEW n \in 1..(m + 1)
          PROVE  h[n] = s[<<h[n - 1], n>>]
        <3>1. h[n - 1] = g[n - 1]
            BY <2>5
        <3>2. CASE n = m + 1
            <4>1. h[n] = e /\ n - 1 = m
                BY <2>5, <3>2
            <4> QED
                BY <2>4, <3>1, <3>2, <4>1
        <3>3. CASE n # m + 1
            <4>1. n \in 1..m /\ h[n] = g[n]
                BY <2>5, <3>3
            <4> QED
                BY <2>1, <3>1, <4>1
        <3> QED
            BY <3>2, <3>3
    <2>7. Good(h, m + 1)
        <3>1. h[0] = c
            BY <2>1, <2>5
        <3> QED
            BY <2>6, <3>1
    <2>8. \E f \in [0..(m + 1) -> X] : Good(f, m + 1)
        <3> HIDE DEF Good
        <3> QED
            BY <2>7
    <2> HIDE DEF Good
    <2> QED
        BY <2>2, <2>8
<1>3. N \in T
    <2> HIDE DEF T
    <2> QED
        BY <1>1, <1>2, CountUp
<1> QED
    BY <1>3 DEF Recurs

-----------------------------------------------------------------------------
(* The texts of prices, as sortLevels compares them.                       *)

\* The texts a price may have.
Texts == Seq(0..9)

\* p and q agree up to i, where p has ended or has the smaller digit.
Parts(p, q, i) ==
    /\ i <= Len(q)
    /\ \A j \in 1..(i - 1) : j <= Len(p) /\ p[j] = q[j]
    /\ i <= Len(p) => p[i] < q[i]

\* The order of texts, prefixes included, is decided where they part.
LEMMA TextLessParts ==
    ASSUME NEW p \in Texts, NEW q \in Texts
    PROVE  TextLess(p, q) <=> \E i \in Nat \ {0} : Parts(p, q, i)
<1> USE DEF Texts
<1>1. ASSUME IsStrictPrefix(p, q)
      PROVE  Parts(p, q, Len(p) + 1)
    <2>1. Len(p) <= Len(q) /\ p # q /\ SubSeq(p, 1, Len(p)) = SubSeq(q, 1, Len(p))
        BY <1>1 DEF IsStrictPrefix, IsPrefix
    <2>2. \A j \in 1..Len(p) : p[j] = q[j]
        <3> SUFFICES ASSUME NEW j \in 1..Len(p)
                     PROVE  p[j] = q[j]
            OBVIOUS
        <3>1. SubSeq(p, 1, Len(p))[j] = p[j] /\ SubSeq(q, 1, Len(p))[j] = q[j]
            BY <2>1
        <3> QED
            BY <2>1, <3>1
    <2>3. Len(p) # Len(q)
        <3> SUFFICES ASSUME Len(p) = Len(q)
                     PROVE  FALSE
            OBVIOUS
        <3>1. p = q
            BY <2>2
        <3> QED
            BY <2>1, <3>1
    <2> QED
        BY <2>1, <2>2, <2>3 DEF Parts
<1>2. ASSUME NEW i \in 1..Len(p), i <= Len(q), SubSeq(p, 1, i - 1) = SubSeq(q, 1, i - 1), p[i] < q[i]
      PROVE  Parts(p, q, i)
    <2>1. ASSUME NEW j \in 1..(i - 1)
          PROVE  p[j] = q[j]
        <3>1. SubSeq(p, 1, i - 1)[j] = p[j] /\ SubSeq(q, 1, i - 1)[j] = q[j]
            BY <1>2
        <3> QED
            BY <1>2, <3>1
    <2> QED
        BY <1>2, <2>1 DEF Parts
<1>3. ASSUME NEW i \in Nat \ {0}, Parts(p, q, i)
      PROVE  TextLess(p, q)
    <2>1. CASE i <= Len(p)
        <3>1. SubSeq(p, 1, i - 1) = SubSeq(q, 1, i - 1)
            BY <1>3, <2>1 DEF Parts
        <3> QED
            BY <1>3, <2>1, <3>1 DEF Parts, TextLess
    <2>2. CASE ~(i <= Len(p))
        <3>1. i = Len(p) + 1
            <4> SUFFICES ASSUME i # Len(p) + 1
                         PROVE  FALSE
                OBVIOUS
            <4>1. Len(p) + 1 \in 1..(i - 1)
                BY <2>2
            <4>2. Len(p) + 1 <= Len(p)
                BY <1>3, <4>1 DEF Parts
            <4> QED
                BY <4>2
        <3>2. Len(p) < Len(q) /\ \A j \in 1..Len(p) : p[j] = q[j]
            BY <1>3, <3>1 DEF Parts
        <3>3. SubSeq(p, 1, Len(p)) = SubSeq(q, 1, Len(p))
            BY <3>2
        <3> QED
            BY <3>2, <3>3 DEF TextLess, IsStrictPrefix, IsPrefix
    <2> QED
        BY <2>1, <2>2
<1>4. ASSUME TextLess(p, q)
      PROVE  \E i \in Nat \ {0} : Parts(p, q, i)
    <2>1. CASE IsStrictPrefix(p, q)
        <3>1. Len(p) + 1 \in Nat \ {0}
            OBVIOUS
        <3> QED
            BY <1>1, <2>1, <3>1
    <2>2. CASE ~IsStrictPrefix(p, q)
        <3>1. PICK i \in 1..Len(p) :
                  i <= Len(q) /\ SubSeq(p, 1, i - 1) = SubSeq(q, 1, i - 1) /\ p[i] < q[i]
            BY <1>4, <2>2 DEF TextLess
        <3>2. Parts(p, q, i)
            BY <1>2, <3>1
        <3> QED
            BY <3>2
    <2> QED
        BY <2>1, <2>2
<1> QED
    BY <1>3, <1>4

\* Of two different texts one is less than the other.
LEMMA TextTotal ==
    ASSUME NEW p \in Texts, NEW q \in Texts, p # q
    PROVE  TextLess(p, q) \/ TextLess(q, p)
<1> DEFINE Ends == {i \in Nat \ {0} : i > Len(p) \/ i > Len(q) \/ p[i] # q[i]}
<1>1. Len(p) + 1 \in Ends /\ Ends \in SUBSET Nat
    BY DEF Texts
<1>2. PICK i \in Ends : \A j \in Ends : i <= j
    BY <1>1, LeastNumber
<1>3. ASSUME NEW j \in 1..(i - 1)
      PROVE  j <= Len(p) /\ j <= Len(q) /\ p[j] = q[j]
    <2>1. j \in Nat \ {0} /\ j \notin Ends
        BY <1>2
    <2> QED
        BY <2>1 DEF Texts
<1>4. i <= Len(p) \/ i <= Len(q)
    <2> SUFFICES ASSUME i > Len(p), i > Len(q)
                 PROVE  FALSE
        BY DEF Texts
    <2>1. Len(p) = Len(q)
        <3>1. ~(Len(p) < Len(q))
            <4> SUFFICES ASSUME Len(p) < Len(q)
                         PROVE  FALSE
                OBVIOUS
            <4>1. Len(q) \in 1..(i - 1)
                BY <1>2 DEF Texts
            <4>2. Len(q) <= Len(p)
                BY <1>3, <4>1
            <4> QED
                BY <4>2 DEF Texts
        <3>2. ~(Len(q) < Len(p))
            <4> SUFFICES ASSUME Len(q) < Len(p)
                         PROVE  FALSE
                OBVIOUS
            <4>1. Len(p) \in 1..(i - 1)
                BY <1>2 DEF Texts
            <4>2. Len(p) <= Len(q)
                BY <1>3, <4>1
            <4> QED
                BY <4>2 DEF Texts
        <3> QED
            BY <3>1, <3>2 DEF Texts
    <2>2. \A j \in 1..Len(p) : p[j] = q[j]
        BY <1>2, <1>3 DEF Texts
    <2> QED
        BY <2>1, <2>2 DEF Texts
<1>5. Parts(p, q, i) \/ Parts(q, p, i)
    <2>1. CASE i > Len(p)
        BY <1>2, <1>3, <1>4, <2>1 DEF Parts, Texts
    <2>2. CASE i > Len(q)
        BY <1>2, <1>3, <1>4, <2>2 DEF Parts, Texts
    <2>3. CASE ~(i > Len(p)) /\ ~(i > Len(q))
        <3>1. i \in 1..Len(p) /\ i \in 1..Len(q) /\ p[i] # q[i]
            BY <1>2, <2>3 DEF Texts
        <3>2. p[i] \in 0..9 /\ q[i] \in 0..9
            BY <3>1 DEF Texts
        <3>3. p[i] < q[i] \/ q[i] < p[i]
            BY <3>1, <3>2
        <3> QED
            BY <1>3, <3>1, <3>3 DEF Parts, Texts
    <2> QED
        BY <2>1, <2>2, <2>3
<1> QED
    BY <1>5, TextLessParts

\* The order of texts is transitive.
LEMMA TextTransitive ==
    ASSUME NEW p \in Texts, NEW q \in Texts, NEW r \in Texts,
           TextLess(p, q), TextLess(q, r)
    PROVE  TextLess(p, r)
<1>1. PICK i \in Nat \ {0} : Parts(p, q, i)
    BY TextLessParts
<1>2. PICK k \in Nat \ {0} : Parts(q, r, k)
    BY TextLessParts
<1>3. CASE i < k
    <2>1. i <= Len(q) /\ i \in 1..(k - 1) /\ q[i] = r[i]
        BY <1>1, <1>2, <1>3 DEF Parts
    <2>2. i <= Len(r)
        BY <1>1, <1>2, <1>3 DEF Parts, Texts
    <2>3. \A j \in 1..(i - 1) : j <= Len(p) /\ p[j] = r[j]
        BY <1>1, <1>2, <1>3 DEF Parts
    <2>4. Parts(p, r, i)
        BY <1>1, <2>1, <2>2, <2>3 DEF Parts
    <2> QED
        BY <2>4, TextLessParts
<1>4. CASE k < i
    <2>1. k \in 1..(i - 1) /\ k <= Len(p) /\ p[k] = q[k] /\ k <= Len(q)
        BY <1>1, <1>4 DEF Parts, Texts
    <2>2. \A j \in 1..(k - 1) : j <= Len(p) /\ p[j] = r[j]
        BY <1>1, <1>2, <1>4 DEF Parts
    <2>3. Parts(p, r, k)
        BY <1>2, <2>1, <2>2 DEF Parts
    <2> QED
        BY <2>3, TextLessParts
<1>5. CASE i = k
    <2>1. \A j \in 1..(i - 1) : j <= Len(p) /\ p[j] = r[j]
        BY <1>1, <1>2, <1>5 DEF Parts
    <2>2. ASSUME i <= Len(p)
          PROVE  p[i] < r[i]
        <3>1. i <= Len(q) /\ i <= Len(r) /\ p[i] < q[i] /\ q[i] < r[i]
            BY <1>1, <1>2, <1>5, <2>2 DEF Parts
        <3>2. p[i] \in 0..9 /\ q[i] \in 0..9 /\ r[i] \in 0..9
            BY <2>2, <3>1 DEF Texts
        <3> QED
            BY <3>1, <3>2
    <2>3. Parts(p, r, i)
        BY <1>2, <1>5, <2>1, <2>2 DEF Parts
    <2> QED
        BY <2>3, TextLessParts
<1> QED
    BY <1>3, <1>4, <1>5

-----------------------------------------------------------------------------
(* sortLevels, the top of book and the price it shows.                     *)

\* Every two levels are in order.
InOrder(s, descending) ==
    \A i, j \in 1..Len(s) : i < j => StaysBefore(s[i], s[j], descending)

\* One round of sortLevels puts q at some place, behind a level that stays in
\* front of it and ahead of levels that do not.
LEMMA InsertedTyping ==
    ASSUME NEW P \in SUBSET Texts, NEW s \in Seq(P), NEW q \in P, NEW descending
    PROVE  \E r \in Seq(P), at \in 1..(Len(s) + 1) :
              /\ r = Inserted(s, q, descending)
              /\ Len(r) = Len(s) + 1
              /\ \A k \in 1..(at - 1) : r[k] = s[k]
              /\ r[at] = q
              /\ \A k \in at..Len(s) : r[k + 1] = s[k]
              /\ at # 1 => StaysBefore(s[at - 1], q, descending)
              /\ \A k \in at..Len(s) : ~StaysBefore(s[k], q, descending)
<1> DEFINE stop == {k \in DOMAIN s : StaysBefore(s[k], q, descending)}
           at == IF stop = {} THEN 1 ELSE Max(stop) + 1
<1>1. stop # {} => Max(stop) \in stop /\ \A k \in stop : Max(stop) >= k
    <2> SUFFICES ASSUME stop # {}
                 PROVE  Max(stop) \in stop /\ \A k \in stop : Max(stop) >= k
        OBVIOUS
    <2> DEFINE above == {n \in Nat : \A k \in stop : n >= k}
    <2>0. stop \subseteq 1..Len(s)
        OBVIOUS
    <2> HIDE DEF stop
    <2>1. Len(s) \in above /\ above \in SUBSET Nat
        BY <2>0
    <2>2. PICK m \in above : \A n \in above : m <= n
        BY <2>1, LeastNumber
    <2>3. m \in stop
        <3> SUFFICES ASSUME m \notin stop
                     PROVE  FALSE
            OBVIOUS
        <3>1. \A k \in stop : k \in Nat /\ m >= k /\ k # m
            BY <2>0, <2>2
        <3>2. PICK k \in stop : TRUE
            OBVIOUS
        <3>3. m - 1 \in Nat
            BY <2>2, <3>1, <3>2
        <3>4. m - 1 \in above
            BY <2>2, <3>1, <3>3
        <3> QED
            BY <2>2, <3>4
    <2>4. \E x \in stop : \A y \in stop : x >= y
        BY <2>2, <2>3
    <2> QED
        BY <2>4 DEF Max
<1>2. at \in 1..(Len(s) + 1)
    BY <1>1
<1>3. at # 1 => StaysBefore(s[at - 1], q, descending)
    <2> SUFFICES ASSUME at # 1
                 PROVE  StaysBefore(s[at - 1], q, descending)
        OBVIOUS
    <2>1. Max(stop) \in stop /\ at - 1 = Max(stop)
        BY <1>1
    <2> QED
        BY <2>1
<1>4. \A k \in at..Len(s) : ~StaysBefore(s[k], q, descending)
    <2> SUFFICES ASSUME NEW k \in at..Len(s), k \in stop
                 PROVE  FALSE
        BY <1>2
    <2>1. at = Max(stop) + 1 /\ Max(stop) >= k /\ Max(stop) \in Nat
        BY <1>1
    <2> QED
        BY <2>1
<1>5. Inserted(s, q, descending) = InsertAt(s, at, q)
    BY DEF Inserted
<1> HIDE DEF at, stop
<1>6. /\ SubSeq(s, 1, at - 1) \in Seq(P) /\ Len(SubSeq(s, 1, at - 1)) = at - 1
      /\ \A k \in 1..(at - 1) : SubSeq(s, 1, at - 1)[k] = s[k]
    BY <1>2
<1>7. /\ SubSeq(s, at, Len(s)) \in Seq(P) /\ Len(SubSeq(s, at, Len(s))) = Len(s) - at + 1
      /\ \A k \in 1..(Len(s) - at + 1) : SubSeq(s, at, Len(s))[k] = s[k + at - 1]
    BY <1>2
<1>8. PICK a \in Seq(P), z \in Seq(P) : a = SubSeq(s, 1, at - 1) /\ z = SubSeq(s, at, Len(s))
    BY <1>6, <1>7
<1>9. Len(a) = at - 1 /\ Len(z) = Len(s) - at + 1 /\ Len(s) \in Nat
    BY <1>6, <1>7, <1>8
<1>10. PICK b \in Seq(P) : b = a \o <<q>>
    <2>1. <<q>> \in Seq(P)
        OBVIOUS
    <2> QED
        BY <2>1, ConcatProperties
<1>11. Len(b) = at /\ b[at] = q /\ \A k \in 1..(at - 1) : b[k] = a[k]
    <2>1. b = Append(a, q)
        BY <1>10, AppendIsConcat
    <2> QED
        BY <1>2, <1>9, <2>1
<1>12. PICK r \in Seq(P) : r = b \o z
    BY ConcatProperties
<1>13. /\ Len(r) = Len(b) + Len(z)
        /\ \A k \in 1..(Len(b) + Len(z)) : r[k] = IF k <= Len(b) THEN b[k] ELSE z[k - Len(b)]
    BY <1>12, ConcatProperties
<1>14. Len(r) = Len(s) + 1
    BY <1>2, <1>9, <1>11, <1>13
<1>15. \A k \in 1..at : r[k] = b[k]
    BY <1>2, <1>9, <1>11, <1>13
<1>16. ASSUME NEW k \in 1..Len(z)
        PROVE  r[k + at] = z[k]
    <2>1. k + at \in 1..(Len(b) + Len(z)) /\ ~(k + at <= Len(b)) /\ (k + at) - Len(b) = k
        BY <1>2, <1>9, <1>11
    <2> QED
        BY <1>13, <2>1
<1>17. \A k \in 1..(at - 1) : r[k] = s[k]
    BY <1>2, <1>6, <1>8, <1>11, <1>15
<1>18. r[at] = q
    BY <1>2, <1>11, <1>15
<1>19. ASSUME NEW k \in at..Len(s)
       PROVE  r[k + 1] = s[k]
    <2>1. k - at + 1 \in 1..Len(z) /\ (k - at + 1) + at = k + 1 /\ (k - at + 1) + at - 1 = k
        BY <1>2, <1>9
    <2>2. r[k + 1] = z[k - at + 1]
        <3>1. \A n \in 1..Len(z) : r[n + at] = z[n]
            BY <1>16
        <3>2. r[(k - at + 1) + at] = z[k - at + 1]
            BY <2>1, <3>1, Zenon
        <3> QED
            BY <2>1, <3>2, Zenon
    <2>3. z[k - at + 1] = s[(k - at + 1) + at - 1]
        BY <1>7, <1>8, <1>9, <2>1
    <2> QED
        BY <2>1, <2>2, <2>3
<1>20. Inserted(s, q, descending) = r
    BY <1>5, <1>8, <1>10, <1>12 DEF InsertAt
<1> QED
    BY <1>2, <1>3, <1>4, <1>14, <1>17, <1>18, <1>19, <1>20

\* Either way the flag is set, two different prices have an order.
LEMMA StaysTotal ==
    ASSUME NEW p \in Texts, NEW q \in Texts, p # q, NEW descending \in BOOLEAN
    PROVE  StaysBefore(p, q, descending) \/ StaysBefore(q, p, descending)
BY TextTotal DEF StaysBefore

\* Either way, that order is transitive.
LEMMA StaysTransitive ==
    ASSUME NEW p \in Texts, NEW q \in Texts, NEW r \in Texts, NEW descending \in BOOLEAN,
           StaysBefore(p, q, descending), StaysBefore(q, r, descending)
    PROVE  StaysBefore(p, r, descending)
<1>1. CASE descending
    BY <1>1, TextTransitive DEF StaysBefore
<1>2. CASE ~descending
    BY <1>2, TextTransitive DEF StaysBefore
<1> QED
    BY <1>1, <1>2

\* A round keeps the levels in order, and adds just its own price to them.
LEMMA InsertedInOrder ==
    ASSUME NEW P \in SUBSET Texts, NEW s \in Seq(P), NEW q \in P,
           NEW descending \in BOOLEAN,
           InOrder(s, descending), \A k \in 1..Len(s) : s[k] # q
    PROVE  /\ InOrder(Inserted(s, q, descending), descending)
           /\ ToSet(Inserted(s, q, descending)) = ToSet(s) \cup {q}
<1>1. PICK r \in Seq(P), at \in 1..(Len(s) + 1) :
          /\ r = Inserted(s, q, descending)
          /\ Len(r) = Len(s) + 1
          /\ \A k \in 1..(at - 1) : r[k] = s[k]
          /\ r[at] = q
          /\ \A k \in at..Len(s) : r[k + 1] = s[k]
          /\ at # 1 => StaysBefore(s[at - 1], q, descending)
          /\ \A k \in at..Len(s) : ~StaysBefore(s[k], q, descending)
    BY InsertedTyping
<1>2. \A k \in 1..Len(s) : s[k] \in Texts
    OBVIOUS
<1>3. \A k \in 1..(at - 1) : StaysBefore(s[k], q, descending)
    <2> SUFFICES ASSUME NEW k \in 1..(at - 1)
                 PROVE  StaysBefore(s[k], q, descending)
        OBVIOUS
    <2>1. StaysBefore(s[at - 1], q, descending) /\ at - 1 \in 1..Len(s) /\ k \in 1..Len(s)
        BY <1>1
    <2>2. CASE k = at - 1
        BY <2>1, <2>2
    <2>3. CASE k # at - 1
        <3>1. k < at - 1
            BY <2>3
        <3>2. StaysBefore(s[k], s[at - 1], descending)
            BY <2>1, <3>1 DEF InOrder
        <3> QED
            BY <1>2, <2>1, <3>2, StaysTransitive
    <2> QED
        BY <2>2, <2>3
<1>4. \A k \in at..Len(s) : StaysBefore(q, s[k], descending)
    <2> SUFFICES ASSUME NEW k \in at..Len(s)
                 PROVE  StaysBefore(q, s[k], descending)
        OBVIOUS
    <2>1. k \in 1..Len(s) /\ ~StaysBefore(s[k], q, descending)
        BY <1>1
    <2>2. s[k] # q /\ s[k] \in Texts /\ q \in Texts
        BY <1>2, <2>1
    <2> QED
        BY <2>1, <2>2, StaysTotal
<1>5. ASSUME NEW k \in 1..Len(r)
      PROVE  \/ k < at /\ r[k] = s[k]
             \/ k = at /\ r[k] = q
             \/ k > at /\ k - 1 \in at..Len(s) /\ r[k] = s[k - 1]
    <2>1. CASE k < at
        BY <1>1, <2>1
    <2>2. CASE k = at
        BY <1>1, <2>2
    <2>3. CASE k > at
        <3>1. k - 1 \in at..Len(s) /\ (k - 1) + 1 = k
            BY <1>1, <2>3
        <3> QED
            BY <1>1, <2>3, <3>1
    <2> QED
        BY <2>1, <2>2, <2>3
<1>6. ASSUME NEW i \in 1..Len(r), NEW j \in 1..Len(r), i < j
      PROVE  StaysBefore(r[i], r[j], descending)
    <2>1. CASE j < at
        <3>1. r[i] = s[i] /\ r[j] = s[j] /\ i \in 1..Len(s) /\ j \in 1..Len(s)
            BY <1>1, <1>6, <2>1
        <3> QED
            BY <1>6, <3>1 DEF InOrder
    <2>2. CASE j = at
        <3>1. r[j] = q /\ r[i] = s[i] /\ i \in 1..(at - 1)
            BY <1>1, <1>6, <2>2
        <3> QED
            BY <1>3, <3>1
    <2>3. CASE j > at
        <3>1. j - 1 \in at..Len(s) /\ r[j] = s[j - 1]
            BY <1>5, <2>3
        <3>2. CASE i < at
            <4>1. r[i] = s[i] /\ i < j - 1 /\ i \in 1..Len(s) /\ j - 1 \in 1..Len(s)
                BY <1>1, <2>3, <3>1, <3>2
            <4> QED
                BY <3>1, <4>1 DEF InOrder
        <3>3. CASE i = at
            <4>1. r[i] = q
                BY <1>1, <3>3
            <4> QED
                BY <1>4, <3>1, <4>1
        <3>4. CASE i > at
            <4>1. r[i] = s[i - 1] /\ i - 1 < j - 1 /\ i - 1 \in 1..Len(s) /\ j - 1 \in 1..Len(s)
                BY <1>5, <1>6, <3>1, <3>4
            <4> QED
                BY <3>1, <4>1 DEF InOrder
        <3> QED
            BY <3>2, <3>3, <3>4
    <2> QED
        BY <2>1, <2>2, <2>3
<1>7. InOrder(r, descending)
    BY <1>6 DEF InOrder
<1>8. \E k \in 1..(Len(s) + 1) : r[k] = q
    BY <1>1
<1>9. ASSUME NEW i \in 1..Len(s)
      PROVE  \E k \in 1..(Len(s) + 1) : r[k] = s[i]
    <2>1. CASE i < at
        <3>1. i \in 1..(Len(s) + 1) /\ r[i] = s[i]
            BY <1>1, <2>1
        <3> QED
            BY <3>1
    <2>2. CASE ~(i < at)
        <3>1. i + 1 \in 1..(Len(s) + 1) /\ r[i + 1] = s[i]
            BY <1>1, <2>2
        <3> QED
            BY <3>1
    <2> QED
        BY <2>1, <2>2
<1>10. ASSUME NEW k \in 1..(Len(s) + 1)
       PROVE  r[k] = q \/ \E i \in 1..Len(s) : r[k] = s[i]
    <2>1. k \in 1..Len(r)
        BY <1>1
    <2>2. CASE k < at
        BY <1>5, <2>1, <2>2
    <2>3. CASE k = at
        BY <1>5, <2>1, <2>3
    <2>4. CASE k > at
        <3>1. r[k] = s[k - 1] /\ k - 1 \in 1..Len(s)
            BY <1>5, <2>1, <2>4
        <3> QED
            BY <3>1
    <2> QED
        BY <2>2, <2>3, <2>4
<1>11. ToSet(r) = ToSet(s) \cup {q}
    <2>1. DOMAIN r = 1..(Len(s) + 1) /\ DOMAIN s = 1..Len(s)
        BY <1>1
    <2>2. ToSet(r) = {r[k] : k \in 1..(Len(s) + 1)} /\ ToSet(s) = {s[k] : k \in 1..Len(s)}
        BY <2>1 DEF ToSet
    <2>3. ToSet(r) \subseteq ToSet(s) \cup {q}
        BY <1>10, <2>2
    <2>4. ToSet(s) \subseteq ToSet(r) /\ q \in ToSet(r)
        BY <1>8, <1>9, <2>2
    <2> QED
        BY <2>3, <2>4
<1> QED
    BY <1>1, <1>7, <1>11

\* g[n] is what the first n levels of order have become after round n.
Rounds(g, order, descending, P) ==
    /\ g \in [0..Len(order) -> Seq(P)]
    /\ g[0] = <<>>
    /\ \A n \in 1..Len(order) : g[n] = Inserted(g[n - 1], order[n], descending)
    /\ SortLevels(order, descending) = g[Len(order)]

\* The rounds of sortLevels, for any list of levels.
LEMMA SortRecursion ==
    ASSUME NEW P \in SUBSET Texts, NEW order \in Seq(P), NEW descending
    PROVE  \E g : Rounds(g, order, descending, P)
<1> DEFINE N == Len(order)
           Turn(g, n) == IF n = 0 THEN <<>> ELSE Inserted(g[n - 1], order[n], descending)
<1>1. N \in Nat /\ <<>> \in Seq(P) /\ \A n \in 1..N : order[n] \in P
    OBVIOUS
<1>2. \A x \in Seq(P), n \in 1..N : Inserted(x, order[n], descending) \in Seq(P)
    <2> SUFFICES ASSUME NEW x \in Seq(P), NEW n \in 1..N
                 PROVE  Inserted(x, order[n], descending) \in Seq(P)
        OBVIOUS
    <2>1. order[n] \in P
        BY <1>1
    <2> QED
        BY <2>1, InsertedTyping
<1>3. PICK s \in [Seq(P) \X (1..N) -> Seq(P)] :
          \A x \in Seq(P), n \in 1..N : s[<<x, n>>] = Inserted(x, order[n], descending)
    <2>1. [xn \in Seq(P) \X (1..N) |-> Inserted(xn[1], order[xn[2]], descending)]
            \in [Seq(P) \X (1..N) -> Seq(P)]
        BY <1>2
    <2> QED
        BY <2>1
<1>4. PICK f : Recurs(f, N, Seq(P), <<>>, s)
    <2>1. N \in Nat /\ <<>> \in Seq(P)
        BY <1>1
    <2> HIDE DEF N
    <2> QED
        BY <2>1, Recursion
<1>5. f \in [0..N -> Seq(P)] /\ f[0] = <<>> /\ \A n \in 1..N : f[n] = s[<<f[n - 1], n>>]
    BY <1>4 DEF Recurs
<1>6. f = [n \in 0..N |-> Turn(f, n)]
    <2>1. ASSUME NEW n \in 0..N
          PROVE  f[n] = Turn(f, n)
        <3>1. CASE n = 0
            BY <1>5, <3>1
        <3>2. CASE n # 0
            <4>1. n \in 1..N /\ n - 1 \in 0..N
                BY <1>1, <3>2
            <4>2. f[n - 1] \in Seq(P)
                BY <1>5, <4>1
            <4> QED
                BY <1>3, <1>5, <3>2, <4>1, <4>2
        <3> QED
            BY <3>1, <3>2
    <2> HIDE DEF Turn
    <2> QED
        BY <1>5, <2>1
<1>7. PICK g : g = [n \in 0..N |-> Turn(g, n)] /\ SortLevels(order, descending) = g[N]
    BY <1>6 DEF SortLevels
<1>8. g[0] = <<>> /\ \A n \in 1..N : g[n] = Inserted(g[n - 1], order[n], descending)
    <2>1. \A n \in 0..N : g[n] = Turn(g, n)
        <3> HIDE DEF Turn
        <3> QED
            BY <1>7
    <2> QED
        BY <1>1, <2>1
<1>9. g \in [0..N -> Seq(P)]
    <2> DEFINE T == {n \in 0..N : g[n] \in Seq(P)}
    <2>1. 0 \in T
        <3>1. 0 \in 0..N /\ g[0] \in Seq(P)
            BY <1>1, <1>8
        <3> QED
            BY <3>1
    <2>2. ASSUME NEW n \in 0..(N - 1), n \in T
          PROVE  n + 1 \in T
        <3>1. n + 1 \in 1..N /\ n + 1 \in 0..N /\ (n + 1) - 1 = n
            BY <1>1
        <3>2. g[n + 1] = Inserted(g[n], order[n + 1], descending)
            BY <1>8, <3>1
        <3> QED
            BY <1>2, <2>2, <3>1, <3>2
    <2>3. \A n \in 0..N : n \in T
        <3> HIDE DEF T
        <3> QED
            BY <1>1, <2>1, <2>2, CountUp
    <2>4. g = [n \in 0..N |-> g[n]]
        <3> HIDE DEF Turn
        <3> QED
            BY <1>7
    <2> QED
        BY <2>3, <2>4
<1> QED
    BY <1>7, <1>8, <1>9 DEF Rounds

\* sortLevels returns the levels it is given, in the order its flag asks for,
\* whatever order the map was iterated in and whatever the lengths of the
\* texts, for a book of any depth: a map has no price twice.
THEOREM KrakenSortLevels ==
    ASSUME NEW P \in SUBSET Texts, NEW order \in Seq(P), NEW descending \in BOOLEAN,
           \A i, j \in 1..Len(order) : i # j => order[i] # order[j]
    PROVE  LET sorted == SortLevels(order, descending)
           IN  /\ sorted \in Seq(P)
               /\ Len(sorted) = Len(order)
               /\ InOrder(sorted, descending)
               /\ ToSet(sorted) = ToSet(order)
<1>0. PICK g : Rounds(g, order, descending, P)
    BY SortRecursion
<1>1. /\ g \in [0..Len(order) -> Seq(P)]
      /\ g[0] = <<>>
      /\ \A n \in 1..Len(order) : g[n] = Inserted(g[n - 1], order[n], descending)
      /\ SortLevels(order, descending) = g[Len(order)]
    BY <1>0 DEF Rounds
<1> DEFINE Done(n) == /\ Len(g[n]) = n
                      /\ InOrder(g[n], descending)
                      /\ ToSet(g[n]) = {order[i] : i \in 1..n}
           T == {n \in 0..Len(order) : Done(n)}
<1>2. Len(order) \in Nat /\ \A n \in 1..Len(order) : order[n] \in P
    OBVIOUS
<1>3. 0 \in T
    <2>1. Len(g[0]) = 0
        BY <1>1
    <2>2. InOrder(g[0], descending)
        BY <2>1 DEF InOrder
    <2>3. ToSet(g[0]) = {order[i] : i \in 1..0}
        BY <1>1 DEF ToSet
    <2> QED
        BY <1>2, <2>1, <2>2, <2>3
<1>4. ASSUME NEW n \in 0..(Len(order) - 1), n \in T
      PROVE  n + 1 \in T
    <2>1. /\ n + 1 \in 1..Len(order) /\ n \in 0..Len(order) /\ (n + 1) - 1 = n /\ n \in Nat
          /\ n + 1 \in 0..Len(order) /\ 1..n \subseteq 1..Len(order)
        BY <1>2
    <2>2. PICK s \in Seq(P) : s = g[n]
        BY <1>1, <2>1
    <2>3. PICK q \in P : q = order[n + 1]
        BY <1>2, <2>1
    <2>4. Len(s) = n /\ InOrder(s, descending) /\ ToSet(s) = {order[i] : i \in 1..n}
        BY <1>4, <2>2
    <2>5. \A k \in 1..Len(s) : s[k] # q
        <3> SUFFICES ASSUME NEW k \in 1..Len(s), s[k] = q
                     PROVE  FALSE
            OBVIOUS
        <3>1. q \in ToSet(s)
            BY DEF ToSet
        <3>2. PICK i \in 1..n : q = order[i]
            BY <2>4, <3>1
        <3>3. i \in 1..Len(order) /\ i # n + 1
            BY <2>1
        <3> QED
            BY <2>1, <2>3, <3>2, <3>3
    <2>6. g[n + 1] = Inserted(s, q, descending)
        BY <1>1, <2>1, <2>2, <2>3
    <2>7. Len(g[n + 1]) = n + 1
        BY <2>4, <2>6, InsertedTyping
    <2>8. InOrder(g[n + 1], descending) /\ ToSet(g[n + 1]) = ToSet(s) \cup {q}
        BY <2>4, <2>5, <2>6, InsertedInOrder
    <2>9. ToSet(g[n + 1]) = {order[i] : i \in 1..(n + 1)}
        <3>1. 1..(n + 1) = (1..n) \cup {n + 1}
            BY <2>1
        <3> QED
            BY <2>3, <2>4, <2>8, <3>1
    <2> QED
        BY <2>1, <2>7, <2>8, <2>9
<1>5. Len(order) \in T
    <2>1. \A n \in 0..Len(order) : n \in T
        <3> HIDE DEF T
        <3> QED
            BY <1>2, <1>3, <1>4, CountUp
    <2>2. Len(order) \in 0..Len(order)
        BY <1>2
    <2> QED
        BY <2>1, <2>2
<1>6. Done(Len(order)) /\ g[Len(order)] \in Seq(P)
    BY <1>1, <1>2, <1>5
<1>7. ToSet(order) = {order[i] : i \in 1..Len(order)}
    BY DEF ToSet
<1> QED
    BY <1>1, <1>6, <1>7

\* The level a top of book shows is one of its side, and no other level of the
\* side belongs in front of it.
LEMMA FirstIsBest ==
    ASSUME NEW side \in SUBSET Texts, IsFiniteSet(side), side # {},
           NEW descending \in BOOLEAN, NEW first \in Firsts(side, descending)
    PROVE  /\ first \in side
           /\ \A p \in side : p = first \/ StaysBefore(first, p, descending)
<1>1. PICK order \in SetToSeqs(side) : first = Head(SortLevels(order, descending))
    BY DEF Firsts
<1>2. Cardinality(side) \in Nat /\ Cardinality(side) # 0
    BY FS_CardinalityType, FS_EmptySet
<1>3. /\ order \in [1..Cardinality(side) -> side]
      /\ \A i, j \in 1..Cardinality(side) : i # j => order[i] # order[j]
    BY <1>1 DEF SetToSeqs
<1>4. order \in Seq(side) /\ Len(order) = Cardinality(side)
    BY <1>2, <1>3
<1>5. \A p \in side : \E i \in 1..Len(order) : order[i] = p
    <2>1. order \in Injection(1..Cardinality(side), side)
        BY <1>3 DEF Injection, IsInjective
    <2>2. Cardinality(1..Cardinality(side)) = Cardinality(side)
        BY <1>2, FS_Interval
    <2>3. order \in Surjection(1..Cardinality(side), side)
        BY <2>1, <2>2, FS_Injection
    <2> QED
        BY <1>4, <2>3 DEF Surjection
<1>6. PICK sorted \in Seq(side) :
          /\ sorted = SortLevels(order, descending)
          /\ Len(sorted) = Len(order)
          /\ InOrder(sorted, descending)
          /\ ToSet(sorted) = ToSet(order)
    <2>1. \A i, j \in 1..Len(order) : i # j => order[i] # order[j]
        BY <1>3, <1>4
    <2> QED
        BY <1>4, <2>1, KrakenSortLevels
<1>7. 1 \in 1..Len(sorted) /\ first = sorted[1]
    <2>1. Len(sorted) \in Nat \ {0}
        BY <1>2, <1>4, <1>6
    <2> QED
        BY <1>1, <1>6, <2>1
<1>8. ASSUME NEW p \in side
      PROVE  p = first \/ StaysBefore(first, p, descending)
    <2>1. PICK i \in 1..Len(order) : order[i] = p
        BY <1>5
    <2>2. PICK k \in 1..Len(sorted) : sorted[k] = p
        <3>1. p \in ToSet(sorted)
            BY <1>4, <1>6, <2>1 DEF ToSet
        <3> QED
            BY <3>1 DEF ToSet
    <2>3. CASE k = 1
        BY <1>7, <2>2, <2>3
    <2>4. CASE k # 1
        <3>1. 1 < k
            BY <2>4
        <3> QED
            BY <1>6, <1>7, <2>2, <3>1 DEF InOrder
    <2> QED
        BY <2>3, <2>4
<1> QED
    BY <1>7, <1>8

\* The number a text stands for, digit by digit.
LEMMA ValueRecursion ==
    ASSUME NEW p \in Texts
    PROVE  \E v \in [0..Len(p) -> Nat] :
              /\ v[0] = 0
              /\ \A n \in 1..Len(p) : v[n] = 10 * v[n - 1] + p[n]
              /\ Value(p) = v[Len(p)]
<1> DEFINE N == Len(p)
           Turn(g, n) == IF n = 0 THEN 0 ELSE 10 * g[n - 1] + p[n]
<1>1. N \in Nat /\ \A n \in 1..N : p[n] \in Nat
    BY DEF Texts
<1>2. PICK s \in [Nat \X (1..N) -> Nat] : \A x \in Nat, n \in 1..N : s[<<x, n>>] = 10 * x + p[n]
    <2>1. \A x \in Nat, n \in 1..N : 10 * x + p[n] \in Nat
        BY <1>1
    <2>2. [xn \in Nat \X (1..N) |-> 10 * xn[1] + p[xn[2]]] \in [Nat \X (1..N) -> Nat]
        BY <2>1
    <2> QED
        BY <2>2
<1>3. PICK f : Recurs(f, N, Nat, 0, s)
    <2>1. N \in Nat /\ 0 \in Nat
        BY <1>1
    <2> HIDE DEF N
    <2> QED
        BY <2>1, Recursion
<1>4. f \in [0..N -> Nat] /\ f[0] = 0 /\ \A n \in 1..N : f[n] = s[<<f[n - 1], n>>]
    BY <1>3 DEF Recurs
<1>5. f = [n \in 0..N |-> Turn(f, n)]
    <2>1. ASSUME NEW n \in 0..N
          PROVE  f[n] = Turn(f, n)
        <3>1. CASE n = 0
            BY <1>4, <3>1
        <3>2. CASE n # 0
            <4>1. n \in 1..N /\ n - 1 \in 0..N
                BY <1>1, <3>2
            <4>2. f[n - 1] \in Nat
                BY <1>4, <4>1
            <4> QED
                BY <1>2, <1>4, <3>2, <4>1, <4>2
        <3> QED
            BY <3>1, <3>2
    <2> HIDE DEF Turn
    <2> QED
        BY <1>4, <2>1
<1>6. PICK g : g = [n \in 0..N |-> Turn(g, n)] /\ Value(p) = g[N]
    BY <1>5 DEF Value
<1>7. g[0] = 0 /\ \A n \in 1..N : g[n] = 10 * g[n - 1] + p[n]
    <2>1. \A n \in 0..N : g[n] = Turn(g, n)
        <3> HIDE DEF Turn
        <3> QED
            BY <1>6
    <2> QED
        BY <1>1, <2>1
<1>8. g \in [0..N -> Nat]
    <2> DEFINE T == {n \in 0..N : g[n] \in Nat}
    <2>1. 0 \in T
        BY <1>1, <1>7
    <2>2. ASSUME NEW n \in 0..(N - 1), n \in T
          PROVE  n + 1 \in T
        <3>1. n + 1 \in 1..N /\ n + 1 \in 0..N /\ (n + 1) - 1 = n
            BY <1>1
        <3>2. g[n + 1] = 10 * g[n] + p[n + 1]
            BY <1>7, <3>1
        <3> QED
            BY <1>1, <2>2, <3>1, <3>2
    <2>3. \A n \in 0..N : n \in T
        <3> HIDE DEF T
        <3> QED
            BY <1>1, <2>1, <2>2, CountUp
    <2>4. g = [n \in 0..N |-> g[n]]
        <3> HIDE DEF Turn
        <3> QED
            BY <1>6
    <2> QED
        BY <2>3, <2>4
<1> QED
    BY <1>6, <1>7, <1>8

\* It is a number.
LEMMA ValueTyping ==
    ASSUME NEW p \in Texts
    PROVE  Value(p) \in Nat
<1>1. PICK v \in [0..Len(p) -> Nat] : Value(p) = v[Len(p)]
    BY ValueRecursion
<1>2. Len(p) \in 0..Len(p)
    BY DEF Texts
<1> QED
    BY <1>1, <1>2

\* What comes first in a text weighs more than what follows.
LEMMA LeadingDigit ==
    ASSUME NEW a \in Nat, NEW b \in Nat, a < b, NEW c \in 0..9, NEW d \in 0..9
    PROVE  10 * a + c < 10 * b + d
OBVIOUS

\* Between texts of one length the order of the texts is that of the numbers.
LEMMA TextIsValue ==
    ASSUME NEW p \in Texts, NEW q \in Texts, Len(p) = Len(q), TextLess(p, q)
    PROVE  Value(p) < Value(q)
<1>1. PICK v \in [0..Len(p) -> Nat] :
          /\ v[0] = 0
          /\ \A n \in 1..Len(p) : v[n] = 10 * v[n - 1] + p[n]
          /\ Value(p) = v[Len(p)]
    BY ValueRecursion
<1>2. PICK w \in [0..Len(p) -> Nat] :
          /\ w[0] = 0
          /\ \A n \in 1..Len(p) : w[n] = 10 * w[n - 1] + q[n]
          /\ Value(q) = w[Len(p)]
    BY ValueRecursion
<1>3. PICK i \in Nat \ {0} : Parts(p, q, i)
    BY TextLessParts
<1>4. i \in 1..Len(p) /\ p[i] < q[i] /\ \A j \in 1..(i - 1) : p[j] = q[j]
    BY <1>3 DEF Parts, Texts
<1>5. Len(p) \in Nat /\ \A n \in 1..Len(p) : p[n] \in 0..9 /\ q[n] \in 0..9
    BY DEF Texts
<1> DEFINE T == {n \in 0..Len(p) : (n < i => v[n] = w[n]) /\ (n >= i => v[n] < w[n])}
<1>6. 0 \in T
    BY <1>1, <1>2, <1>5
<1>7. ASSUME NEW n \in 0..(Len(p) - 1), n \in T
      PROVE  n + 1 \in T
    <2>1. n + 1 \in 1..Len(p) /\ n + 1 \in 0..Len(p) /\ (n + 1) - 1 = n /\ n \in 0..Len(p)
        BY <1>5
    <2>2. v[n + 1] = 10 * v[n] + p[n + 1] /\ w[n + 1] = 10 * w[n] + q[n + 1]
        BY <1>1, <1>2, <2>1
    <2>3. v[n] \in Nat /\ w[n] \in Nat /\ p[n + 1] \in 0..9 /\ q[n + 1] \in 0..9
        BY <1>5, <2>1
    <2>4. CASE n + 1 < i
        <3>1. v[n] = w[n] /\ p[n + 1] = q[n + 1]
            BY <1>4, <1>7, <2>1, <2>4
        <3>2. v[n + 1] = w[n + 1]
            BY <2>2, <3>1
        <3> QED
            BY <2>1, <2>4, <3>2
    <2>5. CASE n + 1 = i
        <3>1. v[n] = w[n] /\ p[n + 1] < q[n + 1]
            BY <1>4, <1>7, <2>1, <2>5
        <3>2. v[n + 1] < w[n + 1]
            BY <2>2, <2>3, <3>1
        <3> QED
            BY <2>1, <2>5, <3>2
    <2>6. CASE n + 1 > i
        <3>1. v[n] < w[n]
            BY <1>7, <2>1, <2>6
        <3>2. v[n + 1] < w[n + 1]
            BY <2>2, <2>3, <3>1, LeadingDigit
        <3> QED
            BY <2>1, <2>6, <3>2
    <2> QED
        BY <2>1, <2>4, <2>5, <2>6
<1>8. Len(p) \in T
    <2>1. \A n \in 0..Len(p) : n \in T
        <3> HIDE DEF T
        <3> QED
            BY <1>5, <1>6, <1>7, CountUp
    <2> QED
        BY <1>5, <2>1
<1>9. v[Len(p)] < w[Len(p)]
    BY <1>4, <1>5, <1>8
<1> QED
    BY <1>1, <1>2, <1>9

\* The top of book on its way to GET /v1/book/ is the best bid and the best
\* ask of the reconstructed book, for any prices, a book of any depth, any
\* order of iteration and any channel, unless the newest update found the
\* channel full or the price texts of a side differ in length.
THEOREM KrakenReaderCatchesUp == BookSpec => []ReaderCatchesUp
<1>1. TopInv => ReaderCatchesUp
    <2> SUFFICES ASSUME TopInv, bids # {}, asks # {}, OneLength(bids), OneLength(asks), ~skipped
                 PROVE  /\ Newest.bid \in bids /\ \A p \in bids : Value(p) <= Value(Newest.bid)
                        /\ Newest.ask \in asks /\ \A p \in asks : Value(Newest.ask) <= Value(p)
        BY DEF ReaderCatchesUp
    <2>1. /\ bids \in SUBSET Texts /\ asks \in SUBSET Texts
          /\ IsFiniteSet(bids) /\ IsFiniteSet(asks)
        BY KrakenBookAssumption, FS_Subset DEF TopInv, ChannelInv, Texts
    <2>2. Newest.bid \in Firsts(bids, TRUE) /\ Newest.ask \in Firsts(asks, FALSE)
        BY DEF TopInv, NewestIsCurrent
    <2>3. PICK bid \in Firsts(bids, TRUE), ask \in Firsts(asks, FALSE) :
              bid = Newest.bid /\ ask = Newest.ask
        BY <2>2
    <2>4. bid \in bids /\ \A p \in bids : p = bid \/ TextLess(p, bid)
        BY <2>1, FirstIsBest DEF StaysBefore
    <2>5. ask \in asks /\ \A p \in asks : p = ask \/ TextLess(ask, p)
        BY <2>1, FirstIsBest DEF StaysBefore
    <2>6. \A p \in Texts : Value(p) \in Nat
        BY ValueTyping
    <2>7. ASSUME NEW p \in bids
          PROVE  Value(p) <= Value(bid)
        <3>1. p \in Texts /\ bid \in Texts /\ Len(p) = Len(bid)
            BY <2>1, <2>4 DEF OneLength
        <3>2. p = bid \/ Value(p) < Value(bid)
            BY <2>4, <3>1, TextIsValue
        <3> QED
            BY <2>6, <3>1, <3>2
    <2>8. ASSUME NEW p \in asks
          PROVE  Value(ask) <= Value(p)
        <3>1. p \in Texts /\ ask \in Texts /\ Len(ask) = Len(p)
            BY <2>1, <2>5 DEF OneLength
        <3>2. p = ask \/ Value(ask) < Value(p)
            BY <2>5, <3>1, TextIsValue
        <3> QED
            BY <2>6, <3>1, <3>2
    <2> QED
        BY <2>3, <2>4, <2>5, <2>7, <2>8
<1>2. BookSpec => []TopInv
    BY TopInitially, TopStep, PTL DEF BookSpec
<1> QED
    BY <1>1, <1>2, PTL

-----------------------------------------------------------------------------
(* The event bus: types.                                                   *)

LEMMA CurrentTyping ==
    ASSUME BusTypeOK, NEW p \in Publishers, next[p] <= Count(p)
    PROVE  /\ next[p] \in 1..Count(p)
           /\ Current(p) \in Events
<1>1. Work[p] \in Seq(Events) /\ Count(p) \in Nat
    BY BusAssumption DEF Count
<1>2. next[p] \in 1..Count(p)
    BY <1>1 DEF BusTypeOK
<1> QED
    BY <1>1, <1>2 DEF Current, Count

\* A return of the Publish call keeps the types.
LEMMA ReturnTyping ==
    ASSUME BusTypeOK, NEW p \in Publishers, next[p] <= Count(p),
           NEW r \in {"ok", "canceled", "exhausted", "invalid"}, Return(p, r)
    PROVE  /\ next' \in [Publishers -> Nat \ {0}]
           /\ \A q \in Publishers : next'[q] <= Count(q) + 1
           /\ \A q \in Publishers : stage'[q] # "ready" => next'[q] <= Count(q)
           /\ stage' \in [Publishers -> {"ready", "attempt", "backoff"}]
           /\ result' \in [Events -> {"none", "ok", "canceled", "exhausted", "invalid"}]
<1>1. \A q \in Publishers : Count(q) \in Nat
    BY BusAssumption DEF Count
<1>2. Current(p) \in Events
    BY CurrentTyping
<1> QED
    BY <1>1, <1>2 DEF Return, BusTypeOK

LEMMA BusTypeInitially == BusInit => BusTypeOK
<1> SUFFICES ASSUME BusInit
             PROVE  BusTypeOK
    OBVIOUS
<1>1. \A q \in Publishers : Count(q) \in Nat
    BY BusAssumption DEF Count
<1> QED
    BY <1>1, BusAssumption DEF BusInit, BusTypeOK

\* A copy that is appended, and writes that may become one, keep the types.
LEMMA ArrivalTyping ==
    ASSUME BusTypeOK, NEW x \in Events, Arrives(x)
    PROVE  log' \in Seq(Events) /\ copies' \in [Events -> Nat]
BY DEF BusTypeOK, Arrives

LEMMA WritesLeftTyping ==
    ASSUME BusTypeOK, NEW p \in Publishers
    PROVE  /\ WritesLeft(p) \in Nat /\ WritesLeft(p) >= 1
           /\ tries[p] \in Nat /\ tries[p] + WritesLeft(p) <= WriterAttempts
BY BusAssumption DEF BusTypeOK, WritesLeft

LEMMA BusTypeStep == BusTypeOK /\ [BusNext]_busVars => BusTypeOK'
<1> SUFFICES ASSUME BusTypeOK, [BusNext]_busVars
             PROVE  BusTypeOK'
    OBVIOUS
<1> USE BusAssumption
<1>0. \A q \in Publishers : Count(q) \in Nat
    BY DEF Count
<1>0a. \A p \in Publishers : stage[p] # "ready" => next[p] <= Count(p) /\ Current(p) \in Events
    BY CurrentTyping DEF BusTypeOK
<1>1. ASSUME NEW p \in Publishers, Refuse(p)
      PROVE  BusTypeOK'
    BY <1>1, ReturnTyping DEF Refuse, BusTypeOK, broker
<1>2. ASSUME NEW p \in Publishers, Begin(p)
      PROVE  BusTypeOK'
    BY <1>0, <1>2 DEF Begin, BusTypeOK, broker
<1>3. ASSUME NEW p \in Publishers, PublishOk(p)
      PROVE  BusTypeOK'
    <2>1. next[p] <= Count(p) /\ Current(p) \in Events
        BY <1>0a, <1>3 DEF PublishOk
    <2>2. log' \in Seq(Events) /\ copies' \in [Events -> Nat] /\ late' = late
        BY <1>3, <2>1, ArrivalTyping DEF PublishOk, WriteAcknowledged
    <2>3. tries' \in [Publishers -> 0..(WriterAttempts - 1)]
        BY <1>3 DEF PublishOk, BusTypeOK
    <2> QED
        BY <1>3, <2>1, <2>2, <2>3, ReturnTyping DEF PublishOk, BusTypeOK
<1>4. ASSUME NEW p \in Publishers, PublishErr(p)
      PROVE  BusTypeOK'
    <2>1. next[p] <= Count(p) /\ Current(p) \in Events /\ WritesLeft(p) \in Nat
        BY <1>0a, <1>4, WritesLeftTyping DEF PublishErr
    <2>2. late' \in [Events -> Nat]
        BY <1>4, <2>1 DEF PublishErr, MayArrive, BusTypeOK
    <2> QED
        BY <1>4, <2>1, <2>2 DEF PublishErr, BusTypeOK
<1>5. ASSUME NEW p \in Publishers, Retry(p)
      PROVE  BusTypeOK'
    BY <1>5 DEF Retry, TimerFired, RetriesLeft, BusTypeOK, broker
<1>6. ASSUME NEW p \in Publishers, Exhaust(p)
      PROVE  BusTypeOK'
    <2>1. next[p] <= Count(p) /\ Current(p) \in Events
        BY <1>0a, <1>6 DEF Exhaust, TimerFired
    <2>2. dead' \subseteq Fills \cap Events
        BY <1>6, <2>1 DEF Exhaust, DeadLettered, BusTypeOK
    <2> QED
        BY <1>6, <2>1, <2>2, ReturnTyping DEF Exhaust, BusTypeOK, broker
<1>7. ASSUME NEW p \in Publishers, RequestDone(p)
      PROVE  BusTypeOK'
    <2>1. next[p] <= Count(p)
        BY <1>7 DEF RequestDone, BusTypeOK
    <2> QED
        BY <1>7, <2>1, ReturnTyping DEF RequestDone, BusTypeOK, broker
<1>8. ASSUME NEW p \in Publishers, Expire(p)
      PROVE  BusTypeOK'
    BY <1>8 DEF Expire, BusTypeOK, broker
<1>9. CASE LateAppend
    <2>1. PICK e \in Events : late[e] > 0 /\ Arrives(e) /\ late' = [late EXCEPT ![e] = @ - 1]
        BY <1>9 DEF LateAppend
    <2>2. log' \in Seq(Events) /\ copies' \in [Events -> Nat]
        BY <2>1, ArrivalTyping
    <2>3. late' \in [Events -> Nat]
        BY <2>1 DEF BusTypeOK
    <2> QED
        BY <1>9, <2>2, <2>3 DEF LateAppend, BusTypeOK
<1>10. ASSUME NEW p \in Publishers, WriterRetries(p)
       PROVE  BusTypeOK'
    <2>1. Current(p) \in Events
        BY <1>0a, <1>10 DEF WriterRetries
    <2>2. late' \in [Events -> Nat]
        BY <1>10, <2>1 DEF WriterRetries, MayArrive, BusTypeOK
    <2>3. tries' \in [Publishers -> 0..(WriterAttempts - 1)]
        BY <1>10 DEF WriterRetries, BusTypeOK
    <2> QED
        BY <1>10, <2>2, <2>3 DEF WriterRetries, BusTypeOK
<1>11. CASE UNCHANGED busVars
    BY <1>11 DEF busVars, broker, BusTypeOK
<1> QED
    BY <1>1, <1>2, <1>3, <1>4, <1>5, <1>6, <1>7, <1>8, <1>9, <1>10, <1>11 DEF BusNext, Step

\* Type correctness of the event bus; neither retry counter passes its limit,
\* Bus.maxRetries and the writer's MaxAttempts, and only fills get to the
\* dead-letter handler.
THEOREM BusTyping == BusSpec => []BusTypeOK
BY BusTypeInitially, BusTypeStep, PTL DEF BusSpec

-----------------------------------------------------------------------------
(* The event bus: duplicates.                                              *)

\* How many writes k attempts of Publish make, at most.
Room(k) == k * WriterAttempts

LEMMA RoomFacts ==
    ASSUME NEW k \in Nat
    PROVE  /\ Room(k) \in Nat
           /\ Room(0) = 0
           /\ Room(k + 1) = Room(k) + WriterAttempts
<1>1. WriterAttempts \in Nat
    BY BusAssumption
<1>2. Room(k) \in Nat /\ Room(0) = 0
    BY <1>1 DEF Room
<1>3. (k + 1) * WriterAttempts = k * WriterAttempts + WriterAttempts
    BY <1>1
<1> QED
    BY <1>2, <1>3 DEF Room

LEMMA RoomGrows ==
    ASSUME NEW k \in Nat, NEW m \in Nat, k <= m
    PROVE  Room(k) <= Room(m)
<1>1. WriterAttempts \in Nat
    BY BusAssumption
<1>2. PICK d \in Nat : m = k + d
    <2>1. m - k \in Nat /\ m = k + (m - k)
        OBVIOUS
    <2> QED
        BY <2>1
<1>3. (k + d) * WriterAttempts = k * WriterAttempts + d * WriterAttempts
    BY <1>1
<1>4. k * WriterAttempts \in Nat /\ d * WriterAttempts \in Nat
    BY <1>1
<1> QED
    BY <1>2, <1>3, <1>4 DEF Room

\* How often the i-th event of the publisher has been written, at most.
Writes(p, i) ==
    IF i < next[p] THEN Room(MaxRetries + 1)
    ELSE IF i > next[p] \/ stage[p] = "ready" THEN 0
    ELSE IF stage[p] = "attempt" THEN Room(attempt[p]) + tries[p]
    ELSE Room(attempt[p] + 1)

Tally(e) == copies[e] + late[e]

\* What BoundedDuplicates needs: each write makes one copy or may yet become
\* one, and an append that comes late uses its write up.
TallyInv ==
    /\ BusTypeOK
    /\ \A p \in Publishers : \A i \in 1..Count(p) : Tally(Work[p][i]) <= Writes(p, i)

LEMMA TallyTyping ==
    ASSUME BusTypeOK, NEW e \in Events
    PROVE  copies[e] \in Nat /\ late[e] \in Nat /\ Tally(e) \in Nat
BY DEF BusTypeOK, Tally

LEMMA WorkTyping ==
    ASSUME NEW p \in Publishers
    PROVE  Count(p) \in Nat /\ \A i \in 1..Count(p) : Work[p][i] \in Events
BY BusAssumption DEF Count

\* No two positions hold the same event.
LEMMA DistinctEvents ==
    ASSUME BusTypeOK, NEW p \in Publishers, next[p] <= Count(p),
           NEW q \in Publishers, NEW i \in 1..Count(q), Work[q][i] = Current(p)
    PROVE  q = p /\ i = next[p]
BY CurrentTyping, BusAssumption DEF Current

\* The numbers that Writes is made of.
LEMMA RoomTyping ==
    ASSUME BusTypeOK, NEW p \in Publishers
    PROVE  /\ next[p] \in Nat /\ attempt[p] \in Nat /\ tries[p] \in Nat
           /\ tries[p] < WriterAttempts /\ WriterAttempts \in Nat
           /\ Room(attempt[p]) \in Nat /\ Room(attempt[p] + 1) \in Nat
           /\ Room(MaxRetries + 1) \in Nat
           /\ Room(attempt[p] + 1) = Room(attempt[p]) + WriterAttempts
           /\ Room(attempt[p] + 1) <= Room(MaxRetries + 1)
<1>1. /\ next[p] \in Nat /\ attempt[p] \in Nat /\ tries[p] \in Nat
      /\ tries[p] < WriterAttempts /\ WriterAttempts \in Nat
      /\ MaxRetries \in Nat /\ attempt[p] <= MaxRetries
    BY BusAssumption DEF BusTypeOK
<1>2. Room(attempt[p]) \in Nat /\ Room(attempt[p] + 1) = Room(attempt[p]) + WriterAttempts
    BY <1>1, RoomFacts
<1>3. attempt[p] + 1 \in Nat /\ MaxRetries + 1 \in Nat /\ attempt[p] + 1 <= MaxRetries + 1
    BY <1>1
<1>4. Room(attempt[p] + 1) \in Nat /\ Room(MaxRetries + 1) \in Nat
    BY <1>3, RoomFacts
<1>5. Room(attempt[p] + 1) <= Room(MaxRetries + 1)
    BY <1>3, RoomGrows
<1> QED
    BY <1>1, <1>2, <1>4, <1>5

LEMMA WritesTyping ==
    ASSUME BusTypeOK, NEW p \in Publishers, NEW i \in 1..Count(p)
    PROVE  Writes(p, i) \in Nat /\ Writes(p, i) <= Room(MaxRetries + 1)
<1>1. i \in Nat
    OBVIOUS
<1> QED
    BY <1>1, RoomTyping DEF Writes

LEMMA WritesTypingNext ==
    ASSUME BusTypeOK', NEW p \in Publishers, NEW i \in 1..Count(p)
    PROVE  Writes(p, i)' \in Nat
<1>1. /\ attempt'[p] \in Nat /\ attempt'[p] + 1 \in Nat /\ tries'[p] \in Nat
      /\ MaxRetries + 1 \in Nat
    BY BusAssumption DEF BusTypeOK
<1>2. Room(attempt'[p]) \in Nat /\ Room(attempt'[p] + 1) \in Nat /\ Room(MaxRetries + 1) \in Nat
    BY <1>1, RoomFacts
<1> QED
    BY <1>1, <1>2 DEF Writes

\* How a step that writes the current event n more times keeps the tallies.
LEMMA TallySent ==
    ASSUME TallyInv, BusTypeOK', NEW p \in Publishers, next[p] <= Count(p),
           NEW x \in Events, x = Current(p), NEW n \in Nat,
           Tally(x)' <= Tally(x) + n,
           \A e \in Events : e # x => Tally(e)' = Tally(e),
           \A q \in Publishers : \A i \in 1..Count(q) :
              /\ Writes(q, i) <= Writes(q, i)'
              /\ q = p /\ i = next[p] => Writes(q, i) + n <= Writes(q, i)'
    PROVE  TallyInv'
<1>1. ASSUME NEW q \in Publishers, NEW i \in 1..Count(q)
      PROVE  Tally(Work[q][i])' <= Writes(q, i)'
    <2>1. PICK e \in Events : e = Work[q][i]
        BY WorkTyping
    <2>2. Tally(e) <= Writes(q, i)
        BY <2>1 DEF TallyInv
    <2>3. Tally(e) \in Nat
        BY TallyTyping DEF TallyInv
    <2>3a. copies'[e] \in Nat /\ late'[e] \in Nat
        BY DEF BusTypeOK
    <2>3b. Tally(e)' \in Nat
        BY <2>3a DEF Tally
    <2>4. Writes(q, i) \in Nat
        BY WritesTyping DEF TallyInv
    <2>4a. Writes(q, i)' \in Nat
        BY WritesTypingNext
    <2>5. e = x => q = p /\ i = next[p]
        BY <2>1, DistinctEvents DEF TallyInv
    <2>6. Tally(e)' <= Writes(q, i)'
        BY <2>2, <2>3, <2>3b, <2>4, <2>4a, <2>5
    <2> QED
        BY <2>1, <2>6
<1> QED
    BY <1>1 DEF TallyInv

\* A step that writes nothing keeps the tallies, and no write is forgotten.
LEMMA TallyQuiet ==
    ASSUME TallyInv, BusTypeOK', UNCHANGED <<copies, late>>,
           \A q \in Publishers : \A i \in 1..Count(q) : Writes(q, i) <= Writes(q, i)'
    PROVE  TallyInv'
<1>1. ASSUME NEW q \in Publishers, NEW i \in 1..Count(q)
      PROVE  Tally(Work[q][i])' <= Writes(q, i)'
    <2>1. PICK e \in Events : e = Work[q][i]
        BY WorkTyping
    <2>2. Tally(e) <= Writes(q, i) /\ Tally(e)' = Tally(e)
        BY <2>1 DEF TallyInv, Tally
    <2>3. Tally(e) \in Nat /\ Writes(q, i) \in Nat
        BY TallyTyping, WritesTyping DEF TallyInv
    <2>4. Writes(q, i)' \in Nat
        BY WritesTypingNext
    <2>5. Tally(e)' <= Writes(q, i)'
        BY <2>2, <2>3, <2>4
    <2> QED
        BY <2>1, <2>5
<1> QED
    BY <1>1 DEF TallyInv

\* Once Publish has returned, no write is left to make.
LEMMA ReturnWrites ==
    ASSUME BusTypeOK, NEW p \in Publishers, next[p] <= Count(p), NEW r, Return(p, r),
           UNCHANGED attempt, \A q \in Publishers : q # p => tries'[q] = tries[q],
           NEW q \in Publishers, NEW i \in 1..Count(q)
    PROVE  /\ Writes(q, i) <= Writes(q, i)'
           /\ q = p /\ i = next[p] => Writes(q, i)' = Room(MaxRetries + 1)
<1>1. i \in Nat /\ next[p] \in Nat /\ Writes(q, i) \in Nat /\ Writes(q, i) <= Room(MaxRetries + 1)
    BY RoomTyping, WritesTyping
<1>2. CASE q # p
    <2>1. next'[q] = next[q] /\ stage'[q] = stage[q] /\ attempt'[q] = attempt[q] /\ tries'[q] = tries[q]
        BY <1>2 DEF Return, BusTypeOK
    <2>2. Writes(q, i)' = Writes(q, i)
        BY <2>1 DEF Writes
    <2> QED
        BY <1>1, <1>2, <2>2
<1>3. CASE q = p
    <2>1. next'[q] = next[q] + 1 /\ stage'[q] = "ready"
        BY <1>3 DEF Return, BusTypeOK
    <2>2. CASE i <= next[q]
        <3>1. Writes(q, i)' = Room(MaxRetries + 1)
            BY <1>1, <1>3, <2>1, <2>2 DEF Writes
        <3> QED
            BY <1>1, <3>1
    <2>3. CASE i > next[q]
        <3>1. Writes(q, i)' = 0 /\ Writes(q, i) = 0
            BY <1>1, <1>3, <2>1, <2>3 DEF Writes
        <3> QED
            BY <1>3, <2>3, <3>1, <1>1
    <2> QED
        BY <1>1, <1>3, <2>2, <2>3
<1> QED
    BY <1>2, <1>3

\* A copy that is appended is counted for its event alone.
LEMMA ArrivalCounts ==
    ASSUME BusTypeOK, NEW x \in Events, Arrives(x)
    PROVE  /\ copies'[x] = copies[x] + 1
           /\ \A e \in Events : e # x => copies'[e] = copies[e]
BY DEF BusTypeOK, Arrives

LEMMA TallyInitially == BusInit => TallyInv
<1> SUFFICES ASSUME BusInit
             PROVE  TallyInv
    OBVIOUS
<1>1. BusTypeOK
    BY BusTypeInitially
<1>2. ASSUME NEW p \in Publishers, NEW i \in 1..Count(p)
      PROVE  Tally(Work[p][i]) <= Writes(p, i)
    <2>1. Work[p][i] \in Events
        BY WorkTyping
    <2>2. Tally(Work[p][i]) = 0
        BY <2>1 DEF BusInit, Tally
    <2>3. Writes(p, i) \in Nat
        BY <1>1, WritesTyping
    <2> QED
        BY <2>2, <2>3
<1> QED
    BY <1>1, <1>2 DEF TallyInv

LEMMA TallyStep == TallyInv /\ [BusNext]_busVars => TallyInv'
<1> SUFFICES ASSUME TallyInv, [BusNext]_busVars
             PROVE  TallyInv'
    OBVIOUS
<1>0. BusTypeOK /\ BusTypeOK'
    BY BusTypeStep DEF TallyInv
<1>0a. ASSUME NEW p \in Publishers, stage[p] # "ready"
       PROVE  next[p] <= Count(p) /\ Current(p) \in Events /\ next[p] \in 1..Count(p)
    BY <1>0, <1>0a, CurrentTyping DEF BusTypeOK
<1>1. ASSUME NEW p \in Publishers, Refuse(p)
      PROVE  TallyInv'
    <2>1. \A q \in Publishers : \A i \in 1..Count(q) : Writes(q, i) <= Writes(q, i)'
        BY <1>0, <1>1, ReturnWrites DEF Refuse
    <2> QED
        BY <1>0, <1>1, <2>1, TallyQuiet DEF Refuse, broker
<1>2. ASSUME NEW p \in Publishers, Begin(p)
      PROVE  TallyInv'
    <2>1. ASSUME NEW q \in Publishers, NEW i \in 1..Count(q)
          PROVE  Writes(q, i) <= Writes(q, i)'
        <3>1. Writes(q, i) \in Nat /\ Writes(q, i)' \in Nat
            BY <1>0, WritesTyping, WritesTypingNext
        <3>2. Writes(q, i) = 0 \/ Writes(q, i)' = Writes(q, i)
            BY <1>0, <1>2 DEF Begin, Writes, BusTypeOK
        <3> QED
            BY <3>1, <3>2
    <2> QED
        BY <1>0, <1>2, <2>1, TallyQuiet DEF Begin, broker
<1>3. ASSUME NEW p \in Publishers, PublishOk(p)
      PROVE  TallyInv'
    <2>1. PICK x \in Events : x = Current(p)
        BY <1>0a, <1>3 DEF PublishOk
    <2>2. Arrives(x) /\ late' = late /\ Return(p, "ok") /\ UNCHANGED attempt
        BY <1>3, <2>1 DEF PublishOk, WriteAcknowledged
    <2>3. next[p] <= Count(p) /\ \A q \in Publishers : q # p => tries'[q] = tries[q]
        BY <1>0, <1>0a, <1>3 DEF PublishOk, BusTypeOK
    <2>4. Tally(x)' <= Tally(x) + 1 /\ \A e \in Events : e # x => Tally(e)' = Tally(e)
        BY <1>0, <2>2, ArrivalCounts, TallyTyping DEF Tally
    <2>5. ASSUME NEW q \in Publishers, NEW i \in 1..Count(q)
          PROVE  /\ Writes(q, i) <= Writes(q, i)'
                 /\ q = p /\ i = next[p] => Writes(q, i) + 1 <= Writes(q, i)'
        <3>1. /\ Writes(q, i) <= Writes(q, i)'
              /\ q = p /\ i = next[p] => Writes(q, i)' = Room(MaxRetries + 1)
            BY <1>0, <2>2, <2>3, ReturnWrites
        <3>2. q = p /\ i = next[p] => Writes(q, i) = Room(attempt[p]) + tries[p]
            BY <1>0, <1>3, RoomTyping DEF PublishOk, Writes
        <3> QED
            BY <1>0, <3>1, <3>2, RoomTyping
    <2> QED
        BY <1>0, <2>1, <2>3, <2>4, <2>5, TallySent
<1>4. ASSUME NEW p \in Publishers, PublishErr(p)
      PROVE  TallyInv'
    <2>1. PICK x \in Events : x = Current(p)
        BY <1>0a, <1>4 DEF PublishErr
    <2>2. next[p] <= Count(p) /\ WritesLeft(p) \in Nat /\ tries[p] + WritesLeft(p) <= WriterAttempts
        BY <1>0, <1>0a, <1>4, WritesLeftTyping DEF PublishErr
    <2>3. PICK n \in 0..WritesLeft(p) : late' = [late EXCEPT ![x] = @ + n]
        BY <1>4, <2>1 DEF PublishErr, MayArrive
    <2>4. n \in Nat /\ tries[p] + n <= WriterAttempts
        BY <1>0, <2>2, <2>3, RoomTyping
    <2>5. Tally(x)' <= Tally(x) + n /\ \A e \in Events : e # x => Tally(e)' = Tally(e)
        BY <1>0, <1>4, <2>3, <2>4, TallyTyping DEF Tally, PublishErr, BusTypeOK
    <2>6. ASSUME NEW q \in Publishers, NEW i \in 1..Count(q)
          PROVE  /\ Writes(q, i) <= Writes(q, i)'
                 /\ q = p /\ i = next[p] => Writes(q, i) + n <= Writes(q, i)'
        <3>0. Writes(q, i) \in Nat
            BY <1>0, WritesTyping
        <3>1. CASE q = p /\ i = next[p]
            <4>1. Writes(q, i) = Room(attempt[p]) + tries[p]
                BY <1>0, <1>4, <3>1, RoomTyping DEF PublishErr, Writes
            <4>2. Writes(q, i)' = Room(attempt[p] + 1)
                BY <1>0, <1>4, <3>1, RoomTyping DEF PublishErr, Writes, BusTypeOK
            <4> QED
                BY <1>0, <2>4, <4>1, <4>2, RoomTyping
        <3>2. CASE ~(q = p /\ i = next[p])
            <4>1. CASE q # p
                <5>1. /\ next'[q] = next[q] /\ stage'[q] = stage[q]
                      /\ attempt'[q] = attempt[q] /\ tries'[q] = tries[q]
                    BY <1>0, <1>4, <4>1 DEF PublishErr, BusTypeOK
                <5>2. Writes(q, i)' = Writes(q, i)
                    BY <5>1 DEF Writes
                <5> QED
                    BY <3>0, <4>1, <5>2
            <4>2. CASE q = p
                <5>1. next'[q] = next[q] /\ next[q] \in Nat /\ i \in Nat /\ i # next[q]
                    BY <1>0, <1>4, <3>2, <4>2, RoomTyping DEF PublishErr
                <5>2. Writes(q, i)' = Writes(q, i)
                    BY <5>1 DEF Writes
                <5> QED
                    BY <3>0, <3>2, <5>2
            <4> QED
                BY <4>1, <4>2
        <3> QED
            BY <3>1, <3>2
    <2> QED
        BY <1>0, <2>1, <2>2, <2>4, <2>5, <2>6, TallySent
<1>5. ASSUME NEW p \in Publishers, Retry(p)
      PROVE  TallyInv'
    <2>1. ASSUME NEW q \in Publishers, NEW i \in 1..Count(q)
          PROVE  Writes(q, i) <= Writes(q, i)'
        <3>1. Writes(q, i) \in Nat /\ next[q] \in Nat /\ i \in Nat
            BY <1>0, WritesTyping, RoomTyping
        <3>2. CASE q = p /\ i = next[p]
            <4>1. Writes(q, i) = Room(attempt[p] + 1)
                BY <1>5, <3>1, <3>2 DEF Retry, TimerFired, Writes
            <4>2. tries'[p] \in Nat /\ attempt'[p] = attempt[p] + 1 /\ stage'[p] = "attempt"
                BY <1>0, <1>5 DEF Retry, BusTypeOK
            <4>3. Writes(q, i)' = Room(attempt[p] + 1) + tries'[p]
                BY <1>5, <3>1, <3>2, <4>2 DEF Retry, Writes
            <4> QED
                BY <1>0, <4>1, <4>2, <4>3, RoomTyping
        <3>3. CASE ~(q = p /\ i = next[p])
            <4>1. Writes(q, i)' = Writes(q, i)
                BY <1>0, <1>5, <3>1, <3>3 DEF Retry, Writes, BusTypeOK
            <4> QED
                BY <3>1, <4>1
        <3> QED
            BY <3>2, <3>3
    <2> QED
        BY <1>0, <1>5, <2>1, TallyQuiet DEF Retry, broker
<1>6. ASSUME NEW p \in Publishers, Exhaust(p)
      PROVE  TallyInv'
    <2>1. next[p] <= Count(p)
        BY <1>0a, <1>6 DEF Exhaust, TimerFired
    <2>2. \A q \in Publishers : \A i \in 1..Count(q) : Writes(q, i) <= Writes(q, i)'
        BY <1>0, <1>6, <2>1, ReturnWrites DEF Exhaust
    <2> QED
        BY <1>0, <1>6, <2>2, TallyQuiet DEF Exhaust, broker
<1>7. ASSUME NEW p \in Publishers, RequestDone(p)
      PROVE  TallyInv'
    <2>1. next[p] <= Count(p)
        BY <1>0a, <1>7 DEF RequestDone
    <2>2. \A q \in Publishers : \A i \in 1..Count(q) : Writes(q, i) <= Writes(q, i)'
        BY <1>0, <1>7, <2>1, ReturnWrites DEF RequestDone
    <2> QED
        BY <1>0, <1>7, <2>2, TallyQuiet DEF RequestDone, broker
<1>8. ASSUME UNCHANGED <<next, stage, attempt, tries>>, NEW q \in Publishers, NEW i \in 1..Count(q)
      PROVE  Writes(q, i)' = Writes(q, i) /\ Writes(q, i) <= Writes(q, i)'
    <2>1. Writes(q, i) \in Nat
        BY <1>0, WritesTyping
    <2>2. Writes(q, i)' = Writes(q, i)
        BY <1>8 DEF Writes
    <2> QED
        BY <2>1, <2>2
<1>9. CASE LateAppend
    <2>1. PICK e \in Events : late[e] > 0 /\ Arrives(e) /\ late' = [late EXCEPT ![e] = @ - 1]
        BY <1>9 DEF LateAppend
    <2>2. UNCHANGED <<next, stage, attempt, tries>>
        BY <1>9 DEF LateAppend
    <2>3. ASSUME NEW d \in Events
          PROVE  Tally(d)' = Tally(d)
        <3>1. copies[d] \in Nat /\ late[d] \in Nat
            BY <1>0, TallyTyping
        <3>2. CASE d = e
            <4>1. copies'[d] = copies[d] + 1 /\ late'[d] = late[d] - 1
                BY <1>0, <2>1, <3>2, ArrivalCounts DEF BusTypeOK
            <4> QED
                BY <3>1, <4>1 DEF Tally
        <3>3. CASE d # e
            <4>1. copies'[d] = copies[d] /\ late'[d] = late[d]
                BY <1>0, <2>1, <3>3, ArrivalCounts DEF BusTypeOK
            <4> QED
                BY <4>1 DEF Tally
        <3> QED
            BY <3>2, <3>3
    <2>4. ASSUME NEW q \in Publishers, NEW i \in 1..Count(q)
          PROVE  Tally(Work[q][i])' <= Writes(q, i)'
        <3>1. PICK d \in Events : d = Work[q][i]
            BY WorkTyping
        <3>2. Tally(d)' <= Writes(q, i)'
            BY <1>8, <2>2, <2>3, <3>1 DEF TallyInv
        <3> QED
            BY <3>1, <3>2
    <2> QED
        BY <1>0, <2>4 DEF TallyInv
<1>10. ASSUME NEW p \in Publishers, WriterRetries(p)
       PROVE  TallyInv'
    <2>1. PICK x \in Events : x = Current(p)
        BY <1>0a, <1>10 DEF WriterRetries
    <2>2. next[p] <= Count(p)
        BY <1>0a, <1>10 DEF WriterRetries
    <2>3. PICK n \in 0..1 : late' = [late EXCEPT ![x] = @ + n]
        BY <1>10, <2>1 DEF WriterRetries, MayArrive
    <2>4. n \in Nat /\ n <= 1
        BY <2>3
    <2>5. Tally(x)' <= Tally(x) + n /\ \A e \in Events : e # x => Tally(e)' = Tally(e)
        BY <1>0, <1>10, <2>3, <2>4, TallyTyping DEF Tally, WriterRetries, BusTypeOK
    <2>6. ASSUME NEW q \in Publishers, NEW i \in 1..Count(q)
          PROVE  /\ Writes(q, i) <= Writes(q, i)'
                 /\ q = p /\ i = next[p] => Writes(q, i) + n <= Writes(q, i)'
        <3>0. Writes(q, i) \in Nat
            BY <1>0, WritesTyping
        <3>1. CASE q = p /\ i = next[p]
            <4>1. Writes(q, i) = Room(attempt[p]) + tries[p]
                BY <1>0, <1>10, <3>1, RoomTyping DEF WriterRetries, Writes
            <4>2. Writes(q, i)' = Room(attempt[p]) + (tries[p] + 1)
                BY <1>0, <1>10, <3>1, RoomTyping DEF WriterRetries, Writes, BusTypeOK
            <4> QED
                BY <1>0, <2>4, <4>1, <4>2, RoomTyping
        <3>2. CASE ~(q = p /\ i = next[p])
            <4>1. Writes(q, i)' = Writes(q, i)
                BY <1>0, <1>10, <3>2, RoomTyping DEF WriterRetries, Writes, BusTypeOK
            <4> QED
                BY <3>0, <3>2, <4>1
        <3> QED
            BY <3>1, <3>2
    <2> QED
        BY <1>0, <2>1, <2>2, <2>4, <2>5, <2>6, TallySent
<1>11. ASSUME NEW p \in Publishers, Expire(p)
       PROVE  TallyInv'
    BY <1>0, <1>8, <1>11, TallyQuiet DEF Expire, broker
<1>12. CASE UNCHANGED busVars
    BY <1>0, <1>8, <1>12, TallyQuiet DEF busVars, broker
<1> QED
    BY <1>1, <1>2, <1>3, <1>4, <1>5, <1>6, <1>7, <1>9, <1>10, <1>11, <1>12 DEF BusNext, Step

\* Retries of Publish, retries of the writer within an attempt, and writes
\* that land after their error together never make more copies of an event
\* than the two loops may make writes, for any number of handlers, events,
\* retries and writer attempts.
THEOREM BusBoundedDuplicates == BusSpec => []BoundedDuplicates
<1>1. TallyInv => BoundedDuplicates
    <2> SUFFICES ASSUME TallyInv, NEW e \in Events
                 PROVE  copies[e] <= Room(MaxRetries + 1)
        BY DEF BoundedDuplicates, Room
    <2>1. PICK p \in Publishers : \E i \in 1..Count(p) : e = Work[p][i]
        BY DEF Events
    <2>2. PICK i \in 1..Count(p) : e = Work[p][i]
        BY <2>1
    <2>3. Tally(e) <= Writes(p, i)
        BY <2>2 DEF TallyInv
    <2>4. Writes(p, i) \in Nat /\ Writes(p, i) <= Room(MaxRetries + 1)
        BY WritesTyping DEF TallyInv
    <2>5. copies[e] \in Nat /\ late[e] \in Nat
        BY TallyTyping DEF TallyInv
    <2>6. Room(MaxRetries + 1) \in Nat
        BY RoomTyping DEF TallyInv
    <2> QED
        BY <2>3, <2>4, <2>5, <2>6 DEF Tally
<1> QED
    BY <1>1, TallyInitially, TallyStep, PTL DEF BusSpec

-----------------------------------------------------------------------------
(* The event bus: order.                                                   *)

\* The first copy of d comes before any copy of e.
Precedes(d, e) == \E k \in Place(d) : \A m \in Place(e) : k < m

\* What AcknowledgedInOrder needs: the acknowledged events are behind the
\* handler, and they precede whatever the handler published after them,
\* acknowledged or not.
OrderInv ==
    /\ TallyInv
    /\ \A e \in Events : OnBus(e) <=> Place(e) # {}
    /\ \A p \in Publishers : \A i \in 1..Count(p) : result[Work[p][i]] = "ok" =>
          /\ i < next[p]
          /\ OnBus(Work[p][i])
          /\ \A j \in (i + 1)..Count(p) : Precedes(Work[p][i], Work[p][j])

\* What a handler has not got to is neither in the log nor on its way.
LEMMA NothingAhead ==
    ASSUME OrderInv, NEW p \in Publishers, NEW i \in 1..Count(p), i > next[p]
    PROVE  Place(Work[p][i]) = {}
<1>1. PICK e \in Events : e = Work[p][i]
    BY WorkTyping
<1>2. Writes(p, i) = 0
    BY DEF Writes, OrderInv, TallyInv, BusTypeOK
<1>3. Tally(e) <= 0
    BY <1>1, <1>2 DEF OrderInv, TallyInv
<1>4. copies[e] \in Nat /\ late[e] \in Nat
    BY TallyTyping DEF OrderInv, TallyInv
<1>5. ~OnBus(e)
    BY <1>3, <1>4 DEF Tally, OnBus
<1> QED
    BY <1>1, <1>5 DEF OrderInv

\* A first copy is placed at the end of the log; a further one moves nothing.
LEMMA ArrivalPlaces ==
    ASSUME BusTypeOK, NEW x \in Events, Arrives(x), NEW e
    PROVE  /\ Place(e)' = IF e = x /\ ~OnBus(x) THEN Place(e) \cup {Len(log) + 1} ELSE Place(e)
           /\ \A k \in Place(e) : k \in Nat /\ k < Len(log) + 1
<1>0. log \in Seq(Events) /\ Len(log) \in Nat /\ copies[x] \in Nat
    BY DEF BusTypeOK
<1>1. \A k \in Place(e) : k \in Nat /\ k < Len(log) + 1
    BY <1>0 DEF Place
<1>2. CASE OnBus(x)
    <2>1. log' = log
        BY <1>0, <1>2 DEF Arrives, OnBus
    <2>2. Place(e)' = Place(e)
        BY <2>1 DEF Place
    <2> QED
        BY <1>1, <1>2, <2>2
<1>3. CASE ~OnBus(x)
    <2>1. log' = Append(log, x)
        BY <1>0, <1>3 DEF Arrives, OnBus
    <2>2. /\ Len(log') = Len(log) + 1
          /\ \A k \in 1..Len(log) : log'[k] = log[k]
          /\ log'[Len(log) + 1] = x
        BY <1>0, <2>1
    <2>3. \A k : k \in 1..Len(log') <=> k \in 1..Len(log) \/ k = Len(log) + 1
        BY <1>0, <2>2
    <2>4. Len(log) + 1 \notin 1..Len(log)
        BY <1>0
    <2>5. \A k : k \in Place(e)' <=> k \in Place(e) \/ (k = Len(log) + 1 /\ e = x)
        BY <2>2, <2>3, <2>4 DEF Place
    <2> QED
        BY <1>1, <1>3, <2>5
<1> QED
    BY <1>2, <1>3

\* A copy that arrives never undoes a precedence.
LEMMA ArrivalKeepsOrder ==
    ASSUME BusTypeOK, NEW x \in Events, Arrives(x), NEW d, NEW e, Precedes(d, e)
    PROVE  Precedes(d, e)'
<1>1. PICK k \in Place(d) : \A m \in Place(e) : k < m
    BY DEF Precedes
<1>2. k \in Nat /\ k < Len(log) + 1 /\ k \in Place(d)'
    BY <1>1, ArrivalPlaces
<1>3. \A m \in Place(e)' : m \in Place(e) \/ m = Len(log) + 1
    BY ArrivalPlaces
<1>4. \A m \in Place(e)' : k < m
    BY <1>1, <1>2, <1>3
<1> QED
    BY <1>2, <1>4 DEF Precedes

\* It puts its event on the bus, takes none away, and the log shows both.
LEMMA ArrivalOnBus ==
    ASSUME BusTypeOK, \A e \in Events : OnBus(e) <=> Place(e) # {},
           NEW x \in Events, Arrives(x), NEW e \in Events
    PROVE  /\ OnBus(x)'
           /\ OnBus(e) => OnBus(e)'
           /\ OnBus(e)' <=> Place(e)' # {}
<1>1. copies[e] \in Nat /\ copies[x] \in Nat
    BY DEF BusTypeOK
<1>2. CASE e = x
    <2>1. copies'[x] = copies[x] + 1
        BY ArrivalCounts
    <2>2. OnBus(x)'
        BY <1>1, <2>1 DEF OnBus
    <2>3. Place(x)' # {}
        BY ArrivalPlaces
    <2> QED
        BY <1>2, <2>2, <2>3
<1>3. CASE e # x
    <2>1. copies'[x] = copies[x] + 1 /\ copies'[e] = copies[e]
        BY <1>3, ArrivalCounts
    <2>2. OnBus(x)' /\ (OnBus(e)' <=> OnBus(e))
        BY <1>1, <2>1 DEF OnBus
    <2>3. Place(e)' = Place(e)
        BY <1>3, ArrivalPlaces
    <2> QED
        BY <2>2, <2>3
<1> QED
    BY <1>2, <1>3

\* A step that appends nothing and acknowledges nothing keeps the order.
LEMMA OrderQuiet ==
    ASSUME OrderInv, TallyInv', UNCHANGED <<log, copies>>,
           \A q \in Publishers : next[q] <= next'[q],
           \A q \in Publishers : \A i \in 1..Count(q) :
              result'[Work[q][i]] = "ok" => result[Work[q][i]] = "ok"
    PROVE  OrderInv'
<1>1. \A e : Place(e)' = Place(e) /\ (OnBus(e)' <=> OnBus(e))
    BY DEF Place, OnBus
<1>2. \A d, e : Precedes(d, e) => Precedes(d, e)'
    BY <1>1 DEF Precedes
<1>3. ASSUME NEW q \in Publishers, NEW i \in 1..Count(q), result'[Work[q][i]] = "ok"
      PROVE  /\ i < next'[q]
             /\ OnBus(Work[q][i])'
             /\ \A j \in (i + 1)..Count(q) : Precedes(Work[q][i], Work[q][j])'
    <2>1. result[Work[q][i]] = "ok"
        BY <1>3
    <2>2. i < next[q] /\ next[q] <= next'[q] /\ next[q] \in Nat /\ next'[q] \in Nat
        BY <2>1 DEF OrderInv, TallyInv, BusTypeOK
    <2> QED
        BY <1>1, <1>2, <2>1, <2>2 DEF OrderInv
<1>4. \A e \in Events : OnBus(e)' <=> Place(e)' # {}
    BY <1>1 DEF OrderInv
<1> QED
    BY <1>3, <1>4 DEF OrderInv

\* The other results of a call leave the acknowledged events alone.
LEMMA ReturnQuiet ==
    ASSUME OrderInv, NEW p \in Publishers, next[p] <= Count(p),
           NEW r \in {"canceled", "exhausted", "invalid"}, Return(p, r)
    PROVE  /\ \A q \in Publishers : next[q] <= next'[q]
           /\ \A q \in Publishers : \A i \in 1..Count(q) :
                result'[Work[q][i]] = "ok" => result[Work[q][i]] = "ok"
<1>1. BusTypeOK
    BY DEF OrderInv, TallyInv
<1>2. \A q \in Publishers : next[q] <= next'[q]
    BY <1>1 DEF Return, BusTypeOK
<1>3. \A e \in Events : result'[e] = "ok" => result[e] = "ok"
    BY <1>1 DEF Return, BusTypeOK
<1> QED
    BY <1>2, <1>3, WorkTyping

LEMMA OrderInitially == BusInit => OrderInv
<1> SUFFICES ASSUME BusInit
             PROVE  OrderInv
    OBVIOUS
<1>1. \A q \in Publishers : \A i \in 1..Count(q) : Work[q][i] \in Events
    BY WorkTyping
<1>2. \A e \in Events : result[e] = "none" /\ ~OnBus(e)
    BY DEF BusInit, OnBus
<1>3. \A e \in Events : Place(e) = {}
    BY DEF BusInit, Place
<1> QED
    BY <1>1, <1>2, <1>3, TallyInitially DEF OrderInv

LEMMA OrderStep == OrderInv /\ [BusNext]_busVars => OrderInv'
<1> SUFFICES ASSUME OrderInv, [BusNext]_busVars
             PROVE  OrderInv'
    OBVIOUS
<1>0. BusTypeOK /\ TallyInv /\ TallyInv' /\ \A e \in Events : OnBus(e) <=> Place(e) # {}
    BY TallyStep DEF OrderInv, TallyInv
<1>0a. \A q \in Publishers : next[q] \in Nat /\ next[q] <= next[q]
    BY <1>0 DEF BusTypeOK
<1>1. ASSUME NEW p \in Publishers, Refuse(p)
      PROVE  OrderInv'
    BY <1>0, <1>1, OrderQuiet, ReturnQuiet DEF Refuse, broker
<1>2. ASSUME NEW p \in Publishers, Begin(p) \/ Retry(p) \/ Expire(p)
      PROVE  OrderInv'
    BY <1>0, <1>0a, <1>2, OrderQuiet DEF Begin, Retry, Expire, broker
<1>3. ASSUME NEW p \in Publishers, PublishOk(p)
      PROVE  OrderInv'
    <2>1. next[p] <= Count(p) /\ Current(p) \in Events /\ next[p] \in 1..Count(p)
        BY <1>0, <1>3, CurrentTyping DEF PublishOk, BusTypeOK
    <2>2. PICK x \in Events : x = Current(p)
        BY <2>1
    <2>3. Arrives(x) /\ Return(p, "ok")
        BY <1>3, <2>2 DEF PublishOk, WriteAcknowledged
    <2>4. ASSUME NEW q \in Publishers, NEW i \in 1..Count(q), result'[Work[q][i]] = "ok"
          PROVE  /\ i < next'[q]
                 /\ OnBus(Work[q][i])'
                 /\ \A j \in (i + 1)..Count(q) : Precedes(Work[q][i], Work[q][j])'
        <3>0. PICK d \in Events : d = Work[q][i]
            BY WorkTyping
        <3>1. CASE d = x
            <4>0. Work[q][i] = Current(p) /\ next[p] <= Count(p)
                BY <2>1, <2>2, <3>0, <3>1
            <4>1. q = p /\ i = next[p]
                BY <1>0, <4>0, DistinctEvents
            <4>2. i < next'[q]
                BY <1>0, <2>3, <4>1 DEF Return, BusTypeOK
            <4>3. OnBus(d)' /\ Place(d)' # {}
                BY <1>0, <2>3, <3>1, ArrivalOnBus
            <4>4. ASSUME NEW j \in (i + 1)..Count(q)
                  PROVE  Precedes(d, Work[q][j])'
                <5>1. PICK e : e = Work[q][j]
                    OBVIOUS
                <5>2. Count(q) \in Nat
                    BY WorkTyping
                <5>3. j \in 1..Count(q) /\ j > next[p] /\ j # next[p]
                    BY <2>1, <4>1, <5>2
                <5>4. Place(e) = {}
                    BY <4>1, <5>1, <5>3, NothingAhead
                <5>5. e # x
                    BY <1>0, <2>1, <2>2, <4>1, <5>1, <5>3, DistinctEvents
                <5>6. Place(e)' = {}
                    BY <1>0, <2>3, <5>4, <5>5, ArrivalPlaces
                <5> QED
                    BY <4>3, <5>1, <5>6 DEF Precedes
            <4> QED
                BY <3>0, <4>2, <4>3, <4>4
        <3>2. CASE d # x
            <4>2. result[d] = "ok"
                BY <1>0, <2>2, <2>3, <2>4, <3>0, <3>2 DEF Return, BusTypeOK
            <4>3. /\ i < next[q] /\ OnBus(d)
                  /\ \A j \in (i + 1)..Count(q) : Precedes(d, Work[q][j])
                BY <3>0, <4>2 DEF OrderInv
            <4>4. i < next'[q]
                <5>1. next'[q] \in {next[q], next[q] + 1}
                    BY <1>0, <2>3 DEF Return, BusTypeOK
                <5> QED
                    BY <1>0a, <4>3, <5>1
            <4>5. OnBus(d)'
                BY <1>0, <2>3, <4>3, ArrivalOnBus
            <4>6. ASSUME NEW j \in (i + 1)..Count(q)
                  PROVE  Precedes(d, Work[q][j])'
                <5>1. PICK e : e = Work[q][j]
                    OBVIOUS
                <5> QED
                    BY <1>0, <2>3, <4>3, <5>1, ArrivalKeepsOrder
            <4> QED
                BY <3>0, <4>4, <4>5, <4>6
        <3> QED
            BY <3>1, <3>2
    <2>5. \A e \in Events : OnBus(e)' <=> Place(e)' # {}
        BY <1>0, <2>3, ArrivalOnBus
    <2> QED
        BY <1>0, <2>4, <2>5 DEF OrderInv
<1>4. ASSUME NEW p \in Publishers, PublishErr(p) \/ WriterRetries(p)
      PROVE  OrderInv'
    BY <1>0, <1>0a, <1>4, OrderQuiet DEF PublishErr, WriterRetries
<1>5. ASSUME NEW p \in Publishers, Exhaust(p)
      PROVE  OrderInv'
    <2>1. next[p] <= Count(p)
        BY <1>0, <1>5 DEF Exhaust, TimerFired, BusTypeOK
    <2> QED
        BY <1>0, <1>5, <2>1, OrderQuiet, ReturnQuiet DEF Exhaust, broker
<1>6. ASSUME NEW p \in Publishers, RequestDone(p)
      PROVE  OrderInv'
    <2>1. next[p] <= Count(p)
        BY <1>0, <1>6 DEF RequestDone, BusTypeOK
    <2> QED
        BY <1>0, <1>6, <2>1, OrderQuiet, ReturnQuiet DEF RequestDone, broker
<1>7. CASE LateAppend
    <2>1. PICK x \in Events : Arrives(x)
        BY <1>7 DEF LateAppend
    <2>2. UNCHANGED <<next, result>>
        BY <1>7 DEF LateAppend
    <2>3. ASSUME NEW q \in Publishers, NEW i \in 1..Count(q), result'[Work[q][i]] = "ok"
          PROVE  /\ i < next'[q]
                 /\ OnBus(Work[q][i])'
                 /\ \A j \in (i + 1)..Count(q) : Precedes(Work[q][i], Work[q][j])'
        <3>0. PICK d \in Events : d = Work[q][i]
            BY WorkTyping
        <3>1. /\ i < next'[q] /\ OnBus(d)
              /\ \A j \in (i + 1)..Count(q) : Precedes(d, Work[q][j])
            BY <2>2, <2>3, <3>0 DEF OrderInv
        <3>2. OnBus(d)'
            BY <1>0, <2>1, <3>1, ArrivalOnBus
        <3>3. ASSUME NEW j \in (i + 1)..Count(q)
              PROVE  Precedes(d, Work[q][j])'
            <4>1. PICK e : e = Work[q][j]
                OBVIOUS
            <4> QED
                BY <1>0, <2>1, <3>1, <4>1, ArrivalKeepsOrder
        <3> QED
            BY <3>0, <3>1, <3>2, <3>3
    <2>4. \A e \in Events : OnBus(e)' <=> Place(e)' # {}
        BY <1>0, <2>1, ArrivalOnBus
    <2> QED
        BY <1>0, <2>3, <2>4 DEF OrderInv
<1>8. CASE UNCHANGED busVars
    BY <1>0, <1>0a, <1>8, OrderQuiet DEF busVars, broker
<1> QED
    BY <1>1, <1>2, <1>3, <1>4, <1>5, <1>6, <1>7, <1>8 DEF BusNext, Step

\* What Publish acknowledged is on the bus, and a handler's acknowledged
\* events first appear in the order it published them, whatever the broker
\* appends late, for any number of handlers, events and retries.
THEOREM BusAcknowledgedInOrder == BusSpec => []AcknowledgedInOrder
<1>1. OrderInv => AcknowledgedInOrder
    <2> SUFFICES ASSUME OrderInv, NEW p \in Publishers, NEW j \in 1..Count(p),
                        result[Work[p][j]] = "ok"
                 PROVE  /\ OnBus(Work[p][j])
                        /\ \A i \in 1..(j - 1) : result[Work[p][i]] = "ok" =>
                              Precedes(Work[p][i], Work[p][j])
        BY DEF AcknowledgedInOrder, Precedes
    <2>1. OnBus(Work[p][j])
        BY DEF OrderInv
    <2>2. ASSUME NEW i \in 1..(j - 1), result[Work[p][i]] = "ok"
          PROVE  Precedes(Work[p][i], Work[p][j])
        <3>1. Count(p) \in Nat
            BY WorkTyping
        <3>2. i \in 1..Count(p) /\ j \in (i + 1)..Count(p)
            BY <3>1
        <3> QED
            BY <2>2, <3>2 DEF OrderInv
    <2> QED
        BY <2>1, <2>2
<1> QED
    BY <1>1, OrderInitially, OrderStep, PTL DEF BusSpec

-----------------------------------------------------------------------------
(* The event bus: fills.                                                   *)

\* ReturnedFillSettled is inductive as it stands once the types are known.
SettledInv == BusTypeOK /\ ReturnedFillSettled

\* Nothing takes a fill away again; what remains to be shown of a step is the
\* event whose Publish returns in it.
LEMMA SettledStays ==
    ASSUME SettledInv, BusTypeOK',
           \A e \in Events : OnBus(e) => OnBus(e)',
           dead \subseteq dead',
           \A q \in Publishers : expired[q] => expired'[q],
           \A q \in Publishers : \A i \in 1..Count(q) :
              i < next'[q] /\ ~(i < next[q]) /\ Work[q][i] \in Fills \ Unlinked =>
                 expired'[q] \/ OnBus(Work[q][i])' \/ Work[q][i] \in dead'
    PROVE  SettledInv'
<1>1. \A q \in Publishers : \A i \in 1..Count(q) : Work[q][i] \in Events
    BY WorkTyping
<1> QED
    BY <1>1 DEF SettledInv, ReturnedFillSettled

\* The index that Return passes is that of the current event.
LEMMA ReturnPasses ==
    ASSUME BusTypeOK, NEW p \in Publishers, NEW r, Return(p, r),
           NEW q \in Publishers, NEW i \in 1..Count(q), i < next'[q], ~(i < next[q])
    PROVE  q = p /\ Work[q][i] = Current(p)
<1>1. next[p] \in Nat /\ next[q] \in Nat
    BY DEF BusTypeOK
<1>2. next'[q] = IF q = p THEN next[p] + 1 ELSE next[q]
    BY DEF Return, BusTypeOK
<1>3. q = p
    BY <1>2
<1>4. i = next[p]
    BY <1>1, <1>2, <1>3
<1> QED
    BY <1>3, <1>4 DEF Current

LEMMA SettledStep == SettledInv /\ [BusNext]_busVars => SettledInv'
<1> SUFFICES ASSUME SettledInv, [BusNext]_busVars
             PROVE  SettledInv'
    OBVIOUS
<1>0. BusTypeOK /\ BusTypeOK'
    BY BusTypeStep DEF SettledInv
<1>0a. copies' = copies => \A e \in Events : OnBus(e) => OnBus(e)'
    BY DEF OnBus
<1>0b. ASSUME NEW x \in Events, Arrives(x)
       PROVE  OnBus(x)' /\ \A e \in Events : OnBus(e) => OnBus(e)'
    <2>1. copies'[x] = copies[x] + 1 /\ \A e \in Events : e # x => copies'[e] = copies[e]
        BY <1>0, <1>0b, ArrivalCounts
    <2>2. copies[x] \in Nat
        BY <1>0 DEF BusTypeOK
    <2>3. OnBus(x)'
        BY <2>1, <2>2 DEF OnBus
    <2> QED
        BY <2>1, <2>3 DEF OnBus
<1>1. ASSUME NEW p \in Publishers, Refuse(p)
      PROVE  SettledInv'
    BY <1>0, <1>0a, <1>1, ReturnPasses, SettledStays DEF Refuse, broker
<1>2. ASSUME NEW p \in Publishers, Begin(p) \/ Retry(p) \/ PublishErr(p) \/ WriterRetries(p)
      PROVE  SettledInv'
    BY <1>0, <1>0a, <1>2, SettledStays DEF Begin, Retry, PublishErr, WriterRetries, broker
<1>3. ASSUME NEW p \in Publishers, PublishOk(p)
      PROVE  SettledInv'
    <2>1. PICK x \in Events : x = Current(p)
        BY <1>0, <1>3, CurrentTyping DEF PublishOk, BusTypeOK
    <2>2. Arrives(x) /\ Return(p, "ok") /\ UNCHANGED <<expired, dead>>
        BY <1>3, <2>1 DEF PublishOk, WriteAcknowledged
    <2>3. OnBus(x)' /\ \A e \in Events : OnBus(e) => OnBus(e)'
        BY <1>0b, <2>2
    <2>4. \A q \in Publishers : \A i \in 1..Count(q) :
             i < next'[q] /\ ~(i < next[q]) => Work[q][i] = x
        BY <1>0, <2>1, <2>2, ReturnPasses
    <2>5. \A q \in Publishers : \A i \in 1..Count(q) :
             i < next'[q] /\ ~(i < next[q]) => OnBus(Work[q][i])'
        BY <2>3, <2>4 DEF OnBus
    <2> QED
        BY <1>0, <2>2, <2>3, <2>5, SettledStays
<1>4. ASSUME NEW p \in Publishers, Exhaust(p)
      PROVE  SettledInv'
    <2>1. dead \subseteq dead' /\ (Current(p) \in Fills => Current(p) \in dead')
        BY <1>4 DEF Exhaust, DeadLettered
    <2> QED
        BY <1>0, <1>0a, <1>4, <2>1, ReturnPasses, SettledStays DEF Exhaust, broker
<1>5. ASSUME NEW p \in Publishers, RequestDone(p)
      PROVE  SettledInv'
    BY <1>0, <1>0a, <1>5, ReturnPasses, SettledStays DEF RequestDone, broker
<1>6. ASSUME NEW p \in Publishers, Expire(p)
      PROVE  SettledInv'
    <2>1. \A q \in Publishers : expired[q] => expired'[q]
        BY <1>0, <1>6 DEF Expire, BusTypeOK
    <2> QED
        BY <1>0, <1>0a, <1>6, <2>1, SettledStays DEF Expire, broker
<1>7. CASE LateAppend
    <2>1. PICK x \in Events : Arrives(x)
        BY <1>7 DEF LateAppend
    <2>2. \A e \in Events : OnBus(e) => OnBus(e)'
        BY <1>0b, <2>1
    <2> QED
        BY <1>0, <1>7, <2>2, SettledStays DEF LateAppend
<1>8. CASE UNCHANGED busVars
    BY <1>0, <1>0a, <1>8, SettledStays DEF busVars, broker
<1> QED
    BY <1>1, <1>2, <1>3, <1>4, <1>5, <1>6, <1>7, <1>8 DEF BusNext, Step

\* The loop leaves no linked fill behind on its own: once Publish has
\* returned, the fill is on the bus, was handed to the dead-letter handler, or
\* the request's context is done.
THEOREM BusFillSettled == BusSpec => []ReturnedFillSettled
<1>1. BusInit => SettledInv
    <2> SUFFICES ASSUME BusInit
                 PROVE  SettledInv
        OBVIOUS
    <2>1. \A p \in Publishers : \A i \in 1..Count(p) : ~(i < next[p])
        BY DEF BusInit
    <2> QED
        BY <2>1, BusTypeInitially DEF SettledInv, ReturnedFillSettled
<1>2. SettledInv => ReturnedFillSettled
    BY DEF SettledInv
<1> QED
    BY <1>1, <1>2, SettledStep, PTL DEF BusSpec

-----------------------------------------------------------------------------
(* The event bus: the end of the retry loop.                               *)

\* A call of Publish is under way.
Begun(p) == stage[p] # "ready"

\* A call of Publish that has begun returns with its next step, goes on to a
\* later attempt or back-off, or its writer goes on to a later write of the
\* same attempt; both counters are bounded (BusTypeOK), so none of this goes
\* on for ever.  Nothing else moves it.
PublishWindsUp ==
    \A p \in Publishers : Begun(p) =>
        \/ UNCHANGED <<next[p], stage[p], attempt[p], tries[p]>>
        \/ next'[p] = next[p] + 1 /\ stage'[p] = "ready"
        \/ next'[p] = next[p] /\ attempt'[p] = attempt[p] + 1
        \/ /\ next'[p] = next[p] /\ attempt'[p] = attempt[p]
           /\ \/ stage[p] = "attempt" /\ stage'[p] = "backoff"
              \/ stage'[p] = stage[p] /\ tries'[p] = tries[p] + 1

LEMMA PublishStep == BusTypeOK /\ [BusNext]_busVars => PublishWindsUp
<1> SUFFICES ASSUME BusTypeOK, [BusNext]_busVars, NEW q \in Publishers, Begun(q)
             PROVE  \/ UNCHANGED <<next[q], stage[q], attempt[q], tries[q]>>
                    \/ next'[q] = next[q] + 1 /\ stage'[q] = "ready"
                    \/ next'[q] = next[q] /\ attempt'[q] = attempt[q] + 1
                    \/ /\ next'[q] = next[q] /\ attempt'[q] = attempt[q]
                       /\ \/ stage[q] = "attempt" /\ stage'[q] = "backoff"
                          \/ stage'[q] = stage[q] /\ tries'[q] = tries[q] + 1
    BY DEF PublishWindsUp
<1>0. /\ next \in [Publishers -> Nat \ {0}]
      /\ stage \in [Publishers -> {"ready", "attempt", "backoff"}]
      /\ attempt \in [Publishers -> 0..MaxRetries]
      /\ tries \in [Publishers -> 0..(WriterAttempts - 1)]
    BY DEF BusTypeOK
<1>1. ASSUME NEW p \in Publishers, NEW r, Return(p, r), attempt' = attempt,
             \A s \in Publishers : s # p => tries'[s] = tries[s]
      PROVE  \/ UNCHANGED <<next[q], stage[q], attempt[q], tries[q]>>
             \/ next'[q] = next[q] + 1 /\ stage'[q] = "ready"
    BY <1>0, <1>1 DEF Return
<1>2. ASSUME NEW p \in Publishers, Refuse(p) \/ PublishOk(p) \/ Exhaust(p) \/ RequestDone(p)
      PROVE  \E r : /\ Return(p, r) /\ attempt' = attempt
                    /\ \A s \in Publishers : s # p => tries'[s] = tries[s]
    BY <1>0, <1>2 DEF Refuse, PublishOk, Exhaust, RequestDone
<1>3. ASSUME NEW p \in Publishers, Begin(p)
      PROVE  UNCHANGED <<next[q], stage[q], attempt[q], tries[q]>>
    BY <1>0, <1>3 DEF Begin, Begun
<1>4. ASSUME NEW p \in Publishers, PublishErr(p)
      PROVE  \/ UNCHANGED <<next[q], stage[q], attempt[q], tries[q]>>
             \/ /\ next'[q] = next[q] /\ attempt'[q] = attempt[q]
                /\ stage[q] = "attempt" /\ stage'[q] = "backoff"
    BY <1>0, <1>4 DEF PublishErr
<1>5. ASSUME NEW p \in Publishers, Retry(p)
      PROVE  \/ UNCHANGED <<next[q], stage[q], attempt[q], tries[q]>>
             \/ next'[q] = next[q] /\ attempt'[q] = attempt[q] + 1
    BY <1>0, <1>5 DEF Retry
<1>6. ASSUME NEW p \in Publishers, WriterRetries(p)
      PROVE  \/ UNCHANGED <<next[q], stage[q], attempt[q], tries[q]>>
             \/ /\ next'[q] = next[q] /\ attempt'[q] = attempt[q]
                /\ stage'[q] = stage[q] /\ tries'[q] = tries[q] + 1
    BY <1>0, <1>6 DEF WriterRetries
<1>7. ASSUME UNCHANGED <<next, stage, attempt, tries>>
      PROVE  UNCHANGED <<next[q], stage[q], attempt[q], tries[q]>>
    BY <1>7
<1>8. ASSUME NEW p \in Publishers, Expire(p)
      PROVE  UNCHANGED <<next, stage, attempt, tries>>
    BY <1>8 DEF Expire
<1>9. CASE LateAppend \/ UNCHANGED busVars
    BY <1>7, <1>9 DEF LateAppend, busVars
<1> QED
    BY <1>1, <1>2, <1>3, <1>4, <1>5, <1>6, <1>7, <1>8, <1>9 DEF BusNext, Step

\* The safety half of PublishReturns: a call of Publish passes through at most
\* MaxRetries + 1 attempts of at most WriterAttempts writes each, and nothing
\* the broker does sets it back.
THEOREM BusPublishIsBounded == BusSpec => [][PublishWindsUp]_busVars
<1>1. BusTypeOK /\ [BusNext]_busVars => [PublishWindsUp]_busVars
    BY PublishStep
<1> QED
    BY <1>1, BusTyping, PTL DEF BusSpec

=============================================================================
