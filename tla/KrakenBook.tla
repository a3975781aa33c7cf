----------------------------- MODULE KrakenBook -----------------------------
(***************************************************************************)
(* The Kraken order book stream (internal/adapters/kraken book.go): the    *)
(* message handler over a ws.BookReconstructor, the sorting of its levels, *)
(* the update channel, and the top of book the aggregator keeps of it.     *)
(*                                                                         *)
(* Prices are texts: sequences of digits. The prices of a pair all have    *)
(* the same decimals, so the point is left out. Of a size only whether its *)
(* text deletes the level is kept, and of an update only the first level   *)
(* of each side, which is all the aggregator reads. The sequence number of *)
(* a diff is the clock in nanoseconds; it is kept as its distance from     *)
(* lastSeq, and no two readings are exactly 1 ns apart.                    *)
(***************************************************************************)
EXTENDS Naturals, Sequences, SequencesExt

CONSTANTS
    BidPrices, AskPrices,   \* price texts of the two sides
    OutCap                  \* capacity of the update channel

\* The price texts that fit in a message.
ASSUME KrakenBookAssumption ==
    /\ OutCap \in Nat
    /\ BidPrices \cup AskPrices \subseteq Seq(0..9)
    /\ IsFiniteSet(BidPrices) /\ IsFiniteSet(AskPrices)

VARIABLES
    bids, asks,     \* the keys of BookReconstructor.bids and .asks
    numbered,       \* lastSeq # 0
    since,          \* now - lastSeq, saturating at 2
    out,            \* the update channel
    latest,         \* BookAggregator.latest, at most one top of book
    behind,         \* history: a diff was refused as a gap since the last
                    \* whole book
    skipped,        \* history: the newest update did not fit in the channel
    outdated        \* history: the newest update sent was of a book behind

reconstructor == <<bids, asks, numbered, since, behind>>
reader == <<out, latest, skipped, outdated>>
bookVars == <<reconstructor, reader>>

BookInit ==
    /\ bids = {}
    /\ asks = {}
    /\ numbered = FALSE
    /\ since = 0
    /\ behind = FALSE
    /\ out = <<>>
    /\ latest = <<>>
    /\ skipped = FALSE
    /\ outdated = FALSE

-----------------------------------------------------------------------------
(* TopN: the levels in the order the map is iterated, sorted by insertion.  *)

TextLess(p, q) ==
    \/ IsStrictPrefix(p, q)
    \/ \E i \in 1..Len(p) :
          /\ i <= Len(q)
          /\ SubSeq(p, 1, i - 1) = SubSeq(q, 1, i - 1)
          /\ p[i] < q[i]

\* sortLevels: whether p stays in front of q.
FlagIgnored(p, q, descending) == TextLess(p, q)
StaysBefore(p, q, descending) == IF descending THEN TextLess(q, p) ELSE TextLess(p, q)

\* The inner loop carries q forward until something stays in front of it.
Inserted(sorted, q, descending) ==
    LET stop == {k \in DOMAIN sorted : StaysBefore(sorted[k], q, descending)}
        at == IF stop = {} THEN 1 ELSE Max(stop) + 1
    IN  InsertAt(sorted, at, q)

SortLevels(levels, descending) ==
    LET sorted[n \in 0..Len(levels)] ==
            IF n = 0 THEN <<>> ELSE Inserted(sorted[n - 1], levels[n], descending)
    IN  sorted[Len(levels)]

\* collectLevels: some iteration order of the map, sorted; the first level.
Firsts(side, descending) ==
    {Head(SortLevels(order, descending)) : order \in SetToSeqs(side)}

\* emitUpdate: a one-sided book is not sent, nor is one the channel is full for.
EmitUpdate(b, a) ==
    IF b = {} \/ a = {}
    THEN UNCHANGED reader
    ELSE \E bid \in Firsts(b, TRUE), ask \in Firsts(a, FALSE) :
            /\ out' = IF Len(out) < OutCap THEN Append(out, [bid |-> bid, ask |-> ask])
                      ELSE out
            /\ skipped' = (Len(out) = OutCap)
            /\ outdated' = IF Len(out) < OutCap THEN behind' ELSE outdated
            /\ UNCHANGED latest

-----------------------------------------------------------------------------
(* ApplyDiff: the two refusals, and the merge.                              *)

IsStale == numbered /\ since = 0
IsGap == numbered /\ since > 1

\* Only the texts 0 and "" delete a level; any other, 0.00 included, sets it.
\* Of several entries for one price the last counts.
Merged(side, diff) == (side \ diff.deletes) \cup diff.sets

-----------------------------------------------------------------------------
(* The handler: both sides are a snapshot, one side is a diff, and a message *)
(* whose sides cannot be decoded is neither; the book is emitted in any case. *)
(* A message that is not of a known channel changes nothing.                  *)

\* ApplySnapshot leaves lastSeq alone, and keeps levels of size 0.
HandleSnapshot(b, a) ==
    /\ b # {} /\ a # {}
    /\ bids' = b
    /\ asks' = a
    /\ behind' = FALSE
    /\ EmitUpdate(b, a)
    /\ UNCHANGED <<numbered, since>>

\* A refused diff is dropped without MarkGap.
HandleDiff(b, a) ==
    /\ IF IsStale \/ IsGap
       THEN /\ behind' = (behind \/ IsGap)
            /\ UNCHANGED <<bids, asks, numbered, since>>
       ELSE /\ bids' = b
            /\ asks' = a
            /\ numbered' = TRUE
            /\ since' = 0
            /\ UNCHANGED behind
    /\ EmitUpdate(bids', asks')

HandleBids(diff) == HandleDiff(Merged(bids, diff), asks)
HandleAsks(diff) == HandleDiff(bids, Merged(asks, diff))

HandleUndecoded ==
    /\ UNCHANGED reconstructor
    /\ EmitUpdate(bids, asks)

\* Time passes between two messages.
Later ==
    /\ numbered
    /\ since' = 2
    /\ UNCHANGED <<bids, asks, numbered, behind, reader>>

\* BookAggregator.consume; Get and GET /v1/book/ read latest.
ConsumeTop ==
    /\ out # <<>>
    /\ latest' = <<Head(out)>>
    /\ out' = Tail(out)
    /\ UNCHANGED <<reconstructor, skipped, outdated>>

\* The entries of a one-sided message: prices it sets and prices it deletes.
Diffs(P) == {d \in [sets : SUBSET P, deletes : SUBSET P] :
                d.sets \cap d.deletes = {} /\ d.sets \cup d.deletes # {}}

BookNext ==
    \/ \E b \in SUBSET BidPrices, a \in SUBSET AskPrices : HandleSnapshot(b, a)
    \/ \E diff \in Diffs(BidPrices) : HandleBids(diff)
    \/ \E diff \in Diffs(AskPrices) : HandleAsks(diff)
    \/ HandleUndecoded
    \/ Later
    \/ ConsumeTop

BookSpec == BookInit /\ [][BookNext]_bookVars

-----------------------------------------------------------------------------
(* Properties.                                                             *)

\* The number a text stands for, in units of its last digit.
Value(p) ==
    LET value[n \in 0..Len(p)] == IF n = 0 THEN 0 ELSE 10 * value[n - 1] + p[n]
    IN  value[Len(p)]

OneLength(side) == \A p, q \in side : Len(p) = Len(q)

\* What a reader will see once the channel is drained.
Newest == IF out = <<>> THEN Head(latest) ELSE Last(out)

\* The top of book on its way to GET /v1/book/ is the best bid and the best
\* ask of the reconstructed book, whatever order the maps are iterated in,
\* unless the newest update found the channel full (it is not sent again) or
\* the price texts of a side differ in length (they are compared as text).
ReaderCatchesUp ==
    bids # {} /\ asks # {} /\ OneLength(bids) /\ OneLength(asks) /\ ~skipped =>
        /\ Newest.bid \in bids /\ \A p \in bids : Value(p) <= Value(Newest.bid)
        /\ Newest.ask \in asks /\ \A p \in asks : Value(Newest.ask) <= Value(p)

\* "on gap, force a snapshot refresh and drop stale diffs", "Injected sequence
\* gaps trigger a snapshot refresh and correct book reconstruction": from a
\* diff refused as a gap until the next whole book, no update of the book that
\* misses it is handed to the reader.
GapForcesRefresh == ~outdated

=============================================================================
