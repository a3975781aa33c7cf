----------------------------- MODULE BinanceBook ----------------------------
(***************************************************************************)
(* The order-book pipeline of one Binance pair: the depth stream and its   *)
(* REST snapshot (internal/adapters/binance SubscribeBook), the            *)
(* reconstructor that merges them (internal/ws BookReconstructor), the     *)
(* bounded channel of updates and the aggregator that keeps the latest     *)
(* one (internal/book BookAggregator).                                     *)
(*                                                                         *)
(* A book is a function from price levels to sizes, 0 for an absent level. *)
(* The venue (external) is the sequence of books it has had; event s of    *)
(* its stream carries the levels in which book s differs from book s-1.    *)
(* A connection delivers the events in order from some point on and may    *)
(* skip some; the server behind a connection or a snapshot may be MaxLag   *)
(* versions behind.                                                        *)
(***************************************************************************)
EXTENDS Naturals, Sequences

CONSTANTS
    Bids, Asks,     \* the price levels of the two sides
    Sizes,          \* sizes at a level; 0 is "no such level"
    MaxVersion,     \* bound: books the venue goes through
    MaxLag,         \* how far a stream server or a snapshot may lag
    OutCap          \* capacity of the update channel (64)

Levels == Bids \cup Asks
Books == [Levels -> Sizes]

ASSUME BookAssumption ==
    /\ Sizes \subseteq Nat
    /\ 0 \in Sizes
    /\ MaxVersion \in Nat \ {0}
    /\ MaxLag \in Nat
    /\ OutCap \in Nat

VARIABLES
    hist,       \* the venue's books, oldest first; the version is the index
    run,        \* "boot", then "down" or "up" with the socket, then "done"
    cursor,     \* last event the current connection has passed on or skipped
    cancelled,  \* whether the context has been cancelled
    book,       \* BookReconstructor.bids and asks
    lastSeq,    \* BookReconstructor.lastSeq; 0 means not yet anchored
    out,        \* the buffered updates
    latest,     \* BookAggregator.latest, a sequence of at most one update
    base,       \* history: version of the snapshot in the book, 0 if none
    anchored    \* history: the first event applied since joined on to it

depthVars == <<hist, run, cursor, cancelled, book, lastSeq, out, latest, base, anchored>>
reconstructor == <<book, lastSeq, base, anchored>>
socket == <<run, cursor, cancelled>>
consumer == <<out, latest>>

EmptyBook == [l \in Levels |-> 0]

DepthInit ==
    /\ \E b \in Books : hist = <<b>>
    /\ run = "boot"
    /\ cursor = 0
    /\ cancelled = FALSE
    /\ book = EmptyBook
    /\ lastSeq = 0
    /\ out = <<>>
    /\ latest = <<>>
    /\ base = 0
    /\ anchored = FALSE

-----------------------------------------------------------------------------
(* The venue (external).                                                   *)

\* The versions a server may be at when it is asked.
Recent == {v \in 1..Len(hist) : v + MaxLag >= Len(hist)}

\* The levels event s carries.
Changed(s) == {l \in Levels : hist[s][l] # hist[s-1][l]}

VenueTrades ==
    /\ Len(hist) < MaxVersion
    /\ \E b \in Books \ {hist[Len(hist)]} : hist' = Append(hist, b)
    /\ UNCHANGED <<socket, reconstructor, consumer>>

\* An event never reaches the socket.
EventSkipped ==
    /\ run = "up"
    /\ cursor < Len(hist)
    /\ cursor' = cursor + 1
    /\ UNCHANGED <<hist, run, cancelled, reconstructor, consumer>>

-----------------------------------------------------------------------------
(* BookReconstructor and emitUpdate.                                       *)

\* ApplySnapshot: the book is replaced, lastSeq is left as it is.
ApplySnapshot(v) ==
    /\ book' = hist[v]
    /\ base' = v

\* The three outcomes of ApplyDiff.
IsStale(seq) == lastSeq # 0 /\ seq <= lastSeq
GapOffByOne(seq) == lastSeq # 0 /\ seq > lastSeq + 2
IsGap(seq) == lastSeq # 0 /\ seq > lastSeq + 1
Applied(seq) == [l \in Levels |-> IF l \in Changed(seq) THEN hist[seq][l] ELSE book[l]]

\* emitUpdate: a one-sided book is not sent, nor is one the channel is full for.
TwoSided(b) == (\E l \in Bids : b[l] # 0) /\ (\E l \in Asks : b[l] # 0)
ChannelHasRoom == Len(out) < OutCap
EmitUpdate(b) ==
    /\ out' = IF TwoSided(b) /\ ChannelHasRoom THEN Append(out, b) ELSE out
    /\ latest' = latest

-----------------------------------------------------------------------------
(* The goroutine of SubscribeBook: one snapshot, then Client.Run for ever. *)

Bootstrap(v) ==
    /\ run = "boot"
    /\ ~cancelled
    /\ ApplySnapshot(v)
    /\ EmitUpdate(hist[v])
    /\ run' = "down"
    /\ UNCHANGED <<hist, cursor, cancelled, lastSeq, anchored>>

BootstrapFails ==
    /\ run = "boot"
    /\ run' = "down"
    /\ UNCHANGED <<hist, cursor, cancelled, reconstructor, consumer>>

\* Client.connect succeeds: the stream starts where its server is.
Connect(p) ==
    /\ run = "down"
    /\ ~cancelled
    /\ run' = "up"
    /\ cursor' = p
    /\ UNCHANGED <<hist, cancelled, reconstructor, consumer>>

\* ReadMessage fails; Run closes the socket and sleeps its back-off.
Disconnect ==
    /\ run = "up"
    /\ run' = "down"
    /\ UNCHANGED <<hist, cursor, cancelled, reconstructor, consumer>>

Cancel ==
    /\ ~cancelled
    /\ cancelled' = TRUE
    /\ UNCHANGED <<hist, run, cursor, reconstructor, consumer>>

\* Run notices the cancelled context, but only between two connections.
Stop ==
    /\ run = "down"
    /\ cancelled
    /\ run' = "done"
    /\ UNCHANGED <<hist, cursor, cancelled, reconstructor, consumer>>

-----------------------------------------------------------------------------
(* The message handler, on the next event of the connection.               *)

Receive ==
    /\ run = "up"
    /\ cursor < Len(hist)
    /\ cursor' = cursor + 1
    /\ UNCHANGED <<hist, run, cancelled>>

\* Not JSON, or a stream that was not subscribed to.
HandleForeign ==
    /\ run = "up"
    /\ UNCHANGED depthVars

HandleStale ==
    /\ Receive
    /\ IsStale(cursor + 1)
    /\ UNCHANGED <<reconstructor, consumer>>

\* A gap: MarkGap, then a fresh snapshot, which is not emitted.
HandleGap(v) ==
    /\ Receive
    /\ IsGap(cursor + 1)
    /\ ~cancelled
    /\ lastSeq' = 0
    /\ ApplySnapshot(v)
    /\ UNCHANGED <<anchored, consumer>>

\* A gap whose snapshot cannot be fetched: the old book stays, unanchored.
HandleGapFails ==
    /\ Receive
    /\ IsGap(cursor + 1)
    /\ lastSeq' = 0
    /\ base' = 0
    /\ UNCHANGED <<book, anchored, consumer>>

\* The event is merged and the book emitted.
HandleDiff ==
    /\ Receive
    /\ ~IsStale(cursor + 1)
    /\ ~IsGap(cursor + 1)
    /\ book' = Applied(cursor + 1)
    /\ lastSeq' = cursor + 1
    /\ anchored' = IF lastSeq = 0 THEN base # 0 /\ cursor <= base ELSE anchored
    /\ base' = base
    /\ EmitUpdate(Applied(cursor + 1))

-----------------------------------------------------------------------------
\* BookAggregator.consume, until the closed channel is drained.
Consume ==
    /\ out # <<>>
    /\ latest' = <<Head(out)>>
    /\ out' = Tail(out)
    /\ UNCHANGED <<hist, socket, reconstructor>>

DepthNext ==
    \/ VenueTrades
    \/ EventSkipped
    \/ \E v \in Recent : Bootstrap(v)
    \/ \E v \in Recent : Connect(v)
    \/ \E v \in Recent : HandleGap(v)
    \/ BootstrapFails
    \/ Disconnect
    \/ Cancel
    \/ Stop
    \/ HandleForeign
    \/ HandleStale
    \/ HandleGapFails
    \/ HandleDiff
    \/ Consume

DepthSpec == DepthInit /\ [][DepthNext]_depthVars

-----------------------------------------------------------------------------
(* Properties.                                                             *)

\* Types; the update channel never holds more than its capacity.
DepthTypeOK ==
    /\ hist \in Seq(Books)
    /\ Len(hist) \in 1..MaxVersion
    /\ run \in {"boot", "down", "up", "done"}
    /\ cursor \in 0..Len(hist)
    /\ run = "up" => cursor # 0
    /\ cancelled \in BOOLEAN
    /\ book \in Books
    /\ lastSeq \in 0..Len(hist)
    /\ out \in Seq(Books)
    /\ Len(out) <= OutCap
    /\ latest \in Seq(Books)
    /\ base \in 0..Len(hist)
    /\ anchored \in BOOLEAN

\* The book ApplyDiff maintains is the venue's book at lastSeq, once lastSeq
\* has caught up with the snapshot, if the first event applied after the
\* snapshot joined on to it: gaps, reconnections, stale events, lagging
\* servers and failed refreshes do not break an anchored chain.
AnchoredBookExact ==
    anchored /\ lastSeq # 0 /\ lastSeq >= base => book = hist[lastSeq]

\* The strengthening that makes it inductive: while stale events are applied
\* on top of a newer snapshot, every level is the one or the other's.
AnchoredInv ==
    anchored /\ lastSeq # 0 =>
        \A l \in Levels : \/ book[l] = hist[lastSeq][l]
                          \/ lastSeq < base /\ book[l] = hist[base][l]

\* An unanchored book is the snapshot it was replaced by, and nothing is
\* applied before the first snapshot has been tried.
SnapshotInv ==
    /\ lastSeq = 0 /\ base # 0 => book = hist[base]
    /\ run = "boot" => lastSeq = 0

\* The documented promise: reconnecting and refreshing on gaps never loses
\* the integrity of a book that started from a snapshot.
BookIntegrity ==
    base # 0 /\ lastSeq # 0 /\ lastSeq >= base => book = hist[lastSeq]

=============================================================================
