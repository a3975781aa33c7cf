-------------------------- MODULE BinanceBookProofs -------------------------
(* The reconstructed book, for every set of levels and sizes, any number of *)
(* versions, any lag of the venue's servers and any channel capacity.       *)
EXTENDS BinanceBook, TLAPS

\* The pipeline keeps its types; the channel stays within its capacity.
THEOREM BookTyping == DepthSpec => []DepthTypeOK
<1>1. DepthInit => DepthTypeOK
  <2> SUFFICES ASSUME DepthInit
               PROVE  DepthTypeOK
    OBVIOUS
  <2>1. PICK b \in Books : hist = <<b>>
    BY DEF DepthInit
  <2>2. EmptyBook \in Books
    BY BookAssumption DEF EmptyBook, Books
  <2>3. hist \in Seq(Books) /\ Len(hist) = 1
    BY <2>1
  <2>4. out \in Seq(Books) /\ Len(out) = 0 /\ latest \in Seq(Books)
    BY DEF DepthInit
  <2>5. 1 \in 1..MaxVersion /\ 0 \in 0..1 /\ 0 <= OutCap
    BY BookAssumption
  <2> QED
    BY <2>2, <2>3, <2>4, <2>5 DEF DepthInit, DepthTypeOK
<1>2. DepthTypeOK /\ [DepthNext]_depthVars => DepthTypeOK'
  <2> SUFFICES ASSUME DepthTypeOK, [DepthNext]_depthVars
               PROVE  DepthTypeOK'
    OBVIOUS
  <2> USE BookAssumption DEF DepthTypeOK, reconstructor, socket, consumer
  <2>0. ASSUME NEW b \in Books, EmitUpdate(b)
        PROVE  out' \in Seq(Books) /\ Len(out') <= OutCap /\ latest' \in Seq(Books)
    BY <2>0 DEF EmitUpdate, ChannelHasRoom
  <2>1. \A v \in Recent : v \in 1..Len(hist) /\ hist[v] \in Books
    BY DEF Recent
  <2>2. CASE UNCHANGED depthVars
    BY <2>2 DEF depthVars
  <2>3. CASE VenueTrades
    <3>1. PICK b \in Books : hist' = Append(hist, b)
      BY <2>3 DEF VenueTrades
    <3>2. hist' \in Seq(Books) /\ Len(hist') = Len(hist) + 1
      BY <3>1
    <3> QED
      BY <2>3, <3>2 DEF VenueTrades
  <2>4. CASE EventSkipped
    BY <2>4 DEF EventSkipped
  <2>5. ASSUME NEW v \in Recent, Bootstrap(v)
        PROVE  DepthTypeOK'
    BY <2>0, <2>1, <2>5 DEF Bootstrap, ApplySnapshot
  <2>6. ASSUME NEW v \in Recent, Connect(v)
        PROVE  DepthTypeOK'
    BY <2>1, <2>6 DEF Connect
  <2>7. ASSUME NEW v \in Recent, HandleGap(v)
        PROVE  DepthTypeOK'
    BY <2>1, <2>7 DEF HandleGap, Receive, ApplySnapshot
  <2>8. CASE BootstrapFails
    BY <2>8 DEF BootstrapFails
  <2>9. CASE Disconnect
    BY <2>9 DEF Disconnect
  <2>10. CASE Cancel
    BY <2>10 DEF Cancel
  <2>11. CASE Stop
    BY <2>11 DEF Stop
  <2>12. CASE HandleForeign
    BY <2>12 DEF HandleForeign, depthVars
  <2>13. CASE HandleStale
    BY <2>13 DEF HandleStale, Receive
  <2>14. CASE HandleGapFails
    BY <2>14 DEF HandleGapFails, Receive
  <2>15. CASE HandleDiff
    <3>1. cursor + 1 \in 1..Len(hist)
      BY <2>15 DEF HandleDiff, Receive
    <3>2. Applied(cursor + 1) \in Books
      BY <3>1 DEF Applied, Books
    <3>3. anchored' \in BOOLEAN
      BY <2>15 DEF HandleDiff
    <3> QED
      BY <2>0, <2>15, <3>1, <3>2, <3>3 DEF HandleDiff, Receive
  <2>16. CASE Consume
    BY <2>16 DEF Consume
  <2> QED
    BY <2>2, <2>3, <2>4, <2>5, <2>6, <2>7, <2>8, <2>9, <2>10, <2>11, <2>12,
       <2>13, <2>14, <2>15, <2>16 DEF DepthNext
<1> QED
  BY <1>1, <1>2, PTL DEF DepthSpec

\* The venue only adds versions: the ones a book refers to do not change.
LEMMA HistoryGrows ==
  ASSUME DepthTypeOK, VenueTrades
  PROVE  \A i \in 1..Len(hist) : hist'[i] = hist[i]
<1>1. PICK b \in Books : hist' = Append(hist, b)
  BY DEF VenueTrades
<1> QED
  BY <1>1 DEF DepthTypeOK

\* A step that leaves the venue and the reconstructor alone keeps the chain.
LEMMA ChainUntouched ==
  ASSUME SnapshotInv, AnchoredInv, UNCHANGED <<hist, reconstructor>>,
         run' = "boot" => run = "boot"
  PROVE  SnapshotInv' /\ AnchoredInv'
  BY DEF SnapshotInv, AnchoredInv, reconstructor

\* Merging the next event into an anchored book keeps every level right.
LEMMA ChainDiff ==
  ASSUME DepthTypeOK, SnapshotInv, AnchoredInv, HandleDiff
  PROVE  AnchoredInv'
<1> DEFINE s == cursor + 1
<1>1. /\ cursor \in Nat /\ cursor # 0 /\ s <= Len(hist) /\ s \in 2..Len(hist)
      /\ s - 1 = cursor
      /\ lastSeq \in Nat /\ base \in Nat /\ base <= Len(hist)
      /\ anchored \in BOOLEAN
      /\ hist \in Seq(Books) /\ book \in Books
  BY DEF DepthTypeOK, HandleDiff, Receive
<1>2. /\ lastSeq' = s /\ book' = Applied(s) /\ base' = base /\ hist' = hist
      /\ anchored' = IF lastSeq = 0 THEN base # 0 /\ cursor <= base ELSE anchored
  BY DEF HandleDiff, Receive
<1>3. lastSeq # 0 => lastSeq = cursor
  BY <1>1 DEF HandleDiff, IsStale, IsGap
<1> SUFFICES ASSUME anchored', NEW l \in Levels
             PROVE  \/ book'[l] = hist[s][l]
                    \/ s < base /\ book'[l] = hist[base][l]
  BY <1>2 DEF AnchoredInv
<1>4. book'[l] = IF l \in Changed(s) THEN hist[s][l] ELSE book[l]
  BY <1>2 DEF Applied
<1>5. CASE l \in Changed(s)
  BY <1>4, <1>5
<1>6. CASE l \notin Changed(s)
  <2>1. hist[s][l] = hist[cursor][l] /\ book'[l] = book[l]
    BY <1>1, <1>4, <1>6 DEF Changed
  <2>2. CASE lastSeq = 0
    \* The first event after a snapshot that contains its predecessor.
    <3>1. base # 0 /\ cursor <= base /\ book = hist[base]
      BY <1>2, <2>2 DEF SnapshotInv
    <3>2. cursor = base \/ s = base \/ s < base
      BY <1>1, <3>1
    <3> QED
      BY <2>1, <3>1, <3>2
  <2>3. CASE lastSeq # 0
    <3>1. anchored /\ lastSeq = cursor
      BY <1>2, <1>3, <2>3
    <3>2. \/ book[l] = hist[cursor][l]
          \/ cursor < base /\ book[l] = hist[base][l]
      BY <2>3, <3>1 DEF AnchoredInv
    <3>3. cursor < base => s = base \/ s < base
      BY <1>1
    <3> QED
      BY <2>1, <3>2, <3>3
  <2> QED
    BY <2>2, <2>3
<1> QED
  BY <1>5, <1>6

\* The message handler, the goroutine and the venue keep the chain.
LEMMA ChainStep ==
  ASSUME DepthTypeOK, SnapshotInv, AnchoredInv, [DepthNext]_depthVars
  PROVE  SnapshotInv' /\ AnchoredInv'
<1> USE DEF socket, consumer
<1>1. CASE UNCHANGED depthVars
  BY <1>1, ChainUntouched DEF depthVars, reconstructor
<1>2. CASE VenueTrades
  <2>1. /\ book' = book /\ lastSeq' = lastSeq /\ base' = base
        /\ anchored' = anchored /\ run' = run
    BY <1>2 DEF VenueTrades, reconstructor
  <2>2. lastSeq # 0 => hist'[lastSeq] = hist[lastSeq]
    BY <1>2, HistoryGrows DEF DepthTypeOK
  <2>3. base # 0 => hist'[base] = hist[base]
    BY <1>2, HistoryGrows DEF DepthTypeOK
  <2>4. lastSeq < base => base # 0
    BY DEF DepthTypeOK
  <2> QED
    BY <2>1, <2>2, <2>3, <2>4 DEF SnapshotInv, AnchoredInv
<1>3. CASE EventSkipped
  BY <1>3, ChainUntouched DEF EventSkipped
<1>4. ASSUME NEW v \in Recent, Bootstrap(v)
      PROVE  SnapshotInv' /\ AnchoredInv'
  <2>1. lastSeq = 0
    BY <1>4 DEF Bootstrap, SnapshotInv
  <2> QED
    BY <1>4, <2>1 DEF Bootstrap, ApplySnapshot, SnapshotInv, AnchoredInv
<1>5. ASSUME NEW v \in Recent, Connect(v)
      PROVE  SnapshotInv' /\ AnchoredInv'
  BY <1>5, ChainUntouched DEF Connect
<1>6. ASSUME NEW v \in Recent, HandleGap(v)
      PROVE  SnapshotInv' /\ AnchoredInv'
  BY <1>6 DEF HandleGap, Receive, ApplySnapshot, SnapshotInv, AnchoredInv
<1>7. CASE BootstrapFails
  BY <1>7, ChainUntouched DEF BootstrapFails
<1>8. CASE Disconnect
  BY <1>8, ChainUntouched DEF Disconnect
<1>9. CASE Cancel
  BY <1>9, ChainUntouched DEF Cancel
<1>10. CASE Stop
  BY <1>10, ChainUntouched DEF Stop
<1>11. CASE HandleForeign
  BY <1>11, ChainUntouched DEF HandleForeign, depthVars, reconstructor
<1>12. CASE HandleStale
  BY <1>12, ChainUntouched DEF HandleStale, Receive
<1>13. CASE HandleGapFails
  BY <1>13 DEF HandleGapFails, Receive, SnapshotInv, AnchoredInv
<1>14. CASE HandleDiff
  <2>1. lastSeq' # 0 /\ run' # "boot"
    BY <1>14 DEF HandleDiff, Receive, DepthTypeOK
  <2> QED
    BY <1>14, <2>1, ChainDiff DEF SnapshotInv
<1>15. CASE Consume
  BY <1>15, ChainUntouched DEF Consume
<1> QED
  BY <1>1, <1>2, <1>3, <1>4, <1>5, <1>6, <1>7, <1>8, <1>9, <1>10, <1>11, <1>12,
     <1>13, <1>14, <1>15 DEF DepthNext

\* An anchored book that has caught up with its snapshot is the venue's book.
THEOREM AnchoredBook == DepthSpec => []AnchoredBookExact
<1>1. DepthInit => SnapshotInv /\ AnchoredInv
  BY DEF DepthInit, SnapshotInv, AnchoredInv
<1>2. DepthTypeOK /\ SnapshotInv /\ AnchoredInv /\ [DepthNext]_depthVars
        => SnapshotInv' /\ AnchoredInv'
  BY ChainStep
<1>3. DepthTypeOK /\ AnchoredInv => AnchoredBookExact
  <2> SUFFICES ASSUME DepthTypeOK, AnchoredInv, anchored, lastSeq # 0, lastSeq >= base
               PROVE  book = hist[lastSeq]
    BY DEF AnchoredBookExact
  <2>1. book \in Books /\ hist[lastSeq] \in Books /\ ~(lastSeq < base)
    BY DEF DepthTypeOK
  <2>2. \A l \in Levels : book[l] = hist[lastSeq][l]
    BY <2>1 DEF AnchoredInv
  <2> QED
    BY <2>1, <2>2 DEF Books
<1> QED
  BY BookTyping, <1>1, <1>2, <1>3, PTL DEF DepthSpec

=============================================================================
