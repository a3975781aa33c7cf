---------------------------- MODULE StoreProofs ----------------------------
(***************************************************************************)
(* Proofs about what the service keeps: the schema migrations, for any     *)
(* number of migrations and of deployables, the order stores, and the      *)
(* audit queue.  The three specifications share no variable.               *)
(*                                                                         *)
(* Neither property of the migrations is inductive: that a deployable      *)
(* serves on a complete schema needs to know what its loop has left behind *)
(* it, and that rows vanish newest first needs to know how far Down has    *)
(* got.                                                                    *)
(***************************************************************************)
EXTENDS Migrations, OrderStore, AsyncSink, FiniteSetTheorems, SequenceTheorems, TLAPS

\* A row stands for tables that exist, unless Down stopped half-way in it.
RowsHaveTables == applied \ interrupted \subseteq schema

\* The loop of Up leaves recorded versions behind it, and comes to the
\* record statement with its tables in place.
UpInv ==
    \A i \in Instances :
        /\ pc[i] \in {"query", "exec", "record", "ready"} =>
              \A u \in Versions : u < at[i] => u \in applied
        /\ pc[i] \in {"exec", "record"} => at[i] \in Versions
        /\ pc[i] = "record" => at[i] \in schema
        /\ pc[i] = "ready" => at[i] > Count

\* Down runs alone and leaves no row behind it.
DownInv ==
    /\ down # "off" =>
          /\ \A i \in Instances : pc[i] = "off"
          /\ \A v \in applied : v <= Count + 1 - reverted
    /\ down = "delete" => reverted <= Count

IInv ==
    /\ TypeOK
    /\ RowsHaveTables
    /\ AppliedInOrder
    /\ UpInv
    /\ DownInv

-----------------------------------------------------------------------------
\* Before the first start nothing exists and nothing is recorded.
LEMMA InitIInv == Init => IInv
<1>. SUFFICES ASSUME Init PROVE IInv
  OBVIOUS
<1>1. TypeOK
  <2>1. 1 \in 1..(Count + 1)
    BY MigrationsAssumption
  <2>. QED  BY <2>1 DEF Init, TypeOK
<1>2. RowsHaveTables /\ AppliedInOrder
  BY DEF Init, RowsHaveTables, AppliedInOrder
<1>3. UpInv
  BY DEF Init, UpInv
<1>4. DownInv
  BY DEF Init, DownInv
<1>. QED  BY <1>1, <1>2, <1>3, <1>4 DEF IInv

\* Every statement of Open and Up keeps the invariant, whatever the other
\* deployables are doing.
LEMMA UpKeepsIInv ==
  ASSUME IInv,
         NEW i \in Instances,
         \/ Open(i)
         \/ CreateLedger(i)
         \/ SkipApplied(i)
         \/ NotApplied(i)
         \/ ExecUp(i)
         \/ RecordUp(i)
         \/ Ready(i)
         \/ Exit(i)
  PROVE  IInv'
<1> USE MigrationsAssumption DEF IInv, TypeOK, Versions, database, downs
<1>1. CASE Open(i)
  BY <1>1 DEF Open, RowsHaveTables, AppliedInOrder, UpInv, DownInv
<1>2. CASE CreateLedger(i)
  BY <1>2 DEF CreateLedger, RowsHaveTables, AppliedInOrder, UpInv, DownInv
<1>3. CASE SkipApplied(i)
  BY <1>3 DEF SkipApplied, Finished, RowsHaveTables, AppliedInOrder, UpInv, DownInv
<1>4. CASE NotApplied(i)
  BY <1>4 DEF NotApplied, Finished, RowsHaveTables, AppliedInOrder, UpInv, DownInv
<1>5. CASE ExecUp(i)
  BY <1>5 DEF ExecUp, TablesAfterUp, RowsHaveTables, AppliedInOrder, UpInv, DownInv
<1>6. CASE RecordUp(i)
  <2>1. TypeOK'
    <3>1. at[i] \in 1..Count /\ at[i] + 1 \in 1..(Count + 1)
      BY <1>6 DEF RecordUp, UpInv
    <3>. QED  BY <1>6, <3>1 DEF RecordUp
  <2>2. RowsHaveTables'
    BY <1>6 DEF RecordUp, RowsHaveTables, UpInv
  <2>3. AppliedInOrder'
    BY <1>6 DEF RecordUp, AppliedInOrder, UpInv
  <2>4. UpInv'
    BY <1>6 DEF RecordUp, UpInv
  <2>5. DownInv'
    BY <1>6 DEF RecordUp, DownInv
  <2>. QED  BY <2>1, <2>2, <2>3, <2>4, <2>5
<1>7. CASE Ready(i)
  BY <1>7 DEF Ready, Finished, RowsHaveTables, AppliedInOrder, UpInv, DownInv
<1>8. CASE Exit(i)
  BY <1>8 DEF Exit, RowsHaveTables, AppliedInOrder, UpInv, DownInv
<1>. QED  BY <1>1, <1>2, <1>3, <1>4, <1>5, <1>6, <1>7, <1>8

\* Every statement of Down keeps it too, the last one it gets to included.
LEMMA DownKeepsIInv ==
  ASSUME IInv,
         \/ StartDown
         \/ SkipNotApplied
         \/ ExecDown
         \/ DeleteRow
         \/ ExitDown
  PROVE  IInv'
<1> USE MigrationsAssumption DEF IInv, TypeOK, Versions, database, ups
<1>1. CASE StartDown
  BY <1>1 DEF StartDown, RowsHaveTables, AppliedInOrder, UpInv, DownInv
<1>2. CASE SkipNotApplied
  BY <1>2 DEF SkipNotApplied, Reverting, RowsHaveTables, AppliedInOrder, UpInv, DownInv
<1>3. CASE ExecDown
  BY <1>3 DEF ExecDown, Reverting, RowsHaveTables, AppliedInOrder, UpInv, DownInv
<1>4. CASE DeleteRow
  <2>1. TypeOK'
    BY <1>4 DEF DeleteRow, Reverting, DownInv
  <2>2. RowsHaveTables'
    BY <1>4 DEF DeleteRow, RowsHaveTables
  <2>3. AppliedInOrder'
    BY <1>4 DEF DeleteRow, Reverting, AppliedInOrder, DownInv
  <2>4. UpInv'
    BY <1>4 DEF DeleteRow, UpInv, DownInv
  <2>5. DownInv'
    BY <1>4 DEF DeleteRow, Reverting, DownInv
  <2>. QED  BY <2>1, <2>2, <2>3, <2>4, <2>5
<1>5. CASE ExitDown
  BY <1>5 DEF ExitDown, RowsHaveTables, AppliedInOrder, UpInv, DownInv
<1>. QED  BY <1>1, <1>2, <1>3, <1>4, <1>5

\* The invariant holds in every reachable state.
LEMMA Invariance == Spec => []IInv
<1>1. IInv /\ [Next]_vars => IInv'
  <2>. SUFFICES ASSUME IInv, [Next]_vars PROVE IInv'
    OBVIOUS
  <2>1. CASE Next
    BY <2>1, UpKeepsIInv, DownKeepsIInv DEF Next
  <2>2. CASE UNCHANGED vars
    BY <2>2 DEF vars, IInv, TypeOK, RowsHaveTables, AppliedInOrder, UpInv, DownInv
  <2>. QED  BY <2>1, <2>2
<1>. QED  BY InitIInv, <1>1, PTL DEF Spec

-----------------------------------------------------------------------------
\* Types; every row of schema_migrations is of an embedded migration.
THEOREM MigrationsTyping == Spec => []TypeOK
<1>1. IInv => TypeOK
  BY DEF IInv
<1>. QED  BY Invariance, <1>1, PTL

\* A deployable that has come out of postgres.Open has all tables, whoever
\* else was migrating and wherever anybody died.
THEOREM MigrationsReady == Spec => []ReadyIsMigrated
<1>1. IInv => ReadyIsMigrated
  BY MigrationsAssumption
  DEF IInv, TypeOK, RowsHaveTables, UpInv, ReadyIsMigrated, Versions
<1>. QED  BY Invariance, <1>1, PTL

\* The rows of schema_migrations are always those of the oldest migrations.
THEOREM MigrationsInOrder == Spec => []AppliedInOrder
<1>1. IInv => AppliedInOrder
  BY DEF IInv
<1>. QED  BY Invariance, <1>1, PTL

-----------------------------------------------------------------------------
(* The two stores.                                                          *)

StoreTypeOK ==
    /\ mem \in [Venues -> UNION {[S -> OrderIds] : S \in SUBSET ClientKeys}]
    /\ memFills \in [Venues -> SUBSET [order : OrderIds, trade : TradeIds]]
    /\ rows \subseteq [venue : Venues, id : OrderIds, client : ClientKeys]
    /\ fillRows \subseteq [venue : Venues, order : OrderIds, trade : TradeIds]

\* What MemStore.RecordOrder does to one deployable, and that it does nothing
\* to the others.
LEMMA MemOrders ==
  ASSUME StoreTypeOK, NEW v \in Venues, NEW id \in OrderIds, NEW c \in ClientKeys,
         MemRecordOrder(v, id, c)
  PROVE  /\ mem' \in [Venues -> UNION {[S -> OrderIds] : S \in SUBSET ClientKeys}]
         /\ \A u \in Venues : u # v => mem'[u] = mem[u]
         /\ DOMAIN mem'[v] = DOMAIN mem[v] \cup {c}
         /\ \A k \in DOMAIN mem[v] : mem'[v][k] = mem[v][k]
         /\ c \notin DOMAIN mem[v] => mem'[v][c] = id
<1> DEFINE Maps == UNION {[S -> OrderIds] : S \in SUBSET ClientKeys}
           m == [k \in DOMAIN mem[v] \cup {c} |-> IF k = c THEN id ELSE mem[v][k]]
<1>1. mem \in [Venues -> Maps]
  BY DEF StoreTypeOK
<1>2. PICK S \in SUBSET ClientKeys : mem[v] \in [S -> OrderIds]
  BY <1>1
<1>3. DOMAIN mem[v] = S
  BY <1>2
<1>4. CASE c \in S
  <2>1. mem' = [mem EXCEPT ![v] = mem[v]]
    BY <1>3, <1>4 DEF MemRecordOrder, NewInMem
  <2> HIDE DEF Maps
  <2>2. mem' = mem
    BY <1>1, <2>1
  <2> QED
    BY <1>1, <1>3, <1>4, <2>2 DEF Maps
<1>5. CASE c \notin S
  <2>1. mem' = [mem EXCEPT ![v] = m]
    BY <1>3, <1>5 DEF MemRecordOrder, NewInMem
  <2>2. m \in [S \cup {c} -> OrderIds]
    BY <1>2, <1>3
  <2>3. m \in Maps
    BY <2>2
  <2>4. m[c] = id /\ \A k \in S : m[k] = mem[v][k]
    BY <1>3, <1>5
  <2>5. DOMAIN m = S \cup {c}
    BY <1>3
  <2> HIDE DEF Maps, m
  <2>6. mem' \in [Venues -> Maps] /\ mem'[v] = m /\ \A u \in Venues : u # v => mem'[u] = mem[u]
    BY <1>1, <2>1, <2>3
  <2> QED
    BY <1>3, <1>5, <2>4, <2>5, <2>6 DEF Maps
<1> QED
  BY <1>4, <1>5

\* A restart empties the map of its venue and no other.
LEMMA RestartedMem ==
    ASSUME StoreTypeOK, NEW v \in Venues, Restart(v)
    PROVE  /\ mem' \in [Venues -> UNION {[S -> OrderIds] : S \in SUBSET ClientKeys}]
           /\ DOMAIN mem'[v] = {}
           /\ \A u \in Venues : u # v => mem'[u] = mem[u]
<1> DEFINE Maps == UNION {[S -> OrderIds] : S \in SUBSET ClientKeys}
<1>1. NoOrders \in [{} -> OrderIds] /\ DOMAIN NoOrders = {}
  BY DEF NoOrders
<1>2. NoOrders \in Maps
  BY <1>1
<1>3. mem \in [Venues -> Maps] /\ mem' = [mem EXCEPT ![v] = NoOrders]
  BY DEF StoreTypeOK, Restart
<1> HIDE DEF Maps
<1>4. /\ mem' \in [Venues -> Maps] /\ mem'[v] = NoOrders
      /\ \A u \in Venues : u # v => mem'[u] = mem[u]
  BY <1>2, <1>3
<1> QED
  BY <1>1, <1>4 DEF Maps

LEMMA StoreTyping == StoreSpec => []StoreTypeOK
<1>1. StoreInit => StoreTypeOK
  <2> SUFFICES ASSUME StoreInit
               PROVE  StoreTypeOK
    OBVIOUS
  <2>1. NoOrders \in [{} -> OrderIds]
    BY DEF NoOrders
  <2>2. NoOrders \in UNION {[S -> OrderIds] : S \in SUBSET ClientKeys}
    BY <2>1
  <2> QED
    BY <2>2 DEF StoreInit, StoreTypeOK
<1>2. StoreTypeOK /\ [StoreNext]_storeVars => StoreTypeOK'
  <2> SUFFICES ASSUME StoreTypeOK, [StoreNext]_storeVars
               PROVE  StoreTypeOK'
    OBVIOUS
  <2>1. CASE UNCHANGED storeVars
    BY <2>1 DEF storeVars, tables, StoreTypeOK
  <2>2. ASSUME NEW v \in Venues, NEW id \in OrderIds, NEW c \in ClientKeys, RecordOrder(v, id, c)
        PROVE  StoreTypeOK'
    <3>1. mem' \in [Venues -> UNION {[S -> OrderIds] : S \in SUBSET ClientKeys}]
      BY <2>2, MemOrders DEF RecordOrder
    <3>2. rows' \subseteq [venue : Venues, id : OrderIds, client : ClientKeys]
      BY <2>2 DEF RecordOrder, DbRecordOrder, InsertOrder, StoreTypeOK
    <3> QED
      BY <2>2, <3>1, <3>2 DEF RecordOrder, StoreTypeOK
  <2>3. ASSUME NEW v \in Venues, NEW id \in OrderIds, NEW t \in TradeIds, RecordFill(v, id, t)
        PROVE  StoreTypeOK'
    <3>1. memFills' \in [Venues -> SUBSET [order : OrderIds, trade : TradeIds]]
      BY <2>3 DEF RecordFill, MemRecordFill, StoreTypeOK
    <3>2. fillRows' \subseteq [venue : Venues, order : OrderIds, trade : TradeIds]
      BY <2>3 DEF RecordFill, DbRecordFill, InsertFill, StoreTypeOK
    <3> QED
      BY <2>3, <3>1, <3>2 DEF RecordFill, StoreTypeOK
  <2>4. ASSUME NEW v \in Venues, Restart(v)
        PROVE  StoreTypeOK'
    <3>1. mem' \in [Venues -> UNION {[S -> OrderIds] : S \in SUBSET ClientKeys}]
      BY <2>4, RestartedMem
    <3>2. memFills' \in [Venues -> SUBSET [order : OrderIds, trade : TradeIds]]
      BY <2>4 DEF Restart, StoreTypeOK
    <3> QED
      BY <2>4, <3>1, <3>2 DEF Restart, tables, StoreTypeOK
  <2> QED
    BY <2>1, <2>2, <2>3, <2>4 DEF StoreNext
<1> QED
  BY <1>1, <1>2, PTL DEF StoreSpec

\* StoresAgree with the fills of a trade compared as sets: at every key the
\* two stores hold the same, and so both have something there or neither has.
KeysAgree ==
    \A v \in Venues :
        /\ \A c \in ClientKeys : <<v, c>> \notin Excused =>
              {o.id : o \in OwnRow(v, c)} = {mem[v][k] : k \in DOMAIN mem[v] \cap {c}}
        /\ \A t \in TradeIds : <<v, t>> \notin Excused =>
              {f.order : f \in {g \in fillRows : g.venue = v /\ g.trade = t}}
              = {f.order : f \in {g \in memFills[v] : g.trade = t}}

\* Up to a restart, and except where an INSERT was answered with an error, the
\* queries return of the venue that asks what its MemStore holds, for any
\* number of venues and ids.
THEOREM StoresAgreeUntilRestart == StoreSpec => []StoresAgree
<1>1. StoreInit => KeysAgree
  BY DEF StoreInit, KeysAgree, OwnRow, GetOrderByClientID, NoOrders
<1>2. StoreTypeOK /\ KeysAgree /\ [StoreNext]_storeVars => KeysAgree'
  <2> SUFFICES ASSUME StoreTypeOK, KeysAgree, [StoreNext]_storeVars
               PROVE  KeysAgree'
    OBVIOUS
  <2>1. CASE UNCHANGED storeVars
    <3>1. UNCHANGED <<mem, memFills, rows, fillRows>> /\ Excused' = Excused
      BY <2>1 DEF storeVars, tables, Excused
    <3>2. \A u, k : OwnRow(u, k)' = OwnRow(u, k)
      BY <3>1 DEF OwnRow, GetOrderByClientID
    <3> QED
      BY <3>1, <3>2 DEF KeysAgree
  <2>2. ASSUME NEW v \in Venues, NEW id \in OrderIds, NEW c \in ClientKeys, RecordOrder(v, id, c)
        PROVE  KeysAgree'
    <3>1. /\ \A u \in Venues : u # v => mem'[u] = mem[u]
          /\ DOMAIN mem'[v] = DOMAIN mem[v] \cup {c}
          /\ \A k \in DOMAIN mem[v] : mem'[v][k] = mem[v][k]
          /\ c \notin DOMAIN mem[v] => mem'[v][c] = id
      BY <2>2, MemOrders DEF RecordOrder
    <3>2. memFills' = memFills /\ fillRows' = fillRows /\ Excused \subseteq Excused'
      BY <2>2 DEF RecordOrder, DbRecordOrder, Unreachable, Excused
    <3>3. ASSUME NEW u \in Venues, NEW k \in ClientKeys, <<u, k>> \notin Excused',
                 <<u, k>> # <<v, c>>
          PROVE  {o.id : o \in OwnRow(u, k)'} = {mem'[u][j] : j \in DOMAIN mem'[u] \cap {k}}
      <4>1. {o.id : o \in OwnRow(u, k)} = {mem[u][j] : j \in DOMAIN mem[u] \cap {k}}
        BY <3>2, <3>3 DEF KeysAgree
      <4>2. OwnRow(u, k)' = OwnRow(u, k)
        BY <2>2, <3>3 DEF RecordOrder, DbRecordOrder, InsertOrder, OwnRow, GetOrderByClientID
      <4>3. /\ DOMAIN mem'[u] \cap {k} = DOMAIN mem[u] \cap {k}
            /\ \A j \in DOMAIN mem[u] \cap {k} : mem'[u][j] = mem[u][j]
        BY <3>1, <3>3
      <4> QED
        BY <4>1, <4>2, <4>3
    <3>4. ASSUME <<v, c>> \notin Excused'
          PROVE  {o.id : o \in OwnRow(v, c)'} = {mem'[v][j] : j \in DOMAIN mem'[v] \cap {c}}
      \* The row is inserted exactly when the map had no entry.
      <4>1. {o.id : o \in OwnRow(v, c)} = {mem[v][j] : j \in DOMAIN mem[v] \cap {c}}
        BY <3>2, <3>4 DEF KeysAgree
      <4>2. DbRecordOrder(v, id, c) /\ ~Fails(v, id, c)
        BY <2>2, <3>4 DEF RecordOrder, DbRecordOrder, Unreachable, Excused
      <4>3. CASE c \in DOMAIN mem[v]
        <5>1. SameKey(v, c)
          BY <4>1, <4>3 DEF OwnRow, GetOrderByClientID, SameKey
        <5>2. rows' = rows
          BY <4>2, <5>1 DEF DbRecordOrder, InsertOrder, Inserts
        <5>3. OwnRow(v, c)' = OwnRow(v, c)
          BY <5>2 DEF OwnRow, GetOrderByClientID
        <5> QED
          BY <3>1, <4>1, <4>3, <5>3
      <4>4. CASE c \notin DOMAIN mem[v]
        <5>1. OwnRow(v, c) = {}
          BY <4>1, <4>4
        <5>2. ~SameKey(v, c)
          BY <5>1 DEF OwnRow, GetOrderByClientID, SameKey
        <5>3. rows' = rows \cup {[venue |-> v, id |-> id, client |-> c]}
          BY <4>2, <5>2 DEF DbRecordOrder, InsertOrder, Inserts, Fails
        <5>4. OwnRow(v, c)' = {[venue |-> v, id |-> id, client |-> c]}
          BY <5>1, <5>3 DEF OwnRow, GetOrderByClientID
        <5> QED
          BY <3>1, <4>4, <5>4
      <4> QED
        BY <4>3, <4>4
    <3>5. \A u \in Venues : \A t \in TradeIds : <<u, t>> \notin Excused' =>
              {f.order : f \in {g \in fillRows' : g.venue = u /\ g.trade = t}}
              = {f.order : f \in {g \in memFills'[u] : g.trade = t}}
      BY <3>2 DEF KeysAgree
    <3>6. \A u \in Venues : \A k \in ClientKeys : <<u, k>> \notin Excused' =>
              {o.id : o \in OwnRow(u, k)'} = {mem'[u][j] : j \in DOMAIN mem'[u] \cap {k}}
      BY <3>3, <3>4
    <3> QED
      BY <3>5, <3>6 DEF KeysAgree
  <2>3. ASSUME NEW v \in Venues, NEW id \in OrderIds, NEW t \in TradeIds, RecordFill(v, id, t)
        PROVE  KeysAgree'
    <3>1. mem' = mem /\ rows' = rows /\ Excused \subseteq Excused'
      BY <2>3 DEF RecordFill, DbRecordFill, Unreachable, Excused
    <3>2. /\ \A u \in Venues : u # v => memFills'[u] = memFills[u]
          /\ memFills'[v] = IF \E f \in memFills[v] : f.trade = t
                            THEN memFills[v]
                            ELSE memFills[v] \cup {[order |-> id, trade |-> t]}
      BY <2>3 DEF RecordFill, MemRecordFill, StoreTypeOK
    <3>3. ASSUME NEW u \in Venues, NEW s \in TradeIds, <<u, s>> \notin Excused',
                 <<u, s>> # <<v, t>>
          PROVE  {f.order : f \in {g \in fillRows' : g.venue = u /\ g.trade = s}}
                 = {f.order : f \in {g \in memFills'[u] : g.trade = s}}
      <4>1. {f.order : f \in {g \in fillRows : g.venue = u /\ g.trade = s}}
            = {f.order : f \in {g \in memFills[u] : g.trade = s}}
        BY <3>1, <3>3 DEF KeysAgree
      <4>2. {g \in fillRows' : g.venue = u /\ g.trade = s}
            = {g \in fillRows : g.venue = u /\ g.trade = s}
        BY <2>3, <3>3 DEF RecordFill, DbRecordFill, InsertFill
      <4>3. {g \in memFills'[u] : g.trade = s} = {g \in memFills[u] : g.trade = s}
        BY <3>2, <3>3
      <4> QED
        BY <4>1, <4>2, <4>3
    <3>4. ASSUME <<v, t>> \notin Excused'
          PROVE  {f.order : f \in {g \in fillRows' : g.venue = v /\ g.trade = t}}
                 = {f.order : f \in {g \in memFills'[v] : g.trade = t}}
      <4> DEFINE db == {g \in fillRows : g.venue = v /\ g.trade = t}
                 kept == {g \in memFills[v] : g.trade = t}
      <4>1. {f.order : f \in db} = {f.order : f \in kept}
        BY <3>1, <3>4 DEF KeysAgree
      <4>2. DbRecordFill(v, id, t)
        BY <2>3, <3>4 DEF RecordFill, Unreachable, Excused
      <4>3. db = {} <=> kept = {}
        BY <4>1
      <4>4. CASE kept # {}
        <5>1. memFills'[v] = memFills[v]
          BY <3>2, <4>4
        <5>2. fillRows' = fillRows
          BY <4>2, <4>3, <4>4 DEF DbRecordFill, InsertFill
        <5> QED
          BY <4>1, <5>1, <5>2
      <4>5. CASE kept = {}
        <5>1. memFills'[v] = memFills[v] \cup {[order |-> id, trade |-> t]}
          BY <3>2, <4>5
        <5>2. fillRows' = fillRows \cup {[venue |-> v, order |-> id, trade |-> t]}
          BY <4>2, <4>3, <4>5 DEF DbRecordFill, InsertFill
        <5>3. {g \in memFills'[v] : g.trade = t} = {[order |-> id, trade |-> t]}
          BY <5>1, <4>5
        <5>4. {g \in fillRows' : g.venue = v /\ g.trade = t}
              = {[venue |-> v, order |-> id, trade |-> t]}
          BY <5>2, <4>3, <4>5
        <5>5. ASSUME NEW r, r.order = id
              PROVE  {f.order : f \in {r}} = {id}
          BY <5>5
        <5>6. {f.order : f \in {g \in memFills'[v] : g.trade = t}} = {id}
          <6>1. PICK r : r = [order |-> id, trade |-> t]
            OBVIOUS
          <6>2. r.order = id
            BY <6>1
          <6>3. {g \in memFills'[v] : g.trade = t} = {r}
            BY <5>3, <6>1
          <6> QED
            BY <5>5, <6>2, <6>3
        <5>7. {f.order : f \in {g \in fillRows' : g.venue = v /\ g.trade = t}} = {id}
          <6>1. PICK r : r = [venue |-> v, order |-> id, trade |-> t]
            OBVIOUS
          <6>2. r.order = id
            BY <6>1
          <6>3. {g \in fillRows' : g.venue = v /\ g.trade = t} = {r}
            BY <5>4, <6>1
          <6> QED
            BY <5>5, <6>2, <6>3
        <5> QED
          BY <5>6, <5>7
      <4> QED
        BY <4>4, <4>5
    <3>5. \A u \in Venues : \A s \in TradeIds : <<u, s>> \notin Excused' =>
              {f.order : f \in {g \in fillRows' : g.venue = u /\ g.trade = s}}
              = {f.order : f \in {g \in memFills'[u] : g.trade = s}}
      BY <3>3, <3>4
    <3>6. \A u \in Venues : \A k \in ClientKeys : <<u, k>> \notin Excused' =>
              {o.id : o \in OwnRow(u, k)'} = {mem'[u][j] : j \in DOMAIN mem'[u] \cap {k}}
      BY <3>1 DEF KeysAgree, OwnRow, GetOrderByClientID
    <3> QED
      BY <3>5, <3>6 DEF KeysAgree
  <2>4. ASSUME NEW v \in Venues, Restart(v)
        PROVE  KeysAgree'
    <3>1. rows' = rows /\ fillRows' = fillRows
      BY <2>4 DEF Restart, tables
    <3>2. DOMAIN mem'[v] = {} /\ \A u \in Venues : u # v => mem'[u] = mem[u]
      BY <2>4, RestartedMem
    <3>3. memFills'[v] = {} /\ \A u \in Venues : u # v => memFills'[u] = memFills[u]
      BY <2>4 DEF Restart, StoreTypeOK
    <3>4. /\ Excused \subseteq Excused'
          /\ \A c \in DOMAIN mem[v] : <<v, c>> \in Excused'
          /\ \A f \in memFills[v] : <<v, f.trade>> \in Excused'
      BY <2>4 DEF Restart, Excused
    <3>5. ASSUME NEW u \in Venues, NEW k \in ClientKeys, <<u, k>> \notin Excused'
          PROVE  {o.id : o \in OwnRow(u, k)'} = {mem'[u][j] : j \in DOMAIN mem'[u] \cap {k}}
      <4>1. {o.id : o \in OwnRow(u, k)} = {mem[u][j] : j \in DOMAIN mem[u] \cap {k}}
        BY <3>4, <3>5 DEF KeysAgree
      <4>2. OwnRow(u, k)' = OwnRow(u, k)
        BY <3>1 DEF OwnRow, GetOrderByClientID
      <4>3. CASE u # v
        BY <3>2, <4>1, <4>2, <4>3
      <4>4. CASE u = v
        <5>1. DOMAIN mem[u] \cap {k} = {} /\ DOMAIN mem'[u] \cap {k} = {}
          BY <3>2, <3>4, <3>5, <4>4
        <5> QED
          BY <4>1, <4>2, <5>1
      <4> QED
        BY <4>3, <4>4
    <3>6. ASSUME NEW u \in Venues, NEW s \in TradeIds, <<u, s>> \notin Excused'
          PROVE  {f.order : f \in {g \in fillRows' : g.venue = u /\ g.trade = s}}
                 = {f.order : f \in {g \in memFills'[u] : g.trade = s}}
      <4>1. {f.order : f \in {g \in fillRows : g.venue = u /\ g.trade = s}}
            = {f.order : f \in {g \in memFills[u] : g.trade = s}}
        BY <3>4, <3>6 DEF KeysAgree
      <4>2. CASE u # v
        BY <3>1, <3>3, <4>1, <4>2
      <4>3. CASE u = v
        <5>1. {g \in memFills[u] : g.trade = s} = {} /\ {g \in memFills'[u] : g.trade = s} = {}
          BY <3>3, <3>4, <3>6, <4>3
        <5> QED
          BY <3>1, <4>1, <5>1
      <4> QED
        BY <4>2, <4>3
    <3> QED
      BY <3>5, <3>6 DEF KeysAgree
  <2> QED
    BY <2>1, <2>2, <2>3, <2>4 DEF StoreNext
<1>3. StoreTypeOK /\ KeysAgree => StoresAgree
  <2> SUFFICES ASSUME StoreTypeOK, KeysAgree, NEW v \in Venues, NEW id \in OrderIds,
                      NEW t \in TradeIds, <<v, t>> \notin Excused
               PROVE  (\E f \in FillsForOrder(id) : f.venue = v /\ f.trade = t)
                         <=> \E f \in memFills[v] : f.order = id /\ f.trade = t
    BY DEF KeysAgree, StoresAgree
  <2>1. {f.order : f \in {g \in fillRows : g.venue = v /\ g.trade = t}}
        = {f.order : f \in {g \in memFills[v] : g.trade = t}}
    BY DEF KeysAgree
  <2>2. id \in {f.order : f \in {g \in fillRows : g.venue = v /\ g.trade = t}}
           <=> \E f \in FillsForOrder(id) : f.venue = v /\ f.trade = t
    BY DEF FillsForOrder
  <2>3. id \in {f.order : f \in {g \in memFills[v] : g.trade = t}}
           <=> \E f \in memFills[v] : f.order = id /\ f.trade = t
    OBVIOUS
  <2> QED
    BY <2>1, <2>2, <2>3
<1> QED
  BY <1>1, <1>2, <1>3, StoreTyping, PTL DEF StoreSpec

\* An order that Postgres lost without an outage lost its place to an order of
\* another client id or venue with the same venue_order_id.
THEOREM StoreLosesOnlyToSameId == StoreSpec => []LostOnlyToSameId
<1>1. StoreInit => LostOnlyToSameId
  BY DEF StoreInit, LostOnlyToSameId, NoOrders
<1>2. StoreTypeOK /\ LostOnlyToSameId /\ [StoreNext]_storeVars => LostOnlyToSameId'
  <2> SUFFICES ASSUME StoreTypeOK, LostOnlyToSameId, [StoreNext]_storeVars
               PROVE  LostOnlyToSameId'
    OBVIOUS
  <2>1. CASE UNCHANGED storeVars
    BY <2>1 DEF storeVars, tables, LostOnlyToSameId, OwnRow, GetOrderByClientID
  <2>2. ASSUME NEW v \in Venues, NEW id \in OrderIds, NEW c \in ClientKeys, RecordOrder(v, id, c)
        PROVE  LostOnlyToSameId'
    <3>1. /\ \A u \in Venues : u # v => mem'[u] = mem[u]
          /\ DOMAIN mem'[v] = DOMAIN mem[v] \cup {c}
          /\ \A k \in DOMAIN mem[v] : mem'[v][k] = mem[v][k]
          /\ c \notin DOMAIN mem[v] => mem'[v][c] = id
      BY <2>2, MemOrders DEF RecordOrder
    <3>2. rows \subseteq rows' /\ outages \subseteq outages'
      BY <2>2 DEF RecordOrder, DbRecordOrder, InsertOrder, Unreachable
    <3> SUFFICES ASSUME NEW u \in Venues, NEW k \in DOMAIN mem'[u],
                        OwnRow(u, k)' = {}, <<u, k>> \notin outages'
                 PROVE  \E o \in rows' : o.id = mem'[u][k] /\ <<o.venue, o.client>> # <<u, k>>
      BY DEF LostOnlyToSameId
    <3>3. OwnRow(u, k) = {}
      BY <3>2 DEF OwnRow, GetOrderByClientID
    <3>4. CASE k \in DOMAIN mem[u]
      <4>1. mem'[u][k] = mem[u][k]
        BY <3>1, <3>4
      <4>2. PICK o \in rows : o.id = mem[u][k] /\ <<o.venue, o.client>> # <<u, k>>
        BY <3>2, <3>3, <3>4 DEF LostOnlyToSameId
      <4> QED
        BY <3>2, <4>1, <4>2
    <3>5. CASE k \notin DOMAIN mem[u]
      \* The order is new to MemStore, and its INSERT met the primary key.
      <4>1. u = v /\ k = c
        BY <3>1, <3>5
      <4>2. mem'[u][k] = id
        BY <3>1, <3>5, <4>1
      <4>3. DbRecordOrder(v, id, c)
        BY <2>2, <4>1 DEF RecordOrder, Unreachable
      <4>4. ~SameKey(v, c)
        BY <3>3, <4>1 DEF OwnRow, GetOrderByClientID, SameKey
      <4>5. ~Inserts(v, id, c)
        <5> SUFFICES ASSUME Inserts(v, id, c)
                     PROVE  FALSE
          OBVIOUS
        <5>1. [venue |-> v, id |-> id, client |-> c] \in rows'
          BY <4>3 DEF DbRecordOrder, InsertOrder
        <5>2. [venue |-> v, id |-> id, client |-> c] \in OwnRow(u, k)'
          BY <4>1, <5>1 DEF OwnRow, GetOrderByClientID
        <5> QED
          BY <5>2
      <4>6. PICK o \in rows : o.id = id
        BY <4>4, <4>5 DEF Inserts, SameId
      <4> QED
        BY <3>2, <4>1, <4>2, <4>4, <4>6 DEF SameKey
    <3> QED
      BY <3>4, <3>5
  <2>3. ASSUME NEW v \in Venues, NEW id \in OrderIds, NEW t \in TradeIds, RecordFill(v, id, t)
        PROVE  LostOnlyToSameId'
    <3>1. mem' = mem /\ rows' = rows /\ outages \subseteq outages'
      BY <2>3 DEF RecordFill, DbRecordFill, Unreachable
    <3> QED
      BY <3>1 DEF LostOnlyToSameId, OwnRow, GetOrderByClientID
  <2>4. ASSUME NEW v \in Venues, Restart(v)
        PROVE  LostOnlyToSameId'
    <3>1. rows' = rows /\ outages' = outages
      BY <2>4 DEF Restart, tables
    <3>2. DOMAIN mem'[v] = {} /\ \A u \in Venues : u # v => mem'[u] = mem[u]
      BY <2>4, RestartedMem
    <3>3. \A u \in Venues : \A c \in DOMAIN mem'[u] : mem'[u] = mem[u]
      BY <3>2
    <3> QED
      BY <3>1, <3>3 DEF LostOnlyToSameId, OwnRow, GetOrderByClientID
  <2> QED
    BY <2>1, <2>2, <2>3, <2>4 DEF StoreNext
<1> QED
  BY <1>1, <1>2, StoreTyping, PTL DEF StoreSpec

-----------------------------------------------------------------------------
(* The audit queue: what a channel does to sequences.                      *)

LEMMA TakenKeepsSequence ==
    ASSUME NEW S, NEW d \in Seq(S), NEW q \in Seq(S), q # <<>>
    PROVE  (d \o <<Head(q)>>) \o Tail(q) = (d \o <<>>) \o q
<1>1. Head(q) \in S /\ Tail(q) \in Seq(S) /\ <<Head(q)>> \in Seq(S)
    BY HeadTailProperties
<1>2. <<Head(q)>> \o Tail(q) = q
    BY <1>1
<1>3. (d \o <<Head(q)>>) \o Tail(q) = d \o (<<Head(q)>> \o Tail(q))
    BY <1>1, ConcatAssociative
<1>4. d \o <<>> = d
    BY ConcatEmptySeq
<1> QED
    BY <1>2, <1>3, <1>4

LEMMA QueuedAtTheEnd ==
    ASSUME NEW S, NEW c \in Seq(S), NEW q \in Seq(S), NEW x \in S
    PROVE  c \o Append(q, x) = Append(c \o q, x)
<1>1. c \o q \in Seq(S) /\ <<x>> \in Seq(S)
    BY ConcatProperties
<1>2. (c \o q) \o <<x>> = c \o (q \o <<x>>)
    BY <1>1, ConcatAssociative
<1>3. Append(q, x) = q \o <<x>> /\ Append(c \o q, x) = (c \o q) \o <<x>>
    BY <1>1
<1> QED
    BY <1>2, <1>3

-----------------------------------------------------------------------------
(* The audit queue: types and order.                                       *)

QueueInv == SinkTypeOK /\ FifoAudit

LEMMA CallTyping ==
    ASSUME SinkTypeOK, NEW e \in Emitters, Call(e)
    PROVE  /\ sent' \in [Emitters -> 0..MaxEvents]
           /\ Event(e) \in Events
<1>1. sent[e] \in 0..MaxEvents /\ sent[e] < MaxEvents
    BY DEF SinkTypeOK, Call
<1>2. sent[e] + 1 \in 0..MaxEvents /\ sent[e] + 1 \in 1..MaxEvents
    BY <1>1, AsyncSinkAssumption
<1> QED
    BY <1>2 DEF SinkTypeOK, Call, Event, Events

LEMMA QueueInitially == SinkInit => QueueInv
<1> SUFFICES ASSUME SinkInit
             PROVE  QueueInv
    OBVIOUS
<1>1. SinkTypeOK
    <2>1. <<>> \in Seq(Events) /\ Len(<<>>) = 0
        BY EmptySeq
    <2>2. 0 \in 0..MaxEvents /\ 0 <= QueueSize /\ 0 <= 1
        BY AsyncSinkAssumption
    <2>3. sent \in [Emitters -> 0..MaxEvents] /\ stage \in [Emitters -> {"idle", "drop", "panicked"}]
        BY <2>2 DEF SinkInit
    <2> QED
        BY <2>1, <2>2, <2>3 DEF SinkInit, SinkTypeOK
<1>2. <<>> \o <<>> = <<>> /\ <<>> \in Seq(Events)
    BY EmptySeq, ConcatEmptySeq
<1>3. FifoAudit
    BY <1>2 DEF SinkInit, FifoAudit
<1> QED
    BY <1>1, <1>3 DEF QueueInv

LEMMA QueueStep == QueueInv /\ [SinkNext]_sinkVars => QueueInv'
<1> SUFFICES ASSUME QueueInv, [SinkNext]_sinkVars
             PROVE  QueueInv'
    OBVIOUS
<1>0. /\ SinkTypeOK /\ FifoAudit
      /\ queue \in Seq(Events) /\ hand \in Seq(Events) /\ delivered \in Seq(Events)
      /\ delivered \o hand \in Seq(Events)
    BY ConcatProperties DEF QueueInv, SinkTypeOK
<1>1. ASSUME NEW e \in Emitters, EmitQueued(e)
      PROVE  QueueInv'
    <2>1. sent' \in [Emitters -> 0..MaxEvents] /\ Event(e) \in Events
        BY <1>0, <1>1, CallTyping DEF EmitQueued
    <2>2. /\ queue' = Append(queue, Event(e)) /\ accepted' = Append(accepted, Event(e))
          /\ UNCHANGED <<hand, delivered>>
        BY <1>1 DEF EmitQueued, loop
    <2>3. queue' \in Seq(Events) /\ Len(queue') <= QueueSize /\ accepted' \in Seq(Events)
        BY <1>0, <1>1, <2>1, <2>2, AsyncSinkAssumption DEF EmitQueued, ChannelHasRoom, SinkTypeOK
    <2>4. SinkTypeOK'
        BY <1>0, <1>1, <2>1, <2>3 DEF EmitQueued, SinkTypeOK, closing, loop
    <2>5. FifoAudit'
        BY <1>0, <2>1, <2>2, QueuedAtTheEnd DEF FifoAudit
    <2> QED
        BY <2>4, <2>5 DEF QueueInv
<1>2. ASSUME NEW e \in Emitters, EmitDropped(e) \/ EmitPanics(e)
      PROVE  QueueInv'
    <2>1. sent' \in [Emitters -> 0..MaxEvents]
        BY <1>0, <1>2, CallTyping DEF EmitDropped, EmitPanics
    <2>2. SinkTypeOK'
        BY <1>0, <1>2, <2>1 DEF EmitDropped, EmitPanics, SinkTypeOK, closing, loop
    <2>3. FifoAudit'
        BY <1>0, <1>2 DEF EmitDropped, EmitPanics, FifoAudit, loop
    <2> QED
        BY <2>2, <2>3 DEF QueueInv
<1>3. ASSUME NEW e \in Emitters, CountDrop(e)
      PROVE  QueueInv'
    <2>1. SinkTypeOK'
        BY <1>0, <1>3 DEF CountDrop, Counted, SinkTypeOK, closing, loop
    <2>2. FifoAudit'
        BY <1>0, <1>3 DEF CountDrop, FifoAudit, loop
    <2> QED
        BY <2>1, <2>2 DEF QueueInv
<1>4. CASE Take
    <2>1. /\ hand = <<>> /\ queue # <<>> /\ hand' = <<Head(queue)>> /\ queue' = Tail(queue)
          /\ UNCHANGED <<delivered, accepted>>
        BY <1>4 DEF Take, Received
    <2>2. Head(queue) \in Events /\ Tail(queue) \in Seq(Events) /\ Len(Tail(queue)) = Len(queue) - 1
        BY <1>0, <2>1, HeadTailProperties
    <2>3. /\ hand' \in Seq(Events) /\ Len(hand') <= 1
          /\ queue' \in Seq(Events) /\ Len(queue') <= QueueSize
        BY <1>0, <2>1, <2>2, AsyncSinkAssumption DEF SinkTypeOK
    <2>4. SinkTypeOK'
        BY <1>0, <1>4, <2>3 DEF Take, SinkTypeOK, closing
    <2>5. FifoAudit'
        BY <1>0, <2>1, TakenKeepsSequence DEF FifoAudit
    <2> QED
        BY <2>4, <2>5 DEF QueueInv
<1>5. CASE Deliver
    <2>1. /\ delivered' = delivered \o hand /\ hand' = <<>> /\ UNCHANGED <<queue, accepted>>
        BY <1>5 DEF Deliver
    <2>2. SinkTypeOK'
        BY <1>0, <1>5, <2>1, EmptySeq DEF Deliver, SinkTypeOK, closing
    <2>3. (delivered \o hand) \o <<>> = delivered \o hand
        BY <1>0, ConcatEmptySeq
    <2>4. FifoAudit'
        BY <1>0, <2>1, <2>3 DEF FifoAudit
    <2> QED
        BY <2>2, <2>4 DEF QueueInv
<1>6. CASE LoopReturns \/ CloseBegins \/ CloseChannel \/ UNCHANGED sinkVars
    <2>1. SinkTypeOK'
        BY <1>0, <1>6 DEF LoopReturns, CloseBegins, CloseChannel, sinkVars, SinkTypeOK,
                          closing, loop
    <2>2. FifoAudit'
        BY <1>0, <1>6 DEF LoopReturns, CloseBegins, CloseChannel, sinkVars, FifoAudit, loop
    <2> QED
        BY <2>1, <2>2 DEF QueueInv
<1> QED
    BY <1>1, <1>2, <1>3, <1>4, <1>5, <1>6 DEF SinkNext, Loop, CloseAgain

\* Type correctness of the audit queue: the channel never holds more than its
\* capacity, whatever capacity and however many goroutines emit.
THEOREM SinkTyping == SinkSpec => []SinkTypeOK
<1>1. QueueInv => SinkTypeOK
    BY DEF QueueInv
<1> QED
    BY <1>1, QueueInitially, QueueStep, PTL DEF SinkSpec

\* The queue neither reorders, repeats nor loses what it took, across Close too.
THEOREM SinkFifo == SinkSpec => []FifoAudit
<1>1. QueueInv => FifoAudit
    BY DEF QueueInv
<1> QED
    BY <1>1, QueueInitially, QueueStep, PTL DEF SinkSpec

-----------------------------------------------------------------------------
(* The audit queue: every event is accounted for.                          *)

\* The types and the count, with what makes its sets finite.
CountInv == SinkTypeOK /\ IsFiniteSet(Sent) /\ DropsCounted

\* A call of Emit sends one event more.
LEMMA CallSends ==
    ASSUME SinkTypeOK, IsFiniteSet(Sent), NEW e \in Emitters, Call(e)
    PROVE  /\ IsFiniteSet(Sent') /\ Cardinality(Sent) \in Nat
           /\ Cardinality(Sent') = Cardinality(Sent) + 1
<1>1. PICK v \in Events : v = Event(e)
    BY CallTyping
<1>2. v.by = e /\ v.nr = sent[e] + 1 /\ v = [by |-> e, nr |-> sent[e] + 1]
    BY <1>1 DEF Event
<1>3. sent[e] \in Nat /\ \A f \in Emitters : sent[f] \in Nat
    BY DEF SinkTypeOK
<1>4. v \notin Sent
    BY <1>2, <1>3 DEF Sent
<1>5. ASSUME NEW u \in Events
      PROVE  u.nr <= sent'[u.by] <=> u.nr <= sent[u.by] \/ u = v
    <2>1. u.by \in Emitters /\ u.nr \in Nat /\ u = [by |-> u.by, nr |-> u.nr]
        BY DEF Events
    <2>2. CASE u.by = e
        <3>1. sent'[u.by] = sent[e] + 1
            BY <2>2 DEF Call, SinkTypeOK
        <3>2. u = v <=> u.nr = sent[e] + 1
            BY <1>2, <2>1, <2>2
        <3> QED
            BY <1>3, <2>1, <2>2, <3>1, <3>2
    <2>3. CASE u.by # e
        <3>1. sent'[u.by] = sent[u.by] /\ u # v
            BY <1>2, <2>1, <2>3 DEF Call, SinkTypeOK
        <3> QED
            BY <3>1
    <2> QED
        BY <2>2, <2>3
<1>6. Sent' = Sent \cup {v}
    BY <1>5 DEF Sent
<1> QED
    BY <1>4, <1>6, FS_AddElement, FS_CardinalityType

\* The goroutines whose event is not counted yet, or never will be.
LEMMA MissingFinite ==
    ASSUME SinkTypeOK
    PROVE  IsFiniteSet(Missing) /\ Cardinality(Missing) \in Nat
<1>1. Missing \in SUBSET Emitters
    BY DEF Missing
<1> QED
    BY <1>1, AsyncSinkAssumption, FS_Subset, FS_CardinalityType

LEMMA CountInitially == SinkInit => CountInv
<1> SUFFICES ASSUME SinkInit
             PROVE  CountInv
    OBVIOUS
<1>1. SinkTypeOK
    BY QueueInitially DEF QueueInv
<1>2. Sent = {}
    <2>1. ASSUME NEW u \in Events
          PROVE  ~(u.nr <= sent[u.by])
        <3>1. u.by \in Emitters /\ u.nr \in Nat /\ u.nr >= 1
            BY AsyncSinkAssumption DEF Events
        <3>2. sent[u.by] = 0
            BY <3>1 DEF SinkInit
        <3> QED
            BY <3>1, <3>2
    <2> QED
        BY <2>1 DEF Sent
<1>3. Missing = {}
    BY DEF SinkInit, Missing
<1>4. Len(accepted) = 0 /\ dropped = 0
    BY DEF SinkInit
<1> QED
    BY <1>1, <1>2, <1>3, <1>4, FS_EmptySet DEF CountInv, DropsCounted

LEMMA CountStep == CountInv /\ QueueInv /\ [SinkNext]_sinkVars => CountInv'
<1> SUFFICES ASSUME CountInv, QueueInv, [SinkNext]_sinkVars
             PROVE  CountInv'
    OBVIOUS
<1>0. /\ SinkTypeOK /\ SinkTypeOK' /\ IsFiniteSet(Sent) /\ DropsCounted
      /\ Len(accepted) \in Nat /\ dropped \in Nat
    BY QueueStep DEF CountInv, QueueInv, SinkTypeOK
<1>0a. IsFiniteSet(Missing) /\ Cardinality(Missing) \in Nat /\ Cardinality(Sent) \in Nat
    BY <1>0, MissingFinite, FS_CardinalityType
<1>1. ASSUME NEW e \in Emitters, EmitQueued(e)
      PROVE  CountInv'
    <2>1. IsFiniteSet(Sent') /\ Cardinality(Sent') = Cardinality(Sent) + 1
        BY <1>0, <1>1, CallSends DEF EmitQueued
    <2>2. Missing' = Missing /\ dropped' = dropped
        BY <1>1 DEF EmitQueued, Missing
    <2>3. Len(accepted') = Len(accepted) + 1
        BY <1>0, <1>1, CallTyping DEF EmitQueued, SinkTypeOK
    <2> QED
        BY <1>0, <1>0a, <2>1, <2>2, <2>3 DEF CountInv, DropsCounted
<1>2. ASSUME NEW e \in Emitters, EmitDropped(e) \/ EmitPanics(e)
      PROVE  CountInv'
    <2>1. IsFiniteSet(Sent') /\ Cardinality(Sent') = Cardinality(Sent) + 1
        BY <1>0, <1>2, CallSends DEF EmitDropped, EmitPanics
    <2>2. Missing' = Missing \cup {e} /\ e \notin Missing
        BY <1>0, <1>2 DEF EmitDropped, EmitPanics, Call, Missing, SinkTypeOK
    <2>3. Cardinality(Missing') = Cardinality(Missing) + 1
        BY <1>0a, <2>2, FS_AddElement
    <2>4. accepted' = accepted /\ dropped' = dropped
        BY <1>2 DEF EmitDropped, EmitPanics
    <2> QED
        BY <1>0, <1>0a, <2>1, <2>3, <2>4 DEF CountInv, DropsCounted
<1>3. ASSUME NEW e \in Emitters, CountDrop(e)
      PROVE  CountInv'
    <2>1. Sent' = Sent /\ accepted' = accepted /\ dropped' = dropped + 1
        BY <1>3 DEF CountDrop, Counted, Sent
    <2>2. Missing' = Missing \ {e} /\ e \in Missing
        BY <1>0, <1>3 DEF CountDrop, Missing, SinkTypeOK
    <2>3. Cardinality(Missing') = Cardinality(Missing) - 1
        BY <1>0a, <2>2, FS_RemoveElement
    <2> QED
        BY <1>0, <1>0a, <2>1, <2>3 DEF CountInv, DropsCounted
<1>4. CASE Take \/ Deliver \/ LoopReturns \/ CloseBegins \/ CloseChannel \/ UNCHANGED sinkVars
    <2>1. UNCHANGED <<sent, stage, accepted, dropped>>
        BY <1>4 DEF Take, Deliver, LoopReturns, CloseBegins, CloseChannel, sinkVars
    <2>2. Sent' = Sent /\ Missing' = Missing
        BY <2>1 DEF Sent, Missing
    <2> QED
        BY <1>0, <2>1, <2>2 DEF CountInv, DropsCounted
<1> QED
    BY <1>1, <1>2, <1>3, <1>4 DEF SinkNext, Loop, CloseAgain

\* Of what was sent and not taken, every event is counted in dropped, about to
\* be, or the one whose Emit panicked on the closed channel, for any queue
\* size and any number of goroutines.
THEOREM SinkDropsCounted == SinkSpec => []DropsCounted
<1>1. CountInv => DropsCounted
    BY DEF CountInv
<1> QED
    BY <1>1, QueueInitially, QueueStep, CountInitially, CountStep, PTL DEF SinkSpec

-----------------------------------------------------------------------------
(* The audit queue: draining.                                              *)

\* The safety half of AcceptedIsDelivered: the loop goroutine does not return
\* before the delegate has had everything the channel took, and nothing more
\* is taken after that.
ReturnedDrained == ~looping => delivered = accepted

\* The loop returns with the channel closed and nothing left of it.
DrainedInv ==
    /\ QueueInv
    /\ ~looping => channelClosed /\ queue = <<>> /\ hand = <<>>

LEMMA DrainedStep == DrainedInv /\ [SinkNext]_sinkVars => DrainedInv'
<1> SUFFICES ASSUME DrainedInv, [SinkNext]_sinkVars
             PROVE  DrainedInv'
    OBVIOUS
<1>0. QueueInv'
    BY QueueStep DEF DrainedInv
<1>1. ASSUME NEW e \in Emitters, EmitQueued(e) \/ EmitDropped(e) \/ CountDrop(e) \/ EmitPanics(e)
      PROVE  DrainedInv'
    BY <1>0, <1>1 DEF DrainedInv, EmitQueued, EmitDropped, CountDrop, EmitPanics, closing, loop
<1>2. CASE Loop
    BY <1>0, <1>2 DEF DrainedInv, Loop, Take, Deliver, LoopReturns, RangeEnds, closing
<1>3. CASE CloseBegins \/ CloseChannel \/ UNCHANGED sinkVars
    BY <1>0, <1>3 DEF DrainedInv, CloseBegins, CloseChannel, sinkVars, loop
<1> QED
    BY <1>1, <1>2, <1>3 DEF SinkNext, CloseAgain

\* By the time the loop goroutine returns, which Close itself does not wait
\* for, the delegate has had every accepted event, in order.
THEOREM SinkDrained == SinkSpec => []ReturnedDrained
<1>1. SinkInit => DrainedInv
    BY QueueInitially DEF SinkInit, DrainedInv
<1>2. DrainedInv => ReturnedDrained
    <2> SUFFICES ASSUME DrainedInv, ~looping
                 PROVE  delivered = accepted
        BY DEF ReturnedDrained
    <2>1. delivered \o <<>> \o <<>> = accepted /\ delivered \in Seq(Events)
        BY DEF DrainedInv, QueueInv, FifoAudit, SinkTypeOK
    <2>2. delivered \o <<>> = delivered
        BY <2>1, ConcatEmptySeq
    <2> QED
        BY <2>1, <2>2
<1> QED
    BY <1>1, <1>2, DrainedStep, PTL DEF SinkSpec

-----------------------------------------------------------------------------
(* The audit queue: the way to the delegate.                               *)

\* The steps the loop goroutine has made for events: one to take each from the
\* channel, and one until the delegate has it.
LoopSteps == 2 * Len(delivered) + Len(hand)

\* An accepted event keeps its place, nothing that emitters or Close do sends
\* the loop back, and every step of the loop is for an event as long as the
\* delegate has not had them all.
DeliveryAdvances ==
    /\ \A k \in 1..Len(accepted) : k <= Len(accepted') /\ accepted'[k] = accepted[k]
    /\ LoopSteps' >= LoopSteps
    /\ Loop /\ Len(delivered) < Len(accepted) => LoopSteps' > LoopSteps

LEMMA DeliveryStep == QueueInv /\ [SinkNext]_sinkVars => DeliveryAdvances
<1> SUFFICES ASSUME QueueInv, [SinkNext]_sinkVars
             PROVE  DeliveryAdvances
    OBVIOUS
<1>0. /\ accepted \in Seq(Events) /\ delivered \in Seq(Events)
      /\ hand \in Seq(Events) /\ queue \in Seq(Events) /\ Len(hand) <= 1
      /\ Len(hand) \in Nat /\ Len(delivered) \in Nat /\ Len(accepted) \in Nat
      /\ delivered \o hand \o queue = accepted
    BY DEF QueueInv, SinkTypeOK, FifoAudit
<1>1. CASE Take
    <2>1. /\ hand = <<>> /\ hand' = <<Head(queue)>>
          /\ delivered' = delivered /\ accepted' = accepted
        BY <1>1 DEF Take, Received
    <2>2. Len(hand) = 0 /\ Len(hand') = 1
        BY <2>1
    <2>3. LoopSteps' > LoopSteps /\ LoopSteps' >= LoopSteps
        BY <1>0, <2>1, <2>2 DEF LoopSteps
    <2> QED
        BY <1>0, <2>1, <2>3 DEF DeliveryAdvances
<1>2. CASE Deliver
    <2>1. /\ hand # <<>> /\ hand' = <<>> /\ delivered' = delivered \o hand
          /\ accepted' = accepted
        BY <1>2 DEF Deliver
    <2>2. Len(hand) = 1 /\ Len(hand') = 0
        <3>1. Len(hand') = 0
            BY <2>1
        <3>2. Len(hand) # 0
            BY <1>0, <2>1, EmptySeq
        <3>3. Len(hand) \in Nat /\ Len(hand) <= 1
            BY <1>0
        <3>4. PICK n \in Nat : n = Len(hand) /\ n <= 1 /\ n # 0
            BY <3>2, <3>3
        <3>5. n = 1
            BY <3>4
        <3> QED
            BY <3>1, <3>4, <3>5
    <2>3. Len(delivered') = Len(delivered) + 1
        <3>1. Len(delivered \o hand) = Len(delivered) + Len(hand)
            BY <1>0, ConcatProperties
        <3> QED
            BY <2>1, <2>2, <3>1
    <2>4. LoopSteps' > LoopSteps /\ LoopSteps' >= LoopSteps
        BY <1>0, <2>2, <2>3 DEF LoopSteps
    <2> QED
        BY <1>0, <2>1, <2>4 DEF DeliveryAdvances
<1>3. ASSUME LoopReturns
      PROVE  Len(delivered) = Len(accepted)
    <2>1. hand = <<>> /\ queue = <<>>
        BY <1>3 DEF LoopReturns, RangeEnds
    <2>2. delivered \o <<>> = delivered
        BY <1>0, ConcatEmptySeq
    <2> QED
        BY <1>0, <2>1, <2>2
<1>4. ASSUME delivered' = delivered, hand' = hand, ~Take, ~Deliver,
             \A k \in 1..Len(accepted) : k <= Len(accepted') /\ accepted'[k] = accepted[k]
      PROVE  DeliveryAdvances
    <2>1. LoopSteps' >= LoopSteps
        BY <1>0, <1>4 DEF LoopSteps
    <2>2. Loop => ~(Len(delivered) < Len(accepted))
        BY <1>0, <1>3, <1>4 DEF Loop
    <2> QED
        BY <1>4, <2>1, <2>2 DEF DeliveryAdvances
<1>5. ASSUME NEW e \in Emitters, EmitQueued(e)
      PROVE  /\ delivered' = delivered /\ hand' = hand
             /\ \A k \in 1..Len(accepted) : k <= Len(accepted') /\ accepted'[k] = accepted[k]
    <2>1. /\ accepted' = Append(accepted, Event(e)) /\ Event(e) \in Events
          /\ delivered' = delivered /\ hand' = hand
        BY <1>5, CallTyping DEF EmitQueued, loop, QueueInv
    <2> QED
        BY <1>0, <2>1
<1>6. ASSUME \/ LoopReturns \/ CloseBegins \/ CloseChannel \/ CloseAgain \/ UNCHANGED sinkVars
             \/ \E e \in Emitters : EmitDropped(e) \/ CountDrop(e) \/ EmitPanics(e)
      PROVE  /\ delivered' = delivered /\ hand' = hand
             /\ \A k \in 1..Len(accepted) : k <= Len(accepted') /\ accepted'[k] = accepted[k]
    <2>1. delivered' = delivered /\ hand' = hand /\ accepted' = accepted
        BY <1>6 DEF LoopReturns, CloseBegins, CloseChannel, CloseAgain, EmitDropped,
                    CountDrop, EmitPanics, sinkVars, loop
    <2> QED
        BY <1>0, <2>1
<1> QED
    BY <1>1, <1>2, <1>4, <1>5, <1>6 DEF SinkNext, Loop

\* The other part of AcceptedIsDelivered that needs no fairness: the n-th event
\* the channel took is with the delegate after at most 2 * n steps of the loop,
\* for any number of emitters, and whether or not Close is called meanwhile.
THEOREM SinkDeliveryIsBounded == SinkSpec => [][DeliveryAdvances]_sinkVars
<1>1. QueueInv /\ [SinkNext]_sinkVars => [DeliveryAdvances]_sinkVars
    BY DeliveryStep
<1> QED
    BY <1>1, QueueInitially, QueueStep, PTL DEF SinkSpec

-----------------------------------------------------------------------------
(* The audit queue: the lossy FIFO it implements.                          *)

LEMMA DroppingFinite ==
    ASSUME SinkTypeOK
    PROVE  IsFiniteSet(Dropping) /\ Cardinality(Dropping) \in Nat
<1>1. Dropping \in SUBSET Emitters
    BY DEF Dropping
<1> QED
    BY <1>1, AsyncSinkAssumption, FS_Subset, FS_CardinalityType

LEMMA FifoInitially == SinkInit => Fifo!Init
<1> SUFFICES ASSUME SinkInit
             PROVE  Fifo!Init
    OBVIOUS
<1>1. Dropping = {}
    BY DEF SinkInit, Dropping
<1>2. Cardinality(Dropping) = 0
    BY <1>1, FS_EmptySet
<1>3. <<>> \o <<>> = <<>>
    BY EmptySeq, ConcatEmptySeq
<1> QED
    BY <1>2, <1>3 DEF SinkInit, Fifo!Init

LEMMA FifoStep == SinkTypeOK /\ [SinkNext]_sinkVars => [Fifo!Next]_(Fifo!fifo)
<1> SUFFICES ASSUME SinkTypeOK, [SinkNext]_sinkVars
             PROVE  [Fifo!Next]_(Fifo!fifo)
    OBVIOUS
<1>0. /\ queue \in Seq(Events) /\ hand \in Seq(Events) /\ delivered \in Seq(Events)
      /\ Len(hand) \in Nat /\ Len(queue) \in Nat /\ Len(hand) <= 1 /\ QueueSize \in Nat
      /\ hand \o queue \in Seq(Events) /\ Len(hand \o queue) = Len(hand) + Len(queue)
      /\ dropped \in Nat
    BY ConcatProperties, AsyncSinkAssumption DEF SinkTypeOK
<1>0a. IsFiniteSet(Dropping) /\ Cardinality(Dropping) \in Nat
    BY DroppingFinite
<1>1. ASSUME NEW e \in Emitters, EmitQueued(e)
      PROVE  Fifo!Next
    <2>1. PICK x \in Events : x = Event(e)
        BY <1>1, CallTyping DEF EmitQueued
    <2>2. hand' \o queue' = Append(hand \o queue, x)
        BY <1>0, <1>1, <2>1, QueuedAtTheEnd DEF EmitQueued, loop
    <2>3. Len(hand \o queue) <= QueueSize
        <3>1. Len(queue) < QueueSize
            BY <1>1 DEF EmitQueued, ChannelHasRoom
        <3> QED
            BY <1>0, <3>1
    <2>4. Dropping' = Dropping
        BY <1>1 DEF EmitQueued, Dropping
    <2>5. Fifo!Put(x)
        BY <1>1, <2>2, <2>3, <2>4 DEF EmitQueued, loop, closing, Fifo!Put
    <2> QED
        BY <2>5 DEF Fifo!Next
<1>2. ASSUME NEW e \in Emitters, EmitDropped(e)
      PROVE  Fifo!Next
    <2>1. Len(hand \o queue) >= QueueSize
        <3>1. ~(Len(queue) < QueueSize)
            BY <1>2 DEF EmitDropped, ChannelHasRoom
        <3> QED
            BY <1>0, <3>1
    <2>2. Dropping' = Dropping \cup {e} /\ e \notin Dropping
        BY <1>2 DEF EmitDropped, Call, Dropping, SinkTypeOK
    <2>3. Cardinality(Dropping') = Cardinality(Dropping) + 1
        BY <1>0a, <2>2, FS_AddElement
    <2>4. dropped' + Cardinality(Dropping') = (dropped + Cardinality(Dropping)) + 1
        <3>1. dropped' = dropped
            BY <1>2 DEF EmitDropped
        <3> QED
            BY <1>0, <1>0a, <2>3, <3>1
    <2>5. Fifo!Lose
        BY <1>2, <2>1, <2>4 DEF EmitDropped, loop, closing, Fifo!Lose
    <2> QED
        BY <2>5 DEF Fifo!Next
<1>3. ASSUME NEW e \in Emitters, CountDrop(e)
      PROVE  UNCHANGED Fifo!fifo
    <2>1. Dropping' = Dropping \ {e} /\ e \in Dropping
        BY <1>3 DEF CountDrop, Dropping, SinkTypeOK
    <2>2. Cardinality(Dropping') = Cardinality(Dropping) - 1
        BY <1>0a, <2>1, FS_RemoveElement
    <2>3. dropped' + Cardinality(Dropping') = dropped + Cardinality(Dropping)
        <3>1. dropped' = dropped + 1
            BY <1>3 DEF CountDrop, Counted
        <3> QED
            BY <1>0, <1>0a, <2>2, <3>1
    <2> QED
        BY <1>3, <2>3 DEF CountDrop, loop, closing, Fifo!fifo
<1>4. ASSUME NEW e \in Emitters, EmitPanics(e)
      PROVE  UNCHANGED Fifo!fifo
    <2>1. Dropping' = Dropping
        BY <1>4 DEF EmitPanics, Call, Dropping, SinkTypeOK
    <2> QED
        BY <1>4, <2>1 DEF EmitPanics, loop, closing, Fifo!fifo
<1>5. CASE Take
    <2>1. /\ hand = <<>> /\ queue # <<>> /\ hand' = <<Head(queue)>> /\ queue' = Tail(queue)
          /\ UNCHANGED <<stage, delivered, dropped, channelClosed>>
        BY <1>5 DEF Take, Received, closing
    <2>2. <<>> \o queue = queue
        BY <1>0, ConcatEmptySeq
    <2>3. <<Head(queue)>> \o Tail(queue) = queue
        BY <1>0, <2>1
    <2>4. Dropping' = Dropping
        BY <2>1 DEF Dropping
    <2> QED
        BY <2>1, <2>2, <2>3, <2>4 DEF Fifo!fifo
<1>6. CASE Deliver
    <2>1. /\ hand # <<>> /\ delivered' = delivered \o hand /\ hand' = <<>> /\ queue' = queue
          /\ UNCHANGED <<stage, dropped, channelClosed>>
        BY <1>6 DEF Deliver, closing
    <2>2. Len(hand) = 1 /\ hand = <<Head(hand)>> /\ Head(hand) \in Events
        <3>1. Len(hand) = 1
            BY <1>0, <2>1, EmptySeq
        <3>2. Head(hand) = hand[1] /\ Head(hand) \in Events
            BY <1>0, <3>1
        <3>3. hand = <<hand[1]>>
            <4>1. <<hand[1]>> \in Seq(Events) /\ Len(<<hand[1]>>) = 1
                BY <3>2
            <4>2. \A i \in 1..1 : hand[i] = <<hand[1]>>[i]
                OBVIOUS
            <4> QED
                BY <1>0, <3>1, <4>1, <4>2, SeqEqual
        <3> QED
            BY <3>1, <3>2, <3>3
    <2>3. delivered \o hand = Append(delivered, Head(hand))
        BY <1>0, <2>2
    <2>4. Head(hand \o queue) = Head(hand) /\ Tail(hand \o queue) = queue /\ hand \o queue # <<>>
        BY <1>0, <2>2
    <2>5. <<>> \o queue = queue
        BY <1>0, ConcatEmptySeq
    <2>6. Dropping' = Dropping
        BY <2>1 DEF Dropping
    <2>7. Fifo!Pass
        BY <2>1, <2>3, <2>4, <2>5, <2>6 DEF Fifo!Pass
    <2> QED
        BY <2>7 DEF Fifo!Next
<1>7. CASE CloseChannel
    <2>1. Dropping' = Dropping
        BY <1>7 DEF CloseChannel, Dropping
    <2>2. Fifo!Shut
        BY <1>7, <2>1 DEF CloseChannel, loop, Fifo!Shut
    <2> QED
        BY <2>2 DEF Fifo!Next
<1>8. CASE LoopReturns \/ CloseBegins \/ UNCHANGED sinkVars
    <2>1. Dropping' = Dropping
        BY <1>8 DEF LoopReturns, CloseBegins, sinkVars, Dropping
    <2> QED
        BY <1>8, <2>1 DEF LoopReturns, CloseBegins, sinkVars, loop, closing, Fifo!fifo
<1> QED
    BY <1>1, <1>2, <1>3, <1>4, <1>5, <1>6, <1>7, <1>8 DEF SinkNext, Loop, CloseAgain

\* The audit queue implements the lossy FIFO, for any queue size and any number
\* of goroutines: in order, once each, lost only while the channel is full.
THEOREM SinkRefinesFifo == SinkSpec => ImplementsFifo
<1>1. QueueInv => SinkTypeOK
    BY DEF QueueInv
<1> QED
    BY <1>1, QueueInitially, QueueStep, FifoInitially, FifoStep, PTL
       DEF SinkSpec, ImplementsFifo, Fifo!Spec

=============================================================================
