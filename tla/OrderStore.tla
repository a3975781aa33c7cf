----------------------------- MODULE OrderStore -----------------------------
(***************************************************************************)
(* The two implementations of store.Store side by side: the MemStore of    *)
(* each deployable (one per venue) and the tables all deployables share.   *)
(* Every call is made on both, so that they can be compared; the caller,   *)
(* handleOrdersRoot, ignores the errors of both.                           *)
(*                                                                         *)
(* Of an order the three ids are kept, of a fill its order and trade id.   *)
(* Each call is atomic: a mutex here, one statement there.  A restart of a *)
(* deployable empties its MemStore and leaves the tables.                  *)
(***************************************************************************)
EXTENDS Naturals

CONSTANTS
    Venues,         \* one deployable per venue
    OrderIds,       \* venue_order_id
    ClientKeys,     \* client_order_id
    TradeIds        \* trade_id, which a desk may leave empty

VARIABLES
    mem,            \* venue -> MemStore.orders
    memFills,       \* venue -> MemStore.fills
    rows,           \* table orders
    fillRows,       \* table fills
    missed,         \* history: <<venue, client>> whose INSERT returned an error
    outages,        \* history: the <<venue, client>> and <<venue, trade>> that
                    \* got no answer from the database
    forgotten       \* history: the <<venue, client>> and <<venue, trade>> that
                    \* a MemStore held when its process was restarted

tables == <<rows, fillRows>>
storeVars == <<mem, memFills, tables, missed, outages, forgotten>>

NoOrders == [c \in {} |-> {}]

StoreInit ==
    /\ mem = [v \in Venues |-> NoOrders]
    /\ memFills = [v \in Venues |-> {}]
    /\ rows = {}
    /\ fillRows = {}
    /\ missed = {}
    /\ outages = {}
    /\ forgotten = {}

-----------------------------------------------------------------------------
(* MemStore.                                                               *)

\* RecordOrder: the first order of a client id stays.
AlwaysNew(v, c) == TRUE
NewInMem(v, c) == c \notin DOMAIN mem[v]

MemRecordOrder(v, id, c) ==
    mem' = [mem EXCEPT ![v] =
              IF NewInMem(v, c)
              THEN [k \in DOMAIN mem[v] \cup {c} |-> IF k = c THEN id ELSE mem[v][k]]
              ELSE mem[v]]

\* RecordFill: one fill per venue and trade id.
MemRecordFill(v, id, t) ==
    memFills' = [memFills EXCEPT ![v] =
                   IF \E f \in memFills[v] : f.trade = t
                   THEN memFills[v]
                   ELSE memFills[v] \cup {[order |-> id, trade |-> t]}]

-----------------------------------------------------------------------------
(* The tables: INSERT ... ON CONFLICT (...) DO NOTHING.                    *)

SameKey(v, c) == \E o \in rows : o.venue = v /\ o.client = c
SameId(id) == \E o \in rows : o.id = id

\* RecordOrder: a row with the same venue and client id is left alone; a row
\* with the same venue_order_id, the primary key, makes the statement fail.
ClientOnly(v, id, c) == ~SameId(id) /\ \A o \in rows : o.client # c
Inserts(v, id, c) == ~SameKey(v, c) /\ ~SameId(id)
Fails(v, id, c) == ~SameKey(v, c) /\ SameId(id)

InsertOrder(v, id, c) ==
    rows' = IF Inserts(v, id, c)
            THEN rows \cup {[venue |-> v, id |-> id, client |-> c]} ELSE rows

DbRecordOrder(v, id, c) ==
    /\ InsertOrder(v, id, c)
    /\ missed' = IF Fails(v, id, c) THEN missed \cup {<<v, c>>} ELSE missed
    /\ UNCHANGED outages

\* RecordFill: unique per venue and trade id.
InsertFill(v, id, t) ==
    fillRows' = IF \E f \in fillRows : f.venue = v /\ f.trade = t
                THEN fillRows
                ELSE fillRows \cup {[venue |-> v, order |-> id, trade |-> t]}

DbRecordFill(v, id, t) ==
    /\ InsertFill(v, id, t)
    /\ UNCHANGED <<missed, outages>>

\* No answer to the INSERT of k, which the caller takes for an error and
\* ignores; the statement may have been committed all the same.
Unreachable(v, k) ==
    /\ missed' = missed \cup {<<v, k>>}
    /\ outages' = outages \cup {<<v, k>>}

\* QueryRow takes any one of these rows: the venue is not asked for.
GetOrderByClientID(c) == {o \in rows : o.client = c}

\* Nor is it here.
FillsForOrder(id) == {f \in fillRows : f.order = id}

-----------------------------------------------------------------------------
RecordOrder(v, id, c) ==
    /\ MemRecordOrder(v, id, c)
    /\ \/ DbRecordOrder(v, id, c)
       \/ Unreachable(v, c) /\ (InsertOrder(v, id, c) \/ UNCHANGED rows)
    /\ UNCHANGED <<memFills, fillRows, forgotten>>

RecordFill(v, id, t) ==
    /\ MemRecordFill(v, id, t)
    /\ \/ DbRecordFill(v, id, t)
       \/ Unreachable(v, t) /\ (InsertFill(v, id, t) \/ UNCHANGED fillRows)
    /\ UNCHANGED <<mem, rows, forgotten>>

\* "all state is lost on restart": store.New() starts empty.
Restart(v) ==
    /\ mem' = [mem EXCEPT ![v] = NoOrders]
    /\ memFills' = [memFills EXCEPT ![v] = {}]
    /\ forgotten' = forgotten \cup {<<v, c>> : c \in DOMAIN mem[v]}
                              \cup {<<v, f.trade>> : f \in memFills[v]}
    /\ UNCHANGED <<tables, missed, outages>>

StoreNext ==
    \E v \in Venues :
        \/ \E id \in OrderIds, c \in ClientKeys : RecordOrder(v, id, c)
        \/ \E id \in OrderIds, t \in TradeIds : RecordFill(v, id, t)
        \/ Restart(v)

StoreSpec == StoreInit /\ [][StoreNext]_storeVars

-----------------------------------------------------------------------------
(* Properties.                                                             *)

\* The answer of GetOrderByClientID that is the venue's own.
OwnRow(v, c) == {o \in GetOrderByClientID(c) : o.venue = v}

\* Where the two stores differ: what an INSERT was answered with an error for,
\* and what a restart took from memory and not from the tables.
Excused == missed \cup forgotten

\* Apart from that, what the queries return of the venue that asks is what its
\* MemStore holds, however often and with whatever other ids it was recorded
\* again.  The queries may return another venue's order and fills as well, or
\* instead, which MemStore never does.
StoresAgree ==
    \A v \in Venues :
        /\ \A c \in ClientKeys : <<v, c>> \notin Excused =>
              {o.id : o \in OwnRow(v, c)} = {mem[v][k] : k \in DOMAIN mem[v] \cap {c}}
        /\ \A id \in OrderIds, t \in TradeIds : <<v, t>> \notin Excused =>
              ((\E f \in FillsForOrder(id) : f.venue = v /\ f.trade = t)
                 <=> \E f \in memFills[v] : f.order = id /\ f.trade = t)

\* An order of the venue that the database has no row of, although it could
\* be reached each time, has lost its place to an order of another client id
\* or of another venue with the same venue_order_id, which is the primary key
\* of the table all venues share.
LostOnlyToSameId ==
    \A v \in Venues : \A c \in DOMAIN mem[v] :
        OwnRow(v, c) = {} /\ <<v, c>> \notin outages =>
            \E o \in rows : o.id = mem[v][c] /\ <<o.venue, o.client>> # <<v, c>>

=============================================================================
