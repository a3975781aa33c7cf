------------------------------ MODULE MCStore ------------------------------
(***************************************************************************)
(* One run of three kinds of behaviour: the migrations at start-up, and    *)
(* the store calls and restarts of deployables that are up, for orders and *)
(* for fills apart, which share no map and no table.                       *)
(***************************************************************************)
EXTENDS Migrations, OrderStore, TLC

VARIABLE part

MCInit == Init /\ StoreInit /\ part \in {"migrations", "orders", "fills"}

MigrationsMove == part = "migrations" /\ Next /\ UNCHANGED storeVars
OrdersMove == part = "orders" /\ StoreNext /\ UNCHANGED <<memFills, fillRows, vars>>
FillsMove == part = "fills" /\ StoreNext /\ UNCHANGED <<mem, rows, vars>>

MCSpec ==
    /\ MCInit
    /\ [][(MigrationsMove \/ OrdersMove \/ FillsMove) /\ UNCHANGED part]_<<vars, storeVars, part>>

\* Ids are only compared, and no deployable differs from another.
Interchangeable ==
    Permutations(Venues) \cup Permutations(OrderIds) \cup Permutations(ClientKeys)
        \cup Permutations(TradeIds) \cup Permutations(Instances)

=============================================================================
