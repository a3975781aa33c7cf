------------------------------ MODULE MCOrders ------------------------------
(***************************************************************************)
(* One run of two kinds of behaviour: a life of the process with the order *)
(* API, where a publication succeeds or fails in one step, and the event   *)
(* bus by itself, with the attempts such a publication is made of: one     *)
(* handler publishes a fill and then a balance, another a fill that has no *)
(* venue order id.                                                         *)
(***************************************************************************)
EXTENDS ServiceLife, EventBus, TLC

CONSTANTS p1, p2, f1, f2, b1

MCWork == (p1 :> <<f1, b1>>) @@ (p2 :> <<f2>>)

VARIABLE part

MCInit ==
    /\ LifeInit /\ BusInit
    /\ part \in {"process", "bus"}
    /\ part = "bus" => dev /\ ~live

allVars == <<lifeVars, busVars, part>>

ProcessMoves(A) == part = "process" /\ A /\ UNCHANGED <<busVars, part>>
BusMoves(A) == part = "bus" /\ A /\ UNCHANGED <<lifeVars, part>>

\* The fairness of LifeSpec and of BusFairSpec.
MCSpec ==
    /\ MCInit
    /\ [][ProcessMoves(LifeNext) \/ BusMoves(BusNext)]_allVars
    /\ \A r \in Requests : WF_allVars(ProcessMoves(HandlerMoves(r)))
    /\ \A p \in Publishers : WF_allVars(BusMoves(Step(p)))

=============================================================================
