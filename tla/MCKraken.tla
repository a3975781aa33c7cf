------------------------------ MODULE MCKraken ------------------------------
(***************************************************************************)
(* One run of two kinds of behaviour: the call counter with the requests   *)
(* that drive it, and the REST methods with the nonces they draw, for      *)
(* which the limiter refuses and admits at any time.                       *)
(***************************************************************************)
EXTENDS CounterLimiter, KrakenRest, TLC

VARIABLE part

MCInit == Init /\ KrakenInit /\ part \in {"limiter", "calls"}

LimiterMoves == part = "limiter" /\ Next /\ UNCHANGED <<krakenVars, part>>
CallsMove == part = "calls" /\ KrakenNext /\ UNCHANGED <<vars, part>>

MCSpec == MCInit /\ [][LimiterMoves \/ CallsMove]_<<vars, krakenVars, part>>

\* The two goroutines differ in nothing (Callers and Clients are one set).
Interchangeable == Permutations(Clients)

=============================================================================
