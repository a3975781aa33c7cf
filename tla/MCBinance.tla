----------------------------- MODULE MCBinance -----------------------------
(***************************************************************************)
(* One run of three kinds of behaviour of the Binance adapter: the weight  *)
(* limiter with the requests that drive it, the REST methods with the      *)
(* timestamps they carry, for which the limiter refuses and admits at any  *)
(* time, and the order book stream.                                        *)
(***************************************************************************)
EXTENDS WeightedLimiter, BinanceRest, BinanceBook

VARIABLE part

MCInit ==
    /\ Init /\ BinanceInit /\ DepthInit
    /\ part \in {"limiter", "calls", "book"}
    /\ part # "limiter" => vage = 0
    /\ part # "book" => hist = <<EmptyBook>>

allVars == <<vars, binanceVars, depthVars, part>>

LimiterMoves(A) == part = "limiter" /\ A /\ UNCHANGED <<binanceVars, depthVars, part>>
CallsMove == part = "calls" /\ BinanceNext /\ UNCHANGED <<vars, depthVars, part>>
BookMoves == part = "book" /\ DepthNext /\ UNCHANGED <<vars, binanceVars, part>>

MCSpec ==
    /\ MCInit
    /\ [][LimiterMoves(Next) \/ CallsMove \/ BookMoves]_allVars
    /\ WF_allVars(LimiterMoves(Tick))

=============================================================================
