---------------------------- MODULE MCKrakenBook ----------------------------
(***************************************************************************)
(* One run of two kinds of behaviour: the reconnecting client, and the     *)
(* handler it calls with whatever the venue sends on any connection.       *)
(* The bid prices 8, 9 and 10 are not of one length; the ask prices are.   *)
(***************************************************************************)
EXTENDS WsClient, KrakenBook

VARIABLE part

MCBidPrices == {<<8>>, <<9>>, <<1, 0>>}
MCAskPrices == {<<1, 1>>, <<1, 2>>}

MCInit == Init /\ BookInit /\ part \in {"client", "handler"}

ClientMoves(A) == part = "client" /\ A /\ UNCHANGED <<bookVars, part>>
HandlerMoves == part = "handler" /\ BookNext /\ UNCHANGED <<vars, part>>

allVars == <<vars, bookVars, part>>

MCSpec ==
    /\ MCInit
    /\ [][ClientMoves(Next) \/ HandlerMoves]_allVars
    /\ WF_allVars(ClientMoves(Owner))
    /\ WF_allVars(ClientMoves(CloseConn))
    /\ WF_allVars(ClientMoves(ReadFails /\ reading \notin open))

=============================================================================
