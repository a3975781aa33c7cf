----------------------------- MODULE KrakenRest -----------------------------
(***************************************************************************)
(* The REST half of the Kraken adapter (internal/adapters/kraken): every   *)
(* method is one doPrivate call, whose nonce the venue only takes if it is *)
(* larger than the last one it took.                                       *)
(***************************************************************************)
EXTENDS SignedCalls

VARIABLES
    lastNonce,      \* the largest nonce the venue has taken
    clash,          \* history: a nonce was refused
    interleaved,    \* history: a nonce was drawn while a request was under way
    outran          \* history: a restart found the counter ahead of the clock

krakenHistory == <<clash, interleaved, outran>>
krakenVars == <<signedVars, lastNonce, krakenHistory>>

KrakenInit ==
    /\ SignedInit
    /\ lastNonce = 0
    /\ clash = FALSE
    /\ interleaved = FALSE
    /\ outran = FALSE

-----------------------------------------------------------------------------
\* nextNonce: atomic.AddUint64, so concurrent calls draw different nonces.
ClockAsNonce == clock + 1
NextNonce == stamp + 1

DoPrivate(c, op, id) ==
    /\ Draw(c, op, id, NextNonce)
    /\ interleaved' = (interleaved \/ wire # {} \/ \E d \in Clients : Undecided(d))
    /\ UNCHANGED <<lastNonce, clash, outran>>

\* PlaceOrder returns status new and no fills, whatever was executed at once;
\* without a client id it returns before anything happens.
KrakenPlaceOrder(c) == DoPrivate(c, "place", 0)
KrakenGetOrder(c, o) == DoPrivate(c, "order", o)
KrakenCancelOrder(c, o) == DoPrivate(c, "cancel", o)
KrakenGetFills(c) == DoPrivate(c, "read", 0)
KrakenGetBalances(c) == DoPrivate(c, "read", 0)

\* mapOrder: an open order is new however much of it is executed, partial is
\* said of closed orders only, and an unknown state stays new.
AnyExecFills(a) ==
    CASE a.state = "closed" /\ a.exec > 0 -> "filled"
      [] a.state = "closed" /\ a.exec = 0 -> "canceled"
      [] a.state = "canceled" -> "canceled"
      [] OTHER -> "new"
KrakenStatus(a) ==
    CASE a.state = "closed" /\ a.exec = Volume -> "filled"
      [] a.state = "closed" /\ a.exec \in 1..(Volume - 1) -> "partial"
      [] a.state = "closed" /\ a.exec = 0 -> "canceled"
      [] a.state = "canceled" -> "canceled"
      [] OTHER -> "new"

-----------------------------------------------------------------------------
(* The venue's nonce rule (external).                                       *)

Fresh(r) == r.stamp > lastNonce

KrakenTakes(r) ==
    /\ Fresh(r)
    /\ Accepts(r)
    /\ lastNonce' = r.stamp
    /\ UNCHANGED krakenHistory

KrakenRefuses(r) ==
    /\ ~Fresh(r)
    /\ clash' = TRUE
    /\ UNCHANGED <<listed, lastNonce, interleaved, outran>>

KrakenAnswers(c) ==
    LET r == Request(c) IN
    \/ Reaches(c, r, ReplyTo(r)) /\ KrakenTakes(r)
    \/ Reaches(c, r, ErrorReply) /\ KrakenRefuses(r)

KrakenRestart ==
    /\ Restart
    /\ outran' = (outran \/ stamp > clock)
    /\ UNCHANGED <<lastNonce, clash, interleaved>>

KrakenNext ==
    \/ \E c \in Clients :
          \/ KrakenPlaceOrder(c) \/ KrakenGetFills(c) \/ KrakenGetBalances(c)
          \/ \E o \in DOMAIN listed : KrakenGetOrder(c, o) \/ KrakenCancelOrder(c, o)
          \/ KrakenAnswers(c)
    \/ \E r \in wire : ReachesLate(r) /\ (KrakenTakes(r) \/ KrakenRefuses(r))
    \/ KrakenRestart
    \/ CommonStep /\ UNCHANGED <<lastNonce, krakenHistory>>

KrakenSpec == KrakenInit /\ [][KrakenNext]_krakenVars

-----------------------------------------------------------------------------
(* Properties.                                                             *)

\* The venue refuses a nonce only if two calls ran at the same time (the
\* nonce is drawn before the limiter and the network) or if a restarted
\* process set its counter back: one call after the other, also across
\* refusals by the limiter, give-ups that settled and restarts, never fails.
SerialNonces == clash => interleaved \/ outran

\* GetOrder's answer is true of the order when it is read, however late: filled
\* has all its volume, partial and canceled are over and will not execute
\* more, and no more is reported executed than has been.
KrakenVerdictHolds ==
    \A c \in OrderAnswers :
        LET status == KrakenStatus(call[c].ans) IN
        /\ status = "filled" => Now(c).exec = Volume
        /\ status \in {"filled", "partial", "canceled"} => Now(c).state # "open"
        /\ status = "partial" => Now(c).exec \in 1..(Volume - 1)
        /\ call[c].ans.exec <= Now(c).exec

=============================================================================
