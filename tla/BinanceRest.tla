---------------------------- MODULE BinanceRest ----------------------------
(***************************************************************************)
(* The REST half of the Binance adapter (internal/adapters/binance): every *)
(* method is one doSigned call, whose timestamp the venue only takes if it *)
(* is within recvWindow of its clock.                                      *)
(***************************************************************************)
EXTENDS SignedCalls

CONSTANTS
    RecvWindow,     \* the recvWindow of doSigned, 5000 ms
    Ahead           \* how far ahead of its clock the venue takes a timestamp

ASSUME BinanceAssumption == RecvWindow \in Nat /\ Ahead \in Nat

VARIABLES
    drawn       \* history: signed calls made since the process started

binanceVars == <<signedVars, drawn>>

BinanceInit == SignedInit /\ drawn = 0

-----------------------------------------------------------------------------
\* c.nonce++ under c.mu: a counter that was set to the clock at start-up.
NextTimestamp == stamp + 1

DoSigned(c, op, id) ==
    /\ Draw(c, op, id, NextTimestamp)
    /\ drawn' = drawn + 1

BinancePlaceOrder(c) == DoSigned(c, "place", 0)
BinanceGetOrder(c, o) == DoSigned(c, "order", o)
BinanceCancelOrder(c, o) == DoSigned(c, "cancel", o)
BinanceGetFills(c) == DoSigned(c, "read", 0)
BinanceGetBalances(c) == DoSigned(c, "read", 0)

\* The state as the venue names it.
StatusText(a) ==
    CASE a.state = "open" /\ a.exec = 0 -> "NEW"
      [] a.state = "open" /\ a.exec > 0 -> "PARTIALLY_FILLED"
      [] a.state = "closed" /\ a.exec = Volume -> "FILLED"
      [] a.state = "canceled" -> "CANCELED"
      [] OTHER -> "EXPIRED"

\* mapStatus, for PlaceOrder (mapOrder) and GetOrder (mapOrderSimple): a text
\* it does not know is passed on as it is.
PartialIsFilled(text) ==
    CASE text = "NEW" -> "new"
      [] text \in {"PARTIALLY_FILLED", "FILLED"} -> "filled"
      [] text = "CANCELED" -> "canceled"
      [] OTHER -> text
BinanceStatus(text) ==
    CASE text = "NEW" -> "new"
      [] text = "PARTIALLY_FILLED" -> "partial"
      [] text = "FILLED" -> "filled"
      [] text = "CANCELED" -> "canceled"
      [] OTHER -> text

\* What GetOrder returns.
MapOrderSimple(a) == [status |-> BinanceStatus(StatusText(a)), filledQty |-> a.exec]

-----------------------------------------------------------------------------
(* The venue's timestamp rule (external).                                   *)

InWindow(r) == clock <= r.stamp + RecvWindow /\ r.stamp <= clock + Ahead

BinanceTakes(r) == InWindow(r) /\ Accepts(r)
BinanceRefuses(r) == ~InWindow(r) /\ UNCHANGED listed

BinanceAnswers(c) ==
    LET r == Request(c) IN
    /\ \/ Reaches(c, r, ReplyTo(r)) /\ BinanceTakes(r)
       \/ Reaches(c, r, ErrorReply) /\ BinanceRefuses(r)
    /\ UNCHANGED drawn

BinanceRestart == Restart /\ drawn' = 0

BinanceNext ==
    \/ \E c \in Clients :
          \/ BinancePlaceOrder(c) \/ BinanceGetFills(c) \/ BinanceGetBalances(c)
          \/ \E o \in DOMAIN listed : BinanceGetOrder(c, o) \/ BinanceCancelOrder(c, o)
          \/ BinanceAnswers(c)
    \/ \E r \in wire : ReachesLate(r) /\ (BinanceTakes(r) \/ BinanceRefuses(r))
                                      /\ UNCHANGED drawn
    \/ BinanceRestart
    \/ CommonStep /\ UNCHANGED drawn

BinanceSpec == BinanceInit /\ [][BinanceNext]_binanceVars

-----------------------------------------------------------------------------
(* Properties.                                                             *)

\* "Signed requests include valid signature, timestamp": a request that is
\* signed now and reaches the venue at once is within its window.
TimestampValid == InWindow([stamp |-> NextTimestamp])

\* Why it fails, whatever the window: the timestamp advances by one per call,
\* not per millisecond.  While a process has been up for longer than recvWindow
\* plus one millisecond per call it made, the venue decides no request in its
\* favour; only callers that retry faster than once a millisecond change that.
BehindIsRefused ==
    [][clock - start > RecvWindow + drawn =>
          \A c \in Clients : Undecided(c) => call'[c].ans \in {NoReply, ErrorReply}]_binanceVars

\* GetOrder's answer is true of the order when it is read, however late: filled
\* has all its volume and canceled was canceled, no more is reported executed
\* than has been, and no status text of the venue turns into one of these by
\* mistake.
BinanceVerdictHolds ==
    \A c \in OrderAnswers :
        LET order == MapOrderSimple(call[c].ans)
            status == order.status
        IN
        /\ status = "filled" => Now(c).exec = Volume
        /\ status = "canceled" <=> call[c].ans.state = "canceled"
        /\ status = "canceled" => Now(c).state = "canceled"
        /\ status = "partial" => order.filledQty > 0
        /\ order.filledQty <= Now(c).exec
        /\ Now(c).state = "open" => status \in {"new", "partial"}

=============================================================================
