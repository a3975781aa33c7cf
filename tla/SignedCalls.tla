---------------------------- MODULE SignedCalls ----------------------------
(***************************************************************************)
(* The life of a signed REST call, as the Kraken and the Binance adapter   *)
(* share it: a stamp is drawn from a counter that was set to the clock     *)
(* when the connector was made, then the limiter is asked, then the        *)
(* request travels.  The caller may give up, and the process may restart,  *)
(* while a request is on its way.                                          *)
(*                                                                         *)
(* The limiter is seen from here as one that may refuse or admit at any    *)
(* time.  An order at the venue is its state and its executed volume.      *)
(***************************************************************************)
EXTENDS Naturals, Sequences

CONSTANTS
    Clients,        \* goroutines that call one connector
    Volume,         \* the volume of an order
    MaxClock,       \* bound: how far the clock runs
    MaxStamp,       \* bound: how far the counter runs
    MaxOrders       \* bound: orders placed

ASSUME SignedAssumption ==
    /\ Volume \in Nat \ {0}
    /\ MaxClock \in Nat /\ MaxStamp \in Nat /\ MaxOrders \in Nat

VARIABLES
    clock,      \* the wall clock, in milliseconds
    start,      \* when the process started
    stamp,      \* Connector.nonce
    call,       \* client -> the call it is in
    wire,       \* requests on their way that nobody waits for
    listed      \* the venue's orders

signedVars == <<clock, start, stamp, call, wire, listed>>

NoReply == [id |-> 0, state |-> "none", exec |-> 0]
NoCall == [op |-> "none", id |-> 0, stamp |-> 0, sent |-> FALSE, ans |-> NoReply]

SignedInit ==
    /\ clock = 0
    /\ start = 0
    /\ stamp = 0
    /\ call = [c \in Clients |-> NoCall]
    /\ wire = {}
    /\ listed = <<>>

-----------------------------------------------------------------------------
(* The adapter's side of a call.                                           *)

\* A call that the venue has not decided on.
Undecided(c) == call[c] # NoCall /\ call[c].ans = NoReply
Travels(c) == Undecided(c) /\ call[c].sent

Request(c) == [op |-> call[c].op, id |-> call[c].id, stamp |-> call[c].stamp]

Hang(c) == call' = [call EXCEPT ![c] = NoCall]

\* The stamp is put into the request before the limiter is asked.
Draw(c, op, id, n) ==
    /\ call[c] = NoCall
    /\ n <= MaxStamp
    /\ stamp' = n
    /\ call' = [call EXCEPT ![c] = [op |-> op, id |-> id, stamp |-> n, sent |-> FALSE,
                                    ans |-> NoReply]]
    /\ UNCHANGED <<clock, start, wire, listed>>

\* Wait returns an error: the drawn stamp is not used again.
LimiterRefuses(c) ==
    /\ Undecided(c) /\ ~call[c].sent
    /\ Hang(c)
    /\ UNCHANGED <<clock, start, stamp, wire, listed>>

LimiterAdmits(c) ==
    /\ Undecided(c) /\ ~call[c].sent
    /\ call' = [call EXCEPT ![c].sent = TRUE]
    /\ UNCHANGED <<clock, start, stamp, wire, listed>>

\* A transport error or the caller's deadline, before or after the venue acted.
Abandon(c) ==
    /\ call[c].sent
    /\ Hang(c)
    /\ wire' = IF Travels(c) THEN wire \cup {Request(c)} ELSE wire
    /\ UNCHANGED <<clock, start, stamp, listed>>

\* 429, 418 or another error status, before the venue looked at the request.
TurnedAway(c) ==
    /\ Travels(c)
    /\ Hang(c)
    /\ UNCHANGED <<clock, start, stamp, wire, listed>>

\* The answer is read and the method returns; the adapter keeps nothing.
ReadReply(c) ==
    /\ call[c].ans # NoReply
    /\ Hang(c)
    /\ UNCHANGED <<clock, start, stamp, wire, listed>>

\* The process dies and comes back: NewConnector sets the counter again.
Restart ==
    /\ clock > start
    /\ start' = clock
    /\ stamp' = clock
    /\ wire' = wire \cup {Request(c) : c \in {d \in Clients : Travels(d)}}
    /\ call' = [c \in Clients |-> NoCall]
    /\ UNCHANGED <<clock, listed>>

-----------------------------------------------------------------------------
(* The venue (external): what an accepted request does, and what happens    *)
(* to orders on their own.                                                  *)

ErrorReply == [id |-> 0, state |-> "error", exec |-> 0]
DoneReply == [id |-> 0, state |-> "done", exec |-> 0]
OrderReply(o) == [id |-> o, state |-> listed[o].state, exec |-> listed[o].exec]

Cancelable(r) == r.op = "cancel" /\ listed[r.id].state = "open"

Outcome(r) ==
    CASE r.op = "place" -> Append(listed, [state |-> "open", exec |-> 0])
      [] Cancelable(r) -> [listed EXCEPT ![r.id].state = "canceled"]
      [] OTHER -> listed

ReplyTo(r) ==
    CASE r.op = "place" -> [id |-> Len(listed) + 1, state |-> "open", exec |-> 0]
      [] r.op = "order" -> OrderReply(r.id)
      [] r.op = "cancel" /\ ~Cancelable(r) -> ErrorReply
      [] OTHER -> DoneReply

Accepts(r) ==
    /\ r.op = "place" => Len(listed) < MaxOrders
    /\ listed' = Outcome(r)

\* The request of a call, or one nobody waits for, reaches the venue.
Reaches(c, r, reply) ==
    /\ Travels(c) /\ r = Request(c)
    /\ call' = [call EXCEPT ![c].ans = reply]
    /\ UNCHANGED <<clock, start, stamp, wire>>

ReachesLate(r) ==
    /\ r \in wire
    /\ wire' = wire \ {r}
    /\ UNCHANGED <<clock, start, stamp, call>>

\* An open order executes, or ends with what it has executed.
VenueMoves(o) ==
    /\ listed[o].state = "open"
    /\ \/ listed[o].exec < Volume /\ listed' = [listed EXCEPT ![o].exec = @ + 1]
       \/ \E s \in {"closed", "expired"} : listed' = [listed EXCEPT ![o].state = s]
    /\ UNCHANGED <<clock, start, stamp, call, wire>>

ClockRuns ==
    /\ clock < MaxClock
    /\ clock' = clock + 1
    /\ UNCHANGED <<start, stamp, call, wire, listed>>

\* What every adapter does apart from drawing stamps and being answered.
CommonStep ==
    \/ \E c \in Clients :
          LimiterRefuses(c) \/ LimiterAdmits(c) \/ Abandon(c) \/ TurnedAway(c) \/ ReadReply(c)
    \/ \E o \in DOMAIN listed : VenueMoves(o)
    \/ ClockRuns

-----------------------------------------------------------------------------
(* What an answer to GetOrder says about the order, when it is read.        *)

OrderAnswers == {c \in Clients : call[c].op = "order" /\ call[c].ans # NoReply
                                                      /\ call[c].ans # ErrorReply}
Now(c) == listed[call[c].id]

=============================================================================
