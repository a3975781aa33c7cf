------------------------------ MODULE WsClient ------------------------------
(***************************************************************************)
(* The reconnecting WebSocket client (internal/ws Client) under the        *)
(* goroutine that owns it.  The Binance adapter names its streams in the   *)
(* URL and calls Run; the Kraken adapter calls Connect, sends its          *)
(* subscription with WriteJSON, and then calls Run.  Close and the context *)
(* may end the client at any moment.                                       *)
(*                                                                         *)
(* Connections are numbered by the order of their handshakes; 0 is nil.    *)
(* Durations are in units of the first back-off, 100 ms.                   *)
(***************************************************************************)
EXTENDS Naturals, FiniteSets

CONSTANTS
    MaxDials,       \* bound: successful handshakes
    MaxBackoff      \* Client.maxBackoff

ASSUME WsAssumption ==
    /\ MaxDials \in Nat
    /\ MaxBackoff \in Nat \ {0}

VARIABLES
    byMessage,      \* whether the owner subscribes with a message (Kraken)
    pc,             \* where the owner's goroutine is
    conn,           \* Client.conn
    reading,        \* readLoop's copy of it, whose ReadMessage is running
    closed,         \* Client.closed
    closing,        \* the connection a call of Close is about to close
    backoff,        \* Run's backoff
    cancelled,      \* whether the context is done
    dials,          \* handshakes so far
    open,           \* connections this process has not closed
    subscribed      \* connections on which the subscription was sent

vars == <<byMessage, pc, conn, reading, closed, closing, backoff, cancelled,
          dials, open, subscribed>>
stopping == <<closed, closing, cancelled>>
sockets == <<conn, dials, open>>

Init ==
    /\ byMessage \in BOOLEAN
    /\ pc = IF byMessage THEN "first" ELSE "top"
    /\ conn = 0
    /\ reading = 0
    /\ closed = FALSE
    /\ closing = 0
    /\ backoff = 1
    /\ cancelled = FALSE
    /\ dials = 0
    /\ open = {}
    /\ subscribed = {}

Go(from, to) == pc = from /\ pc' = to

-----------------------------------------------------------------------------
\* connect: a handshake succeeds and the connection becomes the current one,
\* whatever was current before.
Dial ==
    /\ ~cancelled
    /\ dials < MaxDials
    /\ dials' = dials + 1
    /\ open' = open \cup {dials + 1}
    /\ conn' = dials + 1

(* The Kraken adapter's goroutine before Run.                              *)

ConnectFirst ==
    /\ Go("first", "subscribe")
    /\ Dial
    /\ UNCHANGED <<byMessage, reading, stopping, backoff, subscribed>>

\* The goroutine returns and closes the update channel.
ConnectFirstFails ==
    /\ Go("first", "done")
    /\ UNCHANGED <<byMessage, sockets, reading, stopping, backoff, subscribed>>

\* WriteJSON; an error is ignored.
Subscribe ==
    /\ Go("subscribe", "top")
    /\ subscribed' \in {subscribed, subscribed \cup {conn}}
    /\ UNCHANGED <<byMessage, sockets, reading, stopping, backoff>>

-----------------------------------------------------------------------------
(* Run.                                                                    *)

\* The durations nextBackoff may return: twice the previous one, a jitter of
\* up to as much again, and the cap.
Jittered(prev) == (2 * prev)..(3 * prev)
NextBackoff(prev) == {IF d > MaxBackoff THEN MaxBackoff ELSE d : d \in Jittered(prev)}

\* ctx.Err() != nil: asked after a failed connect, after readLoop, which leaves
\* the connection open, and while Run waits; never while it reads.
ContextIgnored == FALSE
ContextEnds == cancelled

LoopTop ==
    /\ Go("top", IF closed THEN "done" ELSE "connect")
    /\ UNCHANGED <<byMessage, sockets, reading, stopping, backoff, subscribed>>

Connect ==
    /\ Go("connect", "read")
    /\ Dial
    /\ backoff' = 1
    /\ UNCHANGED <<byMessage, reading, stopping, subscribed>>

ConnectFails ==
    /\ Go("connect", "sleep")
    /\ ~ContextEnds
    /\ backoff' \in NextBackoff(backoff)
    /\ UNCHANGED <<byMessage, sockets, reading, stopping, subscribed>>

\* conn == nil || closed, under the lock.
ClosedIgnored == conn = 0
ReadLoopEnds == conn = 0 \/ closed

\* readLoop starts ReadMessage on its copy of conn, or returns.
ReadMessage ==
    /\ pc = "read"
    /\ pc' = IF ReadLoopEnds THEN "after" ELSE "reading"
    /\ reading' = IF ReadLoopEnds THEN 0 ELSE conn
    /\ UNCHANGED <<byMessage, sockets, stopping, backoff, subscribed>>

\* A message, which may still be in the buffer of a socket that was closed
\* here: the handler runs and the loop goes on.
Message ==
    /\ Go("reading", "read")
    /\ UNCHANGED <<byMessage, sockets, reading, stopping, backoff, subscribed>>

\* ReadMessage fails: the peer is gone, or the socket has been closed here.
ReadFails ==
    /\ Go("reading", "after")
    /\ UNCHANGED <<byMessage, sockets, reading, stopping, backoff, subscribed>>

\* Run closes what is current, and waits before it reconnects.
KeptOpen == open
OpenAfterRead == open \ {conn}

AfterRead ==
    /\ Go("after", "sleep")
    /\ ~ContextEnds
    /\ open' = OpenAfterRead
    /\ conn' = 0
    /\ backoff' \in NextBackoff(backoff)
    /\ UNCHANGED <<byMessage, reading, stopping, dials, subscribed>>

Slept ==
    /\ Go("sleep", "top")
    /\ UNCHANGED <<byMessage, sockets, reading, stopping, backoff, subscribed>>

ContextDone ==
    /\ pc \in {"connect", "after", "sleep"}
    /\ ContextEnds
    /\ pc' = "done"
    /\ UNCHANGED <<byMessage, sockets, reading, stopping, backoff, subscribed>>

-----------------------------------------------------------------------------
(* Close, by anybody, any number of times; and the context.                *)

Close ==
    /\ closing = 0
    /\ closed' = TRUE
    /\ closing' = conn
    /\ UNCHANGED <<byMessage, pc, sockets, reading, backoff, cancelled, subscribed>>

CloseConn ==
    /\ closing # 0
    /\ open' = open \ {closing}
    /\ closing' = 0
    /\ UNCHANGED <<byMessage, pc, conn, dials, reading, closed, backoff, cancelled,
                   subscribed>>

Cancel ==
    /\ ~cancelled
    /\ cancelled' = TRUE
    /\ UNCHANGED <<byMessage, pc, sockets, reading, closed, closing, backoff, subscribed>>

\* What the goroutine does without waiting for the peer.
Owner ==
    \/ ConnectFirst
    \/ ConnectFirstFails
    \/ Subscribe
    \/ LoopTop
    \/ Connect
    \/ ConnectFails
    \/ ReadMessage
    \/ AfterRead
    \/ Slept
    \/ ContextDone

Next ==
    \/ Owner
    \/ Message
    \/ ReadFails
    \/ Close
    \/ CloseConn
    \/ Cancel

Spec == Init /\ [][Next]_vars

\* The goroutine runs, a call of Close gets to its end, and a read on a
\* socket that was closed fails; the peer need never send or hang up.
FairSpec ==
    /\ Spec
    /\ WF_vars(Owner)
    /\ WF_vars(CloseConn)
    /\ WF_vars(ReadFails /\ reading \notin open)

-----------------------------------------------------------------------------
(* Properties.                                                             *)

Dialled == 1..MaxDials

\* Types; the back-off stays within its cap.
TypeOK ==
    /\ byMessage \in BOOLEAN
    /\ pc \in {"first", "subscribe", "top", "connect", "read", "reading",
               "after", "sleep", "done"}
    /\ conn \in {0} \cup Dialled
    /\ reading \in {0} \cup Dialled
    /\ closed \in BOOLEAN
    /\ closing \in {0} \cup Dialled
    /\ backoff \in 1..MaxBackoff
    /\ cancelled \in BOOLEAN
    /\ dials \in 0..MaxDials
    /\ open \subseteq Dialled
    /\ subscribed \subseteq Dialled

\* Reconnecting leaks no socket: however Close, Run and the peer race, the
\* only connection left open besides the current one is the one the Kraken
\* adapter made before Run, which Run drops without closing it.
NoSocketLeft == open \subseteq {conn} \cup (IF byMessage THEN {1} ELSE {})

\* Close ends Run, whenever it comes: before a connection is made, between
\* its handshake and its registration, while it is read, or while Run waits.
CloseEndsRun == closed ~> pc = "done"

\* A cancelled context ends Run, or leaves it in ReadMessage on a socket that
\* nobody has closed: it never goes on dialling and waiting, but it takes the
\* peer, or Close, to end a read.
CancelEndsRunUnlessReading ==
    cancelled ~> (pc = "done" \/ (pc = "reading" /\ reading \in open))

\* The documented promise, "resubscribe to book + private channels after
\* reconnect": where the subscription is a message, the connection that Run
\* reads has had it sent.
SubscribedWhileReading ==
    byMessage /\ pc = "reading" => reading \in subscribed

=============================================================================
