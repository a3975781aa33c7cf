----------------------------- MODULE AsyncSink -----------------------------
(***************************************************************************)
(* The bounded, non-blocking audit queue (internal/audit.AsyncSink): Emit  *)
(* by request goroutines, the loop goroutine that feeds the delegate sink, *)
(* and Close.                                                              *)
(*                                                                         *)
(* An event is named by its emitter and its number there; the Timestamp    *)
(* that Emit fills in and the labels of the metrics are left out.  A send  *)
(* on the closed channel panics even inside the select with a default.     *)
(***************************************************************************)
EXTENDS Naturals, Sequences, FiniteSets

CONSTANTS
    Emitters,       \* goroutines that call Emit
    QueueSize,      \* capacity of the channel
    MaxEvents       \* bound: events per emitter

ASSUME AsyncSinkAssumption ==
    /\ IsFiniteSet(Emitters)
    /\ QueueSize \in Nat \ {0}
    /\ MaxEvents \in Nat

VARIABLES
    sent,           \* emitter -> its calls of Emit so far
    stage,          \* emitter -> "idle", "drop" or "panicked"
    queue,          \* AsyncSink.queue
    channelClosed,  \* close(s.queue) has run
    closed,         \* AsyncSink.closed
    looping,        \* the loop goroutine has not returned
    hand,           \* the event passed to delegate.Emit, if any
    delivered,      \* events the delegate has taken, in order
    dropped,        \* AsyncSink.dropped
    accepted        \* events the channel has taken, in order (history)

sinkVars == <<sent, stage, queue, channelClosed, closed, looping, hand, delivered,
          dropped, accepted>>
closing == <<channelClosed, closed>>
loop == <<looping, hand, delivered>>

SinkInit ==
    /\ sent = [e \in Emitters |-> 0]
    /\ stage = [e \in Emitters |-> "idle"]
    /\ queue = <<>>
    /\ channelClosed = FALSE
    /\ closed = FALSE
    /\ looping = TRUE
    /\ hand = <<>>
    /\ delivered = <<>>
    /\ dropped = 0
    /\ accepted = <<>>

-----------------------------------------------------------------------------
(* Emit.                                                                   *)

Call(e) ==
    /\ stage[e] = "idle"
    /\ sent[e] < MaxEvents
    /\ sent' = [sent EXCEPT ![e] = @ + 1]

Event(e) == [by |-> e, nr |-> sent[e] + 1]

\* The channel can take one more.
OneTooMany == Len(queue) <= QueueSize
ChannelHasRoom == Len(queue) < QueueSize

\* case s.queue <- event
EmitQueued(e) ==
    /\ Call(e)
    /\ ~channelClosed
    /\ ChannelHasRoom
    /\ queue' = Append(queue, Event(e))
    /\ accepted' = Append(accepted, Event(e))
    /\ UNCHANGED <<stage, closing, loop, dropped>>

\* default: the queue is full and the event is dropped ...
EmitDropped(e) ==
    /\ Call(e)
    /\ ~channelClosed
    /\ ~ChannelHasRoom
    /\ stage' = [stage EXCEPT ![e] = "drop"]
    /\ UNCHANGED <<queue, closing, loop, dropped, accepted>>

\* ... and then counted under the lock.
NotCounted(e) == dropped
Counted(e) == dropped + 1

CountDrop(e) ==
    /\ stage[e] = "drop"
    /\ dropped' = Counted(e)
    /\ stage' = [stage EXCEPT ![e] = "idle"]
    /\ UNCHANGED <<sent, queue, closing, loop, accepted>>

\* Emit after Close: the send panics and takes its goroutine's call down.
EmitPanics(e) ==
    /\ Call(e)
    /\ channelClosed
    /\ stage' = [stage EXCEPT ![e] = "panicked"]
    /\ UNCHANGED <<queue, closing, loop, dropped, accepted>>

-----------------------------------------------------------------------------
(* The loop goroutine.                                                     *)

\* for ev := range s.queue
Newest == [hand |-> <<queue[Len(queue)]>>, rest |-> SubSeq(queue, 1, Len(queue) - 1)]
Received == [hand |-> <<Head(queue)>>, rest |-> Tail(queue)]

Take ==
    /\ looping
    /\ hand = <<>>
    /\ queue # <<>>
    /\ hand' = Received.hand
    /\ queue' = Received.rest
    /\ UNCHANGED <<sent, stage, closing, looping, delivered, dropped, accepted>>

\* delegate.Emit returns.
Deliver ==
    /\ hand # <<>>
    /\ delivered' = delivered \o hand
    /\ hand' = <<>>
    /\ UNCHANGED <<sent, stage, queue, closing, looping, dropped, accepted>>

\* The range ends when the channel is closed and drained.
StopsAtClose == channelClosed
RangeEnds == channelClosed /\ queue = <<>>

LoopReturns ==
    /\ looping
    /\ hand = <<>>
    /\ RangeEnds
    /\ looping' = FALSE
    /\ UNCHANGED <<sent, stage, queue, closing, hand, delivered, dropped, accepted>>

-----------------------------------------------------------------------------
(* Close, which may be called again by anybody.                            *)

CloseBegins ==
    /\ ~closed
    /\ closed' = TRUE
    /\ UNCHANGED <<sent, stage, queue, channelClosed, loop, dropped, accepted>>

CloseChannel ==
    /\ closed
    /\ ~channelClosed
    /\ channelClosed' = TRUE
    /\ UNCHANGED <<sent, stage, queue, closed, loop, dropped, accepted>>

CloseAgain ==
    /\ closed
    /\ UNCHANGED sinkVars

Loop == Take \/ Deliver \/ LoopReturns

SinkNext ==
    \/ \E e \in Emitters :
          \/ EmitQueued(e)
          \/ EmitDropped(e)
          \/ CountDrop(e)
          \/ EmitPanics(e)
    \/ Loop
    \/ CloseBegins
    \/ CloseChannel
    \/ CloseAgain

SinkSpec == SinkInit /\ [][SinkNext]_sinkVars

\* The loop goroutine is scheduled and the delegate returns from Emit.
SinkFairSpec == SinkSpec /\ WF_sinkVars(Loop)

-----------------------------------------------------------------------------
(* Properties.                                                             *)

Events == [by : Emitters, nr : 1..MaxEvents]

\* Types; the channel never holds more than its capacity.
SinkTypeOK ==
    /\ sent \in [Emitters -> 0..MaxEvents]
    /\ stage \in [Emitters -> {"idle", "drop", "panicked"}]
    /\ queue \in Seq(Events)
    /\ Len(queue) <= QueueSize
    /\ channelClosed \in BOOLEAN
    /\ closed \in BOOLEAN
    /\ looping \in BOOLEAN
    /\ hand \in Seq(Events)
    /\ Len(hand) <= 1
    /\ delivered \in Seq(Events)
    /\ dropped \in Nat
    /\ accepted \in Seq(Events)

\* The queue neither reorders, repeats nor loses what it took: the events
\* delivered, in hand and waiting are the accepted ones, in that order, also
\* across Close.
FifoAudit == delivered \o hand \o queue = accepted

Sent == {v \in Events : v.nr <= sent[v.by]}
Missing == {e \in Emitters : stage[e] # "idle"}

\* Every event is accounted for: of what the emitters sent and the channel did
\* not take, each is counted in dropped, about to be, or the one whose Emit
\* panicked because the sink was closed; no other is missing.
DropsCounted == Cardinality(Sent) = Len(accepted) + dropped + Cardinality(Missing)

Dropping == {e \in Emitters : stage[e] = "drop"}

\* Emit, the loop and Close together are a lossy FIFO: the delegate gets the
\* accepted events in order and once each, an event is lost only while the
\* channel is full, each loss is counted, and Close lets the queue run dry.
Fifo == INSTANCE LossyFifo
            WITH Items <- Events, Capacity <- QueueSize,
                 backlog <- hand \o queue, passed <- delivered,
                 lost <- dropped + Cardinality(Dropping), shut <- channelClosed
ImplementsFifo == Fifo!Spec

\* Close does not throw away what is queued: every accepted event reaches
\* the delegate, whether or not the sink is closed meanwhile.
AcceptedIsDelivered ==
    \A n \in 1..(MaxEvents * Cardinality(Emitters)) :
        Len(accepted) >= n ~> Len(delivered) >= n

=============================================================================
