------------------------------ MODULE LossyFifo ------------------------------
(***************************************************************************)
(* What a bounded, non-blocking queue promises: items come out in the      *)
(* order they went in, each once; an item is lost only while the backlog   *)
(* is at the capacity, and every loss is counted; when the queue is shut   *)
(* nothing goes in any more, and what is in still comes out.  The backlog  *)
(* includes the item the consumer is busy with.                            *)
(***************************************************************************)
EXTENDS Naturals, Sequences

CONSTANTS
    Items,
    Capacity    \* items that wait, the consumer's own not counted

VARIABLES
    backlog,    \* items put in and not yet passed on
    passed,     \* items passed on
    lost,       \* number of items lost
    shut        \* whether the queue is shut

fifo == <<backlog, passed, lost, shut>>

Init ==
    /\ backlog = <<>>
    /\ passed = <<>>
    /\ lost = 0
    /\ shut = FALSE

Put(x) ==
    /\ ~shut
    /\ Len(backlog) <= Capacity
    /\ backlog' = Append(backlog, x)
    /\ UNCHANGED <<passed, lost, shut>>

Lose ==
    /\ ~shut
    /\ Len(backlog) >= Capacity
    /\ lost' = lost + 1
    /\ UNCHANGED <<backlog, passed, shut>>

Pass ==
    /\ backlog # <<>>
    /\ passed' = Append(passed, Head(backlog))
    /\ backlog' = Tail(backlog)
    /\ UNCHANGED <<lost, shut>>

Shut ==
    /\ ~shut
    /\ shut' = TRUE
    /\ UNCHANGED <<backlog, passed, lost>>

Next == (\E x \in Items : Put(x)) \/ Lose \/ Pass \/ Shut

Spec == Init /\ [][Next]_fifo

=============================================================================
