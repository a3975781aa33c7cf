---------------------------- MODULE LeakyBucket -----------------------------
(***************************************************************************)
(* What a leaky-bucket limiter promises: the bucket loses one unit at the  *)
(* end of every decay period, whether or not anybody calls the limiter,    *)
(* and a request is let through only when its cost fits.  The lazy counter *)
(* of CounterLimiter implements it.                                        *)
(***************************************************************************)
EXTENDS Naturals

CONSTANTS
    Costs,      \* the costs of the requests
    Budget,     \* capacity of the bucket
    Decay       \* ticks per decay period

VARIABLES
    level,      \* units in the bucket
    phase       \* ticks into the current decay period

bucket == <<level, phase>>

Init == level = 0 /\ phase = 0

Admit(cost) ==
    /\ level + cost <= Budget
    /\ level' = level + cost
    /\ phase' = phase

Tick ==
    IF phase + 1 = Decay
    THEN /\ phase' = 0
         /\ level' = IF level > 0 THEN level - 1 ELSE 0
    ELSE /\ phase' = phase + 1
         /\ level' = level

Next == Tick \/ \E cost \in Costs : Admit(cost)

Spec == Init /\ [][Next]_bucket

=============================================================================
