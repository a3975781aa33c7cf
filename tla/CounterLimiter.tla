--------------------------- MODULE CounterLimiter ---------------------------
(***************************************************************************)
(* The call counter of the Kraken adapter                                  *)
(* (internal/ratelimit.CounterLimiter) with the request path that drives   *)
(* it (internal/adapters/kraken Connector.do).  The counter is decayed     *)
(* lazily, by the next Wait; times are kept relative to now.               *)
(***************************************************************************)
EXTENDS Naturals

CONSTANTS
    Callers,        \* goroutines that issue requests through one connector
    Costs,          \* the costs Wait is called with (2 and 6 in kraken.go)
    Budget,         \* CounterLimiter.budget
    Decay,          \* CounterLimiter.decay, in ticks
    BackoffTicks,   \* the 30 s penalty of Connector.do, in ticks
    MaxElapsed,     \* bound: the longest the limiter goes without a Wait
    Horizon         \* bound: decay periods a stopwatch runs for

ASSUME CounterAssumption ==
    /\ Costs \subseteq Nat
    /\ Budget \in Nat
    /\ Decay \in Nat \ {0}
    /\ BackoffTicks \in Nat
    /\ MaxElapsed \in Nat
    /\ Horizon \in Nat

VARIABLES
    current,    \* CounterLimiter.current
    elapsed,    \* now - CounterLimiter.last
    cooldown,   \* CounterLimiter.backoff - now, 0 when zero or past
    pc,         \* caller -> "idle" or "sent": between Wait and the answer
    seen,       \* cost admitted since an observer started its stopwatch
    drips       \* decay periods that ended since then, up to Horizon

observer == <<seen, drips>>
vars == <<current, elapsed, cooldown, pc, seen, drips>>

Init ==
    /\ current = 0
    /\ elapsed = 0
    /\ cooldown = 0
    /\ pc = [c \in Callers |-> "idle"]
    /\ seen = 0
    /\ drips = 0

-----------------------------------------------------------------------------
(* CounterLimiter.decayLocked: ticks := elapsed / decay, current loses that *)
(* many units but not below zero, last advances by whole periods.           *)

Ticks == elapsed \div Decay

DecayedCurrent == IF current > Ticks THEN current - Ticks ELSE 0

LastNotAdvanced == elapsed
RemainderDropped == 0
DecayedElapsed == elapsed - Ticks * Decay

DecayLocked ==
    /\ current' = DecayedCurrent
    /\ elapsed' = DecayedElapsed

(* CounterLimiter.Wait: it decays first, whatever the outcome.             *)

InBackoff == cooldown > 0

HasRoom(cost) == DecayedCurrent + cost <= Budget

\* ErrBudgetExhausted during the back-off.
WaitInBackoff(c) ==
    /\ pc[c] = "idle"
    /\ InBackoff
    /\ DecayLocked
    /\ UNCHANGED <<cooldown, pc, observer>>

\* ErrBudgetExhausted on a full counter.
WaitExhausted(c, cost) ==
    /\ pc[c] = "idle"
    /\ ~InBackoff
    /\ ~HasRoom(cost)
    /\ DecayLocked
    /\ UNCHANGED <<cooldown, pc, observer>>

\* Wait returns nil and do sends the HTTP request.
WaitAdmitted(c, cost) ==
    /\ pc[c] = "idle"
    /\ ~InBackoff
    /\ HasRoom(cost)
    /\ current' = DecayedCurrent + cost
    /\ elapsed' = DecayedElapsed
    /\ pc' = [pc EXCEPT ![c] = "sent"]
    /\ seen' = IF drips < Horizon THEN seen + cost ELSE seen
    /\ UNCHANGED <<cooldown, drips>>

-----------------------------------------------------------------------------
(* The answer to a request, as Connector.do handles it.                    *)

\* A result, an error status, an error envelope or a transport error.
Answered(c) ==
    /\ pc[c] = "sent"
    /\ pc' = [pc EXCEPT ![c] = "idle"]
    /\ UNCHANGED <<current, elapsed, cooldown, observer>>

\* Status 429 or 418: CounterLimiter.Backoff.
RateLimited(c) ==
    /\ pc[c] = "sent"
    /\ pc' = [pc EXCEPT ![c] = "idle"]
    /\ cooldown' = BackoffTicks
    /\ UNCHANGED <<current, elapsed, observer>>

-----------------------------------------------------------------------------
(* Time, and the observer whose stopwatch may be started at any moment.    *)

PeriodEnds == (elapsed + 1) % Decay = 0

Tick ==
    /\ elapsed < MaxElapsed
    /\ elapsed' = elapsed + 1
    /\ cooldown' = IF cooldown > 0 THEN cooldown - 1 ELSE 0
    /\ drips' = IF PeriodEnds /\ drips < Horizon THEN drips + 1 ELSE drips
    /\ UNCHANGED <<current, pc, seen>>

StartStopwatch ==
    /\ seen' = 0
    /\ drips' = 0
    /\ UNCHANGED <<current, elapsed, cooldown, pc>>

Next ==
    \/ \E c \in Callers :
          \/ WaitInBackoff(c)
          \/ \E cost \in Costs : WaitExhausted(c, cost) \/ WaitAdmitted(c, cost)
          \/ Answered(c)
          \/ RateLimited(c)
    \/ Tick
    \/ StartStopwatch

Spec == Init /\ [][Next]_vars

-----------------------------------------------------------------------------
(* Properties.                                                             *)

\* Types; the raw counter stays within the budget.
TypeOK ==
    /\ current \in 0..Budget
    /\ elapsed \in Nat
    /\ cooldown \in 0..BackoffTicks
    /\ pc \in [Callers -> {"idle", "sent"}]
    /\ seen \in Nat
    /\ drips \in 0..Horizon

\* In any stretch, wherever it starts, the cost sent to the venue is at most
\* the budget plus one unit per decay period that ended in it: Wait never
\* gives back more than the venue's own counter decays.
CostBound == drips < Horizon => seen <= Budget + drips

\* What an eager counter would read now.
Level == IF current > Ticks THEN current - Ticks ELSE 0

\* The strengthening that makes CostBound inductive: what was sent since the
\* stopwatch started is still in the bucket or has leaked out of it.
CostInv == drips < Horizon => seen <= Level + drips

\* decayLocked is exact: decaying lazily, at the next Wait, with the
\* remainder of the period carried over, is decaying on time.
Bucket == INSTANCE LeakyBucket
              WITH level <- Level, phase <- elapsed % Decay
LazyDecayIsExact == Bucket!Spec

=============================================================================
