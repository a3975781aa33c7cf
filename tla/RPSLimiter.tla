----------------------------- MODULE RPSLimiter -----------------------------
(***************************************************************************)
(* The fixed-window request limiter of the OTC adapter                     *)
(* (internal/ratelimit.RPSLimiter) together with the request path that     *)
(* drives it (internal/adapters/otc Connector.do).                         *)
(*                                                                         *)
(* Time is discrete and relative: every time.Time the limiter keeps is     *)
(* stored as its distance from now.  now.Sub(start) is only compared with  *)
(* the window, so it saturates there; backoff - now is only compared with  *)
(* zero, so it stops at zero.  Both representations are exact.             *)
(***************************************************************************)
EXTENDS Naturals

CONSTANTS
    Callers,        \* goroutines that issue requests through one connector
    Limit,          \* RPSLimiter.limit
    Window,         \* RPSLimiter.window, in ticks
    BackoffTicks    \* the 5 s penalty of Connector.do after a 429, in ticks

ASSUME RPSAssumption ==
    /\ Limit \in Nat
    /\ Window \in Nat \ {0}
    /\ BackoffTicks \in Nat

VARIABLES
    count,      \* RPSLimiter.count
    age,        \* now - RPSLimiter.start, saturating at Window
    cooldown,   \* RPSLimiter.backoff - now, 0 when zero or past
    pc,         \* caller -> "idle" or "sent": between Wait and the answer
    seen,       \* requests admitted since an observer started its stopwatch
    seenAge     \* the reading of that stopwatch, saturating at Window

limiter == <<count, age, cooldown>>
observer == <<seen, seenAge>>
vars == <<count, age, cooldown, pc, seen, seenAge>>

Init ==
    /\ count = 0
    /\ age = 0
    /\ cooldown = 0
    /\ pc = [c \in Callers |-> "idle"]
    /\ seen = 0
    /\ seenAge \in {0, Window}     \* a stopwatch is running, or none is

-----------------------------------------------------------------------------
(* RPSLimiter.Wait.                                                        *)

\* !backoff.IsZero() && now.Before(backoff)
NoBackoff == FALSE
InBackoff == cooldown > 0

\* now.Sub(start) >= window, the test that opens a new window
WindowOver == age >= Window

\* The count and the window age once the rollover of Wait has been applied.
RolledCount == IF WindowOver THEN 0 ELSE count
StartKept == age
RolledAge == IF WindowOver THEN 0 ELSE age

\* The admission test on the rolled window.
HasRoom == RolledCount < Limit

\* Wait returns ErrBudgetExhausted during the back-off: nothing is touched.
WaitInBackoff(c) ==
    /\ pc[c] = "idle"
    /\ InBackoff
    /\ UNCHANGED vars

\* Wait returns ErrBudgetExhausted on a full window; a rollover is kept.
WaitExhausted(c) ==
    /\ pc[c] = "idle"
    /\ ~InBackoff
    /\ ~HasRoom
    /\ count' = RolledCount
    /\ age' = RolledAge
    /\ UNCHANGED <<cooldown, pc, observer>>

\* The admission is counted by the limiter and by a running stopwatch.
CountAdmission ==
    /\ count' = RolledCount + 1
    /\ age' = RolledAge
    /\ seen' = IF seenAge < Window THEN seen + 1 ELSE seen

\* Wait returns nil and do sends the HTTP request.
WaitAdmitted(c) ==
    /\ pc[c] = "idle"
    /\ ~InBackoff
    /\ HasRoom
    /\ CountAdmission
    /\ pc' = [pc EXCEPT ![c] = "sent"]
    /\ UNCHANGED <<cooldown, seenAge>>

-----------------------------------------------------------------------------
(* The answer to a request, as Connector.do handles it.                    *)

\* A body, a status >= 400 other than 429, or a transport error or deadline.
Answered(c) ==
    /\ pc[c] = "sent"
    /\ pc' = [pc EXCEPT ![c] = "idle"]
    /\ UNCHANGED <<limiter, observer>>

\* RPSLimiter.Backoff: the deadline is overwritten, counted from now.
Backoff == cooldown' = BackoffTicks

\* Status 429.
RateLimited(c) ==
    /\ pc[c] = "sent"
    /\ pc' = [pc EXCEPT ![c] = "idle"]
    /\ Backoff
    /\ UNCHANGED <<count, age, observer>>

-----------------------------------------------------------------------------
(* Time, and the observer whose stopwatch may be started at any moment.    *)

Older(t) == IF t < Window THEN t + 1 ELSE t

Tick ==
    /\ age' = Older(age)
    /\ seenAge' = Older(seenAge)
    /\ cooldown' = IF cooldown > 0 THEN cooldown - 1 ELSE 0
    /\ UNCHANGED <<count, pc, seen>>

StartStopwatch ==
    /\ seen' = 0
    /\ seenAge' = 0
    /\ UNCHANGED <<limiter, pc>>

Next ==
    \/ \E c \in Callers :
          \/ WaitInBackoff(c)
          \/ WaitExhausted(c)
          \/ WaitAdmitted(c)
          \/ Answered(c)
          \/ RateLimited(c)
    \/ Tick
    \/ StartStopwatch

Spec == Init /\ [][Next]_vars

\* Clocks advance; nothing else is assumed (an answer may never come).
FairSpec == Spec /\ WF_vars(Tick)

-----------------------------------------------------------------------------
(* Properties.                                                             *)

\* Types; count never passes the limit because Wait tests before counting.
TypeOK ==
    /\ count \in 0..Limit
    /\ age \in 0..Window
    /\ cooldown \in 0..BackoffTicks
    /\ pc \in [Callers -> {"idle", "sent"}]
    /\ seen \in Nat
    /\ seenAge \in 0..Window

\* What Wait really promises the desk: in any stretch shorter than a window,
\* wherever it starts, at most twice the limit is sent (the tail of one
\* window and the head of the next).  The documented "never exceed venue
\* limits" does not hold across the boundary of two windows.
BurstBound == seenAge < Window => seen <= 2 * Limit

\* The strengthening that makes BurstBound inductive: what the stopwatch saw
\* is in the current window, or the current window was opened after the
\* stopwatch started and the surplus fits in the one before it.
BurstInv ==
    seenAge < Window => \/ seen <= count
                        \/ age <= seenAge /\ seen <= Limit + count

\* A 429 never silences the adapter for good: Wait refuses requests during
\* the back-off, so only the requests already in flight can prolong it.
BackoffEnds == []<>(cooldown = 0)

=============================================================================
