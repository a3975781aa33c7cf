--------------------------- MODULE WeightedLimiter --------------------------
(***************************************************************************)
(* The request-weight limiter of the Binance adapter                       *)
(* (internal/ratelimit.WeightedLimiter), the request path that drives it   *)
(* (internal/adapters/binance Connector.do) and the part of the venue that *)
(* path depends on: a weight counter reset every minute of the venue's own *)
(* clock, reported in the X-MBX-USED-WEIGHT-1M header of every answer.     *)
(* The snapshots of the book stream (refreshSnapshot) count there too, and *)
(* pass the limiter by.                                                    *)
(*                                                                         *)
(* Times are kept relative to now; now - lastFill saturates at Refill,     *)
(* the only value it is compared with.                                     *)
(***************************************************************************)
EXTENDS Naturals

CONSTANTS
    Callers,        \* goroutines that issue requests through one connector
    Weights,        \* the weights do is called with (1, 5 and 10 in binance.go)
    Budget,         \* the budget of NewWeightedLimiter: the venue's limit
    Budgets,        \* the budgets SetBudget is called with
    Refill,         \* WeightedLimiter.refill, one minute in ticks
    BackoffTicks,   \* the 30 s penalty of Connector.do, in ticks
    SnapshotWeight, \* what the venue charges for a snapshot
    MaxAdrift,      \* bound: requests of one weight that arrive late
    MaxStray        \* bound: weight up to which snapshots are fetched

ASSUME WeightedAssumption ==
    /\ Weights \subseteq Nat \ {0}
    /\ Budget \in Nat
    /\ Budgets \subseteq 0..Budget
    /\ Refill \in Nat \ {0}
    /\ BackoffTicks \in Nat
    /\ SnapshotWeight \in Nat \ {0}
    /\ MaxAdrift \in Nat /\ MaxStray \in Nat

VARIABLES
    budget,     \* WeightedLimiter.budget
    used,       \* WeightedLimiter.used
    age,        \* now - WeightedLimiter.lastFill, saturating at Refill
    cooldown,   \* WeightedLimiter.backoff - now, 0 when zero or past
    pc,         \* caller -> where its do is
    weight,     \* caller -> weight of its request, until the venue counts it
    header,     \* caller -> used weight in its answer, NoHeader if absent
    limited,    \* caller -> whether its answer is a 429 or 418
    vused,      \* the venue's counter
    vage,       \* ticks into the venue's minute
    adrift,     \* weight -> requests of it on their way that nobody waits for
    stray,      \* history: weight the venue counted in its minute for such
                \* requests and for snapshots
    overlapped  \* history: do was called while another call was under way

limiter == <<budget, used, age, cooldown>>
requests == <<pc, weight, header, limited>>
venue == <<vused, vage, adrift, stray>>
vars == <<budget, used, age, cooldown, pc, weight, header, limited, vused, vage,
          adrift, stray, overlapped>>

\* A used weight is never 0 in an answer: the request itself has been counted.
NoHeader == 0

Init ==
    /\ budget = Budget
    /\ used = 0
    /\ age = 0
    /\ cooldown = 0
    /\ pc = [c \in Callers |-> "idle"]
    /\ weight = [c \in Callers |-> 0]
    /\ header = [c \in Callers |-> NoHeader]
    /\ limited = [c \in Callers |-> FALSE]
    /\ vused = 0
    /\ vage \in 0..(Refill - 1)
    /\ adrift = [w \in Weights |-> 0]
    /\ stray = 0
    /\ overlapped = FALSE

-----------------------------------------------------------------------------
(* WeightedLimiter.Wait: replenish, then the back-off, then the budget.    *)

RefillDue == age >= Refill

\* replenishLocked.
Replenished == IF RefillDue THEN 0 ELSE used
AlwaysRestarts ==
    /\ used' = Replenished
    /\ age' = 0
ReplenishLocked ==
    /\ used' = Replenished
    /\ age' = IF RefillDue THEN 0 ELSE age

InBackoff == cooldown > 0

WeightIgnored(w) == Replenished < budget
HasRoom(w) == Replenished + w <= budget

NoteOverlap == overlapped' = (overlapped \/ \E d \in Callers : pc[d] # "idle")

\* ErrBudgetExhausted during the back-off; the replenishment is kept.
WaitInBackoff(c) ==
    /\ pc[c] = "idle"
    /\ InBackoff
    /\ ReplenishLocked
    /\ NoteOverlap
    /\ UNCHANGED <<budget, cooldown, requests, venue>>

\* ErrBudgetExhausted on a spent budget.
WaitExhausted(c, w) ==
    /\ pc[c] = "idle"
    /\ ~InBackoff
    /\ ~HasRoom(w)
    /\ ReplenishLocked
    /\ NoteOverlap
    /\ UNCHANGED <<budget, cooldown, requests, venue>>

\* Wait reserves the weight and do sends the request.
WaitAdmitted(c, w) ==
    /\ pc[c] = "idle"
    /\ ~InBackoff
    /\ HasRoom(w)
    /\ used' = Replenished + w
    /\ age' = IF RefillDue THEN 0 ELSE age
    /\ pc' = [pc EXCEPT ![c] = "sent"]
    /\ weight' = [weight EXCEPT ![c] = w]
    /\ NoteOverlap
    /\ UNCHANGED <<budget, cooldown, header, limited, venue>>

\* WeightedLimiter.SetBudget.
SetBudget(b) ==
    /\ budget' = b
    /\ UNCHANGED <<used, age, cooldown, requests, venue, overlapped>>

-----------------------------------------------------------------------------
(* The venue (external): it counts the request, and answers with its       *)
(* counter, or without it when something in between answers.               *)

VenueServes(c) ==
    /\ pc[c] = "sent"
    /\ pc' = [pc EXCEPT ![c] = "answered"]
    /\ vused' = vused + weight[c]
    /\ \E h \in {NoHeader, vused'} : header' = [header EXCEPT ![c] = h]
    /\ limited' = [limited EXCEPT ![c] = vused' > Budget]
    /\ weight' = [weight EXCEPT ![c] = 0]
    /\ UNCHANGED <<limiter, vage, adrift, stray, overlapped>>

\* do returns; its locals are gone.
DoReturns(c) ==
    /\ pc' = [pc EXCEPT ![c] = "idle"]
    /\ weight' = [weight EXCEPT ![c] = 0]
    /\ header' = [header EXCEPT ![c] = NoHeader]
    /\ limited' = [limited EXCEPT ![c] = FALSE]

\* The request or its answer is lost: transport error, deadline, broken body.
Lost(c) ==
    /\ pc[c] \in {"sent", "answered"}
    /\ DoReturns(c)
    /\ UNCHANGED <<limiter, venue, overlapped>>

\* do returns on its deadline while the request is on its way.
GivenUp(c) ==
    /\ pc[c] = "sent"
    /\ adrift[weight[c]] < MaxAdrift
    /\ adrift' = [adrift EXCEPT ![weight[c]] = @ + 1]
    /\ DoReturns(c)
    /\ UNCHANGED <<limiter, vused, vage, stray, overlapped>>

\* The venue counts w for something whose answer the limiter never sees.
Strays(w) ==
    /\ vused' = vused + w
    /\ stray' = stray + w
    /\ UNCHANGED <<limiter, requests, vage, overlapped>>

ArrivesLate(w) ==
    /\ adrift[w] > 0
    /\ adrift' = [adrift EXCEPT ![w] = @ - 1]
    /\ Strays(w)

\* refreshSnapshot asks with http.DefaultClient and reads only the book.
RefreshSnapshot ==
    /\ stray + SnapshotWeight <= MaxStray
    /\ Strays(SnapshotWeight)
    /\ UNCHANGED adrift

-----------------------------------------------------------------------------
(* Connector.do on the answer: the header first, the status afterwards,     *)
(* each under the limiter's lock, which is released in between.             *)

\* UpdateUsed: the local counter is overwritten.
UpdatedUsed(c) == IF header[c] = NoHeader THEN used ELSE header[c]

ReadHeader(c) ==
    /\ pc[c] = "answered"
    /\ used' = UpdatedUsed(c)
    /\ pc' = [pc EXCEPT ![c] = "read"]
    /\ header' = [header EXCEPT ![c] = NoHeader]
    /\ UNCHANGED <<budget, age, cooldown, weight, limited, venue, overlapped>>

\* Backoff on 429 and 418; any other status leaves the limiter alone.
ReadStatus(c) ==
    /\ pc[c] = "read"
    /\ cooldown' = IF limited[c] THEN BackoffTicks ELSE cooldown
    /\ DoReturns(c)
    /\ UNCHANGED <<budget, used, age, venue, overlapped>>

-----------------------------------------------------------------------------
\* The clocks: the limiter's window is not aligned with the venue's minute.
Tick ==
    /\ age' = IF age < Refill THEN age + 1 ELSE age
    /\ cooldown' = IF cooldown > 0 THEN cooldown - 1 ELSE 0
    /\ IF vage + 1 = Refill
       THEN vage' = 0 /\ vused' = 0 /\ stray' = 0
       ELSE vage' = vage + 1 /\ UNCHANGED <<vused, stray>>
    /\ UNCHANGED <<budget, used, requests, adrift, overlapped>>

Next ==
    \/ \E c \in Callers :
          \/ WaitInBackoff(c)
          \/ \E w \in Weights : WaitExhausted(c, w) \/ WaitAdmitted(c, w)
          \/ VenueServes(c)
          \/ Lost(c)
          \/ GivenUp(c)
          \/ ReadHeader(c)
          \/ ReadStatus(c)
    \/ \E w \in Weights : ArrivesLate(w)
    \/ RefreshSnapshot
    \/ \E b \in Budgets : SetBudget(b)
    \/ Tick

Spec == Init /\ [][Next]_vars

\* Clocks advance; no answer is guaranteed.
FairSpec == Spec /\ WF_vars(Tick)

-----------------------------------------------------------------------------
(* Properties.                                                             *)

\* Types.
TypeOK ==
    /\ budget \in 0..Budget
    /\ used \in Nat
    /\ age \in 0..Refill
    /\ cooldown \in 0..BackoffTicks
    /\ pc \in [Callers -> {"idle", "sent", "answered", "read"}]
    /\ weight \in [Callers -> Nat]
    /\ \A c \in Callers : pc[c] = "sent" => weight[c] \in Weights
    /\ header \in [Callers -> Nat]
    /\ limited \in [Callers -> BOOLEAN]
    /\ vused \in Nat
    /\ vage \in 0..(Refill - 1)
    /\ adrift \in [Weights -> Nat]
    /\ stray \in Nat
    /\ overlapped \in BOOLEAN

\* "Never exceed venue limits", as far as it holds: while no two calls of
\* do have overlapped, the venue's counter exceeds its limit by no more than
\* what the limiter was never told of (snapshots, and requests that arrived
\* after their callers gave up), in every minute that began after the
\* limiter's window.  When calls overlap there is no such bound: UpdateUsed
\* writes the used weight of the first answer over the reservation of the
\* second request, and a Wait that renews the window forgets it.
SequentialWithinLimit == ~overlapped /\ age > vage => vused <= Budget + stray

\* The strengthening that makes it inductive: but for what strayed, used covers
\* the venue's counter and the request in flight, a reservation survives until
\* its answer, and a header is never behind.
SequentialInv ==
    ~overlapped =>
    /\ \A c, d \in Callers : pc[c] # "idle" /\ pc[d] # "idle" => c = d
    /\ \A c \in Callers : pc[c] = "sent" =>
          weight[c] <= used /\ weight[c] <= Budget
    /\ \A c \in Callers : pc[c] = "answered" /\ header[c] # NoHeader =>
          vused <= header[c] + stray
    /\ age > vage =>
          /\ vused <= used + stray
          /\ vused <= Budget + stray
          /\ \A c \in Callers : pc[c] = "sent" =>
                /\ vused + weight[c] <= used + stray
                /\ vused + weight[c] <= Budget + stray

\* The limiter always comes back: neither a 429, nor a header above the
\* budget, nor answers that never arrive keep Wait refusing for ever.
BudgetRecovers == []<>(cooldown = 0 /\ Replenished < budget)

=============================================================================
