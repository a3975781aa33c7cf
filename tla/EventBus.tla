------------------------------ MODULE EventBus ------------------------------
(***************************************************************************)
(* Publication of fill and balance events (internal/events Bus) through    *)
(* the Kafka publisher: the retry loop of PublishFill and PublishBalance,  *)
(* the context of the request they run under, the dead-letter handler.     *)
(*                                                                         *)
(* The Kafka writer (external) is kafka-go's, configured with RequireAll   *)
(* and otherwise its defaults: within one call of Publish it writes the    *)
(* message up to MaxAttempts times, and is not idempotent.  A write that   *)
(* failed may be lost, or may still be appended, at any later time.        *)
(* Messages have no key, so consumers of several partitions do not see the *)
(* order of appending.                                                     *)
(***************************************************************************)
EXTENDS Naturals, Sequences, FiniteSets

CONSTANTS
    Publishers,     \* request handlers that publish
    Work,           \* publisher -> the events it publishes, one after another
    Fills,          \* the events published with PublishFill; the others are
                    \* published with PublishBalance
    Unlinked,       \* events without venue_order_id, or without venue or asset
    MaxRetries,     \* Bus.maxRetries
    WriterAttempts  \* kafka.Writer.MaxAttempts, 10 unless set

Count(p) == Len(Work[p])
Events == UNION {{Work[p][i] : i \in 1..Count(p)} : p \in Publishers}

ASSUME BusAssumption ==
    /\ Work \in [Publishers -> Seq(Events)]
    /\ MaxRetries \in Nat
    /\ WriterAttempts \in Nat \ {0}
    /\ \A p, q \in Publishers : \A i \in 1..Count(p) : \A j \in 1..Count(q) :
          Work[p][i] = Work[q][j] => p = q /\ i = j

VARIABLES
    next,       \* publisher -> index in Work of the event it is at
    stage,      \* publisher -> "ready", "attempt" or "backoff"
    attempt,    \* publisher -> attempt of the retry loop
    tries,      \* publisher -> writes of the current attempt that failed
    expired,    \* publisher -> whether its context is done
    result,     \* event -> what its Publish call returned
    dead,       \* fills the dead-letter handler has been called with
    log,        \* the events on the bus in the order of their first copies
    copies,     \* event -> copies of it on the bus
    late        \* event -> writes that failed and may yet be appended

broker == <<log, copies, late>>
busVars == <<next, stage, attempt, tries, expired, result, dead, broker>>

BusInit ==
    /\ next = [p \in Publishers |-> 1]
    /\ stage = [p \in Publishers |-> "ready"]
    /\ attempt = [p \in Publishers |-> 0]
    /\ tries = [p \in Publishers |-> 0]
    /\ expired = [p \in Publishers |-> FALSE]
    /\ result = [e \in Events |-> "none"]
    /\ dead = {}
    /\ log = <<>>
    /\ copies = [e \in Events |-> 0]
    /\ late = [e \in Events |-> 0]

Current(p) == Work[p][next[p]]

\* The Publish call of p returns r; the handler goes on to its next event.
Return(p, r) ==
    /\ result' = [result EXCEPT ![Current(p)] = r]
    /\ next' = [next EXCEPT ![p] = next[p] + 1]
    /\ stage' = [stage EXCEPT ![p] = "ready"]

-----------------------------------------------------------------------------
(* The Kafka writer (external).                                            *)

\* A copy of e is appended.
Arrives(e) ==
    /\ copies' = [copies EXCEPT ![e] = @ + 1]
    /\ log' = IF copies[e] = 0 THEN Append(log, e) ELSE log

\* A write of e failed that may yet be appended, n times over.
MayArrive(e, n) == late' = [late EXCEPT ![e] = @ + n]

\* The writer tries again inside the call of Publish.
WriterRetries(p) ==
    /\ stage[p] = "attempt"
    /\ tries[p] + 1 < WriterAttempts
    /\ tries' = [tries EXCEPT ![p] = @ + 1]
    /\ \E n \in 0..1 : MayArrive(Current(p), n)
    /\ UNCHANGED <<next, stage, attempt, expired, result, dead, log, copies>>

LateAppend ==
    \E e \in Events :
        /\ late[e] > 0
        /\ Arrives(e)
        /\ late' = [late EXCEPT ![e] = @ - 1]
        /\ UNCHANGED <<next, stage, attempt, tries, expired, result, dead>>

-----------------------------------------------------------------------------
(* PublishFill and PublishBalance.                                         *)

\* The event is refused before anything is sent.
Refuse(p) ==
    /\ stage[p] = "ready"
    /\ next[p] <= Count(p)
    /\ Current(p) \in Unlinked
    /\ Return(p, "invalid")
    /\ UNCHANGED <<attempt, tries, expired, dead, broker>>

Begin(p) ==
    /\ stage[p] = "ready"
    /\ next[p] <= Count(p)
    /\ Current(p) \notin Unlinked
    /\ stage' = [stage EXCEPT ![p] = "attempt"]
    /\ attempt' = [attempt EXCEPT ![p] = 0]
    /\ UNCHANGED <<next, tries, expired, result, dead, broker>>

\* publisher.Publish returns nil once the brokers have acknowledged.
WriteUnacknowledged(p) ==
    /\ MayArrive(Current(p), 1)
    /\ UNCHANGED <<log, copies>>
WriteAcknowledged(p) ==
    /\ Arrives(Current(p))
    /\ UNCHANGED late

PublishOk(p) ==
    /\ stage[p] = "attempt"
    /\ WriteAcknowledged(p)
    /\ Return(p, "ok")
    /\ tries' = [tries EXCEPT ![p] = 0]
    /\ UNCHANGED <<attempt, expired, dead>>

\* publisher.Publish fails with the writer's last write, or as soon as its
\* context is done, when the writer goes on without it; the loop then waits
\* for its timer or the context.
WritesLeft(p) == IF expired[p] THEN WriterAttempts - tries[p] ELSE 1

PublishErr(p) ==
    /\ stage[p] = "attempt"
    /\ \E n \in 0..WritesLeft(p) : MayArrive(Current(p), n)
    /\ stage' = [stage EXCEPT ![p] = "backoff"]
    /\ tries' = [tries EXCEPT ![p] = 0]
    /\ UNCHANGED <<next, attempt, expired, result, dead, log, copies>>

\* The timer case of the select.
TimerMissing(p) == FALSE
TimerFired(p) == stage[p] = "backoff"

\* attempt <= b.maxRetries after attempt++
OneMoreRetry(p) == attempt[p] <= MaxRetries
RetriesLeft(p) == attempt[p] < MaxRetries

Retry(p) ==
    /\ TimerFired(p)
    /\ RetriesLeft(p)
    /\ attempt' = [attempt EXCEPT ![p] = @ + 1]
    /\ stage' = [stage EXCEPT ![p] = "attempt"]
    /\ UNCHANGED <<next, tries, expired, result, dead, broker>>

\* deadLetter, called under b.mu; PublishBalance does not call it.  In the
\* program it is NewBus's handler, which does nothing.
OnlyLogged(e) == dead
DeadLettered(e) == IF e \in Fills THEN dead \cup {e} ELSE dead

Exhaust(p) ==
    /\ TimerFired(p)
    /\ ~RetriesLeft(p)
    /\ dead' = DeadLettered(Current(p))
    /\ Return(p, "exhausted")
    /\ UNCHANGED <<attempt, tries, expired, broker>>

\* The context is done while the loop waits: return ctx.Err().
RequestDone(p) ==
    /\ stage[p] = "backoff"
    /\ expired[p]
    /\ Return(p, "canceled")
    /\ UNCHANGED <<attempt, tries, expired, dead, broker>>

-----------------------------------------------------------------------------
(* The environment.                                                        *)

\* The deadline of the request passes, or its client goes away.
Expire(p) ==
    /\ ~expired[p]
    /\ expired' = [expired EXCEPT ![p] = TRUE]
    /\ UNCHANGED <<next, stage, attempt, tries, result, dead, broker>>

Step(p) ==
    \/ Refuse(p)
    \/ Begin(p)
    \/ WriterRetries(p)
    \/ PublishOk(p)
    \/ PublishErr(p)
    \/ Retry(p)
    \/ Exhaust(p)
    \/ RequestDone(p)

BusNext ==
    \/ \E p \in Publishers : Step(p) \/ Expire(p)
    \/ LateAppend

BusSpec == BusInit /\ [][BusNext]_busVars

\* A handler goroutine keeps running: the writer answers and timers fire.
BusFairSpec == BusSpec /\ \A p \in Publishers : WF_busVars(Step(p))

-----------------------------------------------------------------------------
(* Properties.                                                             *)

\* Where the first copy of e stands among the first copies.
Place(e) == {i \in 1..Len(log) : log[i] = e}

OnBus(e) == copies[e] > 0

\* Types.
BusTypeOK ==
    /\ next \in [Publishers -> Nat \ {0}]
    /\ \A p \in Publishers : next[p] <= Count(p) + 1
    /\ \A p \in Publishers : stage[p] # "ready" => next[p] <= Count(p)
    /\ stage \in [Publishers -> {"ready", "attempt", "backoff"}]
    /\ attempt \in [Publishers -> 0..MaxRetries]
    /\ tries \in [Publishers -> 0..(WriterAttempts - 1)]
    /\ expired \in [Publishers -> BOOLEAN]
    /\ result \in [Events -> {"none", "ok", "canceled", "exhausted", "invalid"}]
    /\ dead \subseteq Fills \cap Events
    /\ log \in Seq(Events)
    /\ copies \in [Events -> Nat]
    /\ late \in [Events -> Nat]

\* Every write may make a copy, and a write that failed may land when the
\* event has long been given up, yet the two retry loops, Publish's and the
\* writer's inside it, bound the copies of an event by the product of their
\* attempts: 40 with the program's settings.
BoundedDuplicates == \A e \in Events : copies[e] <= (MaxRetries + 1) * WriterAttempts

\* What Publish acknowledged is on the bus, and a handler's acknowledged
\* events first appear in the order it published them, although copies of
\* earlier attempts may still be appended after later events.
AcknowledgedInOrder ==
    \A p \in Publishers : \A j \in 1..Count(p) : result[Work[p][j]] = "ok" =>
        /\ OnBus(Work[p][j])
        /\ \A i \in 1..(j - 1) : result[Work[p][i]] = "ok" =>
              \E k \in Place(Work[p][i]) : \A m \in Place(Work[p][j]) : k < m

\* A linked fill whose Publish has returned is on the bus or was handed to
\* the dead-letter handler, or its request has ended: the loop has no other
\* way out that leaves a fill behind.  What the handler keeps is up to who
\* installs it, and the program installs none; and the fill of a request that
\* ends during the back-off may be lost without either.
ReturnedFillSettled ==
    \A p \in Publishers : \A i \in 1..Count(p) :
        i < next[p] /\ Work[p][i] \in Fills \ Unlinked =>
            expired[p] \/ OnBus(Work[p][i]) \/ Work[p][i] \in dead

\* A call of Publish returns: neither it nor the writer retries for ever,
\* whatever the brokers and the context do.
PublishReturns ==
    \A p \in Publishers : \A i \in 1..Count(p) :
        next[p] = i /\ stage[p] # "ready" ~> next[p] > i

=============================================================================
