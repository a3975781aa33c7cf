----------------------------- MODULE Migrations -----------------------------
(***************************************************************************)
(* The schema migrations (internal/store/migrations Runner) as they run at *)
(* start-up of the deployables that share one database (postgres.Open),    *)
(* and as an operator may revert them.  Every statement is an execution of *)
(* its own: a process can die, or its statement fail, before each of them. *)
(*                                                                         *)
(* The embedded files are numbered; All sorts them and pairs up and down.  *)
(* The statements of one file are sent in one execution and use IF (NOT)   *)
(* EXISTS, so running a file twice is running it once.  Down is run only   *)
(* while no deployable is up.                                              *)
(***************************************************************************)
EXTENDS Naturals

CONSTANTS
    Instances,      \* deployables that share the database
    Count           \* number of migrations

ASSUME MigrationsAssumption == Count \in Nat

Versions == 1..Count

VARIABLES
    ledger,         \* whether the table schema_migrations exists
    applied,        \* its rows
    schema,         \* versions whose tables exist
    pc,             \* instance -> the next statement of Open, "off" or "ready"
    at,             \* instance -> index in the loop of Up
    down,           \* the next statement of Down, "off" when it is not running
    reverted,       \* index in the loop of Down
    interrupted     \* history: dropped versions whose row is still there

vars == <<ledger, applied, schema, pc, at, down, reverted, interrupted>>
database == <<ledger, applied, schema>>
ups == <<pc, at>>
downs == <<down, reverted, interrupted>>

Init ==
    /\ ledger = FALSE
    /\ applied = {}
    /\ schema = {}
    /\ pc = [i \in Instances |-> "off"]
    /\ at = [i \in Instances |-> 1]
    /\ down = "off"
    /\ reverted = 1
    /\ interrupted = {}

-----------------------------------------------------------------------------
(* Open and Up.                                                            *)

Open(i) ==
    /\ pc[i] = "off"
    /\ down = "off"
    /\ pc' = [pc EXCEPT ![i] = "create"]
    /\ UNCHANGED <<database, at, downs>>

\* CREATE TABLE IF NOT EXISTS schema_migrations
CreateLedger(i) ==
    /\ pc[i] = "create"
    /\ ledger' = TRUE
    /\ pc' = [pc EXCEPT ![i] = "query"]
    /\ at' = [at EXCEPT ![i] = 1]
    /\ UNCHANGED <<applied, schema, downs>>

\* The loop over All has come to its end.
Finished(i) == at[i] > Count

\* The row is there: continue.
SkipApplied(i) ==
    /\ pc[i] = "query"
    /\ ~Finished(i)
    /\ at[i] \in applied
    /\ at' = [at EXCEPT ![i] = at[i] + 1]
    /\ UNCHANGED <<database, pc, downs>>

NotApplied(i) ==
    /\ pc[i] = "query"
    /\ ~Finished(i)
    /\ at[i] \notin applied
    /\ pc' = [pc EXCEPT ![i] = "exec"]
    /\ UNCHANGED <<database, at, downs>>

\* exec of m.Up
ErrorIgnored(i) == schema
TablesAfterUp(i) == schema \cup {at[i]}

ExecUp(i) ==
    /\ pc[i] = "exec"
    /\ schema' = TablesAfterUp(i)
    /\ pc' = [pc EXCEPT ![i] = "record"]
    /\ UNCHANGED <<ledger, applied, at, downs>>

\* INSERT ... ON CONFLICT DO NOTHING
RecordUp(i) ==
    /\ pc[i] = "record"
    /\ applied' = applied \cup {at[i]}
    /\ pc' = [pc EXCEPT ![i] = "query"]
    /\ at' = [at EXCEPT ![i] = at[i] + 1]
    /\ UNCHANGED <<ledger, schema, downs>>

\* Up returns nil; the deployable starts to serve.
Ready(i) ==
    /\ pc[i] = "query"
    /\ Finished(i)
    /\ pc' = [pc EXCEPT ![i] = "ready"]
    /\ UNCHANGED <<database, at, downs>>

\* A statement fails (Open returns the error and main exits), the process
\* dies, or it is stopped; it can be started again.
Exit(i) ==
    /\ pc[i] # "off"
    /\ pc' = [pc EXCEPT ![i] = "off"]
    /\ at' = [at EXCEPT ![i] = 1]
    /\ UNCHANGED <<database, downs>>

-----------------------------------------------------------------------------
(* Down.                                                                   *)

\* for i := len(migs) - 1; i >= 0; i--
OldestFirst(n) == n
Reverting(n) == Count + 1 - n

\* Without the ledger the first query fails and nothing happens.
StartDown ==
    /\ down = "off"
    /\ \A i \in Instances : pc[i] = "off"
    /\ ledger
    /\ down' = "query"
    /\ reverted' = 1
    /\ UNCHANGED <<database, ups, interrupted>>

SkipNotApplied ==
    /\ down = "query"
    /\ reverted <= Count
    /\ Reverting(reverted) \notin applied
    /\ reverted' = reverted + 1
    /\ UNCHANGED <<database, ups, down, interrupted>>

\* The row is there, and m.Down is executed.
ExecDown ==
    /\ down = "query"
    /\ reverted <= Count
    /\ Reverting(reverted) \in applied
    /\ schema' = schema \ {Reverting(reverted)}
    /\ interrupted' = interrupted \cup {Reverting(reverted)}
    /\ down' = "delete"
    /\ UNCHANGED <<ledger, applied, ups, reverted>>

DeleteRow ==
    /\ down = "delete"
    /\ applied' = applied \ {Reverting(reverted)}
    /\ interrupted' = interrupted \ {Reverting(reverted)}
    /\ down' = "query"
    /\ reverted' = reverted + 1
    /\ UNCHANGED <<ledger, schema, ups>>

\* Down has come to its end, a statement fails, or the operator's process dies.
ExitDown ==
    /\ down # "off"
    /\ down' = "off"
    /\ UNCHANGED <<database, ups, reverted, interrupted>>

Next ==
    \/ \E i \in Instances :
          \/ Open(i)
          \/ CreateLedger(i)
          \/ SkipApplied(i)
          \/ NotApplied(i)
          \/ ExecUp(i)
          \/ RecordUp(i)
          \/ Ready(i)
          \/ Exit(i)
    \/ StartDown
    \/ SkipNotApplied
    \/ ExecDown
    \/ DeleteRow
    \/ ExitDown

Spec == Init /\ [][Next]_vars

-----------------------------------------------------------------------------
(* Properties.                                                             *)

\* Types; a ledger row is of an embedded migration.
TypeOK ==
    /\ ledger \in BOOLEAN
    /\ applied \subseteq Versions
    /\ schema \subseteq Versions
    /\ pc \in [Instances -> {"off", "create", "query", "exec", "record", "ready"}]
    /\ at \in [Instances -> 1..(Count + 1)]
    /\ down \in {"off", "query", "delete"}
    /\ reverted \in 1..(Count + 1)
    /\ interrupted \subseteq Versions

\* A deployable serves only on a complete schema: whatever the other
\* deployables have done at the same time and wherever anybody has died, the
\* tables of every migration are there.  The one exception the code leaves
\* open is a version whose Down stopped between its two statements.
ReadyIsMigrated ==
    \A i \in Instances : pc[i] = "ready" => Versions \ interrupted \subseteq schema

\* Rows appear in the order of the versions and vanish in the reverse one, so
\* the migrations that are applied are always the oldest ones, whatever runs
\* of Up race and wherever Up or Down stop.
AppliedInOrder == \A v \in applied : \A u \in 1..v : u \in applied

=============================================================================
