----------------------------- MODULE MCUnwired -----------------------------
(***************************************************************************)
(* One run of the two packages that main does not wire into the process    *)
(* yet: the credential manager of internal/secrets by itself, and the      *)
(* asynchronous audit queue of internal/audit by itself.                   *)
(***************************************************************************)
EXTENDS Credentials, AsyncSink

VARIABLE part

MCInit == Init /\ SinkInit /\ part \in {"credentials", "queue"}

allVars == <<vars, sinkVars, part>>

CredentialsMove == part = "credentials" /\ Next /\ UNCHANGED <<sinkVars, part>>
QueueMoves(A) == part = "queue" /\ A /\ UNCHANGED <<vars, part>>

\* The fairness of SinkFairSpec; nothing is assumed of the manager's callers.
MCSpec ==
    /\ MCInit
    /\ [][CredentialsMove \/ QueueMoves(SinkNext)]_allVars
    /\ WF_allVars(QueueMoves(Loop))

=============================================================================
