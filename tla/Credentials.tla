---------------------------- MODULE Credentials ----------------------------
(***************************************************************************)
(* The credential manager (internal/secrets.Manager): Load, Rotate and     *)
(* RevokeOld, called by several goroutines, against a vault that somebody  *)
(* else rotates meanwhile.                                                 *)
(*                                                                         *)
(* Load makes two separate vault reads and only then takes the lock, so a  *)
(* pair can be torn and an old pair can be installed late.  A vault path   *)
(* holds a version number; the lease of a credential pair is the one of    *)
(* its api-key, so a version stands for its lease too, and 0 for no        *)
(* credentials.  Leases are not empty strings here.                        *)
(***************************************************************************)
EXTENDS Naturals

CONSTANTS
    Workers,        \* goroutines that call the manager
    MaxVersion      \* bound: versions written to the vault

ASSUME CredentialsAssumption == MaxVersion \in Nat \ {0}

Versions == 1..MaxVersion

VARIABLES
    keyVersion,     \* the version the vault holds under .../api-key
    secretVersion,  \* the version the vault holds under .../api-secret
    current,        \* Manager.current: versions of its key and its secret
    pc,             \* worker -> the next step of its call
    call,           \* worker -> which call it is making
    old,            \* worker -> lease of Rotate's old, 0 when nil
    new,            \* worker -> versions of the pair Load has read
    probed,         \* leases that a probe has confirmed
    revoked,        \* leases revoked in the vault
    waived,         \* those revoked by a call that asked for no probe
    overlapped      \* history: a call began while another was under way

vault == <<keyVersion, secretVersion>>
worker == <<pc, call, old, new>>
leases == <<probed, revoked, waived>>
vars == <<keyVersion, secretVersion, current, pc, call, old, new, probed,
          revoked, waived, overlapped>>

NoCreds == [key |-> 0, secret |-> 0]

Init ==
    /\ keyVersion = 1
    /\ secretVersion = 1
    /\ current = NoCreds
    /\ pc = [w \in Workers |-> "idle"]
    /\ call = [w \in Workers |-> "load"]
    /\ old = [w \in Workers |-> 0]
    /\ new = [w \in Workers |-> NoCreds]
    /\ probed = {}
    /\ revoked = {}
    /\ waived = {}
    /\ overlapped = FALSE

-----------------------------------------------------------------------------
(* The vault (external): an operator writes a new key, then its secret.    *)

WriteKey ==
    /\ keyVersion = secretVersion
    /\ keyVersion < MaxVersion
    /\ keyVersion' = keyVersion + 1
    /\ UNCHANGED <<secretVersion, current, worker, leases, overlapped>>

WriteSecret ==
    /\ secretVersion < keyVersion
    /\ secretVersion' = keyVersion
    /\ UNCHANGED <<keyVersion, current, worker, leases, overlapped>>

-----------------------------------------------------------------------------
(* Load, alone or as the second step of Rotate.                            *)

Go(w, from, to) ==
    /\ pc[w] = from
    /\ pc' = [pc EXCEPT ![w] = to]

\* The call returns; its locals are gone.
Return(w) ==
    /\ pc' = [pc EXCEPT ![w] = "idle"]
    /\ call' = [call EXCEPT ![w] = "load"]
    /\ old' = [old EXCEPT ![w] = 0]
    /\ new' = [new EXCEPT ![w] = NoCreds]

NoteOverlap == overlapped' = (overlapped \/ \E v \in Workers : pc[v] # "idle")

StartLoad(w) ==
    /\ Go(w, "idle", "readKey")
    /\ NoteOverlap
    /\ UNCHANGED <<vault, current, call, old, new, leases>>

\* Rotate starts with old := m.Current(); its probe argument may be nil.
StartRotate(w) ==
    /\ Go(w, "idle", "readKey")
    /\ NoteOverlap
    /\ \E kind \in {"rotate", "rotateUnprobed"} : call' = [call EXCEPT ![w] = kind]
    /\ old' = [old EXCEPT ![w] = current.key]
    /\ UNCHANGED <<vault, current, new, leases>>

ReadKey(w) ==
    /\ Go(w, "readKey", "readSecret")
    /\ new' = [new EXCEPT ![w] = [key |-> keyVersion, secret |-> 0]]
    /\ UNCHANGED <<vault, current, call, old, leases, overlapped>>

ReadSecret(w) ==
    /\ Go(w, "readSecret", "install")
    /\ new' = [new EXCEPT ![w] = [key |-> new[w].key, secret |-> secretVersion]]
    /\ UNCHANGED <<vault, current, call, old, leases, overlapped>>

\* A vault read returns an error: the call returns it, current is kept.
ReadFails(w) ==
    /\ pc[w] \in {"readKey", "readSecret"}
    /\ Return(w)
    /\ UNCHANGED <<vault, current, leases, overlapped>>

\* m.current = creds under the lock, whatever was installed meanwhile.
InstallByLoad(w) ==
    /\ pc[w] = "install"
    /\ call[w] = "load"
    /\ current' = new[w]
    /\ Return(w)
    /\ UNCHANGED <<vault, leases, overlapped>>

InstallByRotate(w) ==
    /\ call[w] # "load"
    /\ Go(w, "install", IF call[w] = "rotate" THEN "probe" ELSE "revoke")
    /\ current' = new[w]
    /\ UNCHANGED <<vault, call, old, new, leases, overlapped>>

-----------------------------------------------------------------------------
(* The rest of Rotate.                                                     *)

\* The venue accepts a matching key and secret whose lease is alive.
ProbeConfirms(w) ==
    /\ Go(w, "probe", "revoke")
    /\ new[w].key = new[w].secret
    /\ new[w].key \notin revoked
    /\ probed' = probed \cup {new[w].key}
    /\ UNCHANGED <<vault, current, call, old, new, revoked, waived, overlapped>>

\* Rotate returns the error: nothing is revoked, the new pair stays current.
ProbeFails(w) ==
    /\ pc[w] = "probe"
    /\ Return(w)
    /\ UNCHANGED <<vault, current, leases, overlapped>>

\* old != nil && old.LeaseID != newCreds.LeaseID
AnyOldLease(w) == old[w] # 0
HasOldLease(w) == old[w] # 0 /\ old[w] # new[w].key

\* client.Revoke of the old lease.
CurrentLease(w) == current.key
LeaseToRevoke(w) == old[w]

Revoke(w) ==
    /\ pc[w] = "revoke"
    /\ HasOldLease(w)
    /\ revoked' = revoked \cup {LeaseToRevoke(w)}
    /\ waived' = IF call[w] = "rotateUnprobed" THEN waived \cup {LeaseToRevoke(w)}
                                               ELSE waived
    /\ Return(w)
    /\ UNCHANGED <<vault, current, probed, overlapped>>

\* There is no old lease to revoke, or the error of Revoke is ignored.
RevokeNothing(w) ==
    /\ pc[w] = "revoke"
    /\ Return(w)
    /\ UNCHANGED <<vault, current, leases, overlapped>>

\* RevokeOld revokes the lease of the current pair, under the lock.
RevokeOld(w) ==
    /\ pc[w] = "idle"
    /\ current.key # 0
    /\ revoked' = revoked \cup {current.key}
    /\ waived' = waived \cup {current.key}
    /\ UNCHANGED <<vault, current, worker, probed, overlapped>>

Next ==
    \/ WriteKey
    \/ WriteSecret
    \/ \E w \in Workers :
          \/ StartLoad(w)
          \/ StartRotate(w)
          \/ ReadKey(w)
          \/ ReadSecret(w)
          \/ ReadFails(w)
          \/ InstallByLoad(w)
          \/ InstallByRotate(w)
          \/ ProbeConfirms(w)
          \/ ProbeFails(w)
          \/ Revoke(w)
          \/ RevokeNothing(w)
          \/ RevokeOld(w)

Spec == Init /\ [][Next]_vars

-----------------------------------------------------------------------------
(* Properties.                                                             *)

Pairs == [key : 0..MaxVersion, secret : 0..MaxVersion]

\* Types; a lease only the vault has handed out is ever revoked (0 is none).
TypeOK ==
    /\ keyVersion \in Versions
    /\ secretVersion \in Versions
    /\ current \in Pairs
    /\ pc \in [Workers -> {"idle", "readKey", "readSecret", "install",
                           "probe", "revoke"}]
    /\ call \in [Workers -> {"load", "rotate", "rotateUnprobed"}]
    /\ old \in [Workers -> 0..MaxVersion]
    /\ new \in [Workers -> Pairs]
    /\ probed \subseteq 0..MaxVersion
    /\ revoked \subseteq Versions
    /\ waived \subseteq revoked
    /\ overlapped \in BOOLEAN

\* "Old keys are revoked only after the connector confirms the new key is
\* active (probe call)": for every lease a probing Rotate has revoked, a
\* probe has confirmed a newer one, however rotations, loads and vault
\* writes interleave and whichever of their steps fail.
RevokedAfterProbe ==
    \A l \in revoked \ waived : \E p \in probed : l < p

\* The strengthening that makes RevokedAfterProbe inductive: the vault only
\* moves forward, so what a call reads is no older than what it replaces.
RotationInv ==
    /\ current.key <= keyVersion
    /\ \A w \in Workers :
          /\ old[w] <= keyVersion
          /\ pc[w] \in {"readSecret", "install", "probe", "revoke"} =>
                old[w] <= new[w].key /\ new[w].key <= keyVersion
          /\ pc[w] = "revoke" /\ call[w] # "rotateUnprobed" => new[w].key \in probed

\* The manager does not hand out a pair whose lease a rotation has revoked, as
\* long as no two calls overlap.  When they do, Load installs what it read
\* without comparing it with what was installed meanwhile, and a slow Load
\* beside a Rotate puts back the lease that the Rotate revokes.
SerialKeepsAlive == ~overlapped => current.key \notin revoked \ waived

\* The strengthening that makes SerialKeepsAlive inductive: the one call under
\* way never steps back behind the pair it found, and what has been revoked
\* is older than that pair.
SerialInv ==
    ~overlapped =>
    /\ \A v, w \in Workers : pc[v] # "idle" /\ pc[w] # "idle" => v = w
    /\ \A l \in revoked \ waived : l < current.key
    /\ \A w \in Workers :
          /\ pc[w] \in {"readSecret", "install"} => current.key <= new[w].key
          /\ pc[w] \in {"probe", "revoke"} => current.key = new[w].key

=============================================================================
