------------------------- MODULE CredentialsProofs -------------------------
(***************************************************************************)
(* Proofs about the credential manager, for any number of goroutines and   *)
(* any number of vault versions.                                           *)
(***************************************************************************)
EXTENDS Credentials, TLAPS

-----------------------------------------------------------------------------
(* Type correctness.                                                       *)

\* One step of the manager or of the vault keeps the types.
LEMMA TypeStep == TypeOK /\ [Next]_vars => TypeOK'
<1> SUFFICES ASSUME TypeOK, [Next]_vars PROVE TypeOK'
  OBVIOUS
<1> USE CredentialsAssumption DEF TypeOK, Pairs, Versions, NoCreds
<1>1. CASE WriteKey
  BY <1>1 DEF WriteKey, worker, leases
<1>2. CASE WriteSecret
  BY <1>2 DEF WriteSecret, worker, leases
<1>3. ASSUME NEW w \in Workers, StartLoad(w) PROVE TypeOK'
  BY <1>3 DEF StartLoad, NoteOverlap, Go, vault, leases
<1>4. ASSUME NEW w \in Workers, StartRotate(w) PROVE TypeOK'
  BY <1>4 DEF StartRotate, NoteOverlap, Go, vault, leases
<1>5. ASSUME NEW w \in Workers, ReadKey(w) PROVE TypeOK'
  <2>1. new' \in [Workers -> Pairs]
    BY <1>5 DEF ReadKey
  <2> QED
    BY <1>5, <2>1 DEF ReadKey, Go, vault, leases
<1>6. ASSUME NEW w \in Workers, ReadSecret(w) PROVE TypeOK'
  <2>1. new' \in [Workers -> Pairs]
    BY <1>6 DEF ReadSecret
  <2> QED
    BY <1>6, <2>1 DEF ReadSecret, Go, vault, leases
<1>7. ASSUME NEW w \in Workers, ReadFails(w) PROVE TypeOK'
  BY <1>7 DEF ReadFails, Return, vault, leases
<1>8. ASSUME NEW w \in Workers, InstallByLoad(w) PROVE TypeOK'
  BY <1>8 DEF InstallByLoad, Return, vault, leases
<1>9. ASSUME NEW w \in Workers, InstallByRotate(w) PROVE TypeOK'
  BY <1>9 DEF InstallByRotate, Go, vault, leases
<1>10. ASSUME NEW w \in Workers, ProbeConfirms(w) PROVE TypeOK'
  <2>1. probed' \subseteq 0..MaxVersion
    BY <1>10 DEF ProbeConfirms
  <2> QED
    BY <1>10, <2>1 DEF ProbeConfirms, Go, vault
<1>11. ASSUME NEW w \in Workers, ProbeFails(w) PROVE TypeOK'
  BY <1>11 DEF ProbeFails, Return, vault, leases
<1>12. ASSUME NEW w \in Workers, Revoke(w) PROVE TypeOK'
  <2>1. old[w] \in Versions
    BY <1>12 DEF Revoke, HasOldLease
  <2>2. revoked' \subseteq Versions
    BY <1>12, <2>1 DEF Revoke, LeaseToRevoke
  <2>3. waived' \subseteq revoked'
    BY <1>12 DEF Revoke, LeaseToRevoke
  <2> QED
    BY <1>12, <2>2, <2>3 DEF Revoke, Return, vault
<1>13. ASSUME NEW w \in Workers, RevokeNothing(w) PROVE TypeOK'
  BY <1>13 DEF RevokeNothing, Return, vault, leases
<1>14. ASSUME NEW w \in Workers, RevokeOld(w) PROVE TypeOK'
  <2>1. current.key \in Versions
    BY <1>14 DEF RevokeOld
  <2>2. revoked' \subseteq Versions
    BY <1>14, <2>1 DEF RevokeOld
  <2>3. waived' \subseteq revoked'
    BY <1>14 DEF RevokeOld
  <2> QED
    BY <1>14, <2>2, <2>3 DEF RevokeOld, vault, worker
<1>15. CASE UNCHANGED vars
  BY <1>15 DEF vars
<1> QED
  BY <1>1, <1>2, <1>3, <1>4, <1>5, <1>6, <1>7, <1>8, <1>9, <1>10, <1>11,
     <1>12, <1>13, <1>14, <1>15 DEF Next

\* NewManager holds no credentials, and no call is under way.
LEMMA InitTyped == Init => TypeOK
<1>1. Init => overlapped \in BOOLEAN
  BY DEF Init
<1> QED
  BY <1>1, CredentialsAssumption DEF Init, TypeOK, Pairs, Versions, NoCreds

\* Only versions the vault has handed out are installed, probed or revoked.
THEOREM CredentialsTyping == Spec => []TypeOK
  BY InitTyped, TypeStep, PTL DEF Spec

-----------------------------------------------------------------------------
(* Revocation comes after the probe.  A call remembers the lease it is to  *)
(* replace before it reads the vault, and the vault never goes back, so    *)
(* the pair it reads, probes and keeps is at least as new (RotationInv);   *)
(* the test of HasOldLease makes it newer.                                 *)

\* One step keeps the strengthened invariant.
LEMMA RotationStep ==
    TypeOK /\ RotationInv /\ RevokedAfterProbe /\ [Next]_vars
        => RotationInv' /\ RevokedAfterProbe'
<1> SUFFICES ASSUME TypeOK, RotationInv, RevokedAfterProbe, [Next]_vars
             PROVE RotationInv' /\ RevokedAfterProbe'
  OBVIOUS
<1> USE CredentialsAssumption
    DEF TypeOK, Pairs, Versions, NoCreds, RotationInv, RevokedAfterProbe
<1>1. CASE WriteKey
  BY <1>1 DEF WriteKey, worker, leases
<1>2. CASE WriteSecret
  BY <1>2 DEF WriteSecret, worker, leases
<1>3. ASSUME NEW w \in Workers, StartLoad(w)
      PROVE RotationInv' /\ RevokedAfterProbe'
  BY <1>3 DEF StartLoad, Go, vault, leases
<1>4. ASSUME NEW w \in Workers, StartRotate(w)
      PROVE RotationInv' /\ RevokedAfterProbe'
  BY <1>4 DEF StartRotate, Go, vault, leases
<1>5. ASSUME NEW w \in Workers, ReadKey(w)
      PROVE RotationInv' /\ RevokedAfterProbe'
  <2>1. /\ new'[w].key = keyVersion
        /\ \A v \in Workers \ {w} : new'[v] = new[v] /\ pc'[v] = pc[v]
        /\ pc'[w] = "readSecret"
    BY <1>5 DEF ReadKey, Go
  <2> QED
    BY <1>5, <2>1 DEF ReadKey, vault, leases
<1>6. ASSUME NEW w \in Workers, ReadSecret(w)
      PROVE RotationInv' /\ RevokedAfterProbe'
  <2>1. /\ \A v \in Workers : new'[v].key = new[v].key
        /\ \A v \in Workers \ {w} : pc'[v] = pc[v]
        /\ pc[w] = "readSecret"
        /\ pc'[w] = "install"
    BY <1>6 DEF ReadSecret, Go
  <2> QED
    BY <1>6, <2>1 DEF ReadSecret, vault, leases
<1>7. ASSUME NEW w \in Workers, ReadFails(w)
      PROVE RotationInv' /\ RevokedAfterProbe'
  BY <1>7 DEF ReadFails, Return, vault, leases
<1>8. ASSUME NEW w \in Workers, InstallByLoad(w)
      PROVE RotationInv' /\ RevokedAfterProbe'
  BY <1>8 DEF InstallByLoad, Return, vault, leases
<1>9. ASSUME NEW w \in Workers, InstallByRotate(w)
      PROVE RotationInv' /\ RevokedAfterProbe'
  BY <1>9 DEF InstallByRotate, Go, vault, leases
<1>10. ASSUME NEW w \in Workers, ProbeConfirms(w)
       PROVE RotationInv' /\ RevokedAfterProbe'
  BY <1>10 DEF ProbeConfirms, Go, vault
<1>11. ASSUME NEW w \in Workers, ProbeFails(w)
       PROVE RotationInv' /\ RevokedAfterProbe'
  BY <1>11 DEF ProbeFails, Return, vault, leases
<1>12. ASSUME NEW w \in Workers, Revoke(w)
       PROVE RotationInv' /\ RevokedAfterProbe'
  <2>1. RotationInv'
    BY <1>12 DEF Revoke, Return, vault
  <2>2. old[w] < new[w].key
    <3>1. old[w] \in Nat /\ new[w].key \in Nat
      OBVIOUS
    <3>2. old[w] <= new[w].key /\ old[w] # new[w].key
      BY <1>12 DEF Revoke, HasOldLease
    <3> QED
      BY <3>1, <3>2
  <2>3. call[w] # "rotateUnprobed" => new[w].key \in probed
    BY <1>12 DEF Revoke
  <2>4. RevokedAfterProbe'
    BY <1>12, <2>2, <2>3 DEF Revoke, LeaseToRevoke
  <2> QED
    BY <2>1, <2>4
<1>13. ASSUME NEW w \in Workers, RevokeNothing(w)
       PROVE RotationInv' /\ RevokedAfterProbe'
  BY <1>13 DEF RevokeNothing, Return, vault, leases
<1>14. ASSUME NEW w \in Workers, RevokeOld(w)
       PROVE RotationInv' /\ RevokedAfterProbe'
  BY <1>14 DEF RevokeOld, vault, worker
<1>15. CASE UNCHANGED vars
  BY <1>15 DEF vars
<1> QED
  BY <1>1, <1>2, <1>3, <1>4, <1>5, <1>6, <1>7, <1>8, <1>9, <1>10, <1>11,
     <1>12, <1>13, <1>14, <1>15 DEF Next

\* A rotation that probes revokes a lease only after a newer one was
\* confirmed, for any number of concurrent rotations, loads and failures.
THEOREM CredentialsRevokedAfterProbe == Spec => []RevokedAfterProbe
<1>1. Init => RotationInv /\ RevokedAfterProbe
  BY DEF Init, NoCreds, RotationInv, RevokedAfterProbe
<1> QED
  BY <1>1, InitTyped, TypeStep, RotationStep, PTL DEF Spec

-----------------------------------------------------------------------------
(* Calls that do not overlap.                                              *)

\* One step keeps SerialInv.
LEMMA SerialStep ==
    TypeOK /\ RotationInv /\ SerialInv /\ [Next]_vars => SerialInv'
<1> SUFFICES ASSUME TypeOK, RotationInv, SerialInv, [Next]_vars, ~overlapped'
             PROVE SerialInv'
  BY DEF SerialInv
<1> USE CredentialsAssumption
    DEF TypeOK, Pairs, Versions, NoCreds, RotationInv, SerialInv
<1>1. CASE WriteKey
  BY <1>1 DEF WriteKey, worker, leases
<1>2. CASE WriteSecret
  BY <1>2 DEF WriteSecret, worker, leases
<1>3. ASSUME NEW w \in Workers, StartLoad(w) PROVE SerialInv'
  <2>1. ~overlapped /\ \A v \in Workers \ {w} : pc'[v] = "idle"
    BY <1>3 DEF StartLoad, NoteOverlap, Go
  <2>2. pc'[w] = "readKey"
    BY <1>3 DEF StartLoad, Go
  <2> QED
    BY <1>3, <2>1, <2>2 DEF StartLoad, leases
<1>4. ASSUME NEW w \in Workers, StartRotate(w) PROVE SerialInv'
  <2>1. ~overlapped /\ \A v \in Workers \ {w} : pc'[v] = "idle"
    BY <1>4 DEF StartRotate, NoteOverlap, Go
  <2>2. pc'[w] = "readKey"
    BY <1>4 DEF StartRotate, Go
  <2> QED
    BY <1>4, <2>1, <2>2 DEF StartRotate, leases
<1>5. ASSUME NEW w \in Workers, ReadKey(w) PROVE SerialInv'
  <2>1. ~overlapped /\ \A v \in Workers \ {w} : pc'[v] = "idle"
    BY <1>5 DEF ReadKey, Go
  <2>2. pc'[w] = "readSecret" /\ new'[w].key = keyVersion
    BY <1>5 DEF ReadKey, Go
  <2> QED
    BY <1>5, <2>1, <2>2 DEF ReadKey, leases
<1>6. ASSUME NEW w \in Workers, ReadSecret(w) PROVE SerialInv'
  <2>1. ~overlapped /\ \A v \in Workers \ {w} : pc'[v] = "idle"
    BY <1>6 DEF ReadSecret, Go
  <2>2. pc'[w] = "install" /\ new'[w].key = new[w].key /\ current.key <= new[w].key
    BY <1>6 DEF ReadSecret, Go
  <2> QED
    BY <1>6, <2>1, <2>2 DEF ReadSecret, leases
<1>7. ASSUME NEW w \in Workers, ReadFails(w) PROVE SerialInv'
  <2>1. ~overlapped /\ \A v \in Workers : pc'[v] = "idle"
    BY <1>7 DEF ReadFails, Return
  <2> QED
    BY <1>7, <2>1 DEF ReadFails, leases
<1>8. ASSUME NEW w \in Workers, InstallByLoad(w) PROVE SerialInv'
  <2>1. ~overlapped /\ \A v \in Workers : pc'[v] = "idle"
    BY <1>8 DEF InstallByLoad, Return
  <2>2. current.key <= current'.key
    BY <1>8, <2>1 DEF InstallByLoad
  <2> QED
    BY <1>8, <2>1, <2>2 DEF InstallByLoad, leases
<1>9. ASSUME NEW w \in Workers, InstallByRotate(w) PROVE SerialInv'
  <2>1. ~overlapped /\ \A v \in Workers \ {w} : pc'[v] = "idle"
    BY <1>9 DEF InstallByRotate, Go
  <2>2. current.key <= current'.key /\ current'.key = new'[w].key
    BY <1>9, <2>1 DEF InstallByRotate, Go
  <2>3. pc'[w] \in {"probe", "revoke"}
    BY <1>9 DEF InstallByRotate, Go
  <2> QED
    BY <1>9, <2>1, <2>2, <2>3 DEF InstallByRotate, leases
<1>10. ASSUME NEW w \in Workers, ProbeConfirms(w) PROVE SerialInv'
  <2>1. ~overlapped /\ \A v \in Workers \ {w} : pc'[v] = "idle"
    BY <1>10 DEF ProbeConfirms, Go
  <2>2. pc'[w] = "revoke" /\ current.key = new[w].key
    BY <1>10 DEF ProbeConfirms, Go
  <2> QED
    BY <1>10, <2>1, <2>2 DEF ProbeConfirms
<1>11. ASSUME NEW w \in Workers, ProbeFails(w) PROVE SerialInv'
  <2>1. ~overlapped /\ \A v \in Workers : pc'[v] = "idle"
    BY <1>11 DEF ProbeFails, Return
  <2> QED
    BY <1>11, <2>1 DEF ProbeFails, leases
<1>12. ASSUME NEW w \in Workers, Revoke(w) PROVE SerialInv'
  <2>1. ~overlapped /\ \A v \in Workers : pc'[v] = "idle"
    BY <1>12 DEF Revoke, Return
  <2>2. old[w] < current.key
    BY <1>12, <2>1 DEF Revoke, HasOldLease
  <2>3. revoked' \ waived' \subseteq (revoked \ waived) \cup {old[w]}
    BY <1>12 DEF Revoke, LeaseToRevoke
  <2> QED
    BY <1>12, <2>1, <2>2, <2>3 DEF Revoke
<1>13. ASSUME NEW w \in Workers, RevokeNothing(w) PROVE SerialInv'
  <2>1. ~overlapped /\ \A v \in Workers : pc'[v] = "idle"
    BY <1>13 DEF RevokeNothing, Return
  <2> QED
    BY <1>13, <2>1 DEF RevokeNothing, leases
<1>14. ASSUME NEW w \in Workers, RevokeOld(w) PROVE SerialInv'
  <2>1. revoked' \ waived' \subseteq revoked \ waived
    BY <1>14 DEF RevokeOld
  <2> QED
    BY <1>14, <2>1 DEF RevokeOld, worker
<1>15. CASE UNCHANGED vars
  BY <1>15 DEF vars
<1> QED
  BY <1>1, <1>2, <1>3, <1>4, <1>5, <1>6, <1>7, <1>8, <1>9, <1>10, <1>11,
     <1>12, <1>13, <1>14, <1>15 DEF Next

\* Calls that do not overlap never leave the manager on a lease that a
\* rotation has revoked, whichever of their steps fail.
THEOREM CredentialsSerial == Spec => []SerialKeepsAlive
<1>1. Init => RotationInv /\ RevokedAfterProbe /\ SerialInv
  BY DEF Init, NoCreds, RotationInv, RevokedAfterProbe, SerialInv
<1>2. TypeOK /\ SerialInv => SerialKeepsAlive
  BY DEF TypeOK, Pairs, SerialInv, SerialKeepsAlive
<1> QED
  BY <1>1, <1>2, InitTyped, TypeStep, RotationStep, SerialStep, PTL DEF Spec

=============================================================================
