------------------------- MODULE PublicationProofs -------------------------
(***************************************************************************)
(* For any flags, phases and bounds, and any refresh interval that leaves  *)
(* the token more than a tick to live: a Ready OmniCluster has a token that *)
(* has not expired, and with one namespace for Secrets a deleted one leaves *)
(* nothing behind.                                                         *)
(***************************************************************************)
EXTENDS Publication, TLAPS

\* What copies are worth: a current one shows the OmniCluster, a deletion is
\* seen only once it has been asked for.  Every generation is a change.
PassInv ==
  /\ gen <= changes + 1
  /\ cfresh => cache = Current
  /\ pfresh => copy = Current
  /\ cache.del => cr # "live"
  /\ cr = "gone" => pc = "idle"
  /\ pc \in {"secrets", "unwind", "unfinalize"} => cr = "deleting"

\* From the removal of the Secrets to the end of the OmniCluster none returns.
Bare == \A s \in Slots : sec[s] = NoSecret
GoneInv ==
  /\ pc \in {"unwind", "unfinalize"} \/ cr = "gone" => Bare
  /\ pc = "unfinalize" \/ cr = "gone" => gauge = None

\* The age of the token behind a stored Ready, and behind one about to be
\* stored, before and after this tick has seen a pass.
Young(n) == sec[Slot].token \in 0..n
RefreshInv ==
  /\ \A s \in Slots : sec[s].stamp # None /\ sec[s].token # None =>
                        sec[s].stamp = sec[s].token
  /\ cr = "live" /\ ~touched =>
       /\ st.ready => Young(Interval + 1) /\ (passed => Young(Interval))
       /\ pc = "write" /\ pst.ready => Young(Interval) /\ (passed => Young(Interval - 1))

IInv == TypeOK /\ PassInv /\ RefreshInv

-----------------------------------------------------------------------------
(* Facts about values.                                                     *)

Steps == {"idle", "ensure", "status", "signal", "kubeconfig", "write",
          "secrets", "unwind", "unfinalize"}

LEMMA Values ==
  /\ NoStatus \in Status /\ NoCopy \in Copies /\ NoStatus.ready = FALSE
  /\ \A f \in Flags : <<f.fmt, f.ns>> \in Slots
  /\ NoSecret \in [stamp: Ages, token: Ages]
  /\ NoFail \notin Failures
BY PublicationAssumption
DEF PublicationAssumption, NoStatus, NoCopy, Status, Copies, Slots, NoSecret, Ages, None

LEMMA OlderAge ==
  ASSUME NEW a \in Ages
  PROVE  /\ Older(a) \in Ages /\ (Older(a) = None <=> a = None)
         /\ a # None => Older(a) \in 0..(a + 1) /\ a \in 0..TTL
<1>0. TTL \in Nat /\ a \in {None} \cup 0..TTL /\ None = -1
  BY PublicationAssumption DEF PublicationAssumption, Ages, None
<1>1. CASE a = None
  BY <1>0, <1>1 DEF Older, Ages
<1>2. CASE a = TTL
  BY <1>0, <1>2 DEF Older, Ages
<1>3. CASE a \in 0..TTL /\ a # TTL
  BY <1>0, <1>3 DEF Older, Ages
<1> QED
  BY <1>0, <1>1, <1>2, <1>3

\* A status by its parts, with the sets of the parts kept closed.
LEMMA SinceType ==
  ASSUME TypeOK, NEW r \in BOOLEAN
  PROVE  Since(r) \in {None, 0, 1}
<1>1. copy.st.since \in {None, 0, 1} /\ pst.since \in {None, 0, 1}
  BY DEF TypeOK, PassTypeOK, Copies, Status
<1>2. None = -1
  BY DEF None
<1> QED
  BY <1>1, <1>2 DEF Since

LEMMA RecordedType ==
  ASSUME TypeOK, NEW o \in Orders
  PROVE  Recorded(o) \in Status /\ Recorded(o).ready = omni.ready
<1>1. Since(omni.ready) \in {None, 0, 1}
  BY SinceType DEF TypeOK, WorldTypeOK
<1>2. /\ omni.ready \in BOOLEAN /\ omni.phase \in Phases
      /\ copy.gen \in 0..MaxChanges + 1
  BY PublicationAssumption DEF TypeOK, PassTypeOK, WorldTypeOK, Copies, PublicationAssumption
<1>3. pst \in Status
  BY DEF TypeOK, PassTypeOK
<1> QED
  BY <1>1, <1>2, <1>3 DEF Recorded, Status

LEMMA FailedType ==
  ASSUME TypeOK, NEW f \in Failures, NEW m \in Messages
  PROVE  Failed(f, m) \in Status /\ Failed(f, m).ready = FALSE
<1>1. Since(FALSE) \in {None, 0, 1}
  BY SinceType
<1>2. copy.gen \in 0..MaxChanges + 1
  BY PublicationAssumption DEF TypeOK, PassTypeOK, Copies, PublicationAssumption
<1>3. pst \in Status
  BY DEF TypeOK, PassTypeOK
<1>4. f \in Failures \cup {NoFail} /\ m \in Messages \cup {NoDetail}
  OBVIOUS
<1> QED
  BY <1>1, <1>2, <1>3, <1>4 DEF Failed, Status

LEMMA CurrentType == TypeOK => Current \in Copies /\ Current.st = st
BY DEF TypeOK, KubeTypeOK, Current, Copies

-----------------------------------------------------------------------------
(* What the ways to go on or to end a pass do.                             *)

LEMMA Ends == EndPass => PassTypeOK' /\ pc' = "idle" /\ pst'.ready = FALSE /\ ~pfresh'
BY Values DEF EndPass, PassTypeOK

LEMMA Proceeds ==
  ASSUME TypeOK, NEW s \in Steps, Proceed(s), pst' \in Status
  PROVE  KubeTypeOK' /\ PassTypeOK'
BY DEF TypeOK, KubeTypeOK, PassTypeOK, Proceed, kube, Steps

\* The end of a pass stores nothing, or the new status in place of the one
\* that was read.
LEMMA Stores ==
  ASSUME TypeOK, PassInv, NEW new \in Status, StoreStatus(new)
  PROVE  /\ st' \in Status /\ cfresh' \in BOOLEAN /\ passed' \in BOOLEAN
         /\ cfresh' = TRUE => cfresh = TRUE /\ st' = st
         /\ \/ st'.ready = new.ready /\ passed' = TRUE
            \/ st' = st /\ passed' = passed
<1>1. pfresh => copy.st = st
  BY CurrentType DEF PassInv
<1>2. /\ st \in Status /\ cfresh \in BOOLEAN /\ pfresh \in BOOLEAN /\ passed \in BOOLEAN
      /\ copy.st.since \in {None, 0, 1}
  BY DEF TypeOK, KubeTypeOK, PassTypeOK, WorldTypeOK, Copies, Status
<1>3. CASE pfresh
  <2>1. passed' = TRUE
    BY <1>3 DEF StoreStatus
  <2>2. CASE new # copy.st
    <3>1. st' \in {new, SameSecond(new)} /\ cfresh' = (cfresh /\ st' = st)
      BY <1>3, <2>2 DEF StoreStatus
    <3>2. SameSecond(new) \in Status /\ SameSecond(new).ready = new.ready
      BY <1>2 DEF SameSecond, Status
    <3> QED
      BY <1>2, <2>1, <3>1, <3>2
  <2>3. CASE new = copy.st
    <3>1. st' = st /\ cfresh' = cfresh /\ st = new
      BY <1>1, <1>3, <2>3 DEF StoreStatus
    <3> QED
      BY <1>2, <2>1, <3>1
  <2> QED
    BY <2>2, <2>3
<1>4. CASE ~pfresh
  BY <1>2, <1>4 DEF StoreStatus
<1> QED
  BY <1>3, <1>4

LEMMA Fails ==
  ASSUME TypeOK, PassInv, NEW f \in Failures, setFailure(f)
  PROVE  /\ KubeTypeOK' /\ PassTypeOK' /\ passed' \in BOOLEAN
         /\ cr' = cr /\ gen' = gen /\ cache' = cache /\ (cfresh' = TRUE => cfresh = TRUE /\ st' = st)
         /\ pc' = "idle" /\ ~pfresh'
         /\ st'.ready = FALSE \/ (st' = st /\ passed' = passed)
<1>1. EndPass /\ UNCHANGED <<cr, gen, cache>>
  BY DEF setFailure
<1>2. PICK m \in Messages : StoreStatus(Failed(f, m))
  BY DEF setFailure
<1>3. Failed(f, m) \in Status /\ Failed(f, m).ready = FALSE
  BY FailedType
<1>4. /\ st' \in Status /\ cfresh' \in BOOLEAN /\ passed' \in BOOLEAN
      /\ cfresh' = TRUE => cfresh = TRUE /\ st' = st
      /\ \/ st'.ready = Failed(f, m).ready /\ passed' = TRUE
         \/ st' = st /\ passed' = passed
  BY <1>2, <1>3, Stores
<1> QED
  BY <1>1, <1>3, <1>4, Ends DEF TypeOK, KubeTypeOK

\* The drift part of a pass, when it does not fail.
Signalled ==
  Proceed("kubeconfig") /\ \E d \in Drifts : pst' = [pst EXCEPT !.drift = d]

-----------------------------------------------------------------------------
(* Types.                                                                  *)

LEMMA TypeStep ==
  ASSUME TypeOK, PassInv, [Next]_vars
  PROVE  TypeOK'
<1>0. KubeTypeOK /\ PassTypeOK /\ WorldTypeOK
  BY DEF TypeOK
<1>1. ASSUME Get
      PROVE  TypeOK'
  <2>1. copy' \in Copies /\ pst' \in Status
    BY <1>0, <1>1 DEF Get, KubeTypeOK, Copies
  <2> QED
    BY <1>0, <1>1, <2>1 DEF Get, TypeOK, KubeTypeOK, PassTypeOK, WorldTypeOK, kube, world
<1>2. ASSUME EnsureResources
      PROVE  TypeOK'
  <2>1. WorldTypeOK' /\ KubeTypeOK' /\ PassTypeOK'
    <3>1. CASE setFailure("early")
      BY <1>0, <1>2, <3>1, Fails DEF EnsureResources, WorldTypeOK, world, Failures
    <3>2. CASE Proceed("status") /\ UNCHANGED pst
      BY <1>0, <1>2, <3>2, Proceeds DEF EnsureResources, WorldTypeOK, PassTypeOK, world, Steps, Proceed
    <3> QED
      BY <1>2, <3>1, <3>2 DEF EnsureResources
  <2> QED
    BY <2>1 DEF TypeOK
<1>3. ASSUME GetClusterStatus
      PROVE  TypeOK'
  <2>1. PICK s \in Steps : Proceed(s)
    BY <1>3 DEF GetClusterStatus, Steps
  <2>2. KubeTypeOK' /\ PassTypeOK'
    <3>1. pst' \in Status
      BY <1>3, RecordedType DEF GetClusterStatus
    <3> QED
      BY <2>1, <3>1, Proceeds
  <2> QED
    BY <1>0, <1>3, <2>1, <2>2 DEF GetClusterStatus, Proceed, TypeOK, WorldTypeOK, world
<1>4. ASSUME GetStatusFailed
      PROVE  TypeOK'
  <2>1. setFailure("status") /\ "status" \in Failures
    BY <1>4 DEF GetStatusFailed, Failures
  <2>2. KubeTypeOK' /\ PassTypeOK' /\ passed' \in BOOLEAN
    BY <2>1, Fails
  <2> QED
    BY <1>0, <1>4, <2>2 DEF GetStatusFailed, TypeOK, WorldTypeOK, world
<1>5. ASSUME signalDriftReboots
      PROVE  TypeOK'
  <2>1. WorldTypeOK' /\ KubeTypeOK' /\ PassTypeOK'
    <3>1. CASE setFailure("late")
      BY <1>0, <1>5, <3>1, Fails DEF signalDriftReboots, WorldTypeOK, world, Failures
    <3>2. CASE Signalled
      <4>1. pst' \in Status
        BY <1>0, <3>2 DEF Signalled, PassTypeOK, Status
      <4> QED
        BY <1>0, <1>5, <3>2, <4>1, Proceeds
        DEF Signalled, signalDriftReboots, WorldTypeOK, PassTypeOK, world, Steps, Proceed
    <3> QED
      BY <1>5, <3>1, <3>2 DEF signalDriftReboots, Signalled
  <2> QED
    BY <2>1 DEF TypeOK
<1>6. ASSUME EnsureSecret
      PROVE  TypeOK'
  <2>1. KubeTypeOK' /\ PassTypeOK'
    BY <1>0, <1>6, Proceeds DEF EnsureSecret, PassTypeOK, Steps
  <2>2. [stamp |-> 0, token |-> 0] \in [stamp: Ages, token: Ages]
    BY PublicationAssumption DEF PublicationAssumption, Ages, None
  <2>3. sec' \in [Slots -> [stamp: Ages, token: Ages]]
    BY <1>0, <1>6, <2>2 DEF EnsureSecret, WorldTypeOK
  <2> QED
    BY <1>0, <1>6, <2>1, <2>3 DEF EnsureSecret, Proceed, TypeOK, WorldTypeOK, world
<1>7. ASSUME EnsureKubeconfigFailed
      PROVE  TypeOK'
  <2>1. setFailure("kubeconfig") /\ "kubeconfig" \in Failures
    BY <1>7 DEF EnsureKubeconfigFailed, Failures
  <2>2. KubeTypeOK' /\ PassTypeOK' /\ passed' \in BOOLEAN
    BY <2>1, Fails
  <2> QED
    BY <1>0, <1>7, <2>2 DEF EnsureKubeconfigFailed, TypeOK, WorldTypeOK, world
<1>8. ASSUME WriteStatus
      PROVE  TypeOK'
  <2>1. StoreStatus(pst) /\ pst \in Status /\ EndPass
    BY <1>0, <1>8 DEF WriteStatus, PassTypeOK
  <2>2. st' \in Status /\ cfresh' \in BOOLEAN /\ passed' \in BOOLEAN
    BY <2>1, Stores
  <2> QED
    BY <1>0, <1>8, <2>1, <2>2, Ends DEF WriteStatus, TypeOK, KubeTypeOK, WorldTypeOK, world
<1>9. ASSUME DeleteSecrets
      PROVE  TypeOK'
  <2>1. KubeTypeOK' /\ PassTypeOK'
    BY <1>0, <1>9, Proceeds DEF DeleteSecrets, PassTypeOK, Steps
  <2>2. sec' \in [Slots -> [stamp: Ages, token: Ages]]
    BY <1>0, <1>9, Values DEF DeleteSecrets, WorldTypeOK
  <2> QED
    BY <1>0, <1>9, <2>1, <2>2 DEF DeleteSecrets, Proceed, TypeOK, WorldTypeOK, world
<1>10. ASSUME Unwind
      PROVE  TypeOK'
  <2>1. CASE EndPass /\ UNCHANGED <<kube, gauge, passed>>
    BY <1>0, <1>10, <2>1, Ends DEF Unwind, deleteClusterMetrics, TypeOK, KubeTypeOK, WorldTypeOK, world, kube
  <2>2. CASE Proceed("unfinalize") /\ gauge' = None /\ UNCHANGED pst
    <3>1. KubeTypeOK' /\ PassTypeOK'
      BY <1>0, <2>2, Proceeds DEF PassTypeOK, Steps
    <3> QED
      BY <1>0, <1>10, <2>2, <3>1 DEF Unwind, deleteClusterMetrics, Proceed, TypeOK, WorldTypeOK, world
  <2> QED
    BY <1>10, <2>1, <2>2 DEF Unwind, deleteClusterMetrics
<1>11. ASSUME RemoveFinalizer
      PROVE  TypeOK'
  <2>1. cr' \in {"live", "deleting", "gone"}
    BY <1>0, <1>11 DEF RemoveFinalizer, KubeTypeOK
  <2>2. PassTypeOK'
    BY <1>11, Ends DEF RemoveFinalizer
  <2> QED
    BY <1>0, <1>11, <2>1, <2>2 DEF RemoveFinalizer, TypeOK, KubeTypeOK, WorldTypeOK, world
<1>12. ASSUME CacheSync
      PROVE  TypeOK'
  BY <1>0, <1>12, CurrentType DEF CacheSync, TypeOK, KubeTypeOK, PassTypeOK, WorldTypeOK, world, pass
<1>13. ASSUME EditSpec
      PROVE  TypeOK'
  <2>1. gen' \in 1..MaxChanges + 1 /\ changes' \in 0..MaxChanges
    BY <1>0, <1>13, PublicationAssumption
    DEF EditSpec, Change, KubeTypeOK, WorldTypeOK, PassInv, PublicationAssumption
  <2> QED
    BY <1>0, <1>13, <2>1
    DEF EditSpec, Outdate, TypeOK, KubeTypeOK, PassTypeOK, WorldTypeOK
<1>14. ASSUME DeleteCR
      PROVE  TypeOK'
  BY <1>0, <1>14 DEF DeleteCR, Outdate, TypeOK, KubeTypeOK, PassTypeOK, WorldTypeOK, world
<1>15. ASSUME OmniChanges
      PROVE  TypeOK'
  BY <1>0, <1>15, PublicationAssumption
  DEF OmniChanges, Change, TypeOK, KubeTypeOK, PassTypeOK, WorldTypeOK, kube, pass, PublicationAssumption
<1>16. ASSUME Breaks
      PROVE  TypeOK'
  BY <1>0, <1>16, PublicationAssumption
  DEF Breaks, Change, TypeOK, KubeTypeOK, PassTypeOK, WorldTypeOK, kube, pass, PublicationAssumption
<1>17. ASSUME Tamper
      PROVE  TypeOK'
  <2>1. Slot \in Slots /\ None \in Ages
    BY <1>0, Values DEF WorldTypeOK, Slot, Ages
  <2>2. sec' \in [Slots -> [stamp: Ages, token: Ages]]
    BY <1>0, <1>17, <2>1, Values DEF Tamper, WorldTypeOK
  <2> QED
    BY <1>0, <1>17, <2>2, PublicationAssumption
    DEF Tamper, Change, TypeOK, KubeTypeOK, PassTypeOK, WorldTypeOK, kube, pass, PublicationAssumption
<1>18. ASSUME Restart
      PROVE  TypeOK'
  <2>1. PassTypeOK'
    BY <1>18, Ends DEF Restart
  <2>2. KubeTypeOK'
    BY <1>0, <1>18, CurrentType DEF Restart, KubeTypeOK
  <2> QED
    BY <1>0, <1>18, <2>1, <2>2, PublicationAssumption
    DEF Restart, Change, TypeOK, WorldTypeOK, PublicationAssumption
<1>19. ASSUME Tick
      PROVE  TypeOK'
  <2>1. \A s \in Slots : [stamp |-> Older(sec[s].stamp), token |-> Older(sec[s].token)]
                            \in [stamp: Ages, token: Ages]
    BY <1>0, OlderAge DEF WorldTypeOK
  <2> QED
    BY <1>0, <1>19, <2>1 DEF Tick, TypeOK, KubeTypeOK, PassTypeOK, WorldTypeOK, kube, pass, world
<1>20. CASE UNCHANGED vars
  BY <1>0, <1>20 DEF vars, kube, pass, world, TypeOK, KubeTypeOK, PassTypeOK, WorldTypeOK
<1> QED
  BY <1>1, <1>2, <1>3, <1>4, <1>5, <1>6, <1>7, <1>8, <1>9, <1>10,
     <1>11, <1>12, <1>13, <1>14, <1>15, <1>16, <1>17, <1>18, <1>19, <1>20
  DEF Next, LivePass, DeletePass, Environment

-----------------------------------------------------------------------------
(* Copies.                                                                 *)

LEMMA PassStep ==
  ASSUME TypeOK, PassInv, [Next]_vars
  PROVE  PassInv'
<1>0. /\ KubeTypeOK /\ PassTypeOK /\ WorldTypeOK
      /\ PassInv
  BY DEF TypeOK
<1>1. ASSUME Get
      PROVE  PassInv'
  <2>1. /\ UNCHANGED <<cr, gen, st, cache, cfresh, changes>> /\ Current' = Current
        /\ pc' = IF cache.del THEN "secrets" ELSE "ensure"
        /\ copy' = cache /\ pfresh' = cfresh /\ cr # "gone"
    BY <1>1 DEF Get, kube, world, Current
  <2>2. pfresh' => copy' = Current'
    BY <1>0, <2>1 DEF PassInv
  <2> QED
    BY <1>0, <2>1, <2>2 DEF PassInv, KubeTypeOK
<1>2. ASSUME EnsureResources
      PROVE  PassInv'
  <2>1. changes' = changes /\ "early" \in Failures /\ pc \notin {"unwind", "secrets", "unfinalize", "idle"}
    BY <1>2 DEF EnsureResources, world, Failures
  <2>2. CASE setFailure("early")
    <3>1. /\ cr' = cr /\ gen' = gen /\ cache' = cache /\ (cfresh' = TRUE => cfresh = TRUE /\ st' = st)
          /\ pc' = "idle" /\ ~pfresh' /\ cfresh' \in BOOLEAN
      BY <2>1, <2>2, Fails DEF KubeTypeOK
    <3> QED
      BY <1>0, <2>1, <3>1 DEF PassInv, Current
  <2>3. CASE Proceed("status") /\ UNCHANGED pst
    BY <1>0, <2>1, <2>3 DEF Proceed, kube, PassInv, Current
  <2> QED
    BY <1>2, <2>2, <2>3 DEF EnsureResources
<1>3. ASSUME GetClusterStatus
      PROVE  PassInv'
  BY <1>0, <1>3 DEF GetClusterStatus, Proceed, kube, world, PassInv, Current
<1>4. ASSUME GetStatusFailed
      PROVE  PassInv'
  <2>1. setFailure("status") /\ "status" \in Failures /\ changes' = changes
    BY <1>4 DEF GetStatusFailed, Failures, world
  <2>2. /\ cr' = cr /\ gen' = gen /\ cache' = cache /\ (cfresh' = TRUE => cfresh = TRUE /\ st' = st)
        /\ pc' = "idle" /\ ~pfresh' /\ cfresh' \in BOOLEAN
    BY <2>1, Fails DEF KubeTypeOK
  <2> QED
    BY <1>0, <2>1, <2>2 DEF PassInv, Current
<1>5. ASSUME signalDriftReboots
      PROVE  PassInv'
  <2>1. changes' = changes /\ "late" \in Failures /\ pc \notin {"unwind", "secrets", "unfinalize", "idle"}
    BY <1>5 DEF signalDriftReboots, world, Failures
  <2>2. CASE setFailure("late")
    <3>1. /\ cr' = cr /\ gen' = gen /\ cache' = cache /\ (cfresh' = TRUE => cfresh = TRUE /\ st' = st)
          /\ pc' = "idle" /\ ~pfresh' /\ cfresh' \in BOOLEAN
      BY <2>1, <2>2, Fails DEF KubeTypeOK
    <3> QED
      BY <1>0, <2>1, <3>1 DEF PassInv, Current
  <2>3. CASE Signalled
    BY <1>0, <2>1, <2>3 DEF Signalled, Proceed, kube, PassInv, Current
  <2> QED
    BY <1>5, <2>2, <2>3 DEF signalDriftReboots, Signalled
<1>6. ASSUME EnsureSecret
      PROVE  PassInv'
  BY <1>0, <1>6 DEF EnsureSecret, Proceed, kube, world, PassInv, Current
<1>7. ASSUME EnsureKubeconfigFailed
      PROVE  PassInv'
  <2>1. setFailure("kubeconfig") /\ "kubeconfig" \in Failures /\ changes' = changes
    BY <1>7 DEF EnsureKubeconfigFailed, Failures, world
  <2>2. /\ cr' = cr /\ gen' = gen /\ cache' = cache /\ (cfresh' = TRUE => cfresh = TRUE /\ st' = st)
        /\ pc' = "idle" /\ ~pfresh' /\ cfresh' \in BOOLEAN
    BY <2>1, Fails DEF KubeTypeOK
  <2> QED
    BY <1>0, <2>1, <2>2 DEF PassInv, Current
<1>8. ASSUME WriteStatus
      PROVE  PassInv'
  <2>1. StoreStatus(pst) /\ pst \in Status /\ EndPass
        /\ UNCHANGED <<cr, gen, cache, changes>>
    BY <1>0, <1>8 DEF WriteStatus, PassTypeOK, world
  <2>2. cfresh' \in BOOLEAN /\ (cfresh' = TRUE => cfresh = TRUE /\ st' = st)
    BY <2>1, Stores
  <2>3. pc' = "idle" /\ ~pfresh'
    BY <2>1, Ends
  <2> QED
    BY <1>0, <2>1, <2>2, <2>3 DEF PassInv, Current
<1>9. ASSUME DeleteSecrets
      PROVE  PassInv'
  BY <1>0, <1>9 DEF DeleteSecrets, Proceed, kube, world, PassInv, Current
<1>10. ASSUME Unwind
      PROVE  PassInv'
  <2>1. CASE EndPass /\ UNCHANGED <<kube, gauge, passed>>
    BY <1>0, <1>10, <2>1, Ends DEF Unwind, deleteClusterMetrics, kube, world, PassInv, Current
  <2>2. CASE Proceed("unfinalize") /\ gauge' = None /\ UNCHANGED pst
    BY <1>0, <1>10, <2>2 DEF Unwind, deleteClusterMetrics, Proceed, kube, world, PassInv, Current
  <2> QED
    BY <1>10, <2>1, <2>2 DEF Unwind, deleteClusterMetrics
<1>11. ASSUME RemoveFinalizer
      PROVE  PassInv'
  <2>1. /\ cr = "deleting" /\ cr' \in {"deleting", "gone"} /\ pc' = "idle" /\ ~pfresh'
        /\ UNCHANGED <<gen, st, cache, cfresh, changes>>
    BY <1>0, <1>11, Ends DEF RemoveFinalizer, PassInv, world
  <2>2. Current' = Current
    BY <2>1 DEF Current
  <2> QED
    BY <1>0, <2>1, <2>2 DEF PassInv
<1>12. ASSUME CacheSync
      PROVE  PassInv'
  <2>1. /\ cache' = Current /\ Current' = Current
        /\ UNCHANGED <<cr, gen, pc, copy, pfresh, changes>>
    BY <1>12 DEF CacheSync, pass, world, Current
  <2>2. Current.del => cr # "live"
    BY DEF Current
  <2> QED
    BY <1>0, <2>1, <2>2 DEF PassInv
<1>13. ASSUME EditSpec
      PROVE  PassInv'
  BY <1>0, <1>13 DEF EditSpec, Change, Outdate, PassInv, KubeTypeOK, WorldTypeOK
<1>14. ASSUME DeleteCR
      PROVE  PassInv'
  <2>1. /\ cr = "live" /\ cr' = "deleting" /\ cfresh' = FALSE /\ pfresh' = FALSE
        /\ UNCHANGED <<gen, cache, pc, changes>>
    BY <1>14 DEF DeleteCR, Outdate, world
  <2> QED
    BY <1>0, <2>1 DEF PassInv
<1>15. ASSUME OmniChanges
      PROVE  PassInv'
  <2>1. UNCHANGED <<kube, pass>> /\ Current' = Current /\ changes' = changes + 1
    BY <1>15 DEF OmniChanges, Change, kube, Current
  <2> QED
    BY <1>0, <2>1 DEF PassInv, kube, pass, KubeTypeOK, WorldTypeOK
<1>16. ASSUME Breaks
      PROVE  PassInv'
  <2>1. UNCHANGED <<kube, pass>> /\ Current' = Current /\ changes' = changes + 1
    BY <1>16 DEF Breaks, Change, kube, Current
  <2> QED
    BY <1>0, <2>1 DEF PassInv, kube, pass, KubeTypeOK, WorldTypeOK
<1>17. ASSUME Tamper
      PROVE  PassInv'
  <2>1. UNCHANGED <<kube, pass>> /\ Current' = Current /\ changes' = changes + 1
    BY <1>17 DEF Tamper, Change, kube, Current
  <2> QED
    BY <1>0, <2>1 DEF PassInv, kube, pass, KubeTypeOK, WorldTypeOK
<1>18. ASSUME Restart
      PROVE  PassInv'
  <2>1. /\ UNCHANGED <<cr, gen, st>> /\ changes' = changes + 1 /\ cache' = Current
        /\ Current' = Current /\ EndPass
    BY <1>18 DEF Restart, Change, Current
  <2>2. Current.del => cr # "live"
    BY DEF Current
  <2>3. pc' = "idle" /\ ~pfresh'
    BY <2>1, Ends
  <2> QED
    BY <1>0, <2>1, <2>2, <2>3 DEF PassInv, KubeTypeOK, WorldTypeOK
<1>19. ASSUME Tick
      PROVE  PassInv'
  <2>1. UNCHANGED <<kube, pass, changes>> /\ Current' = Current
    BY <1>19 DEF Tick, kube, world, Current
  <2> QED
    BY <1>0, <2>1 DEF PassInv, kube, pass
<1>20. CASE UNCHANGED vars
  <2>1. UNCHANGED <<kube, pass, changes>> /\ Current' = Current
    BY <1>20 DEF vars, kube, world, Current
  <2> QED
    BY <1>0, <2>1 DEF PassInv, kube, pass
<1> QED
  BY <1>1, <1>2, <1>3, <1>4, <1>5, <1>6, <1>7, <1>8, <1>9, <1>10,
     <1>11, <1>12, <1>13, <1>14, <1>15, <1>16, <1>17, <1>18, <1>19, <1>20
  DEF Next, LivePass, DeletePass, Environment

-----------------------------------------------------------------------------
(* The age of the token.                                                   *)

\* Where the Secret is, in RefreshInv: a step that leaves it and does not make
\* more of the status than it was keeps the bound.
LEMMA RefreshKept ==
  ASSUME TypeOK, RefreshInv, UNCHANGED <<sec, flags>>,
         cr' = "live" => cr = "live", touched' = FALSE => touched = FALSE,
         touched' \in BOOLEAN,
         st'.ready = FALSE \/ (st' = st /\ (passed' => passed)),
         pc' = "write" /\ pst'.ready => pc = "write" /\ pst.ready /\ passed' = passed
  PROVE  RefreshInv'
<1>1. Slot' = Slot /\ touched \in BOOLEAN
  BY DEF Slot, TypeOK, WorldTypeOK
<1> QED
  BY <1>1 DEF RefreshInv, Young

LEMMA RefreshStep ==
  ASSUME TypeOK, PassInv, TypeOK', RefreshInv, [Next]_vars
  PROVE  RefreshInv'
<1>0. /\ KubeTypeOK /\ PassTypeOK /\ WorldTypeOK /\ WorldTypeOK'
      /\ PassInv /\ RefreshInv
      /\ Slot \in Slots
  BY Values DEF TypeOK, WorldTypeOK, Slot
<1>1. ASSUME Get
      PROVE  RefreshInv'
  <2>1. /\ UNCHANGED <<sec, flags, touched, st, passed>> /\ (cr' = "live" => cr = "live")
        /\ pc' # "write"
    BY <1>0, <1>1 DEF Get, kube, pass, world
  <2> QED
    BY <1>0, <2>1, RefreshKept DEF WorldTypeOK
<1>2. ASSUME EnsureResources
      PROVE  RefreshInv'
  <2>1. "early" \in Failures /\ UNCHANGED <<sec, flags, touched>>
    BY <1>2 DEF EnsureResources, world, Failures
  <2>2. CASE setFailure("early")
    <3>1. /\ cr' = cr /\ pc' = "idle" /\ (st'.ready = FALSE \/ (st' = st /\ passed' = passed))
      BY <2>1, <2>2, Fails
    <3> QED
      BY <1>0, <2>1, <3>1, RefreshKept DEF WorldTypeOK
  <2>3. CASE Proceed("status") /\ UNCHANGED pst
    <3>1. UNCHANGED <<cr, st, passed>> /\ pc' # "write"
      BY <2>3 DEF Proceed, kube
    <3> QED
      BY <1>0, <2>1, <3>1, RefreshKept DEF WorldTypeOK
  <2> QED
    BY <1>2, <2>2, <2>3 DEF EnsureResources
<1>3. ASSUME GetClusterStatus
      PROVE  RefreshInv'
  <2>1. /\ UNCHANGED <<sec, flags, touched, cr, st, passed>>
        /\ (pc' = "write" => ~omni.ready)
    BY <1>3 DEF GetClusterStatus, Proceed, kube, world
  <2>2. pst'.ready = omni.ready
    BY <1>3, RecordedType DEF GetClusterStatus
  <2> QED
    BY <1>0, <2>1, <2>2, RefreshKept DEF WorldTypeOK
<1>4. ASSUME GetStatusFailed
      PROVE  RefreshInv'
  <2>1. setFailure("status") /\ "status" \in Failures /\ UNCHANGED <<sec, flags, touched>>
    BY <1>4 DEF GetStatusFailed, Failures, world
  <2>2. /\ cr' = cr /\ pc' = "idle" /\ (st'.ready = FALSE \/ (st' = st /\ passed' = passed))
    BY <2>1, Fails
  <2> QED
    BY <1>0, <2>1, <2>2, RefreshKept DEF WorldTypeOK
<1>5. ASSUME signalDriftReboots
      PROVE  RefreshInv'
  <2>1. "late" \in Failures /\ UNCHANGED <<sec, flags, touched>>
    BY <1>5 DEF signalDriftReboots, world, Failures
  <2>2. CASE setFailure("late")
    <3>1. /\ cr' = cr /\ pc' = "idle" /\ (st'.ready = FALSE \/ (st' = st /\ passed' = passed))
      BY <2>1, <2>2, Fails
    <3> QED
      BY <1>0, <2>1, <3>1, RefreshKept DEF WorldTypeOK
  <2>3. CASE Signalled
    <3>1. UNCHANGED <<cr, st, passed>> /\ pc' # "write"
      BY <2>3 DEF Signalled, Proceed, kube
    <3> QED
      BY <1>0, <2>1, <3>1, RefreshKept DEF WorldTypeOK
  <2> QED
    BY <1>5, <2>2, <2>3 DEF signalDriftReboots, Signalled
<1>6. ASSUME EnsureSecret
      PROVE  RefreshInv'
  <2>1. UNCHANGED <<flags, cr, st, passed, pst>> /\ pc' = "write" /\ Slot' = Slot
    BY <1>6 DEF EnsureSecret, Proceed, kube, world, Slot
  <2>2. Interval \in Nat \ {0} /\ None = -1
    BY PublicationAssumption DEF PublicationAssumption, None
  <2>3. CASE ~secretNeedsRefresh(sec[Slot]) /\ UNCHANGED sec
    <3>1. /\ sec[Slot].token \in Ages /\ sec[Slot].token # None
          /\ sec[Slot].token = sec[Slot].stamp /\ ~(sec[Slot].stamp >= Interval)
      BY <1>0, <2>3 DEF secretNeedsRefresh, RefreshInv, WorldTypeOK
    <3>2. sec[Slot].token \in 0..(Interval - 1)
      BY <2>2, <3>1, PublicationAssumption DEF Ages, PublicationAssumption
    <3>3. /\ sec'[Slot'].token \in 0..(Interval - 1)
          /\ \A s \in Slots : sec'[s].stamp # None /\ sec'[s].token # None =>
                               sec'[s].stamp = sec'[s].token
      BY <1>0, <2>1, <2>3, <3>2 DEF RefreshInv
    <3> QED
      BY <2>2, <3>3 DEF RefreshInv, Young
  <2>4. CASE sec' = [sec EXCEPT ![Slot] = [stamp |-> 0, token |-> 0]]
    <3>1. /\ sec'[Slot'].token = 0
          /\ \A s \in Slots : sec'[s].stamp # None /\ sec'[s].token # None =>
                               sec'[s].stamp = sec'[s].token
      BY <1>0, <2>1, <2>4 DEF RefreshInv, WorldTypeOK
    <3> QED
      BY <2>2, <3>1 DEF RefreshInv, Young
  <2> QED
    BY <1>6, <2>3, <2>4 DEF EnsureSecret
<1>7. ASSUME EnsureKubeconfigFailed
      PROVE  RefreshInv'
  <2>1. setFailure("kubeconfig") /\ "kubeconfig" \in Failures /\ UNCHANGED <<sec, flags, touched>>
    BY <1>7 DEF EnsureKubeconfigFailed, Failures, world
  <2>2. /\ cr' = cr /\ pc' = "idle" /\ (st'.ready = FALSE \/ (st' = st /\ passed' = passed))
    BY <2>1, Fails
  <2> QED
    BY <1>0, <2>1, <2>2, RefreshKept DEF WorldTypeOK
<1>8. ASSUME WriteStatus
      PROVE  RefreshInv'
  <2>1. /\ pc = "write" /\ StoreStatus(pst) /\ pst \in Status /\ EndPass
        /\ UNCHANGED <<cr, flags, sec, touched>> /\ Slot' = Slot
    BY <1>0, <1>8 DEF WriteStatus, PassTypeOK, world, Slot
  <2>2. (st'.ready = pst.ready /\ passed' = TRUE) \/ (st' = st /\ passed' = passed)
    BY <2>1, Stores
  <2>3. pc' = "idle"
    BY <2>1, Ends
  <2>4. CASE st' = st /\ passed' = passed
    BY <1>0, <2>1, <2>3, <2>4, RefreshKept DEF WorldTypeOK
  <2>5. CASE st'.ready = pst.ready /\ passed' = TRUE
    <3>1. CASE cr' = "live" /\ ~touched' /\ st'.ready
      <4>1. Young(Interval)
        BY <1>0, <2>1, <2>5, <3>1 DEF RefreshInv
      <4>2. Young(Interval)' /\ Young(Interval + 1)'
        BY <2>1, <4>1, PublicationAssumption DEF Young, PublicationAssumption
      <4> QED
        BY <1>0, <2>1, <2>3, <4>2 DEF RefreshInv
    <3>2. CASE ~(cr' = "live" /\ ~touched' /\ st'.ready)
      BY <1>0, <2>1, <2>3, <3>2 DEF RefreshInv
    <3> QED
      BY <3>1, <3>2
  <2> QED
    BY <2>2, <2>4, <2>5
<1>9. ASSUME DeleteSecrets
      PROVE  RefreshInv'
  <2>1. cr' = "deleting" /\ pc' # "write"
    BY <1>0, <1>9 DEF DeleteSecrets, Proceed, kube, PassInv
  <2>2. \A s \in Slots : sec'[s] = NoSecret \/ sec'[s] = sec[s]
    BY <1>9 DEF DeleteSecrets
  <2>3. NoSecret.stamp = None
    BY DEF NoSecret
  <2> QED
    BY <1>0, <2>1, <2>2, <2>3 DEF RefreshInv
<1>10. ASSUME Unwind
      PROVE  RefreshInv'
  <2>1. CASE EndPass /\ UNCHANGED <<kube, gauge, passed>>
    <3>1. UNCHANGED <<sec, flags, touched, st, passed, cr>> /\ pc' # "write"
      BY <1>10, <2>1, Ends DEF Unwind, deleteClusterMetrics, world, kube
    <3> QED
      BY <1>0, <3>1, RefreshKept DEF WorldTypeOK
  <2>2. CASE Proceed("unfinalize") /\ gauge' = None /\ UNCHANGED pst
    <3>1. UNCHANGED <<sec, flags, touched, st, passed, cr>> /\ pc' # "write"
      BY <1>10, <2>2 DEF Unwind, deleteClusterMetrics, Proceed, world, kube
    <3> QED
      BY <1>0, <3>1, RefreshKept DEF WorldTypeOK
  <2> QED
    BY <1>10, <2>1, <2>2 DEF Unwind, deleteClusterMetrics
<1>11. ASSUME RemoveFinalizer
      PROVE  RefreshInv'
  <2>1. UNCHANGED <<sec, flags, touched, st, passed>> /\ pc' = "idle" /\ (cr' = "live" => cr = "live")
    BY <1>0, <1>11, Ends DEF RemoveFinalizer, world
  <2> QED
    BY <1>0, <2>1, RefreshKept DEF WorldTypeOK
<1>12. ASSUME CacheSync
      PROVE  RefreshInv'
  <2>1. UNCHANGED <<sec, flags, touched, st, passed, pc, pst>> /\ (cr' = "live" => cr = "live")
    BY <1>12 DEF CacheSync, pass, world
  <2> QED
    BY <1>0, <2>1, RefreshKept DEF WorldTypeOK
<1>13. ASSUME EditSpec
      PROVE  RefreshInv'
  <2>1. UNCHANGED <<sec, flags, touched, st, passed, pc, pst>> /\ (cr' = "live" => cr = "live")
    BY <1>13 DEF EditSpec, Outdate
  <2> QED
    BY <1>0, <2>1, RefreshKept DEF WorldTypeOK
<1>14. ASSUME DeleteCR
      PROVE  RefreshInv'
  <2>1. UNCHANGED <<sec, flags, touched, st, passed, pc, pst>> /\ (cr' = "live" => cr = "live")
    BY <1>14 DEF DeleteCR, Outdate, world
  <2> QED
    BY <1>0, <2>1, RefreshKept DEF WorldTypeOK
<1>15. ASSUME OmniChanges
      PROVE  RefreshInv'
  <2>1. UNCHANGED <<sec, flags, touched, st, passed, pc, pst>> /\ (cr' = "live" => cr = "live")
    BY <1>15 DEF OmniChanges, kube, pass
  <2> QED
    BY <1>0, <2>1, RefreshKept DEF WorldTypeOK
<1>16. ASSUME Breaks
      PROVE  RefreshInv'
  <2>1. UNCHANGED <<sec, flags, touched, st, passed, pc, pst>> /\ (cr' = "live" => cr = "live")
    BY <1>16 DEF Breaks, kube, pass
  <2> QED
    BY <1>0, <2>1, RefreshKept DEF WorldTypeOK
<1>17. ASSUME Tamper
      PROVE  RefreshInv'
  <2>1. touched' = TRUE
    BY <1>17 DEF Tamper
  <2>2. \A s \in Slots : \/ sec'[s] = sec[s] \/ sec'[s].stamp = None \/ sec'[s].token = None
    BY <1>0, <1>17 DEF Tamper, NoSecret, WorldTypeOK
  <2> QED
    BY <1>0, <2>1, <2>2 DEF RefreshInv
<1>18. ASSUME Restart
      PROVE  RefreshInv'
  <2>1. UNCHANGED <<sec, st, cr, passed>> /\ pc' = "idle"
    BY <1>18, Ends DEF Restart
  <2>2. touched' = (touched \/ flags' # flags)
    BY <1>18 DEF Restart
  <2>3. CASE flags' = flags
    BY <1>0, <2>1, <2>2, <2>3, RefreshKept DEF WorldTypeOK
  <2>4. CASE flags' # flags
    BY <1>0, <2>1, <2>2, <2>4 DEF RefreshInv
  <2> QED
    BY <2>3, <2>4
<1>19. ASSUME Tick
      PROVE  RefreshInv'
  <2>1. UNCHANGED <<cr, st, pc, pst, touched, flags>> /\ Slot' = Slot /\ passed /\ passed' = FALSE
    BY <1>19 DEF Tick, kube, pass, world, Slot
  <2>2. \A s \in Slots : /\ sec'[s].stamp = Older(sec[s].stamp)
                         /\ sec'[s].token = Older(sec[s].token)
                         /\ sec[s].stamp \in Ages /\ sec[s].token \in Ages
    BY <1>0, <1>19 DEF Tick, WorldTypeOK
  <2>3. \A s \in Slots : sec'[s].stamp # None /\ sec'[s].token # None =>
                         sec'[s].stamp = sec'[s].token
    BY <1>0, <2>2, OlderAge DEF RefreshInv
  <2>4. ASSUME NEW n \in Nat, Young(n)
        PROVE  Young(n + 1)'
    <3>1. sec[Slot].token \in Ages /\ sec[Slot].token \in 0..n /\ sec[Slot].token # None
      BY <1>0, <2>2, <2>4 DEF Young, None
    <3>2. Older(sec[Slot].token) \in 0..(sec[Slot].token + 1)
      BY <3>1, OlderAge
    <3> QED
      BY <1>0, <2>1, <2>2, <3>1, <3>2 DEF Young
  <2>5. Interval \in Nat /\ Interval - 1 \in Nat /\ (Interval - 1) + 1 = Interval
    BY PublicationAssumption DEF PublicationAssumption
  <2>6. /\ Young(Interval) => Young(Interval + 1)'
        /\ Young(Interval - 1) => Young(Interval)'
    <3>1. Young(Interval - 1) => Young((Interval - 1) + 1)'
      BY <2>4, <2>5
    <3> QED
      BY <2>4, <2>5, <3>1
  <2> QED
    BY <1>0, <2>1, <2>3, <2>6 DEF RefreshInv
<1>20. CASE UNCHANGED vars
  <2>1. UNCHANGED <<sec, flags, touched, st, passed, pc, pst, cr>>
    BY <1>20 DEF vars, kube, pass, world
  <2> QED
    BY <1>0, <2>1, RefreshKept DEF WorldTypeOK
<1> QED
  BY <1>1, <1>2, <1>3, <1>4, <1>5, <1>6, <1>7, <1>8, <1>9, <1>10,
     <1>11, <1>12, <1>13, <1>14, <1>15, <1>16, <1>17, <1>18, <1>19, <1>20
  DEF Next, LivePass, DeletePass, Environment

-----------------------------------------------------------------------------
(* What a deleted OmniCluster leaves.                                      *)

OneNamespace == \A f, g \in Flags : f.ns = g.ns

LEMMA GoneStep ==
  ASSUME TypeOK, PassInv, GoneInv, [Next]_vars, OneNamespace
  PROVE  GoneInv'
<1>0. /\ PassInv /\ GoneInv /\ WorldTypeOK
      /\ Slot \in Slots
      /\ \A s \in Slots : s[2] = flags.ns
  BY Values DEF TypeOK, WorldTypeOK, Slot, Slots, OneNamespace
<1>1. ASSUME Get
      PROVE  GoneInv'
  <2>1. cr' = cr /\ cr # "gone" /\ pc' \notin {"unwind", "unfinalize"}
    BY <1>0, <1>1 DEF Get, kube
  <2> QED
    BY <2>1 DEF GoneInv
<1>2. ASSUME EnsureResources
      PROVE  GoneInv'
  <2>1. cr' = cr /\ cr # "gone" /\ pc' \notin {"unwind", "unfinalize"}
    BY <1>0, <1>2 DEF EnsureResources, Proceed, kube, setFailure, EndPass, PassInv
  <2> QED
    BY <2>1 DEF GoneInv
<1>3. ASSUME GetClusterStatus
      PROVE  GoneInv'
  <2>1. cr' = cr /\ cr # "gone" /\ pc' \notin {"unwind", "unfinalize"}
    BY <1>0, <1>3 DEF GetClusterStatus, Proceed, kube, PassInv
  <2> QED
    BY <2>1 DEF GoneInv
<1>4. ASSUME GetStatusFailed
      PROVE  GoneInv'
  <2>1. setFailure("status") /\ "status" \in Failures /\ pc # "idle"
    BY <1>4 DEF GetStatusFailed, Failures
  <2>2. cr' = cr /\ pc' = "idle" /\ cr # "gone"
    BY <1>0, <2>1, Fails DEF PassInv
  <2> QED
    BY <2>2 DEF GoneInv
<1>5. ASSUME signalDriftReboots
      PROVE  GoneInv'
  <2>1. cr' = cr /\ cr # "gone" /\ pc' \notin {"unwind", "unfinalize"}
    BY <1>0, <1>5 DEF signalDriftReboots, Proceed, kube, setFailure, EndPass, PassInv
  <2> QED
    BY <2>1 DEF GoneInv
<1>6. ASSUME EnsureSecret
      PROVE  GoneInv'
  <2>1. cr' = cr /\ cr # "gone" /\ pc' \notin {"unwind", "unfinalize"}
    BY <1>0, <1>6 DEF EnsureSecret, Proceed, kube, PassInv
  <2> QED
    BY <2>1 DEF GoneInv
<1>7. ASSUME EnsureKubeconfigFailed
      PROVE  GoneInv'
  <2>1. setFailure("kubeconfig") /\ "kubeconfig" \in Failures /\ pc # "idle"
    BY <1>7 DEF EnsureKubeconfigFailed, Failures
  <2>2. cr' = cr /\ pc' = "idle" /\ cr # "gone"
    BY <1>0, <2>1, Fails DEF PassInv
  <2> QED
    BY <2>2 DEF GoneInv
<1>8. ASSUME WriteStatus
      PROVE  GoneInv'
  <2>1. cr' = cr /\ cr # "gone" /\ pc' \notin {"unwind", "unfinalize"}
    BY <1>0, <1>8 DEF WriteStatus, EndPass, PassInv
  <2> QED
    BY <2>1 DEF GoneInv
<1>9. ASSUME DeleteSecrets
      PROVE  GoneInv'
  <2>1. cr' = "deleting" /\ pc' = "unwind"
    BY <1>0, <1>9 DEF DeleteSecrets, Proceed, kube, PassInv
  <2>2. Bare'
    BY <1>0, <1>9 DEF DeleteSecrets, Bare
  <2> QED
    BY <2>1, <2>2 DEF GoneInv
<1>10. ASSUME Unwind
      PROVE  GoneInv'
  <2>1. cr' = cr /\ cr = "deleting" /\ sec' = sec /\ Bare
        /\ (pc' = "idle" \/ (pc' = "unfinalize" /\ gauge' = None))
    <3>1. cr = "deleting" /\ sec' = sec /\ Bare
      BY <1>0, <1>10 DEF Unwind, deleteClusterMetrics, PassInv, GoneInv
    <3>2. CASE EndPass /\ UNCHANGED <<kube, gauge, passed>>
      BY <3>1, <3>2 DEF EndPass, kube
    <3>3. CASE Proceed("unfinalize") /\ gauge' = None /\ UNCHANGED pst
      BY <3>1, <3>3 DEF Proceed, kube
    <3> QED
      BY <1>10, <3>2, <3>3 DEF Unwind, deleteClusterMetrics
  <2> QED
    BY <2>1 DEF GoneInv, Bare
<1>11. ASSUME RemoveFinalizer
      PROVE  GoneInv'
  <2>1. sec' = sec /\ gauge' = gauge /\ Bare /\ gauge = None /\ pc' = "idle"
    BY <1>0, <1>11 DEF RemoveFinalizer, EndPass, GoneInv
  <2> QED
    BY <2>1 DEF GoneInv, Bare
<1>12. ASSUME CacheSync
      PROVE  GoneInv'
  <2>1. UNCHANGED <<sec, gauge, pc>> /\ (cr' = "gone" <=> cr = "gone")
    BY <1>12 DEF CacheSync, pass
  <2> QED
    BY <1>0, <2>1 DEF GoneInv, Bare
<1>13. ASSUME EditSpec
      PROVE  GoneInv'
  <2>1. UNCHANGED <<sec, gauge, pc>> /\ (cr' = "gone" <=> cr = "gone")
    BY <1>13 DEF EditSpec, Outdate
  <2> QED
    BY <1>0, <2>1 DEF GoneInv, Bare
<1>14. ASSUME DeleteCR
      PROVE  GoneInv'
  <2>1. UNCHANGED <<sec, gauge, pc>> /\ (cr' = "gone" <=> cr = "gone")
    BY <1>14 DEF DeleteCR, Outdate
  <2> QED
    BY <1>0, <2>1 DEF GoneInv, Bare
<1>15. ASSUME OmniChanges
      PROVE  GoneInv'
  <2>1. UNCHANGED <<sec, gauge, pc>> /\ (cr' = "gone" <=> cr = "gone")
    BY <1>15 DEF OmniChanges, kube, pass
  <2> QED
    BY <1>0, <2>1 DEF GoneInv, Bare
<1>16. ASSUME Breaks
      PROVE  GoneInv'
  <2>1. UNCHANGED <<sec, gauge, pc>> /\ (cr' = "gone" <=> cr = "gone")
    BY <1>16 DEF Breaks, kube, pass
  <2> QED
    BY <1>0, <2>1 DEF GoneInv, Bare
<1>17. ASSUME Tamper
      PROVE  GoneInv'
  <2>1. UNCHANGED <<gauge, pc, cr>> /\ ~Bare
    BY <1>0, <1>17 DEF Tamper, kube, pass, Bare
  <2> QED
    BY <1>0, <2>1 DEF GoneInv
<1>18. ASSUME Restart
      PROVE  GoneInv'
  <2>1. sec' = sec /\ gauge' = None /\ cr' = cr /\ pc' = "idle"
    BY <1>18 DEF Restart, EndPass
  <2> QED
    BY <1>0, <2>1 DEF GoneInv, Bare
<1>19. ASSUME Tick
      PROVE  GoneInv'
  <2>1. UNCHANGED <<gauge, pc, cr>>
    BY <1>19 DEF Tick, kube, pass
  <2>2. Older(None) = None
    BY DEF Older
  <2>3. Bare => Bare'
    BY <1>19, <2>2 DEF Tick, Bare, NoSecret
  <2> QED
    BY <1>0, <2>1, <2>3 DEF GoneInv
<1>20. CASE UNCHANGED vars
  <2>1. UNCHANGED <<sec, gauge, pc, cr>>
    BY <1>20 DEF vars, kube, pass
  <2> QED
    BY <1>0, <2>1 DEF GoneInv, Bare
<1> QED
  BY <1>1, <1>2, <1>3, <1>4, <1>5, <1>6, <1>7, <1>8, <1>9, <1>10,
     <1>11, <1>12, <1>13, <1>14, <1>15, <1>16, <1>17, <1>18, <1>19, <1>20
  DEF Next, LivePass, DeletePass, Environment

-----------------------------------------------------------------------------
(* The theorems.                                                           *)

LEMMA InitHolds == Init => IInv /\ GoneInv
<1> SUFFICES ASSUME Init
             PROVE  IInv /\ GoneInv
  OBVIOUS
<1>1. KubeTypeOK
  BY Values, PublicationAssumption
  DEF Init, KubeTypeOK, Current, Copies, PublicationAssumption
<1>2. PassTypeOK
  BY Values DEF Init, PassTypeOK
<1>3. WorldTypeOK
  <2>1. sec \in [Slots -> [stamp: Ages, token: Ages]]
    BY Values DEF Init
  <2>2. changes \in 0..MaxChanges /\ passed \in BOOLEAN /\ touched \in BOOLEAN
        /\ broken \in Failures \cup {NoFail} /\ gauge \in {None, 0, 1}
    <3>1. changes \in 0..MaxChanges
      BY PublicationAssumption DEF Init, PublicationAssumption
    <3>2. passed = FALSE /\ touched = FALSE /\ broken = NoFail /\ gauge = None
      BY DEF Init
    <3> QED
      BY <3>1, <3>2
  <2>3. flags \in Flags /\ omni \in [phase: Phases, ready: BOOLEAN]
    BY DEF Init
  <2> QED
    BY <2>1, <2>2, <2>3 DEF WorldTypeOK
<1>4. PassInv
  <2>1. Current.del => cr # "live"
    BY DEF Current
  <2> QED
    BY <2>1 DEF Init, PassInv
<1>5. RefreshInv
  BY Values DEF Init, RefreshInv, NoSecret
<1>6. GoneInv
  BY DEF Init, GoneInv
<1> QED
  BY <1>1, <1>2, <1>3, <1>4, <1>5, <1>6 DEF IInv, TypeOK

LEMMA NextKeeps == IInv /\ [Next]_vars => IInv'
BY TypeStep, PassStep, RefreshStep DEF IInv

LEMMA Inductive == Spec => []IInv
BY InitHolds, NextKeeps, PTL DEF Spec

\* Every variable keeps its type, for any flags, phases and bounds.
THEOREM PublicationTypeCorrect == Spec => []TypeOK
<1>1. IInv => TypeOK
  BY DEF IInv
<1> QED
  BY <1>1, Inductive, PTL

\* A stored Ready has a token behind it that has not expired: a pass renews one
\* of kubeconfigRefreshInterval, a tick passes before the next pass has had its
\* outcome stored, and a tick may have passed since the last one looked.
THEOREM ReadyHasToken == Spec => []ReadyMeansUsable
<1>1. IInv => ReadyMeansUsable
  <2> SUFFICES ASSUME IInv, cr = "live", st.ready, ~touched
               PROVE  Usable(sec[Slot])
    BY DEF ReadyMeansUsable
  <2>1. Young(Interval + 1)
    BY DEF IInv, RefreshInv
  <2> QED
    BY <2>1, PublicationAssumption DEF Young, Usable, None, PublicationAssumption
<1> QED
  BY <1>1, Inductive, PTL

\* When the controller writes its Secrets into one namespace, whatever their
\* format has been, neither a Secret nor a metric outlives the OmniCluster.
THEOREM NothingOutlives ==
  ASSUME OneNamespace
  PROVE  Spec => []GoneLeavesNothing
<1>1. IInv /\ GoneInv /\ [Next]_vars => GoneInv'
  BY GoneStep DEF IInv
<1>2. GoneInv => GoneLeavesNothing
  BY DEF GoneInv, GoneLeavesNothing, Bare
<1> QED
  BY <1>1, <1>2, InitHolds, Inductive, PTL DEF Spec

=============================================================================
