---------------------------- MODULE Publication ----------------------------
(***************************************************************************)
(* What one OmniCluster publishes: its status, the kubeconfig Secret with  *)
(* a service-account token that expires, and the ready gauge.  A pass reads *)
(* a cached copy of the OmniCluster, works on the status of that copy, and  *)
(* writes it back at its end, wherever that is.  The Secret's place is      *)
(* given by the flags the process was started with.  Reads of Secrets are   *)
(* current: what a lagging read adds is one more fetch, or a CreateOrUpdate *)
(* that is refused, which is a failed pass like any other here.             *)
(***************************************************************************)
EXTENDS Integers

CONSTANTS
  Flags,        \* flag values: [fmt, ns], for --argocd-clusters and
                \* --kubeconfig-namespace
  Phases,       \* phases of an Omni ClusterStatus
  NoPhase,      \* the phase of a status that was never written
  NoFail,       \* "no FailureReason"
  Messages,     \* what an error may say: FailureMessage
  Orders,       \* orders in which a cached list may return the Machines of a
                \* set, and so AllocatedMachines name them
  Drifts,       \* what the condition ConfigDriftDetected may say
  NoDetail,     \* a message, order or drift condition that is not there
  Interval,     \* kubeconfigRefreshInterval, in ticks
  TTL,          \* lifetime of a token, in ticks
  MaxChanges    \* bound: changes made by the environment

None  == -1     \* an absent age or gauge
Ages  == {None} \cup 0..TTL
Slots == {f.fmt : f \in Flags} \X {f.ns : f \in Flags}

\* Where a pass can fail: in the allocation part, at the Omni status, in the
\* drift part, at the kubeconfig.
Failures == {"early", "status", "late", "kubeconfig"}

\* kubeconfigRefreshInterval is "comfortably shorter" than the token's life.
ASSUME PublicationAssumption ==
  /\ Interval \in Nat \ {0} /\ TTL \in Nat /\ Interval + 1 < TTL
  /\ NoPhase \notin Phases /\ NoFail \notin Failures /\ MaxChanges \in Nat
  /\ Orders # {} /\ Messages # {} /\ Drifts # {}

VARIABLES
  cr,       \* "live", "deleting", "gone"
  gen,      \* its generation
  st,       \* its stored status
  cache,    \* the cached copy: status, generation, deletion timestamp
  cfresh,   \* TRUE: the cached copy is current
  pc,       \* the pass: next step
  copy,     \* its copy of the OmniCluster, as it was read
  pst,      \* the status it has computed so far
  pfresh,   \* TRUE: nothing was written since the copy was current
  sec,      \* place -> age of the Secret's refresh annotation and token
  gauge,    \* omni_cluster_ready
  flags,    \* flags of the running process
  omni,     \* Omni's ClusterStatus: phase, Kubernetes API ready
  broken,   \* what fails now: NoFail or a member of Failures
  touched,  \* TRUE: the Secret was tampered with, or its place has changed,
            \* since a pass last looked at it
  passed,   \* TRUE: a pass has had its outcome stored in this tick
  changes

kube  == <<cr, gen, st, cache, cfresh>>
pass  == <<pc, copy, pst, pfresh>>
world == <<flags, omni, broken, changes>>
vars  == <<kube, pass, sec, gauge, world, touched, passed>>

\* All that statusNeedsUpdate compares.  The Ready condition has the status,
\* reason and message of "ready", "phase", "fail" and "msg"; "since" is its
\* LastTransitionTime, of which a pass only sees whether it is the one it read:
\* one bit, flipped by a new stamp, and None before the condition is there.
Status   == [ready: BOOLEAN, phase: Phases \cup {NoPhase},
             fail: Failures \cup {NoFail}, gen: 0..MaxChanges + 1,
             msg: Messages \cup {NoDetail}, list: Orders \cup {NoDetail},
             drift: Drifts \cup {NoDetail}, since: {None, 0, 1}]
Copies   == [st: Status, gen: 1..MaxChanges + 1, del: BOOLEAN]
NoSecret == [stamp |-> None, token |-> None]
Slot     == <<flags.fmt, flags.ns>>
Usable(s) == s.token # None /\ s.token < TTL

\* The OmniCluster as the API server would return it now.
Current == [st |-> st, gen |-> gen, del |-> cr # "live"]

NoStatus == [ready |-> FALSE, phase |-> NoPhase, fail |-> NoFail, gen |-> 0,
             msg |-> NoDetail, list |-> NoDetail, drift |-> NoDetail, since |-> None]
NoCopy   == [st |-> NoStatus, gen |-> 1, del |-> FALSE]

\* A write of the OmniCluster outdates every copy of it.
Outdate == cfresh' = FALSE /\ pfresh' = FALSE

EndPass == pc' = "idle" /\ copy' = NoCopy /\ pst' = NoStatus /\ pfresh' = FALSE

-----------------------------------------------------------------------------
(* A pass.                                                                 *)

\* The OmniCluster is read from the cache; its status is what the pass's
\* result is compared with.
Get ==
  /\ pc = "idle" /\ cr # "gone"
  /\ pc' = IF cache.del THEN "secrets" ELSE "ensure"
  /\ copy' = cache /\ pst' = cache.st /\ pfresh' = cfresh
  /\ UNCHANGED <<kube, sec, gauge, world, touched, passed>>

\* A fault to test against: no write is skipped, so an identical status is
\* written, which outdates the cached copy.
StoreAlways(new) ==
  /\ IF pfresh THEN st' = new /\ cfresh' = FALSE ELSE UNCHANGED <<st, cfresh>>
  /\ passed' = (passed \/ pfresh)

\* What is stored of a stamp set within the second of the one it replaces.
SameSecond(new) ==
  [new EXCEPT !.since = IF copy.st.since = None THEN @ ELSE copy.st.since]

\* Status().Update, skipped when the status is the one the pass started from
\* and refused when the copy is outdated; storing what is there already
\* outdates nothing.  Either caller ends the pass.
StoreStatus(new) ==
  /\ IF pfresh /\ new # copy.st
       THEN st' \in {new, SameSecond(new)} /\ cfresh' = (cfresh /\ st' = st)
       ELSE UNCHANGED <<st, cfresh>>
  /\ passed' = (passed \/ pfresh)

\* meta.SetStatusCondition stamps the Ready condition when it is new or its
\* status changes, now: another time than the one the pass has read.
Since(ready) ==
  IF pst.since # None /\ pst.ready = ready THEN pst.since
  ELSE IF copy.st.since = None THEN 0 ELSE 1 - copy.st.since

\* A fault to test against: Ready is left as it is.
FailedStillReady(reason, m) ==
  [pst EXCEPT !.fail = reason, !.msg = m, !.gen = copy.gen, !.since = Since(FALSE)]

Failed(reason, m) ==
  [pst EXCEPT !.ready = FALSE, !.fail = reason, !.msg = m, !.gen = copy.gen,
              !.since = Since(FALSE)]

setFailure(reason) ==
  /\ \E m \in Messages : StoreStatus(Failed(reason, m))
  /\ EndPass
  /\ UNCHANGED <<cr, gen, cache>>

Proceed(step) == pc' = step /\ UNCHANGED <<kube, copy, pfresh, passed>>

\* The cluster, its machine sets and Machines, and the pruning.
EnsureResources ==
  /\ pc = "ensure"
  /\ IF broken = "early" THEN setFailure("early")
                         ELSE Proceed("status") /\ UNCHANGED pst
  /\ UNCHANGED <<sec, gauge, world, touched>>

\* A fault to test against: an earlier failure is left in the status.
RecordedOverFailure(o) ==
  [pst EXCEPT !.ready = omni.ready, !.phase = omni.phase, !.gen = copy.gen,
              !.list = o, !.since = Since(omni.ready)]

\* The status a pass records when it has read Omni's: a condition's stamp is
\* kept unless its status changes, the Machines come as the cache lists them.
Recorded(o) ==
  [pst EXCEPT !.ready = omni.ready, !.phase = omni.phase, !.gen = copy.gen,
              !.fail = NoFail, !.msg = NoDetail, !.list = o,
              !.since = Since(omni.ready)]

GetClusterStatus ==
  /\ pc = "status" /\ broken # "status"
  /\ \E o \in Orders : pst' = Recorded(o)
  /\ gauge' = IF omni.ready THEN 1 ELSE 0
  /\ Proceed(IF omni.ready THEN "signal" ELSE "write")
  /\ UNCHANGED <<sec, world, touched>>

GetStatusFailed ==
  /\ pc = "status" /\ broken = "status"
  /\ setFailure("status")
  /\ UNCHANGED <<sec, gauge, world, touched>>

\* The drift check and the reboot signal, for a Ready cluster; what comes of
\* them is said by the condition ConfigDriftDetected.
signalDriftReboots ==
  /\ pc = "signal"
  /\ \/ broken = "late" /\ setFailure("late")
     \/ /\ broken # "late" /\ Proceed("kubeconfig")
        /\ \E d \in Drifts : pst' = [pst EXCEPT !.drift = d]
  /\ UNCHANGED <<sec, gauge, world, touched>>

\* A fault to test against: refreshed when the token has expired.
secretRefreshLate(s) == s.token = None \/ s.stamp = None \/ s.stamp >= TTL

\* Missing, without the data key, without the annotation, or old.
secretNeedsRefresh(s) == s.token = None \/ s.stamp = None \/ s.stamp >= Interval

\* ensureKubeconfigSecret or ensureArgoCDClusterSecret.
EnsureSecret ==
  /\ pc = "kubeconfig"
  /\ \/ /\ ~secretNeedsRefresh(sec[Slot])
        /\ UNCHANGED sec
     \/ /\ secretNeedsRefresh(sec[Slot]) /\ broken # "kubeconfig"
        /\ sec' = [sec EXCEPT ![Slot] = [stamp |-> 0, token |-> 0]]
  /\ Proceed("write")
  /\ touched' = FALSE
  /\ UNCHANGED <<pst, gauge, world>>

EnsureKubeconfigFailed ==
  /\ pc = "kubeconfig" /\ secretNeedsRefresh(sec[Slot]) /\ broken = "kubeconfig"
  /\ setFailure("kubeconfig")
  /\ UNCHANGED <<sec, gauge, world, touched>>

WriteStatus ==
  /\ pc = "write"
  /\ StoreStatus(pst) /\ EndPass
  /\ UNCHANGED <<cr, gen, cache, sec, gauge, world, touched>>

\* A fault to test against: the places themselves are forgotten.
DeleteSecretsLost ==
  /\ pc = "secrets"
  /\ sec' = [s \in {t \in Slots : t[2] # flags.ns} |-> sec[s]]
  /\ Proceed("unwind") /\ UNCHANGED <<pst, gauge, world, touched>>

\* A fault to test against: the Secret of the configured format alone.
DeleteSecretsOne ==
  /\ pc = "secrets"
  /\ sec' = [sec EXCEPT ![Slot] = NoSecret]
  /\ Proceed("unwind") /\ UNCHANGED <<pst, gauge, world, touched>>

\* The delete path: the Secrets of both formats, in the configured namespace.
DeleteSecrets ==
  /\ pc = "secrets"
  /\ sec' = [s \in Slots |-> IF s[2] = flags.ns THEN NoSecret ELSE sec[s]]
  /\ Proceed("unwind") /\ UNCHANGED <<pst, gauge, world, touched>>

deleteClusterMetrics == gauge' = None

\* The Omni resources: waited for, or gone; then the metrics are dropped.
Unwind ==
  /\ pc = "unwind"
  /\ \/ EndPass /\ UNCHANGED <<kube, gauge, passed>>
     \/ broken # "early" /\ Proceed("unfinalize") /\ deleteClusterMetrics /\ UNCHANGED pst
  /\ UNCHANGED <<sec, world, touched>>

\* The Update is refused when the copy is outdated.
RemoveFinalizer ==
  /\ pc = "unfinalize"
  /\ cr' = IF pfresh THEN "gone" ELSE cr
  /\ EndPass
  /\ UNCHANGED <<gen, st, cache, cfresh, sec, gauge, world, touched, passed>>

-----------------------------------------------------------------------------
(* The API server, the user, Omni, the process and time.                   *)

CacheSync ==
  /\ ~cfresh
  /\ cache' = Current /\ cfresh' = TRUE
  /\ UNCHANGED <<cr, gen, st, pass, sec, gauge, world, touched, passed>>

Change == changes < MaxChanges /\ changes' = changes + 1

EditSpec ==
  /\ cr = "live" /\ Change
  /\ gen' = gen + 1 /\ Outdate
  /\ UNCHANGED <<cr, st, cache, pc, copy, pst, sec, gauge, flags, omni, broken,
                 touched, passed>>

DeleteCR ==
  /\ cr = "live"
  /\ cr' = "deleting" /\ Outdate
  /\ UNCHANGED <<gen, st, cache, pc, copy, pst, sec, gauge, world, touched, passed>>

OmniChanges ==
  /\ Change
  /\ omni' \in [phase: Phases, ready: BOOLEAN] \ {omni}
  /\ UNCHANGED <<kube, pass, sec, gauge, flags, broken, touched, passed>>

Breaks ==
  /\ Change
  /\ broken' \in (Failures \cup {NoFail}) \ {broken}
  /\ UNCHANGED <<kube, pass, sec, gauge, flags, omni, touched, passed>>

\* Someone deletes the Secret, empties it or strips its annotation.
Tamper ==
  /\ Change /\ sec[Slot] # NoSecret
  /\ sec' \in {[sec EXCEPT ![Slot] = NoSecret], [sec EXCEPT ![Slot].token = None],
               [sec EXCEPT ![Slot].stamp = None]}
  /\ touched' = TRUE
  /\ UNCHANGED <<kube, pass, gauge, flags, omni, broken, passed>>

\* The process ends, in a pass or between two, and starts with other flags.
Restart ==
  /\ Change
  /\ flags' \in Flags /\ touched' = (touched \/ flags' # flags)
  /\ EndPass /\ cache' = Current /\ cfresh' = TRUE /\ gauge' = None
  /\ UNCHANGED <<cr, gen, st, sec, omni, broken, passed>>

Older(a) == IF a \in {None, TTL} THEN a ELSE a + 1

\* A tick is weeks, a pass comes every minute at least: in each tick one pass
\* or more has its outcome stored.
Tick ==
  /\ passed /\ passed' = FALSE
  /\ sec' = [s \in Slots |-> [stamp |-> Older(sec[s].stamp),
                              token |-> Older(sec[s].token)]]
  /\ UNCHANGED <<kube, pass, gauge, world, touched>>

-----------------------------------------------------------------------------
Init ==
  /\ cr = "live" /\ gen = 1
  /\ st = NoStatus
  /\ cache = Current /\ cfresh = TRUE
  /\ pc = "idle" /\ copy = NoCopy /\ pst = NoStatus /\ pfresh = FALSE
  /\ sec = [s \in Slots |-> NoSecret] /\ gauge = None
  /\ flags \in Flags /\ omni \in [phase: Phases, ready: BOOLEAN]
  /\ broken = NoFail /\ touched = FALSE /\ passed = FALSE /\ changes = 0

LivePass ==
  \/ EnsureResources \/ GetClusterStatus \/ GetStatusFailed \/ signalDriftReboots
  \/ EnsureSecret \/ EnsureKubeconfigFailed \/ WriteStatus

DeletePass == DeleteSecrets \/ Unwind \/ RemoveFinalizer

Environment ==
  \/ CacheSync \/ EditSpec \/ DeleteCR \/ OmniChanges \/ Breaks \/ Tamper
  \/ Restart \/ Tick

Next == Get \/ LivePass \/ DeletePass \/ Environment

Spec == Init /\ [][Next]_vars

\* Passes are requeued after requeueShort or requeueLong, their steps return,
\* and watches deliver.
Fairness ==
  /\ WF_vars(Get \/ LivePass \/ DeletePass)
  /\ WF_vars(CacheSync)

FairSpec == Spec /\ Fairness

-----------------------------------------------------------------------------
(* Properties.                                                             *)

KubeTypeOK ==
  /\ cr \in {"live", "deleting", "gone"} /\ gen \in 1..MaxChanges + 1
  /\ st \in Status /\ cache \in Copies /\ cfresh \in BOOLEAN

PassTypeOK ==
  /\ pc \in {"idle", "ensure", "status", "signal", "kubeconfig", "write",
             "secrets", "unwind", "unfinalize"}
  /\ copy \in Copies /\ pst \in Status /\ pfresh \in BOOLEAN

WorldTypeOK ==
  /\ sec \in [Slots -> [stamp: Ages, token: Ages]] /\ gauge \in {None, 0, 1}
  /\ flags \in Flags /\ omni \in [phase: Phases, ready: BOOLEAN]
  /\ broken \in Failures \cup {NoFail} /\ touched \in BOOLEAN
  /\ passed \in BOOLEAN /\ changes \in 0..MaxChanges

\* Every variable keeps its type.
TypeOK == KubeTypeOK /\ PassTypeOK /\ WorldTypeOK

\* deleteOmniResources removes the Secrets "in case the --argocd-clusters flag
\* changed during the cluster's lifetime", and Reconcile the metrics: an
\* OmniCluster that is gone has left neither, although the passes before read
\* copies that did not show the deletion and could still write both.
GoneLeavesNothing ==
  cr = "gone" => gauge = None /\ \A s \in Slots : sec[s] = NoSecret

\* "The token is always replaced well before it expires": while the stored
\* status says Ready, the Secret where the process puts it holds a token that
\* has not expired, unless someone has changed it since a pass looked.
ReadyMeansUsable == cr = "live" /\ st.ready /\ ~touched => Usable(sec[Slot])

Settled ==
  /\ st.ready = omni.ready /\ st.phase = omni.phase
  /\ st.fail = NoFail /\ st.gen = gen
  /\ gauge = IF omni.ready THEN 1 ELSE 0
  /\ omni.ready => Usable(sec[Slot])

\* When nothing fails any more, status, Secret and gauge come to say what Omni
\* says, of the latest generation, and stay so: neither a write refused in
\* setFailure nor one skipped on an outdated copy is lost for good.
StatusSettles ==
  <>[](cr = "live" /\ broken = NoFail) => <>[]Settled

\* A failure that persists comes to be shown, and stays so, although
\* setFailure ignores the error of its own write; a drift failure also shows
\* the phase Omni had reported.
FailureShown ==
  \A f \in {"early", "status", "late"} :
    <>[](cr = "live" /\ broken = f /\ (f = "late" => omni.ready)) =>
      <>[](/\ ~st.ready /\ st.fail = f /\ st.gen = gen
           /\ f = "late" => st.phase = omni.phase)

Written == <<st, cfresh>>

\* Status writes come to an end: the comparison with statusBefore keeps the
\* controller from retriggering itself.  Whatever else goes on failing, and
\* whatever was refused or skipped before; but neither while a pass over a Ready
\* cluster goes on failing behind GetClusterStatus, nor while errors, conditions
\* or the order of the cached list alternate (StatusQuiesces).
WritesEnd ==
  <>[]~(omni.ready /\ broken \in {"late", "kubeconfig"}) => <>[][FALSE]_Written

\* "The write is skipped when status is unchanged from statusBefore so repeated
\* failures do not retrigger reconcile through our own watch", and an
\* unconditional one "would retrigger reconcile in a tight loop" (comments of
\* setFailure and Reconcile): writes come to an end whatever goes on failing.
StatusQuiesces == <>[][FALSE]_Written

=============================================================================
