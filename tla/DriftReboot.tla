---------------------------- MODULE DriftReboot ----------------------------
(***************************************************************************)
(* Drift remediation of one OmniCluster: the cluster controller chooses a  *)
(* drifting machine and requests its reboot in Machine.Spec; the Machine   *)
(* controller issues the Talos RPC and stamps Machine.Status.              *)
(*                                                                         *)
(* Both controllers run in one process with one worker each, interleaved   *)
(* with the Omni service, the machines and the other writers of Machine    *)
(* objects.  They read Machines from a shared informer cache, which may    *)
(* lag behind the API server, and every Update carries the resourceVersion *)
(* of the copy it was computed from, so it succeeds only on a current one. *)
(***************************************************************************)
EXTENDS Integers, FiniteSets

CONSTANTS
  Machines,     \* Machine objects of the cluster
  NoMachine,    \* "no key", for the Machine controller between two passes
  Cooldown,     \* rebootCooldown, in ticks
  CacheLag,     \* TRUE: the informer cache may lag behind the API server
  OmniLag,      \* machines whose ClusterMachineStatus may lag behind them
  MaxTime,      \* bound: ticks of the clock
  MaxEdits,     \* bound: config changes, spec edits and scale-downs together
  MaxFaults     \* bound: Omni errors before the reboot section, and crashes

ASSUME DriftRebootAssumption ==
  /\ IsFiniteSet(Machines) /\ Machines # {}
  /\ NoMachine \notin Machines
  /\ Cooldown \in Nat \ {0}
  /\ CacheLag \in BOOLEAN /\ OmniLag \subseteq Machines
  /\ MaxTime \in Nat \ {0} /\ MaxEdits \in Nat /\ MaxFaults \in Nat

NoTime == 0      \* a nil *metav1.Time; the clock starts above it

VARIABLES
  clock,      \* wall clock of the controllers, in ticks
  obj,        \* API server: Machine -> [req, last, phase]
  cache,      \* informer cache, shared by the two controllers
  stale,      \* Machines whose cached resourceVersion is outdated
  cpc,        \* cluster pass: "idle", or "signal" once drift has been read
  drifting,   \* what GetDriftingMachines returned to the current pass
  cond,       \* ConfigDriftDetected as the last finished pass reported it
  mpc,        \* Machine pass: "idle", "reboot", "stamp"
  mkey,       \* key of the current Machine pass
  mfresh,     \* TRUE iff the pass's copy of mkey has a current version
  mstamp,     \* LastRebootTime computed by the pass, not yet persisted
  unsettled,  \* Machines whose status a plain pass would still change
  up,         \* machine -> it is up
  config,     \* machine -> running config against the desired one
  rep,        \* Omni's ClusterMachineStatus per machine
  edits, faults,
  attempt     \* history: time of the last reboot RPC per machine

kube  == <<obj, cache, stale>>
cvars == <<cpc, drifting, cond>>
mvars == <<mpc, mkey, mfresh, mstamp, unsettled, attempt>>
omni  == <<up, config, rep>>
bound == <<clock, edits, faults>>
vars  == <<kube, cvars, mvars, omni, bound>>

Times   == 0..MaxTime
Phases  == {"live", "deleting", "gone"}
Configs == {"current", "behind", "error", "none"}
Conditions == {"Absent", "True", "False"}

MachineObj == [req: Times, last: Times, phase: Phases]
Report     == [healthy: BOOLEAN, config: Configs]

-----------------------------------------------------------------------------
(* Pure helpers of the two controllers.                                    *)

\* Spec.RebootRequestedAt is set and newer than Status.LastRebootTime.
rebootOwed(m) == m.req # NoTime /\ (m.last = NoTime \/ m.req > m.last)

\* listClusterMachines reads the cache; an object that is gone is not listed.
listClusterMachines == {m \in Machines : cache[m].phase # "gone"}

\* A fault to test against: only machines still drifting are looked at.
anyRebootInFlightOfDrifting(ms) == \E m \in ms \cap drifting : rebootOwed(cache[m])

anyRebootInFlight(ms) == \E m \in ms : rebootOwed(cache[m])

\* A fault to test against: the cooldown is one tick short.
cooledDownEarly(m) ==
  cache[m].last = NoTime \/ clock - cache[m].last >= Cooldown - 1

\* A fault to test against: a machine that never rebooted is not chosen.
cooledDownOnce(m) ==
  cache[m].last # NoTime /\ clock - cache[m].last >= Cooldown

cooledDown(m) == cache[m].last = NoTime \/ clock - cache[m].last >= Cooldown

\* The code takes the first in the order Omni lists the machines, which it
\* does not choose: any of these may come first.
selectDriftRebootCandidate(ds, ms) == {m \in ds \cap ms : cooledDown(m)}

\* A machine that is not bound to the cluster has no ClusterMachineStatus.
Status(m) == IF m \in OmniLag THEN rep[m]
             ELSE [healthy |-> up[m], config |-> config[m]]

GetDriftingMachines ==
  IF \E m \in Machines : Status(m).config # "none" /\ ~Status(m).healthy
  THEN {} ELSE {m \in Machines : Status(m).config = "behind"}

-----------------------------------------------------------------------------
(* The API server and its cache.                                           *)

\* A fault to test against: a write leaves the cached version current.
PersistUnseen(m, o) ==
  /\ obj' = [obj EXCEPT ![m] = o]
  /\ IF CacheLag THEN UNCHANGED <<cache, stale>>
                 ELSE cache' = [cache EXCEPT ![m] = o] /\ UNCHANGED stale

\* A write of object m gives it a new resourceVersion: the Machine pass's own
\* copy of m is outdated by it, and so is the cached one until the watch
\* delivers the event.
Persist(m, o) ==
  /\ obj' = [obj EXCEPT ![m] = o]
  /\ IF CacheLag THEN stale' = stale \cup {m} /\ UNCHANGED cache
                 ELSE cache' = [cache EXCEPT ![m] = o] /\ UNCHANGED stale

Outdate(m) == mfresh' = (mfresh /\ mkey # m)

\* A new generation of the spec: Status.ObservedGeneration is behind it.
SpecChanged(m) == Outdate(m) /\ unsettled' = unsettled \cup {m}

CacheSync ==
  /\ CacheLag
  /\ cache # obj \/ stale # {}
  /\ cache' = obj /\ stale' = {}
  /\ UNCHANGED <<obj, cvars, mvars, omni, bound>>

-----------------------------------------------------------------------------
(* Cluster controller, with the cluster Ready (nothing below runs else).    *)

CGetDrifting ==
  /\ cpc = "idle"
  /\ cpc' = "signal" /\ drifting' = GetDriftingMachines /\ cond' = "Absent"
  /\ UNCHANGED <<kube, mvars, omni, bound>>

\* The end of a pass, with the status of the condition it reports.
EndPass(status) ==
  /\ cpc = "signal"
  /\ cpc' = "idle" /\ drifting' = {}
  /\ cond' = status

SignalNoDrift ==
  /\ drifting = {}
  /\ EndPass("False")  \* AllMachinesUpToDate
  /\ UNCHANGED <<kube, mvars, omni, bound>>

SignalInFlight ==
  /\ drifting # {} /\ anyRebootInFlight(listClusterMachines)
  /\ EndPass("True")   \* PendingReboot
  /\ UNCHANGED <<kube, mvars, omni, bound>>

SignalCooldown ==
  /\ drifting # {} /\ ~anyRebootInFlight(listClusterMachines)
  /\ selectDriftRebootCandidate(drifting, listClusterMachines) = {}
  /\ EndPass("True")   \* RebootCooldown
  /\ UNCHANGED <<kube, mvars, omni, bound>>

MayRequest(m) ==
  /\ ~anyRebootInFlight(listClusterMachines)
  /\ m \in selectDriftRebootCandidate(drifting, listClusterMachines)

\* Listing and updating are one step: between the two, only the Machine
\* controller could write a Machine's reboot fields, which outdates the copy
\* of a candidate and cannot put another reboot in flight.
SignalRequest(m) ==
  /\ MayRequest(m) /\ m \notin stale
  /\ EndPass("True")   \* PendingReboot
  /\ Persist(m, [cache[m] EXCEPT !.req = clock])
  /\ SpecChanged(m)
  /\ UNCHANGED <<mpc, mkey, mstamp, attempt, omni, bound>>

\* The Update is refused (outdated copy); setFailure reports no drift status.
SignalConflict(m) ==
  /\ MayRequest(m) /\ m \in stale
  /\ EndPass("Absent")
  /\ UNCHANGED <<kube, mvars, omni, bound>>

-----------------------------------------------------------------------------
(* Machine controller.                                                     *)

\* Up to the reboot section of a pass over m: the object is read from the
\* cache, its bind, patches and kernel args (idempotent) succeed.
MGet(m) ==
  /\ mpc = "idle"
  /\ cache[m].phase = "live" /\ rebootOwed(cache[m])
  /\ mpc' = "reboot" /\ mkey' = m /\ mfresh' = (m \notin stale)
  /\ UNCHANGED <<kube, cvars, mstamp, unsettled, attempt, omni, bound>>

\* A pass over m with no reboot owed ends in a status write when the status
\* changes; the write is refused when the cached copy is outdated.
MSettle(m) ==
  /\ mpc = "idle" /\ m \in unsettled
  /\ cache[m].phase = "live" /\ ~rebootOwed(cache[m]) /\ m \notin stale
  /\ Persist(m, cache[m])
  /\ unsettled' = unsettled \ {m}
  /\ UNCHANGED <<cvars, mpc, mkey, mfresh, mstamp, attempt, omni, bound>>

\* An Omni call before the reboot section fails: setFailure writes the status
\* (ignoring a conflict) and the pass is retried, the reboot still owed.
MFailEarly ==
  /\ mpc = "reboot" /\ faults < MaxFaults
  /\ IF mfresh THEN Persist(mkey, obj[mkey]) ELSE UNCHANGED kube
  /\ mpc' = "idle" /\ mkey' = NoMachine /\ mfresh' = FALSE
  /\ faults' = faults + 1
  /\ UNCHANGED <<cvars, mstamp, unsettled, attempt, omni, clock, edits>>

\* The RPC takes the machine down, or fails before or after reaching it; the
\* stamp is computed either way.
MReboot ==
  /\ mpc = "reboot"
  /\ mpc' = "stamp" /\ mstamp' = clock
  /\ attempt' = [attempt EXCEPT ![mkey] = clock]
  /\ up' \in {up, [up EXCEPT ![mkey] = config[mkey] = "none"]}
  /\ UNCHANGED <<kube, cvars, mkey, mfresh, unsettled, config, rep, bound>>

\* A fault to test against: the pass forgets its key, not its stage.
EndMachinePassHalf ==
  UNCHANGED mpc /\ mkey' = NoMachine /\ mfresh' = FALSE /\ mstamp' = NoTime

EndMachinePass ==
  mpc' = "idle" /\ mkey' = NoMachine /\ mfresh' = FALSE /\ mstamp' = NoTime

\* A fault to test against: a failed RPC's stamp is dropped, for an immediate
\* retry; here the write never carries it.
MStampDropped ==
  /\ mpc = "stamp"
  /\ Persist(mkey, obj[mkey])
  /\ EndMachinePass
  /\ UNCHANGED <<cvars, unsettled, attempt, omni, bound>>

\* Status().Update with the stamp, refused when the copy is outdated.  After
\* a failed RPC the status says so, and the pass after it settles it.
MStamp ==
  /\ mpc = "stamp"
  /\ IF mfresh
     THEN /\ Persist(mkey, [obj[mkey] EXCEPT !.last = mstamp])
          /\ unsettled' \in {unsettled \ {mkey}, unsettled \cup {mkey}}
     ELSE UNCHANGED <<kube, unsettled>>
  /\ EndMachinePass
  /\ UNCHANGED <<cvars, attempt, omni, bound>>

\* The delete path: Omni state is released, then the finalizer is removed,
\* after which the API server drops the object.
MRelease(m) ==
  /\ mpc = "idle"
  /\ cache[m].phase = "deleting"
  /\ IF m \notin stale THEN Persist(m, [cache[m] EXCEPT !.phase = "gone"])
                       ELSE UNCHANGED kube
  /\ config' = [config EXCEPT ![m] = "none"] /\ up' = [up EXCEPT ![m] = TRUE]
  /\ UNCHANGED <<cvars, mvars, rep, bound>>

-----------------------------------------------------------------------------
(* Other writers of Machine objects, Omni, the machines and time.          *)

\* A fault to test against: the reboot fields are reset with the rest.
desiredMachineSpecReset(m) == [cache[m] EXCEPT !.req = NoTime]

\* The machine-set-derived fields change, the reboot fields are carried over.
desiredMachineSpec(m) == cache[m]

\* The allocation part of a cluster pass copies a changed machine-set spec
\* into the Machine.
syncMachineSpec(m) ==
  /\ cpc = "idle" /\ edits < MaxEdits
  /\ cache[m].phase = "live" /\ m \notin stale
  /\ Persist(m, desiredMachineSpec(m))
  /\ SpecChanged(m)
  /\ edits' = edits + 1
  /\ UNCHANGED <<cvars, mpc, mkey, mstamp, attempt, omni, clock, faults>>

\* A scale-down deletes the Machine: Delete has no version precondition.
deleteMachine(m) ==
  /\ cpc = "idle" /\ edits < MaxEdits
  /\ obj[m].phase = "live" /\ cache[m].phase = "live"
  /\ Persist(m, [obj[m] EXCEPT !.phase = "deleting"])
  /\ Outdate(m)
  /\ edits' = edits + 1
  /\ UNCHANGED <<cvars, mpc, mkey, mstamp, unsettled, attempt, omni, clock, faults>>

\* The desired config changes: the machine is behind, or rejects it.
ConfigChange(m) ==
  /\ edits < MaxEdits /\ config[m] # "none"
  /\ \E c \in {"behind", "error"} : config' = [config EXCEPT ![m] = c]
  /\ edits' = edits + 1
  /\ UNCHANGED <<kube, cvars, mvars, up, rep, clock, faults>>

\* A rebooted machine rejoins, with the new config or still without it.
MachineBoots(m) ==
  /\ ~up[m]
  /\ up' = [up EXCEPT ![m] = TRUE]
  /\ config' \in {config, [config EXCEPT ![m] =
                             IF @ = "behind" THEN "current" ELSE @]}
  /\ UNCHANGED <<kube, cvars, mvars, rep, bound>>

OmniReport(m) ==
  /\ m \in OmniLag
  /\ rep[m] # [healthy |-> up[m], config |-> config[m]]
  /\ rep' = [rep EXCEPT ![m] = [healthy |-> up[m], config |-> config[m]]]
  /\ UNCHANGED <<kube, cvars, mvars, up, config, bound>>

Tick ==
  /\ clock < MaxTime
  /\ clock' = clock + 1
  /\ UNCHANGED <<kube, cvars, mvars, omni, edits, faults>>

\* The controller process dies and restarts with a filled cache.
Crash ==
  /\ faults < MaxFaults
  /\ cpc' = "idle" /\ drifting' = {}
  /\ EndMachinePass
  /\ cache' = obj /\ stale' = {}
  /\ faults' = faults + 1
  /\ UNCHANGED <<obj, cond, unsettled, attempt, omni, clock, edits>>

-----------------------------------------------------------------------------
Init ==
  /\ clock = 1
  /\ obj = [m \in Machines |-> [req |-> NoTime, last |-> NoTime,
                                phase |-> "live"]]
  /\ cache = obj /\ stale = {}
  /\ cpc = "idle" /\ drifting = {} /\ cond = "Absent"
  /\ mpc = "idle" /\ mkey = NoMachine /\ mfresh = FALSE /\ mstamp = NoTime
  /\ unsettled = {}
  /\ up = [m \in Machines |-> TRUE]
  /\ config \in [Machines -> {"current", "behind"}]
  /\ rep = [m \in Machines |-> [healthy |-> TRUE, config |-> config[m]]]
  /\ edits = 0 /\ faults = 0
  /\ attempt = [m \in Machines |-> NoTime]

ClusterPass ==
  \/ CGetDrifting \/ SignalNoDrift \/ SignalInFlight \/ SignalCooldown
  \/ \E m \in Machines : SignalRequest(m) \/ SignalConflict(m)

MachinePass ==
  \/ \E m \in Machines : MGet(m) \/ MSettle(m) \/ MRelease(m)
  \/ MReboot \/ MStamp \/ MFailEarly

Environment ==
  \/ CacheSync \/ Tick \/ Crash
  \/ \E m \in Machines : \/ syncMachineSpec(m) \/ deleteMachine(m)
                         \/ ConfigChange(m) \/ MachineBoots(m) \/ OmniReport(m)

Next == ClusterPass \/ MachinePass \/ Environment

Spec == Init /\ [][Next]_vars

\* Passes are retried until they succeed and requeued every requeueLong; the
\* workqueue gives every key its turn; watches and Omni deliver eventually.
\* Edits, faults and the clock need not advance.
Fairness ==
  /\ WF_vars(CGetDrifting) /\ WF_vars(ClusterPass /\ cpc = "signal")
  /\ WF_vars(MReboot) /\ WF_vars(MStamp) /\ WF_vars(CacheSync)
  /\ \A m \in Machines :
       /\ SF_vars(MGet(m)) /\ SF_vars(MRelease(m))
       /\ WF_vars(MachineBoots(m)) /\ WF_vars(OmniReport(m))

FairSpec == Spec /\ Fairness

-----------------------------------------------------------------------------
(* Properties.                                                             *)

\* Every variable keeps its type; a Machine pass under way has a key.
TypeOK ==
  /\ clock \in 1..MaxTime
  /\ obj \in [Machines -> MachineObj] /\ cache \in [Machines -> MachineObj]
  /\ stale \subseteq Machines
  /\ cpc \in {"idle", "signal"} /\ drifting \subseteq Machines
  /\ cond \in Conditions
  /\ mpc \in {"idle", "reboot", "stamp"}
  /\ mkey \in Machines \cup {NoMachine} /\ (mpc # "idle" => mkey \in Machines)
  /\ mfresh \in BOOLEAN /\ mstamp \in Times /\ unsettled \subseteq Machines
  /\ up \in [Machines -> BOOLEAN] /\ config \in [Machines -> Configs]
  /\ rep \in [Machines -> Report]
  /\ edits \in 0..MaxEdits /\ faults \in 0..MaxFaults
  /\ attempt \in [Machines -> Times]

\* A cached copy is outdated only if a write since it was read has not been
\* delivered, so a write that carries its resourceVersion and is accepted was
\* computed from what the API server held; without lag nothing is outdated.
CacheCurrent ==
  /\ \A m \in Machines : m \notin stale => cache[m] = obj[m]
  /\ ~CacheLag => stale = {}

\* No reboot field lies in the future of the controllers' clock.
NoFuture == \A m \in Machines : obj[m].req <= clock /\ obj[m].last <= clock

\* Between the RPC and the status write, the stamp is the time of the attempt,
\* and if the write is going to be accepted it answers the latest request.
StampMatches ==
  mpc = "stamp" => /\ mstamp = attempt[mkey] /\ mstamp <= clock
                   /\ mfresh => obj[mkey].req <= mstamp

\* The optimistic-concurrency discipline the reboot handshake rests on: the
\* two controllers act on cached copies and on a computed stamp, and these are
\* sound whenever the API server accepts the write they feed.
HandshakeInv == CacheCurrent /\ NoFuture /\ StampMatches

Owed == {m \in Machines : obj[m].phase # "gone" /\ rebootOwed(obj[m])}

\* A reboot is requested only on a machine whose persisted LastRebootTime is
\* absent or at least rebootCooldown old, although the controller decides on
\* a cached copy: the resourceVersion check makes the decision hold at the
\* write (selectDriftRebootCandidate and the Update in signalDriftReboots).
RequestRespectsCooldown ==
  [][\A m \in Machines :
       obj'[m].req # obj[m].req /\ obj'[m].req # NoTime =>
         obj[m].last = NoTime \/ obj'[m].req - obj[m].last >= Cooldown]_vars

\* LastRebootTime is never persisted without a matching attempt: when a reboot
\* stops being owed, its RPC was issued at or after the time of the request.
\* This covers every writer of the object, syncMachineSpec included, which
\* must not lose a request.
OwedEndsByAttempt ==
  [][\A m \in Machines :
       rebootOwed(obj[m]) /\ ~rebootOwed(obj'[m]) => attempt[m] >= obj[m].req]_vars

\* However far the cache lags, a reboot is requested only while every reboot
\* in flight is one that the list of signalDriftReboots could not show: the
\* cached copy of its Machine is outdated.  The machine asked owes none, so no
\* request is overwritten before it was answered.
RequestsUnseen ==
  [][\A m \in Machines :
       obj'[m].req # obj[m].req => Owed \subseteq stale \ {m}]_vars

\* The RPC is issued for a reboot in flight.  One that was stamped before is
\* repeated only by a pass whose copy of the Machine is outdated, and its own
\* stamp is refused then: LastRebootTime stays that of the attempt that
\* answered the request.
RebootsAreOwed ==
  [][mpc = "reboot" /\ mpc' = "stamp" => mkey \in Owed \/ ~mfresh]_vars

\* The README's "at most one machine down at a time".
AtMostOneDown == \A a, b \in Machines : ~up[a] /\ ~up[b] => a = b

\* Every owed reboot is eventually attempted and stamped, or its Machine goes
\* away: conflicts, failed passes and crashes only delay it.  Since an owed
\* reboot blocks all others, remediation cannot get stuck on it.
OwedIsServed == \A m \in Machines : m \in Owed ~> m \notin Owed

\* A machine that stays behind in a cluster that stays healthy is asked to
\* reboot at least once, whatever the others do and whichever passes fail.
FirstDriftIsServed ==
  \A m \in Machines :
    <>[](obj[m].phase = "live" /\ config[m] = "behind" /\ \A n \in Machines : up[n])
      => <>(obj[m].req # NoTime)

=============================================================================
