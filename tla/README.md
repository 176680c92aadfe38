# A TLA+ development of omni-gitops-controller

The controller turns an `OmniCluster` resource into the resources of a Sidero
Omni service, and keeps them in step. This directory holds TLA+ models of its
two reconcilers, the runs that model-check them, and machine-checked proofs of
their safety. Abbreviations: **OC** is
`src/controllers/omnicluster_controller.go`, **MC** is
`src/controllers/machine_controller.go`, **CL** is
`src/controllers/omni_client.go`. `PROJECT.json` maps every definition to the
lines it models and lists hazards and findings at their lines.

## 1. The system

### Parts, state, operations

| Part | State | Operations | Correct when |
|---|---|---|---|
| `OmniClusterReconciler` (OC) | none between passes; within one: the copy read at the start, the sets still to visit, the Machines listed, `claimed`, the allocation and status to report | one pass: finalizer, `ensureCluster`, allocation of each set, pruning, status, drift, kubeconfig; or, when deleted, `deleteOmniResources` | declared sets get exactly their replicas; removals never take two control-plane members at once; sets outlive their Machines; nothing is left behind |
| `MachineReconciler` (MC) | none between passes; within one: its copy of the Machine, the stamp not yet persisted | one pass: finalizer, bind, patches, kernel args, reboot when owed, status; or, when deleted, `releaseMachineOmni` | nothing in Omni without a finalizer to remove it; a reboot stops being owed only by an attempt |
| Ownership (OC, CL) | the owner label of an Omni cluster | create, adopt, refuse, skip the teardown | one OmniCluster at a time allocates and tears down; the next takes over |
| Secrets (OC) | token, time of refresh, place by two flags | ensure, delete | a Ready cluster has a token that has not expired; none outlives its OmniCluster |
| Status, metrics | `OmniClusterStatus`, gauges | record, write or skip, `setFailure`, drop | what is shown becomes true and writes come to an end |
| API server | objects with resourceVersion, finalizers, deletion timestamp | Create, Update (optimistic concurrency), Delete (no precondition), garbage collection | external |
| Informer cache | a past snapshot, shared by both reconcilers | delivery of watch events | external |
| Omni (COSI) | `Cluster`, `MachineSet`, `MachineSetNode` (binding), `ConfigPatch`, `KernelArgs`, `ExtensionsConfiguration`, labels, `ClusterStatus`, `ClusterMachineStatus` | create, update, teardown then destroy; it reports health and drift, with delay | external |
| Machines (Talos) | up or down, running config | reboot, rejoin, fail | external |
| `main.go`, CRDs, chart | - | - | no protocol of their own |

### Interaction

`main.go` starts both reconcilers in one process; each has one worker, so two
passes of one reconciler never overlap, and the two reconcilers interleave at
every API or Omni call. They communicate only through Machine objects: the
cluster controller creates and deletes them, copies the set's customisation
into them (`syncMachineSpec`) and sets `Spec.RebootRequestedAt`; the Machine
controller answers by `Status.LastRebootTime` and by releasing its finalizer.
Both read Machines from the cache, while Omni is always read directly: a pass
combines two sources that describe different moments. Several OmniClusters
meet in Omni, where a cluster is known by its name alone and a binding by the
machine's UUID alone.

### What is hard

* reads made before a point where the other controller, Omni or the user can
  move, and used after it (OC 186 and 263; OC 419, 430 and 481; the owner at OC
  739 and every call after it; the copy at OC 81 and the status write at 230);
* decisions on a cache that lags, of which only Updates are protected by the
  resourceVersion: Create and Delete are not;
* passes that stop anywhere (refused write, failed call, teardown in progress,
  crash) and start over from their first call;
* etcd quorum: removals and reboots of control-plane members one at a time;
* progress: passes that fail early every time never reach their later parts;
  status writes that fail are not retried as such, and each one that succeeds
  triggers the next pass;
* names that are unique in one place and not in another.

## 2. Modules

| Module | Models |
|---|---|
| `DriftReboot` | drift detection, reboot request, reboot and stamp: both controllers, cache, Omni's reports, clock |
| `FleetState` | variables and external services shared by the next three |
| `MachineController` | bind, customise, release one Machine |
| `ClusterController` | adopt, scale, sync, prune, delete |
| `MachineLifecycle` | the abstract life of each machine that the two controllers promise together |
| `Fleet` | the composition with the user, crashes and garbage collection; the specification, the refinement and the properties |
| `Tenancy` | several OmniClusters in several namespaces against one Omni account |
| `OmniTenure` | the abstract tenure of an Omni cluster's name that the owner label promises |
| `Publication` | status, kubeconfig or Argo CD Secret and ready gauge of one OmniCluster, over time |
| `MCDriftReboot`, `MCFleet`, `MCTenancy`, `MCPublication` | the instances for TLC |
| `DriftRebootProofs`, `FleetProofs`, `FleetScaleProofs`, `TenancyProofs`, `TenureProofs`, `PublicationProofs` | theorems |

The four specifications look at one program from four sides. A pass of the
cluster controller is a single chain of calls in the code; each specification
keeps the calls its state depends on and reduces the rest to "succeeds or
fails". `Fleet` has the middle of a pass in full (allocation and pruning),
`Tenancy` its first call and the calls of a deletion, `DriftReboot` the two
calls after `GetClusterStatus`, `Publication` the status and the end.

Operators named "A fault to test against" are broken variants of the definition
that follows them. No specification uses them; each documents a mistake that
a property is known to catch.

### DriftReboot

`obj` and `cache` hold, per Machine, the two reboot fields and its phase;
`stale` is the set of Machines whose cached resourceVersion is outdated. Every
write goes through `Persist`; an Update is enabled (or takes its conflict
branch) according to `stale` or, for a Machine pass, to `mfresh`, the validity
of the copy the pass started from. A cluster pass has two stages, the read of
drift from Omni (`CGetDrifting`) and the list, decision and Update
(`SignalNoDrift`, `SignalInFlight`, `SignalCooldown`, `SignalRequest`,
`SignalConflict`). A Machine pass has three: `MGet`, `MReboot` (the RPC, which
may fail before or after reaching the machine) and `MStamp` (the status
write). `syncMachineSpec`, `deleteMachine`, `MSettle`, `MFailEarly` and
`MRelease` are the other writers of the object, which outdate copies. The clock
ticks freely: passes may be slow or fast against the cooldown. `OmniLag` is the
set of machines whose report in Omni may be late. Passes that
run while the cluster is not Ready do nothing here and are left out.

### Fleet

A cluster pass is the chain `Begin`, then per set `List` (EnsureMachineSet and
the cached list), `Adopt`, one of the `Scale...` actions, `Settle` (sync and
extensions), then pruning. One step covers the calls between two points at
which a move of someone else could matter. A failed call ends a pass at any
step, with a part of what the step does done: `CFail` after some of its writes
to Machines (`PartWrites`, those of pruning and deletion included),
`CFailRelease` in the middle of a backstop release (`ReleaseBreaks`: some
machines done, one unbound but still customised, or customised in part),
`CFailDrop` between a set's extensions and the set. Error outcomes of their own
are actions: `ScaleUpShort`, `SettleConflict`, `PruneDelete`, the `...Wait`
actions (a COSI teardown in progress). A Machine pass is `MBind` then
`MConfigure`, or `MUnbind`, `MClean`, `MUnfinalize`; `MBindFail` and `MFail`
are its failures, and `MStatus` the status write a pass or its `setFailure`
makes, which outdates the other copies.

`cfresh` is what the cluster pass cannot know: the UUIDs whose entry in the list
it took last, or whose absence from it, was what the API server had, and that
nobody else has written since. An Update of a Machine outside `cfresh` is
refused; Create and Delete are not, since they carry no resourceVersion. The
properties that hold in spite of a lagging cache are stated with it.

Abstractions: UUIDs are numbers, so that the code's `sort.Strings` is the order
of numbers. A machine's patches and kernel args are one value: nothing, a
partial state, or those of a template; the template 2 has extensions too.
Health is one bit, connected and RUNNING and Ready. Machine selectors match
every machine. The `OmniCluster` itself is read current at the start of a pass;
a pass then works on that copy for as long as it takes, which has the same
effect as reading an old one. The cache moves to the present in one step
(`CacheSync`); as that step may come at any time, it can be any past snapshot
in the order of the writes. Writes one step makes together appear in the cache
together. `Defaulted` is a consequence of `json:"replicas,omitempty"` with a
CRD default of 1 (`types.go` 29-32): the Update that adds the finalizer stores
a worker set of 0 replicas as one of 1. The CRD refuses a control plane of 0,
so the branch at OC 529-532 for it is not modelled.

`MachineLifecycle` says what a reader of the two controllers would expect of a
machine: free, claimed for a set, guarded by a finalizer before anything of it
is held in Omni, leaving, and free only when nothing is held any more.
`Fleet` implements it: the phase is read off the Machine object (`phaseOf`), the home
is its set, and something is held while the machine is bound or customised
(`Held`). Machines bound by hand before the controller saw them are outside it.

### Tenancy

`at` gives each OmniCluster its namespace and name. `owner` is the label of the
Omni cluster of a name (`NoCR` without one, `Absent` without a cluster), `obj`
the Machines by namespace and UUID, `node` the bindings by UUID. One pass of
the cluster controller (`cpc`, `cc`) and one of the Machine controller (`mpc`,
`mkey`) are under way at a time. Live passes are `EnsureCluster`, `Allocate`,
`Publish`; deletions are `DeleteSkip`, or `DeleteCheck` and the calls of
`deleteOmniResources` one by one. Each OmniCluster declares one set with one
machine, the cache is coherent and Omni finishes teardowns at once: what these
add is in `Fleet`. `Fail` ends either or both passes anywhere.

`OmniTenure` says what tenants of one account may expect of a name: one holder
at a time, nothing used except under a holder, and a cluster that goes only when
its holder is leaving and nothing is in use, so that the next one starts clean.
`Tenancy` implements it: the holder is `owner`, something is in use while there
is a machine set, a Secret, a Machine or a binding of the name (`InUse`), and
OmniClusters deleted or gone are leaving.

### Publication

`cr`, `gen` and `st` are the OmniCluster in the API server, `cache` the copy
the informer has, `copy` the one the pass has read, `pst` the status it has
computed; `pfresh` says whether an Update of `copy` would be accepted. `sec` maps
each place (name format and namespace, from the flags) to the ages of the
Secret's annotation and token. `broken` is what fails at present: `early` (all
that comes before `GetClusterStatus`, an ownership conflict included),
`status`, `late` (drift and reboot signal) or `kubeconfig`; a failure lasts
until the environment changes it. `Failed`, `Recorded` and `StoreStatus` are the
three rules of the status: what `setFailure` sets, what a pass records, and
when a write happens. The write is skipped when the whole status is the one the
pass has read, so `Status` has all that is compared: besides Ready, Phase,
ObservedGeneration and FailureReason, the failure message, the order in which
`AllocatedMachines` names the Machines (`list`), the drift condition, and the
stamp of the Ready condition. A new stamp is now, so all that matters is whether
it is the one the pass has read: `since` is a bit that a pass flips when it
changes the condition's status, twice in one pass to the same value. Stored
times have seconds: `SameSecond` is the outcome of a write within the second of
the stamp it replaces. `Messages`, `Orders` and `Drifts` are what errors, list
and drift may be: a set of one value says that they repeat. The number of `changes` (edits, failures, Omni's status,
tampering, restarts) is bounded; time is not: ages stop at the token's life.
A tick stands for weeks, so `Tick` waits until a pass has had its outcome stored
(`passed`): passes come every minute, whereas the shortest interval of the
code is 30 days. A pass whose write is refused does not count.

## 3. Runs

All runs set `CHECK_DEADLOCK FALSE`: with edits, faults and ticks bounded, a
settled system has nothing left to do, and the requeued passes that would find
nothing to change are left out.

| Run | Instance | Shows |
|---|---|---|
| `DriftRebootLag` | 2 machines, lagging cache, 1 edit, 1 fault | `TypeOK`, `HandshakeInv`, `RequestRespectsCooldown`, `OwedEndsByAttempt`, `RequestsUnseen`, `RebootsAreOwed` |
| `DriftRebootFair` | 2 machines, lagging cache, late reports of one machine, 1 fault, fair | `OwedIsServed`, `FirstDriftIsServed` |
| `FleetConverge` | 2 machines, lagging cache and label, 1 edit or deletion, 1 fault, fair | `TypeOK`, `NoLeakedBinding`, `NoLeakedCustomisation`, `LifecycleImplemented`, `NoOverAllocation`, `SetsOutliveListed`, `LeftoversAreOwned`, `Convergence`, `DeletionCompletes` |
| `FleetScale` | 3 machines, one perhaps bound beforehand to either set, 4 specs, coherent cache, 1 edit, 1 fault, 1 health change | `OneControlPlaneRemoval`, `RemovalsOneByOne`, `SetOutlivesMachines`, `NoOverRemoval`, `NoOverAllocation`, `NothingLeftBehind` |
| `Tenancy` | 3 OmniClusters (two of one name, two of one namespace), 2 machines, perhaps a hand-made Omni cluster, 1 fault, fair | `TypeOK`, `OnlyOwnerHasMachines`, `NoForeignTeardown`, `UnsharedMachinesStay`, `TenureImplemented`, `HandOver`, `Served` |
| `Publication` | 2 Secret formats, 2 phases, interval 1, token life 3, 2 changes, fair | `TypeOK`, `GoneLeavesNothing`, `ReadyMeansUsable`, `StatusSettles`, `FailureShown`, `WritesEnd` |

Six more runs end in a counterexample to something the documentation says;
they are the findings of section 5.

*What a lagging cache leaves of a property.* `OneControlPlaneRemoval`,
`SetOutlivesMachines` and `NothingLeftBehind` are what one would like to say;
they hold when the cache is coherent, and `FleetScale` checks them so. The code
reads Machines from an informer (OC 263, 419, 697, 762), and with
`CacheLag = TRUE` TLC refutes all three, as well as "at most one reboot is in
flight": a removal, a request, or a Machine just created is missed by the next
pass. The window is the delivery of one watch event; the comments at OC 450-452
show that it is known within a pass. What holds whatever the lag is stated by

* `RequestsUnseen`: when a reboot is requested, every reboot in flight is of a
  Machine whose cached copy is outdated, and the machine asked owes none; without
  lag no copy is outdated, and it says that one reboot is in flight at most;
* `RebootsAreOwed`: an RPC that is not owed any more comes from a pass on an
  outdated copy, whose stamp is refused;
* `NoOverAllocation` and `NoOverRemoval`: the numbers are off by no more than the
  Machines the list did not show, or showed although they had left (`Unseen`,
  `Gone`). When the entries are current these are none;
* `RemovalsOneByOne`: a scale-down takes one member of the control plane, and
  none while a member whose listed entry was current is leaving; the scaling and
  pruning of another set take one only by an outdated entry. (Delete carries no
  UID: a pass that still lists a worker's Machine deletes by name the object of
  that UUID that the control plane has since created.)
* `SetsOutliveListed`: a set leaves under a Machine only if the list missed it;
* `LeftoversAreOwned`: what a deletion leaves behind was missed by the list, and
  its Machine's finalizer is in place; `DeletionCompletes` adds that Kubernetes
  collects that Machine, and in the end nothing is left in Omni.

`DriftRebootLag` and `FleetConverge` check these with lag; `NoOverRemoval` and
`RemovalsOneByOne` take three machines to be of interest, which TLC can do
(`FleetScale`) with a coherent cache only, and section 4 proves them, like the
others, for any number of machines and any lag.

### Bounds

*Machines.* Two machines are enough for every interference between a pair
(the request of one, the stamp of another; a machine of one set, claimed by
another). Three are needed where a control plane shrinks from three, and where
an adopted machine and two selected ones meet (`FleetScale`). *Edits* are 1: the
edit falls at any point of any pass, and one is what a scale-down, a removed set or a
deletion takes. *Faults* are 1: a crash or failed call at any point, in the
middle of any group of writes. *Health changes* are 1, at any moment: a machine
starts unhealthy when it is bound, and healthy when it was bound beforehand, so
one may recover or fail while a pass counts.
*Time* in `DriftReboot` is 1 or 2 ticks with a cooldown of 1: enough for a
cooldown to pass and for a second request; the liveness run has one instant, a
request per machine. The specs of `MCFleet` scale a worker set among 0, 1
and 2, the control plane between 1 and 3, remove and rename a worker set and
change the template.

*OmniClusters* are 3: a conflict takes two of one name, a shared namespace two
of one namespace, and the third shows that the queue of the others does not
matter. With 2 machines both names can be served, and one machine can be fought
over. *Changes* in `Publication` are 2: a failure that begins and ends, a
restart and a tamper, an edit during a failure; deletion and time come on
top. Errors, drift and the order of the list repeat (one value each): what is
checked is that the code adds no difference of its own; section 5 says what a
second order does. An interval of 1 and a life of 3 are the smallest that satisfy
`Interval + 1 < TTL`; the code has 30 and 90 days with a requeue of a minute.

### Fairness

*DriftReboot.* Weak fairness of the steps of a pass under way and of the start
of cluster passes (every pass is requeued after at most `requeueLong`); strong
fairness of `MGet` and `MRelease` per machine, because a Machine pass under way
disables the start of another, and the workqueue gives each key its turn; weak
fairness of watches, of machines coming back, of Omni's reports.

*Fleet.* Only weak fairness, of each controller as a whole and of the external
deliveries, Kubernetes' garbage collection among them (`createMachine` sets an
owner reference, OC 610-634). `ClusterProgress` leaves out the `...Wait` actions, `CFail` and
the environment: that Omni finishes a teardown it was asked for is assumed, that
it takes its time is not excluded.

*Tenancy.* Strong fairness of the start of passes over each OmniCluster: a pass
over another one disables it, and the workqueue is first come, first served.
Weak fairness of the rest of a pass, and of the Machine controller as a
whole. The user need not delete anything.

*Publication.* Weak fairness of the pass as a whole and of watches. Time may
stop.

## 4. Proofs

Every theorem holds for any finite set of machines, any sets, specs, namespaces,
intervals and bounds, from the named assumption of the module that declares the
constants, and was model-checked first. Those about `DriftReboot`, `Fleet` and
`Publication` assume nothing of the cache or of Omni's reports and labels, which
may lag without limit; `Tenancy` has no cache (section 2). The one hypothesis of
a theorem is the fixed namespace of `NothingOutlives`.

| Module | Theorem | Statement |
|---|---|---|
| `DriftRebootProofs` | `TypeCorrect` | `Spec => []TypeOK` |
| | `HandshakeHolds` | `Spec => []HandshakeInv` |
| | `RequestsRespectCooldown` | `Spec => RequestRespectsCooldown` |
| | `OwedEndsOnlyByAttempt` | `Spec => OwedEndsByAttempt` |
| | `RequestsSeeNone` | `Spec => RequestsUnseen` |
| | `RebootsAnswerRequests` | `Spec => RebootsAreOwed` |
| `FleetProofs` | `FleetTypeCorrect` | `Spec => []TypeOK` |
| | `NoBindingLeaks` | `Spec => []NoLeakedBinding` |
| | `NoCustomisationLeaks` | `Spec => []NoLeakedCustomisation` |
| | `LifecycleHolds` | `Spec => LifecycleImplemented` |
| `FleetScaleProofs` | `MembersLeaveOneByOne` | `Spec => RemovalsOneByOne` |
| | `AllocationIsBounded` | `Spec => NoOverAllocation` |
| | `RemovalIsBounded` | `Spec => NoOverRemoval` |
| | `ListedLeaveFirst` | `Spec => SetsOutliveListed` |
| | `TeardownLeavesOwned` | `Spec => LeftoversAreOwned` |
| `TenancyProofs` | `TenancyTypeCorrect` | `Spec => []TypeOK` |
| | `OwnersHaveMachines` | `Spec => []OnlyOwnerHasMachines` |
| | `NoForeignTeardownHolds` | `Spec => NoForeignTeardown` |
| | `UnsharedMachinesHold` | `Spec => UnsharedMachinesStay` |
| `TenureProofs` | `TenureHolds` | `Spec => TenureImplemented` |
| `PublicationProofs` | `PublicationTypeCorrect` | `Spec => []TypeOK` |
| | `ReadyHasToken` | `Spec => []ReadyMeansUsable` |
| | `NothingOutlives` | with one namespace, `Spec => []GoneLeavesNothing` |

*DriftReboot.* The inductive invariant is `IInv == TypeOK /\ HandshakeInv`.
Neither half is inductive: an accepted write is well typed because the copy it
came from is current (`CacheCurrent`), and the two action properties, which
compare a persisted object with the next one, need that the decision was made
on that same persisted object although the code decided on a cached one.
`StampMatches` carries this over the gap between RPC and status write: a stamp
that will be accepted is the time of the attempt and no request is newer than
it. `NoFuture` is needed because a request "now" must be newer than the last
reboot. `RequestsSeeNone` follows from `CacheCurrent`: the pass has found no
reboot owed among the copies, and those not marked outdated are the objects.
`RebootsAnswerRequests` needs `RebootInv` besides, that the copy of a Machine
pass between its read and its RPC is outdated or still owed: whoever stamps or
syncs the object in between outdates it.

*Fleet.* A binding or a customisation is safe because of what the Machine
controller has seen, and it has seen a cache. The invariant strengthens the two
"leak" properties by what relates a cached copy, the copy of the pass under
way and the object: a copy that is not marked outdated equals the object; an
object seen with the finalizer keeps it, and keeps its set, until this
controller's own `MUnfinalize`, which is refused when anything wrote to the
object since its copy was read; and the pass that unfinalizes has unbound and
cleaned the machine before, with nobody else able to bind it in between. The
refinement is proved from the same invariant: each action is a set of moves of
`MachineLifecycle`, at most one per machine, and the `Release` and `Free` moves
are where the invariant is needed.

*Scaling.* The properties of `FleetScaleProofs` are about what a list says early
in a pass and its use late. `ScaleInv` says what remains of the list, for the
entries in `cfresh` alone: `ListInv`, that a machine in `cfresh` is listed if
its Machine is of the set, and counted as active if that is not leaving; and
that each binding of the set without a Machine is counted, once the pass has
adopted. `ScopeInv` says that a set about to be removed has no Machine in
`cfresh` and only bindings that a finalizer guards, so that no release of the
backstop, and no set that goes, strands a binding. `BindInv` relates bindings,
Machines, labels and copies: a binding is of the set its Machine names, and a
bound machine without a finalizer in front of it (one bound beforehand) is not
offered as available, not believed guarded by any copy, and its set exists.
`CopyInv` is the bridge from a copy being deleted to that finalizer: without it
an old copy of a Machine that was leaving could hide a bare binding from
`Adopt`. Each step of the Machine controller is one of four moves of a machine
(`MachineMove`), which is all the cluster pass needs to know about it.

The bounds on numbers then are counting. The code sorts and takes a prefix or a
suffix; `Fleet` says so by rank, and `FirstCount` and `RemovalCount` show that
the machines of a rank below `n` are at most `n`: no two machines of a set have
the same rank, so more of them would leave no room (`FS_PigeonHole`). A pass that
fails part of the way has done a part of it, and the bound holds a fortiori.
`TeardownLeavesOwned` does not count: the last loop of a deletion leaves no set,
the backstop has left no binding without a finalizer in front of it, and none is
made without one.

*Tenancy.* A pass checks the owner once. `IInv` adds to `TypeOK` and
`OnlyOwnerHasMachines` that a pass past its check still has its OmniCluster as
the owner (or none, on the delete path), since no other pass can run: so
every later call of the pass acts on what its OmniCluster owns (`PassInv`,
`MachinePassInv`, `OwnerInv`). `DelInv` says that the Machines are all gone when
the Omni cluster is deleted, so the next owner starts clean. `BindInv` says
whose a binding is: a Machine of the bound cluster fronts it, one that still has
its finalizer or is the only one of that UUID, or no Machine does.
`UnsharedMachinesHold` needs it: the only steps that unbind are the release of
a Machine, whose object then is the owner's or a second one of that UUID, and
the backstop of a deletion. `TenureHolds` adds `TenureInv`: what there is in a
name is there with its machine set, the last thing to go (`UseInv`), and each
thing a deletion has taken stays away until it ends (`TakenInv`), since only the
owner's pass makes Machines and Secrets, and only a Machine of the name leads to
a binding. A Machine of another namespace could be one: `NoneLeft` excludes it,
because its OmniCluster would be the owner.

*Publication.* `ReadyMeansUsable` is an argument about time. `RefreshInv` gives
a budget: token and annotation have the same age while both are there (one
write sets both), the annotation was younger than `Interval` when the last
pass that reported Ready looked at it, and at most one tick passes before a pass
has its outcome stored; that outcome is either not Ready, or another look. So a
token is never older than `Interval + 1`, which the assumption puts below
`TTL`. The invariant carries this through the middle of a pass, whose computed
status is not stored yet, and through passes on outdated copies, whose status
is refused. `NothingOutlives` adds `GoneInv`: a pass of the delete path that is
past its Secrets has none left. It needs that the flags keep the namespace;
`PublicationMove` shows that it does.

Only model-checked: `OneControlPlaneRemoval`, `SetOutlivesMachines` and
`NothingLeftBehind`, which a lagging cache refutes and whose part that does not
depend on it is proved (section 3); and the liveness properties `OwedIsServed`,
`FirstDriftIsServed`, `Convergence`, `DeletionCompletes`, `HandOver`, `Served`, `StatusSettles`,
`FailureShown` and `WritesEnd`; fairness and ENABLED are outside the prover's
reach. No module declares a RECURSIVE operator.

## 5. Where code and documentation part

| Run | Violated | In short |
|---|---|---|
| `DriftRebootDown` | `AtMostOneDown` | two machines down: drift is read before the Machines are listed |
| `FleetRename` | `Convergence` | pruning starves behind a failing allocation |
| `FleetReselect` | `AllocatedOnce` | a worker's Machine that is not bound yet is selected, and reported, for the control plane too |
| `TenancyRelease` | `MachinesStay` | a Machine that lost a machine to another OmniCluster unbinds it there when it is deleted |
| `PublicationLoop` | `StatusQuiesces` | a failure behind `GetClusterStatus` that lasts sets the Ready condition True and False in each pass, stamps it anew, and the status is written for ever |
| `PublicationMove` | `GoneLeavesNothing` | the Secret in the namespace of earlier flags outlives its OmniCluster |

The findings in `PROJECT.json` quote the sentences. The passing runs delimit
them: a reboot is requested only while none is in flight that the list could
show (`RequestsUnseen`); status writes end unless passes over a Ready cluster go
on failing in that way, or errors, drift or the order of the list alternate
(`WritesEnd`); a binding is taken only by a Machine of the same UUID in another
namespace (`UnsharedMachinesStay`); with one namespace, no Secret is left
(`NothingOutlives`).

Met while modelling, and not made into runs:

* `AllocatedMachines` follows the order of the cached list (OC 600-603), which
  nothing sorts: with two `Orders` TLC refutes `StatusQuiesces` with no failure
  at all, against the comment at OC 112-114;
* a refused or lost stamp (MC 191) repeats the reboot at once, whereas OC 35-37
  calls `rebootCooldown` the minimum time between two;
* `ConfigDriftDetected` is False / AllMachinesUpToDate (OC 252, README 466)
  whenever a machine is unhealthy, so during each remediation reboot;
* `types.go` 83 says Ready is "Running and the Kubernetes API is reachable",
  the code takes `KubernetesAPIReady` alone (CL 612); `types.go` 90 ties
  `FailureReason` to a phase Failed that `setFailure` never sets;
* README 395 calls the Argo CD Secret `my-cluster`; the code adds
  `-cluster-secret` (OC 903);
* README 339 has the Secret written after `Ready=true`; the code writes it
  before that status is stored, which is what makes `ReadyMeansUsable` true;
* the ready gauge keeps its value while passes fail before `GetClusterStatus`;
* a Secret whose annotation is fresh is not fetched again for an Omni cluster
  that was deleted and made anew under the same name, and after a change of
  format the old Secret stays, without refresh, until the deletion;
* a Machine that lost its machine to another OmniCluster stays `BindFailed`,
  and its set one short, until it is deleted: nothing selects another;
* an Omni cluster without the owner label is torn down by an OmniCluster of its
  name that is deleted before it adopted it (OC 741, `ok` is false).

*Cache lag.* Section 3 says which properties a lagging cache refutes and what is
left of them. A Machine whose set was pruned under it stays for ever, as pruning
starts from the sets Omni has (OC 679): `Convergence` is stated for behaviours in
which this does not happen.

## 6. Not modelled

* Label selectors: a filter without state. Machines of different selectors
  compete less than the models' machines do, which match every set.
* The comparison and the form of config patches, extensions and kernel args,
  the parsing of a kubeconfig and the layout of the two Secrets: data the
  properties do not tell apart.
* `Machine` status apart from `LastRebootTime`: nothing reads it. Its writes
  are modelled, since they outdate copies.
* Gauges other than the ready gauge and the reboot counter: set, never read.
* Collisions of set IDs (OC 388): the models' IDs are distinct; which names
  collide is a question about strings.
* Leader election (`main.go` 77): off by default; the models have one process.
* Generated code, CRDs, chart and examples: no behaviour.
* A Machine whose passes always fail (a binding elsewhere, a rejected patch)
  with a reboot owed blocks remediation of the others for as long as it does:
  it follows at once from the in-flight rule, and the runs bound failures.

## 7. Open ends

1. The lag-tolerant bounds on three machines with `CacheLag = TRUE`, or two
   machines disrupted by reboots at most, as runs next to the present ones.
2. A worker set re-declared while its pruning waits: two edits in
   `FleetConverge`, which is out of reach at its present size.
3. Remediation next to scale-down and pruning: a composition of `DriftReboot`
   and `Fleet`, for a machine that is asked to reboot and deleted.
