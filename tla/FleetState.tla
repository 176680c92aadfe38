----------------------------- MODULE FleetState -----------------------------
(***************************************************************************)
(* The state shared by the two controllers for one OmniCluster: Machine    *)
(* objects in the API server and in the informer cache, and the resources  *)
(* they are converged onto in Omni (machine sets, bindings of machines to  *)
(* sets, per-machine customisation).  Machine UUIDs are numbers, so that   *)
(* the code's sorting by name is the order of numbers.                     *)
(***************************************************************************)
EXTENDS Integers, FiniteSets

CONSTANTS
  UUIDs,        \* machines of the Omni account, also the names of Machines
  CP,           \* ID of the control-plane machine set
  Workers,      \* IDs of worker machine sets a spec may declare
  NoSet,        \* "bound to no set"
  Specs,        \* specs the user may write (the CRD asks rep[CP] >= 1)
  OutOfBand,    \* UUIDs that may be bound before any Machine object exists
  CacheLag,     \* TRUE: the informer cache may lag behind the API server
  LabelLag,     \* TRUE: Omni's "available" label may lag behind bindings
  MaxEdits,     \* bound: edits of the OmniCluster (spec changes, deletion)
  MaxFaults,    \* bound: failed calls and crashes
  MaxFlips      \* bound: changes of a machine's health

Sets      == {CP} \cup Workers
Templates == {1, 2}    \* machine-set customisation; 2 has extensions too
NoTmpl    == 0
Partial   == 3         \* some of a machine's customisation is in place

\* A spec: the declared sets, their replicas, their customisation.
SpecType == [sets: SUBSET Sets, rep: [Sets -> Nat], tmpl: Templates]

ASSUME FleetAssumption ==
  /\ UUIDs \subseteq Nat /\ IsFiniteSet(UUIDs)
  /\ CP \notin Workers /\ NoSet \notin Sets /\ IsFiniteSet(Workers)
  /\ Specs \subseteq SpecType
  /\ Specs # {} /\ \A sp \in Specs : CP \in sp.sets /\ sp.rep[CP] >= 1
  /\ OutOfBand \subseteq UUIDs
  /\ CacheLag \in BOOLEAN /\ LabelLag \in BOOLEAN
  /\ MaxEdits \in Nat /\ MaxFaults \in Nat /\ MaxFlips \in Nat

VARIABLES
  \* the API server and its cache
  cr,         \* OmniCluster: "new" (no finalizer), "live", "deleting", "gone"
  spec,       \* its spec
  obj,        \* UUID -> Machine object
  cache,      \* UUID -> cached Machine object
  stale,      \* UUIDs whose cached resourceVersion is outdated
  \* Omni
  mset,       \* set ID -> "absent", "bare", "extended", "tearing"
  node,       \* UUID -> MachineSetNode: [set, tearing]
  avail,      \* UUID -> the "available" label as Omni last wrote it
  custom,     \* UUID -> config patches and kernel args in place, by template
  healthy,    \* UUID -> connected, RUNNING and Ready while bound
  \* the cluster controller's pass; cfresh: the UUIDs whose entry, or lack of
  \* one, in the list the pass last took was the API server's, and that no
  \* one but the pass has written since
  cpc, cspec, ctodo, cset, cexist, cnew, cdel, csync, cfresh, claimed, calloc,
  \* the Machine controller's pass
  mpc, mkey, mtmpl, mfresh,
  \* bounds
  edits, faults, flips

kube    == <<cr, spec, obj, cache, stale>>
omni    == <<mset, node, avail, custom, healthy>>
cvars   == <<cpc, cspec, ctodo, cset, cexist, cnew, cdel, csync, cfresh, claimed, calloc>>
mvars   == <<mpc, mkey, mtmpl, mfresh>>
bounds  == <<edits, faults, flips>>
vars    == <<kube, omni, cvars, mvars, bounds>>

\* A Machine object: its set, whether it carries the Machine finalizer,
\* whether it has a deletion timestamp, and the customisation in its spec.
NoObj      == [set |-> NoSet, fin |-> FALSE, del |-> FALSE, tmpl |-> NoTmpl]
MachineObj == [set: Sets, fin: BOOLEAN, del: BOOLEAN, tmpl: Templates]
              \cup {NoObj}

NoNode == [set |-> NoSet, tearing |-> FALSE]
Node   == [set: Sets, tearing: BOOLEAN] \cup {NoNode}

Exists(o) == o.set # NoSet
Live(o)   == Exists(o) /\ ~o.del
Bound(u)  == node[u].set # NoSet

-----------------------------------------------------------------------------
(* API server writes.  A write gives the object a new resourceVersion: the *)
(* cached copy, the copy listed by the cluster pass and the copy held by   *)
(* the Machine pass are outdated, and a later Update from them is refused. *)

Changed(f) == {u \in UUIDs : f[u] # obj[u]}

Persist(f) ==
  /\ obj' = f
  /\ IF CacheLag THEN stale' = stale \cup Changed(f) /\ UNCHANGED cache
                 ELSE cache' = f /\ UNCHANGED stale

\* Delete has no precondition: an object with a finalizer is marked, one
\* without is removed at once.
Deleted(o) == IF ~Exists(o) THEN o
              ELSE IF o.fin THEN [o EXCEPT !.del = TRUE] ELSE NoObj

CacheSync ==
  /\ CacheLag
  /\ cache # obj \/ stale # {}
  /\ cache' = obj /\ stale' = {}
  /\ UNCHANGED <<cr, spec, obj, omni, cvars, mvars, bounds>>

-----------------------------------------------------------------------------
(* Omni.                                                                   *)

\* The available label of a machine, as SelectAvailableMachines sees it.
Available(u) == IF LabelLag THEN avail[u] ELSE ~Bound(u)

LabelSync(u) ==
  /\ LabelLag /\ avail[u] = Bound(u)
  /\ avail' = [avail EXCEPT ![u] = ~Bound(u)]
  /\ UNCHANGED <<kube, mset, node, custom, healthy, cvars, mvars, bounds>>

\* A machine joins its cluster and becomes healthy, or fails.
HealthFlip(u) ==
  /\ flips < MaxFlips /\ Bound(u)
  /\ healthy' = [healthy EXCEPT ![u] = ~@]
  /\ flips' = flips + 1
  /\ UNCHANGED <<kube, mset, node, avail, custom, cvars, mvars, edits, faults>>

\* teardownAndDestroy of a MachineSetNode: a missing one counts as deleted;
\* otherwise it is marked, and destroyed once Omni has released it.
NodeDestroyed(u) == node' = [node EXCEPT ![u] = NoNode]
NodeTearing(u)   == Bound(u) /\ node' = [node EXCEPT ![u].tearing = TRUE]

=============================================================================
