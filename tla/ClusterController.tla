------------------------- MODULE ClusterController -------------------------
(***************************************************************************)
(* OmniClusterReconciler: allocates machines to the declared sets by       *)
(* creating and deleting Machine objects, prunes sets that are no longer   *)
(* declared, and tears everything down when the OmniCluster is deleted.    *)
(* One worker; a pass is a sequence of steps between which the Machine     *)
(* controller, Omni and the user move.                                     *)
(***************************************************************************)
EXTENDS FleetState

\* Writes of the cluster pass to Machine objects.
CWrite(f) ==
  /\ Persist(f)
  /\ mfresh' = (mfresh /\ mkey \notin Changed(f))

mrest == <<mpc, mkey, mtmpl>>

\* A fault to test against: one machine too many.
FirstAndOne(k, S) == {u \in S : Cardinality({v \in S : v < u}) <= k}

\* The k smallest of a set of UUIDs: sort.Strings, then a prefix.
First(k, S) == {u \in S : Cardinality({v \in S : v < u}) < k}

listMachineSetMachines(s) == {u \in UUIDs : cache[u].set = s}
listClusterMachines == {u \in UUIDs : Exists(cache[u])}

\* createMachine: AlreadyExists is tolerated, whoever the object belongs to.
createMachines(S, s) ==
  [u \in UUIDs |-> IF u \in S /\ ~Exists(obj[u])
                   THEN [set |-> s, fin |-> FALSE, del |-> FALSE,
                         tmpl |-> cspec.tmpl]
                   ELSE obj[u]]

\* deleteMachine: an object whose listed copy is being deleted is skipped.
Undeleted(S) == {u \in S : ~cache[u].del}
deleteMachines(S) ==
  [u \in UUIDs |-> IF u \in S THEN Deleted(obj[u]) ELSE obj[u]]

AllocatedMachineSetNodes(s) == {u \in UUIDs : node[u].set = s}

machineHealthy(s, u) == node[u].set = s /\ healthy[u]

\* A fault to test against: the machines being deleted are not reset.
CEndPassKept ==
  /\ cpc' = "idle" /\ ctodo' = {} /\ cset' = NoSet
  /\ cexist' = {} /\ cnew' = {} /\ csync' = {} /\ cfresh' = {} /\ claimed' = {}
  /\ UNCHANGED cdel
  /\ calloc' = [s \in Sets |-> {}]

CEndPass ==
  /\ cpc' = "idle" /\ ctodo' = {} /\ cset' = NoSet
  /\ cexist' = {} /\ cnew' = {} /\ cdel' = {} /\ csync' = {} /\ cfresh' = {}
  /\ claimed' = {}
  /\ calloc' = [s \in Sets |-> {}]

-----------------------------------------------------------------------------
(* Allocation, one set at a time: the control plane first, then the worker *)
(* sets in the order the spec lists them, which is the user's.             *)

\* A spec as the API server stores an Update of it by this program: replicas
\* of 0 are omitted from the request, and the CRD's default is 1.
Defaulted(sp) ==
  [sp EXCEPT !.rep = [s \in Sets |-> IF s \in sp.sets /\ sp.rep[s] = 0
                                     THEN 1 ELSE sp.rep[s]]]

\* The first pass over an OmniCluster only adds its finalizer.
AddFinalizer ==
  /\ cpc = "idle" /\ cr = "new"
  /\ cr' = "live" /\ spec' = Defaulted(spec)
  /\ UNCHANGED <<obj, cache, stale, omni, cvars, mvars, bounds>>

\* Get the OmniCluster, ensure the cluster exists in Omni.
Begin ==
  /\ cpc = "idle" /\ cr = "live"
  /\ cpc' = "list" /\ cspec' = spec /\ ctodo' = spec.sets
  /\ UNCHANGED <<kube, omni, cset, cexist, cnew, cdel, csync, cfresh, claimed, calloc,
                 mvars, bounds>>

NextSet(s) == s \in ctodo /\ (CP \in ctodo => s = CP)

\* EnsureMachineSet, then the cached list of the set's Machine objects.
List(s) ==
  /\ cpc = "list" /\ NextSet(s)
  /\ mset' = IF mset[s] = "absent" THEN [mset EXCEPT ![s] = "bare"] ELSE mset
  /\ cpc' = "adopt" /\ cset' = s /\ ctodo' = ctodo \ {s}
  /\ cexist' = listMachineSetMachines(s)
  /\ cdel' = {u \in listMachineSetMachines(s) : cache[u].del}
  /\ csync' = {u \in listMachineSetMachines(s) : cache[u].tmpl # cspec.tmpl}
  /\ cfresh' = UUIDs \ stale
  /\ UNCHANGED <<kube, node, avail, custom, healthy, cspec, cnew, claimed, calloc,
                 mvars, bounds>>

\* A fault to test against: machines bound without an object are not counted.
AdoptNone == {}

\* Machines bound to the set in Omni without an object among those listed.
AdoptSet == AllocatedMachineSetNodes(cset) \ cexist

\* They get a Machine object and count as active; all of the set is claimed.
Adopt ==
  /\ cpc = "adopt"
  /\ CWrite(createMachines(AdoptSet, cset))
  /\ cnew' = AdoptSet
  /\ claimed' = claimed \cup cexist \cup AdoptSet
  /\ cpc' = "scale"
  /\ UNCHANGED <<cr, spec, omni, cspec, ctodo, cset, cexist, cdel, csync, cfresh, calloc,
                 mrest, bounds>>

desired == cspec.rep[cset]

\* A fault to test against: machines being deleted count as active.
activeAll == cexist \cup cnew

active == (cexist \ cdel) \cup cnew
needed == desired - Cardinality(active)

SelectAvailableMachines ==
  First(needed + Cardinality(claimed), {u \in UUIDs : Available(u)})

fresh == First(needed, SelectAvailableMachines \ claimed)

ScaleUp ==
  /\ cpc = "scale" /\ needed > 0
  /\ Cardinality(fresh) >= needed
  /\ CWrite(createMachines(fresh, cset))
  /\ claimed' = claimed \cup fresh
  /\ cnew' = cnew \cup fresh /\ cexist' = cexist \ cdel /\ cdel' = {}
  /\ cpc' = "settle"
  /\ UNCHANGED <<cr, spec, omni, cspec, ctodo, cset, csync, cfresh, calloc, mrest, bounds>>

\* "not enough available machines": nothing is created, the pass fails.
ScaleUpShort ==
  /\ cpc = "scale" /\ needed > 0
  /\ Cardinality(fresh) < needed
  /\ CEndPass
  /\ UNCHANGED <<kube, omni, cspec, mvars, bounds>>

\* Unhealthy machines first, then by name.
Unhealthy == {u \in active : ~machineHealthy(cset, u)}
RemovalOrder(k) ==
  IF k <= Cardinality(Unhealthy) THEN First(k, Unhealthy)
  ELSE Unhealthy \cup First(k - Cardinality(Unhealthy), active \ Unhealthy)

\* A fault to test against: teardowns under way are not waited for.
toRemoveEager ==
  IF cset # CP THEN -needed
  ELSE IF Unhealthy = {} THEN 0 ELSE 1

\* How many machines to remove: all of the excess of a worker set; of the
\* control plane at most one, none while one is tearing down, and never a
\* healthy one.
toRemove ==
  IF cset # CP THEN -needed
  ELSE IF cdel # {} \/ Unhealthy = {} THEN 0 ELSE 1

ScaleDown ==
  /\ cpc = "scale" /\ needed < 0
  /\ CWrite(deleteMachines(RemovalOrder(toRemove)))
  /\ cexist' = (cexist \ cdel) \ RemovalOrder(toRemove)
  /\ cnew' = cnew \ RemovalOrder(toRemove) /\ cdel' = {}
  /\ cpc' = "settle"
  /\ UNCHANGED <<cr, spec, omni, cspec, ctodo, cset, csync, cfresh, claimed, calloc,
                 mrest, bounds>>

ScaleNone ==
  /\ cpc = "scale" /\ needed = 0
  /\ cexist' = cexist \ cdel /\ cdel' = {}
  /\ cpc' = "settle"
  /\ UNCHANGED <<kube, omni, cspec, ctodo, cset, cnew, csync, cfresh, claimed, calloc,
                 mvars, bounds>>

\* A fault to test against: nothing is written.
syncNone(S) == obj

\* syncMachineSpec writes the set's customisation into the machines kept,
\* where their listed copy differs.
syncMachines(S) ==
  [u \in UUIDs |-> IF u \in S THEN [obj[u] EXCEPT !.tmpl = cspec.tmpl] ELSE obj[u]]

\* All machines are in sync; then the set's extensions follow the spec.
Settle ==
  /\ cpc = "settle" /\ cexist \cap csync \subseteq cfresh
  /\ CWrite(syncMachines(cexist \cap csync))
  /\ mset' = IF mset[cset] = "tearing" THEN mset
             ELSE [mset EXCEPT ![cset] = IF cspec.tmpl = 2 THEN "extended" ELSE "bare"]
  /\ calloc' = [calloc EXCEPT ![cset] = cexist \cup cnew]
  /\ cpc' = IF ctodo = {} THEN "prune" ELSE "list"
  /\ cset' = NoSet /\ cexist' = {} /\ cnew' = {} /\ cdel' = {}
  /\ csync' = {} /\ cfresh' = {}
  /\ UNCHANGED <<cr, spec, node, avail, custom, healthy, cspec, ctodo, claimed,
                 mrest, bounds>>

\* The Update of an outdated copy is refused, which fails the pass; some of
\* the others have been written before.
SettleConflict ==
  /\ cpc = "settle" /\ ~(cexist \cap csync \subseteq cfresh)
  /\ \E S \in SUBSET (cexist \cap csync \cap cfresh) : CWrite(syncMachines(S))
  /\ CEndPass
  /\ UNCHANGED <<cr, spec, omni, cspec, mrest, bounds>>

-----------------------------------------------------------------------------
(* Pruning of sets that exist in Omni and are not declared.                *)

Orphans == {s \in Sets : mset[s] # "absent"} \ cspec.sets

\* The last step of a pass over a live OmniCluster: its status is written.
PruneDone ==
  /\ cpc = "prune" /\ Orphans = {}
  /\ CEndPass
  /\ UNCHANGED <<kube, omni, cspec, mvars, bounds>>

\* deleteMachineSetMachines: while any Machine is listed the pass fails.
PruneDelete(s) ==
  /\ cpc = "prune" /\ s \in Orphans
  /\ listMachineSetMachines(s) # {}
  /\ CWrite(deleteMachines(Undeleted(listMachineSetMachines(s))))
  /\ CEndPass
  /\ UNCHANGED <<cr, spec, omni, cspec, mrest, bounds>>

\* A fault to test against: the set is not waited for.
AllUnwoundUnchecked(L) == TRUE

\* No Machine object of the set is listed any more.
AllUnwound(L) == L = {}

\* The backstop releases the bindings N left without an object; all of them
\* are gone, or Omni is still tearing one down, which fails the pass.  (Here
\* and below, Omni finishes a teardown before the next try; CFail is a try
\* that comes too early.)
Released(N) ==
  /\ node' = [u \in UUIDs |-> IF u \in N THEN NoNode ELSE node[u]]
  /\ custom' = [u \in UUIDs |-> IF u \in N THEN NoTmpl ELSE custom[u]]

\* releaseMachineOmni is done with D, and has left x with binding n and
\* customisation c.
ReleasedButOne(D, x, n, c) ==
  /\ node' = [u \in UUIDs |-> IF u \in D THEN NoNode
                              ELSE IF u = x THEN n ELSE node[u]]
  /\ custom' = [u \in UUIDs |-> IF u \in D THEN NoTmpl
                                ELSE IF u = x THEN c ELSE custom[u]]

ReleaseWaits(N) ==
  \E x \in {u \in N : ~node[u].tearing} : \E D \in SUBSET (N \ {x}) :
    ReleasedButOne(D, x, [node[x] EXCEPT !.tearing = TRUE], custom[x])

\* One of the calls on a machine fails: unbinding it, or removing its config
\* patches or its kernel args.
ReleaseBreaks(N) ==
  \E x \in N : \E D \in SUBSET (N \ {x}) :
    \/ ReleasedButOne(D, x, node[x], custom[x])
    \/ ReleasedButOne(D, x, NoNode, custom[x])
    \/ custom[x] # NoTmpl /\ ReleasedButOne(D, x, NoNode, Partial)

PruneRelease(s) ==
  /\ cpc = "prune" /\ s \in Orphans /\ AllUnwound(listMachineSetMachines(s))
  /\ Released(AllocatedMachineSetNodes(s))
  /\ cpc' = "drop" /\ cset' = s /\ cfresh' = UUIDs \ stale
  /\ UNCHANGED <<kube, mset, avail, healthy, cspec, ctodo, cexist, cnew, cdel,
                 csync, claimed, calloc, mvars, bounds>>

PruneReleaseWait(s) ==
  /\ cpc = "prune" /\ s \in Orphans /\ AllUnwound(listMachineSetMachines(s))
  /\ ReleaseWaits(AllocatedMachineSetNodes(s))
  /\ CEndPass
  /\ UNCHANGED <<kube, mset, avail, healthy, cspec, mvars, bounds>>

\* The set's extensions and the set itself are removed, or it is being torn
\* down, which fails the pass.
PruneDrop ==
  /\ cpc = "drop"
  /\ mset' = [mset EXCEPT ![cset] = "absent"]
  /\ cpc' = "prune" /\ cset' = NoSet
  /\ UNCHANGED <<kube, node, avail, custom, healthy, cspec, ctodo, cexist, cnew,
                 cdel, csync, cfresh, claimed, calloc, mvars, bounds>>

PruneDropWait ==
  /\ cpc = "drop" /\ mset[cset] # "tearing"
  /\ mset' = [mset EXCEPT ![cset] = "tearing"]
  /\ CEndPass
  /\ UNCHANGED <<kube, node, avail, custom, healthy, cspec, mvars, bounds>>

-----------------------------------------------------------------------------
(* Deletion of the OmniCluster.                                            *)

\* Every listed Machine is deleted; while any is listed the pass fails.
DeleteMachines ==
  /\ cpc = "idle" /\ cr = "deleting" /\ listClusterMachines # {}
  /\ CWrite(deleteMachines(Undeleted(listClusterMachines)))
  /\ UNCHANGED <<cr, spec, omni, cvars, mrest, bounds>>

ClusterNodes == {u \in UUIDs : Bound(u) /\ mset[node[u].set] # "absent"}

DeleteRelease ==
  /\ cpc = "idle" /\ cr = "deleting" /\ AllUnwound(listClusterMachines)
  /\ Released(ClusterNodes)
  /\ cpc' = "dropall" /\ cfresh' = UUIDs \ stale
  /\ UNCHANGED <<kube, mset, avail, healthy, cspec, ctodo, cset, cexist, cnew,
                 cdel, csync, claimed, calloc, mvars, bounds>>

DeleteReleaseWait ==
  /\ cpc = "idle" /\ cr = "deleting" /\ AllUnwound(listClusterMachines)
  /\ ReleaseWaits(ClusterNodes)
  /\ UNCHANGED <<kube, mset, avail, healthy, cvars, mvars, bounds>>

DeleteDrop(s) ==
  /\ cpc = "dropall" /\ mset[s] # "absent"
  /\ mset' = [mset EXCEPT ![s] = "absent"]
  /\ UNCHANGED <<kube, node, avail, custom, healthy, cvars, mvars, bounds>>

DeleteDropWait(s) ==
  /\ cpc = "dropall" /\ mset[s] \notin {"absent", "tearing"}
  /\ mset' = [mset EXCEPT ![s] = "tearing"]
  /\ CEndPass
  /\ UNCHANGED <<kube, node, avail, custom, healthy, cspec, mvars, bounds>>

\* The Omni cluster is deleted, then the finalizer of the OmniCluster.
DeleteDone ==
  /\ cpc = "dropall" /\ \A s \in Sets : mset[s] = "absent"
  /\ cr' = "gone"
  /\ CEndPass
  /\ UNCHANGED <<spec, obj, cache, stale, omni, cspec, mvars, bounds>>

\* The writes to Machine objects that a step makes one after the other: each
\* set holds what the API server has after some of them.
PartWrites ==
  CASE cpc = "adopt" -> {createMachines(S, cset) : S \in SUBSET AdoptSet}
    [] cpc = "scale" /\ needed > 0 /\ Cardinality(fresh) >= needed ->
         {createMachines(First(k, fresh), cset) : k \in 0..needed}
    [] cpc = "scale" /\ needed < 0 ->
         {deleteMachines(RemovalOrder(k)) : k \in 0..toRemove}
    [] cpc = "settle" ->
         {syncMachines(S) : S \in SUBSET (cexist \cap csync \cap cfresh)}
    [] cpc = "prune" /\ Orphans # {} ->
         UNION {{deleteMachines(S) : S \in SUBSET Undeleted(listMachineSetMachines(s))} :
                s \in Orphans}
    [] cpc = "idle" -> {deleteMachines(S) : S \in SUBSET Undeleted(listClusterMachines)}
    [] OTHER -> {obj}

\* An Omni or API call of the pass fails, with the writes before it done;
\* setFailure, or in a deletion a plain error, and a retry.
CFails ==
  /\ faults < MaxFaults /\ faults' = faults + 1
  /\ CEndPass
  /\ UNCHANGED <<cr, spec, avail, healthy, cspec, mrest, edits, flips>>

CFail ==
  /\ cpc # "idle" \/ (cr = "deleting" /\ ~AllUnwound(listClusterMachines))
  /\ \E f \in PartWrites : CWrite(f)
  /\ CFails
  /\ UNCHANGED <<mset, node, custom>>

\* A call fails while the backstop releases bindings.
CFailRelease ==
  /\ \/ /\ cpc = "prune"
        /\ \E s \in Orphans : /\ AllUnwound(listMachineSetMachines(s))
                              /\ ReleaseBreaks(AllocatedMachineSetNodes(s))
     \/ /\ cpc = "idle" /\ cr = "deleting" /\ AllUnwound(listClusterMachines)
        /\ ReleaseBreaks(ClusterNodes)
  /\ CFails
  /\ UNCHANGED <<obj, cache, stale, mfresh, mset>>

\* A set's extensions are removed, and the removal of the set fails.
CFailDrop(s) ==
  /\ cpc = "dropall" \/ (cpc = "drop" /\ s = cset)
  /\ mset[s] = "extended" /\ mset' = [mset EXCEPT ![s] = "bare"]
  /\ CFails
  /\ UNCHANGED <<obj, cache, stale, mfresh, node, custom>>

Allocate ==
  \/ AddFinalizer \/ Begin \/ (\E s \in Sets : List(s)) \/ Adopt
  \/ ScaleUp \/ ScaleUpShort
  \/ ScaleDown \/ ScaleNone \/ Settle \/ SettleConflict

Prune ==
  \/ PruneDone \/ PruneDrop \/ PruneDropWait
  \/ \E s \in Sets : PruneDelete(s) \/ PruneRelease(s) \/ PruneReleaseWait(s)

Teardown ==
  \/ DeleteMachines \/ DeleteRelease \/ DeleteReleaseWait \/ DeleteDone
  \/ \E s \in Sets : DeleteDrop(s) \/ DeleteDropWait(s)

Broken == CFail \/ CFailRelease \/ \E s \in Sets : CFailDrop(s)

ClusterPass == Allocate \/ Prune \/ Teardown \/ Broken

=============================================================================
