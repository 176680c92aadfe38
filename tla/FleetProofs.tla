---------------------------- MODULE FleetProofs ----------------------------
(***************************************************************************)
(* Proofs about Fleet, for every set of machines, sets and specs, with a   *)
(* lagging cache, and whatever the bounds: type correctness, no leaked     *)
(* binding or customisation, and the implementation of MachineLifecycle.   *)
(***************************************************************************)
EXTENDS Fleet, TLAPS

\* A cached copy that is not marked outdated is the object.
CacheInv ==
  /\ ~CacheLag => stale = {}
  /\ \A u \in UUIDs \ stale : cache[u] = obj[u]

\* Outside of a set's allocation nothing is listed; a listed copy that is still current
\* is of an object that still exists.
PassInv ==
  /\ cpc \notin {"adopt", "scale", "settle"} => cexist = {}
  /\ cr \in {"new", "gone"} => cpc = "idle"
  /\ cpc \in {"adopt", "scale", "settle", "drop"} => cset \in Sets
  /\ \A u \in cexist \cap cfresh : Exists(obj[u])

\* What an outdated copy of a Machine still tells of the object.
ObjInv ==
  \A u \in UUIDs :
    /\ obj[u].del => obj[u].fin
    /\ Live(cache[u]) /\ cache[u].fin => obj[u].fin /\ obj[u].set = cache[u].set
    /\ cache[u].del /\ cache[u].fin => obj[u].del \/ ~obj[u].fin

\* What a pass over a Machine knows at each of its steps.
MachineInv ==
  /\ mpc = "configure" =>
       /\ obj[mkey].fin /\ cache[mkey].fin /\ cache[mkey].set = obj[mkey].set
       /\ mtmpl \in Templates
  /\ mpc \in {"clean", "unfinalize"} =>
       /\ ~Bound(mkey)
       /\ obj[mkey].del \/ ~obj[mkey].fin
       /\ mfresh => obj[mkey].del /\ cache[mkey].del
  /\ mpc = "unfinalize" => custom[mkey] = NoTmpl

\* What is held of a machine is known to the API server and to the cache.
HeldInv ==
  /\ \A u \in Fronted : Bound(u) =>
       /\ obj[u].fin /\ obj[u].set = node[u].set
       /\ cache[u].fin /\ cache[u].set = node[u].set
  /\ \A u \in UUIDs : custom[u] # NoTmpl =>
       obj[u].fin /\ cache[u].fin /\ cache[u].set = obj[u].set

IInv == TypeOK /\ CacheInv /\ PassInv /\ ObjInv /\ MachineInv /\ HeldInv

-----------------------------------------------------------------------------
(* The kinds of steps, as far as Machine objects and what is held of       *)
(* machines are concerned.                                                 *)

\* What a write by the cluster controller or a garbage collection may do to a
\* Machine object: nothing, create it, remove or mark it, or sync it.
ObjMove(o, p) ==
  \/ p = o
  \/ o = NoObj /\ Live(p) /\ ~p.fin
  \/ Exists(o) /\ ~o.fin /\ p = NoObj
  \/ o.fin /\ p = [o EXCEPT !.del = TRUE]
  \/ Exists(o) /\ \E t \in Templates : p = [o EXCEPT !.tmpl = t]

ClusterWrites(f) ==
  f \in [UUIDs -> MachineObj] /\ \A u \in UUIDs : ObjMove(obj[u], f[u])

ClusterWriteStep ==
  /\ ClusterWrites(obj') /\ CWrite(obj')
  /\ UNCHANGED <<node, custom, mpc, mkey, mtmpl>>

QuietStep == UNCHANGED <<obj, cache, stale, node, custom, mvars>>

\* The cache catches up, by itself or by a restart.
SyncStep ==
  /\ cache' = obj /\ stale' = {}
  /\ UNCHANGED <<obj, node, custom>>
  /\ UNCHANGED mvars \/ MEndPass

\* Bindings of machines that no cached Machine object fronts are released.
ReleaseStep ==
  /\ UNCHANGED <<obj, cache, stale, mvars>>
  /\ node' \in [UUIDs -> Node]
  /\ custom' \in [UUIDs -> Templates \cup {NoTmpl, Partial}]
  /\ \A u \in UUIDs :
       \/ node'[u] = node[u] /\ custom'[u] = custom[u]
       \/ /\ Bound(u) /\ cache[u].set # node[u].set
          /\ node'[u] = NoNode /\ (custom'[u] # NoTmpl => custom[u] # NoTmpl)
       \/ /\ Bound(u) /\ custom'[u] = custom[u]
          /\ node'[u].set = node[u].set

MachineStep ==
  \/ \E u \in UUIDs : \/ MAddFinalizer(u) \/ MBind(u) \/ MBindFail(u)
                      \/ MUnbindWait(u) \/ MUnbind(u)
  \/ MConfigure \/ MClean \/ MUnfinalize \/ MFail

\* createMachines, deleteMachines and syncMachines are writes of that kind.
LEMMA CreateMoves ==
  ASSUME TypeOK, NEW S, NEW s \in Sets
  PROVE  ClusterWrites(createMachines(S, s))
<1>1. cspec.tmpl \in Templates
  BY DEF TypeOK, PassTypeOK, SpecType
<1>2. NoSet \notin Sets
  BY FleetAssumption
<1> QED
  BY <1>1, <1>2 DEF ClusterWrites, ObjMove, createMachines, TypeOK, KubeTypeOK,
     MachineObj, NoObj, Exists, Live

LEMMA DeletedMoves ==
  ASSUME NEW o \in MachineObj
  PROVE  Deleted(o) \in MachineObj /\ ObjMove(o, Deleted(o))
<1>1. CASE ~Exists(o)
  BY <1>1 DEF Deleted, ObjMove
<1>2. CASE Exists(o) /\ o.fin
  <2>1. Deleted(o) = [o EXCEPT !.del = TRUE]
    BY <1>2 DEF Deleted
  <2>2. o \in [set: Sets, fin: BOOLEAN, del: BOOLEAN, tmpl: Templates]
    BY <1>2 DEF MachineObj, NoObj, Exists
  <2>3. [o EXCEPT !.del = TRUE] \in MachineObj
    BY <2>2 DEF MachineObj
  <2> QED
    BY <1>2, <2>1, <2>3 DEF ObjMove
<1>3. CASE Exists(o) /\ ~o.fin
  BY <1>3 DEF Deleted, ObjMove, MachineObj
<1> QED
  BY <1>1, <1>2, <1>3

LEMMA DeleteMoves ==
  ASSUME TypeOK, NEW S
  PROVE  ClusterWrites(deleteMachines(S))
<1>1. \A u \in UUIDs : obj[u] \in MachineObj
  BY DEF TypeOK, KubeTypeOK
<1> QED
  BY <1>1, DeletedMoves DEF ClusterWrites, ObjMove, deleteMachines

LEMMA SyncMoves ==
  ASSUME TypeOK, PassInv, NEW S, S \subseteq cexist \cap cfresh
  PROVE  ClusterWrites(syncMachines(S))
<1>1. cspec.tmpl \in Templates
  BY DEF TypeOK, PassTypeOK, SpecType
<1>2. \A u \in S : u \in UUIDs /\ Exists(obj[u])
  BY DEF TypeOK, PassTypeOK, PassInv
<1>3. \A u \in S : [obj[u] EXCEPT !.tmpl = cspec.tmpl] \in MachineObj
  BY <1>1, <1>2 DEF TypeOK, KubeTypeOK, MachineObj, NoObj, Exists
<1> QED
  BY <1>1, <1>2, <1>3 DEF ClusterWrites, ObjMove, syncMachines, TypeOK, KubeTypeOK

\* The backstop only releases machines no listed Machine object fronts: so do
\* pruning and teardown.
LEMMA BackstopReleases ==
  ASSUME TypeOK, NEW N, N \subseteq UUIDs,
         \A u \in N : Bound(u) /\ cache[u].set # node[u].set,
         UNCHANGED <<obj, cache, stale, mvars>>,
         Released(N) \/ ReleaseWaits(N) \/ ReleaseBreaks(N)
  PROVE  ReleaseStep
<1>1. \A u \in N : [node[u] EXCEPT !.tearing = TRUE] \in Node
                  /\ [node[u] EXCEPT !.tearing = TRUE].set = node[u].set
  <2> SUFFICES ASSUME NEW u \in N
               PROVE  [node[u] EXCEPT !.tearing = TRUE] \in Node
                      /\ [node[u] EXCEPT !.tearing = TRUE].set = node[u].set
    OBVIOUS
  <2>1. node[u] \in [set: Sets, tearing: BOOLEAN]
    BY DEF TypeOK, OmniTypeOK, Node, NoNode, Bound
  <2> QED
    BY <2>1 DEF Node
<1>2. NoNode \in Node /\ NoTmpl \in Templates \cup {NoTmpl, Partial}
  BY DEF Node
<1>3. CASE Released(N)
  BY <1>2, <1>3 DEF ReleaseStep, Released, TypeOK, OmniTypeOK
<1>4. ASSUME NEW x \in N, NEW D \in SUBSET (N \ {x}), NEW n \in Node,
             NEW c \in Templates \cup {NoTmpl, Partial},
             ReleasedButOne(D, x, n, c),
             \/ n.set = node[x].set /\ c = custom[x]
             \/ n = NoNode /\ (c # NoTmpl => custom[x] # NoTmpl)
      PROVE  ReleaseStep
  <2>1. node' \in [UUIDs -> Node] /\ custom' \in [UUIDs -> Templates \cup {NoTmpl, Partial}]
    BY <1>2, <1>4 DEF ReleasedButOne, TypeOK, OmniTypeOK
  <2>2. x \in UUIDs /\ x \notin D /\ D \subseteq N
    OBVIOUS
  <2> QED
    BY <1>4, <2>1, <2>2 DEF ReleaseStep, ReleasedButOne
<1>5. CASE ReleaseWaits(N)
  <2>1. PICK x \in N : \E D \in SUBSET (N \ {x}) :
          ReleasedButOne(D, x, [node[x] EXCEPT !.tearing = TRUE], custom[x])
    BY <1>5 DEF ReleaseWaits
  <2>2. custom[x] \in Templates \cup {NoTmpl, Partial}
    BY DEF TypeOK, OmniTypeOK
  <2> QED
    BY <1>1, <1>4, <2>1, <2>2
<1>6. CASE ReleaseBreaks(N)
  <2>1. PICK x \in N : \E D \in SUBSET (N \ {x}) :
          \/ ReleasedButOne(D, x, node[x], custom[x])
          \/ ReleasedButOne(D, x, NoNode, custom[x])
          \/ custom[x] # NoTmpl /\ ReleasedButOne(D, x, NoNode, Partial)
    BY <1>6 DEF ReleaseBreaks
  <2>2. custom[x] \in Templates \cup {NoTmpl, Partial} /\ node[x] \in Node
    BY DEF TypeOK, OmniTypeOK
  <2> QED
    BY <1>2, <1>4, <2>1, <2>2
<1> QED
  BY <1>3, <1>5, <1>6

LEMMA PruneReleases ==
  ASSUME TypeOK, NEW s \in Sets, PruneRelease(s) \/ PruneReleaseWait(s)
  PROVE  ReleaseStep
<1> DEFINE N == AllocatedMachineSetNodes(s)
<1>1. \A u \in N : u \in UUIDs /\ Bound(u) /\ cache[u].set # node[u].set
  BY FleetAssumption DEF PruneRelease, PruneReleaseWait, AllUnwound,
     listMachineSetMachines, AllocatedMachineSetNodes, Bound
<1>2. UNCHANGED <<obj, cache, stale, mvars>>
  BY DEF PruneRelease, PruneReleaseWait, kube, mvars
<1>3. Released(N) \/ ReleaseWaits(N)
  BY DEF PruneRelease, PruneReleaseWait
<1> HIDE DEF N
<1> QED
  BY <1>1, <1>2, <1>3, BackstopReleases

LEMMA TeardownReleases ==
  ASSUME TypeOK, DeleteRelease \/ DeleteReleaseWait
  PROVE  ReleaseStep
<1> DEFINE N == ClusterNodes
<1>1. \A u \in N : u \in UUIDs /\ Bound(u) /\ cache[u].set # node[u].set
  BY DEF DeleteRelease, DeleteReleaseWait, AllUnwound, listClusterMachines,
     ClusterNodes, Exists, Bound
<1>2. UNCHANGED <<obj, cache, stale, mvars>>
  BY DEF DeleteRelease, DeleteReleaseWait, kube, mvars
<1>3. Released(N) \/ ReleaseWaits(N)
  BY DEF DeleteRelease, DeleteReleaseWait
<1> HIDE DEF N
<1> QED
  BY <1>1, <1>2, <1>3, BackstopReleases

LEMMA PruneKinds ==
  ASSUME TypeOK, PassInv, Prune
  PROVE  ClusterWriteStep \/ QuietStep \/ ReleaseStep
<1>1. CASE PruneDone \/ PruneDrop \/ PruneDropWait
  BY <1>1 DEF PruneDone, PruneDrop, PruneDropWait, QuietStep, kube, omni, mvars
<1>2. ASSUME NEW s \in Sets, PruneDelete(s)
      PROVE  ClusterWriteStep
  <2>1. PICK S : CWrite(deleteMachines(S))
    BY <1>2 DEF PruneDelete
  <2>2. obj' = deleteMachines(S)
    BY <2>1 DEF CWrite, Persist
  <2> QED
    BY <1>2, <2>1, <2>2, DeleteMoves DEF ClusterWriteStep, PruneDelete, omni, mrest
<1>3. ASSUME NEW s \in Sets, PruneRelease(s) \/ PruneReleaseWait(s)
      PROVE  ReleaseStep
  BY <1>3, PruneReleases
<1> QED
  BY <1>1, <1>2, <1>3 DEF Prune

LEMMA TeardownKinds ==
  ASSUME TypeOK, PassInv, Teardown
  PROVE  ClusterWriteStep \/ QuietStep \/ ReleaseStep
<1>1. CASE DeleteMachines
  <2>1. PICK S : CWrite(deleteMachines(S))
    BY <1>1 DEF DeleteMachines
  <2>2. obj' = deleteMachines(S)
    BY <2>1 DEF CWrite, Persist
  <2> QED
    BY <1>1, <2>1, <2>2, DeleteMoves DEF ClusterWriteStep, DeleteMachines, omni, mrest
<1>2. CASE DeleteRelease \/ DeleteReleaseWait
  BY <1>2, TeardownReleases
<1>3. ASSUME NEW s \in Sets, DeleteDrop(s) \/ DeleteDropWait(s)
      PROVE  QuietStep
  BY <1>3 DEF DeleteDrop, DeleteDropWait, QuietStep, kube, mvars
<1>4. CASE DeleteDone
  BY <1>4 DEF DeleteDone, QuietStep, omni, mvars
<1> QED
  BY <1>1, <1>2, <1>3, <1>4 DEF Teardown

LEMMA AllocateKinds ==
  ASSUME TypeOK, PassInv, Allocate
  PROVE  ClusterWriteStep \/ QuietStep
<1>1. CASE AddFinalizer \/ Begin \/ ScaleUpShort \/ ScaleNone
  BY <1>1 DEF AddFinalizer, Begin, ScaleUpShort, ScaleNone, QuietStep, kube, omni, mvars
<1>2. ASSUME NEW s \in Sets, List(s)
      PROVE  QuietStep
  BY <1>2 DEF List, QuietStep, kube, mvars
<1>3. CASE Adopt \/ ScaleUp
  <2>1. cset \in Sets
    BY <1>3 DEF Adopt, ScaleUp, PassInv
  <2>2. PICK S : CWrite(createMachines(S, cset))
    BY <1>3 DEF Adopt, ScaleUp
  <2>3. obj' = createMachines(S, cset)
    BY <2>2 DEF CWrite, Persist
  <2>4. UNCHANGED <<node, custom, mpc, mkey, mtmpl>>
    BY <1>3 DEF Adopt, ScaleUp, omni, mrest
  <2> QED
    BY <2>1, <2>2, <2>3, <2>4, CreateMoves DEF ClusterWriteStep
<1>4. CASE ScaleDown
  <2>1. PICK S : CWrite(deleteMachines(S))
    BY <1>4 DEF ScaleDown
  <2>2. obj' = deleteMachines(S)
    BY <2>1 DEF CWrite, Persist
  <2> QED
    BY <1>4, <2>1, <2>2, DeleteMoves DEF ClusterWriteStep, ScaleDown, omni, mrest
<1>5. CASE Settle \/ SettleConflict
  <2>1. PICK S \in SUBSET (cexist \cap cfresh) : CWrite(syncMachines(S))
    BY <1>5 DEF Settle, SettleConflict
  <2>2. obj' = syncMachines(S)
    BY <2>1 DEF CWrite, Persist
  <2>3. UNCHANGED <<node, custom, mpc, mkey, mtmpl>>
    BY <1>5 DEF Settle, SettleConflict, omni, mrest
  <2> QED
    BY <2>1, <2>2, <2>3, SyncMoves DEF ClusterWriteStep
<1> QED
  BY <1>1, <1>2, <1>3, <1>4, <1>5 DEF Allocate

\* What a failing call leaves behind.
LEMMA BrokenWrites ==
  ASSUME TypeOK, PassInv, CFail
  PROVE  ClusterWriteStep
<1>1. PICK f \in PartWrites : CWrite(f)
  BY DEF CFail
<1>2. ClusterWrites(obj)
  BY DEF ClusterWrites, ObjMove, TypeOK, KubeTypeOK
<1>3. ClusterWrites(f)
  <2>1. CASE cpc = "adopt"
    BY <1>1, <2>1, CreateMoves DEF PartWrites, PassInv
  <2>2. CASE cpc = "scale"
    <3>1. cset \in Sets
      BY <2>2 DEF PassInv
    <3>2. \/ \E S : f = createMachines(S, cset)
          \/ \E S : f = deleteMachines(S)
          \/ f = obj
      BY <1>1, <2>2 DEF PartWrites
    <3> QED
      BY <1>2, <3>1, <3>2, CreateMoves, DeleteMoves
  <2>3. CASE cpc = "settle"
    <3>1. PICK S \in SUBSET (cexist \cap csync \cap cfresh) : f = syncMachines(S)
      BY <1>1, <2>3 DEF PartWrites
    <3>2. S \subseteq cexist \cap cfresh
      OBVIOUS
    <3> QED
      BY <3>1, <3>2, SyncMoves
  <2>4. CASE cpc = "prune" \/ cpc = "idle"
    <3>1. f = obj \/ \E S : f = deleteMachines(S)
      BY <1>1, <2>4 DEF PartWrites
    <3> QED
      BY <1>2, <3>1, DeleteMoves
  <2>5. CASE cpc \notin {"adopt", "scale", "settle", "prune", "idle"}
    BY <1>1, <1>2, <2>5 DEF PartWrites
  <2> QED
    BY <2>1, <2>2, <2>3, <2>4, <2>5
<1>4. obj' = f
  BY <1>1 DEF CWrite, Persist
<1> QED
  BY <1>1, <1>3, <1>4 DEF CFail, CFails, ClusterWriteStep, mrest

LEMMA BrokenReleases ==
  ASSUME TypeOK, CFailRelease
  PROVE  ReleaseStep
<1>1. UNCHANGED <<obj, cache, stale, mvars>>
  BY DEF CFailRelease, CFails, mrest, mvars
<1>2. ASSUME NEW s \in Sets, AllUnwound(listMachineSetMachines(s)),
             ReleaseBreaks(AllocatedMachineSetNodes(s))
      PROVE  ReleaseStep
  <2> DEFINE N == AllocatedMachineSetNodes(s)
  <2>1. \A u \in N : u \in UUIDs /\ Bound(u) /\ cache[u].set # node[u].set
    BY <1>2, FleetAssumption DEF AllUnwound, listMachineSetMachines,
       AllocatedMachineSetNodes, Bound
  <2>2. ReleaseBreaks(N)
    BY <1>2
  <2> HIDE DEF N
  <2> QED
    BY <1>1, <2>1, <2>2, BackstopReleases
<1>3. CASE AllUnwound(listClusterMachines) /\ ReleaseBreaks(ClusterNodes)
  <2> DEFINE N == ClusterNodes
  <2>1. \A u \in N : u \in UUIDs /\ Bound(u) /\ cache[u].set # node[u].set
    BY <1>3 DEF AllUnwound, listClusterMachines, ClusterNodes, Exists, Bound
  <2>2. ReleaseBreaks(N)
    BY <1>3
  <2> HIDE DEF N
  <2> QED
    BY <1>1, <2>1, <2>2, BackstopReleases
<1> QED
  BY <1>2, <1>3 DEF CFailRelease, Orphans

LEMMA BrokenKinds ==
  ASSUME TypeOK, PassInv, Broken
  PROVE  ClusterWriteStep \/ QuietStep \/ ReleaseStep
<1>1. ASSUME NEW s \in Sets, CFailDrop(s)
      PROVE  QuietStep
  BY <1>1 DEF CFailDrop, CFails, QuietStep, mrest, mvars
<1> QED
  BY <1>1, BrokenWrites, BrokenReleases DEF Broken

LEMMA StepKinds ==
  ASSUME TypeOK, PassInv, [Next]_vars
  PROVE  ClusterWriteStep \/ QuietStep \/ SyncStep \/ ReleaseStep \/ MachineStep
<1>1. CASE UNCHANGED vars
  BY <1>1 DEF vars, kube, omni, mvars, QuietStep
<1>2. CASE ClusterPass
  BY <1>2, AllocateKinds, PruneKinds, TeardownKinds, BrokenKinds DEF ClusterPass
<1>3. CASE MachinePass
  BY <1>3 DEF MachinePass, MachineStep
<1>4. CASE Environment
  <2>1. CASE EditSpec \/ DeleteCluster
    BY <2>1 DEF EditSpec, DeleteCluster, QuietStep, omni, mvars
  <2>2. CASE CacheSync
    BY <2>2 DEF CacheSync, SyncStep, omni, mvars
  <2>3. CASE Crash
    BY <2>3 DEF Crash, SyncStep, omni
  <2>4. ASSUME NEW u \in UUIDs, LabelSync(u) \/ HealthFlip(u)
        PROVE  QuietStep
    BY <2>4 DEF LabelSync, HealthFlip, QuietStep, kube, mvars
  <2>5. ASSUME NEW u \in UUIDs, GarbageCollect(u)
        PROVE  ClusterWriteStep
    <3>1. obj' = [obj EXCEPT ![u] = Deleted(@)] /\ CWrite(obj')
      BY <2>5 DEF GarbageCollect, CWrite, Persist
    <3>2. \A v \in UUIDs : obj[v] \in MachineObj
      BY DEF TypeOK, KubeTypeOK
    <3>3. obj' \in [UUIDs -> MachineObj] /\ \A v \in UUIDs : ObjMove(obj[v], obj'[v])
      <4>1. obj \in [UUIDs -> MachineObj]
        BY DEF TypeOK, KubeTypeOK
      <4>2. Deleted(obj[u]) \in MachineObj /\ ObjMove(obj[u], Deleted(obj[u]))
        BY <3>2, DeletedMoves
      <4>3. \A v \in UUIDs : ObjMove(obj[v], obj[v])
        BY DEF ObjMove
      <4> QED
        BY <3>1, <4>1, <4>2, <4>3
    <3> QED
      BY <2>5, <3>1, <3>3 DEF ClusterWriteStep, ClusterWrites, GarbageCollect, omni, mrest
  <2> QED
    BY <1>4, <2>1, <2>2, <2>3, <2>4, <2>5 DEF Environment
<1> QED
  BY <1>1, <1>2, <1>3, <1>4 DEF Next

-----------------------------------------------------------------------------
(* Type correctness, with what it rests on.                                *)

\* Objects and cached copies keep their type, and the cache its invariant.
LEMMA ObjectsKeepType ==
  ASSUME TypeOK, CacheInv, PassInv, [Next]_vars
  PROVE  /\ obj' \in [UUIDs -> MachineObj] /\ cache' \in [UUIDs -> MachineObj]
         /\ stale' \subseteq UUIDs /\ CacheInv'
<1> USE DEF TypeOK, KubeTypeOK, CacheInv
<1>1. CASE ClusterWriteStep
  BY <1>1 DEF ClusterWriteStep, ClusterWrites, CWrite, Persist, Changed
<1>2. CASE QuietStep
  BY <1>2 DEF QuietStep
<1>3. CASE SyncStep
  BY <1>3 DEF SyncStep
<1>4. CASE ReleaseStep
  BY <1>4 DEF ReleaseStep
<1>5. CASE MachineStep
  <2>1. ASSUME NEW u \in UUIDs, MAddFinalizer(u)
        PROVE  /\ obj' \in [UUIDs -> MachineObj] /\ cache' \in [UUIDs -> MachineObj]
               /\ stale' \subseteq UUIDs /\ CacheInv'
    <3>1. cache[u] \in [set: Sets, fin: BOOLEAN, del: BOOLEAN, tmpl: Templates]
      BY <2>1 DEF MAddFinalizer, Live, Exists, MachineObj, NoObj
    <3>2. [cache[u] EXCEPT !.fin = TRUE] \in MachineObj
      BY <3>1 DEF MachineObj
    <3> QED
      BY <2>1, <3>2 DEF MAddFinalizer, MWrite, Persist, Changed
  <2>2. ASSUME NEW u \in UUIDs, MBind(u) \/ MUnbindWait(u) \/ MUnbind(u)
        PROVE  UNCHANGED <<obj, cache, stale>>
    BY <2>2 DEF MBind, MUnbindWait, MUnbind, kube
  <2>3. CASE MClean
    BY <2>3 DEF MClean, kube
  <2>4. CASE MConfigure \/ MFail \/ (\E u \in UUIDs : MBindFail(u))
    BY <2>4 DEF MConfigure, MFail, MBindFail, MStatus, MachinePassTypeOK
  <2>5. CASE MUnfinalize
    <3>1. mkey \in UUIDs /\ NoObj \in MachineObj
      BY <2>5 DEF MUnfinalize, MachinePassTypeOK, MachineObj
    <3> QED
      BY <2>5, <3>1 DEF MUnfinalize, MWrite, Persist, Changed
  <2> QED
    BY <1>5, <2>1, <2>2, <2>3, <2>4, <2>5 DEF MachineStep
<1> QED
  BY <1>1, <1>2, <1>3, <1>4, <1>5, StepKinds

\* The rest of the state.
RestOK ==
  /\ cr \in {"new", "live", "deleting", "gone"} /\ spec \in SpecType
  /\ OmniTypeOK /\ PassTypeOK /\ MachinePassTypeOK
  /\ edits \in 0..MaxEdits /\ faults \in 0..MaxFaults /\ flips \in 0..MaxFlips

LEMMA MachineKeepsRest ==
  ASSUME TypeOK, PassInv, MachineStep
  PROVE  RestOK' /\ PassInv'
<1> USE DEF TypeOK, RestOK, PassInv, crest, MachinePassTypeOK, PassTypeOK
<1>1. ASSUME NEW u \in UUIDs, MAddFinalizer(u)
      PROVE  RestOK' /\ PassInv'
  BY <1>1 DEF MAddFinalizer, MWrite, Persist, omni, mvars, bounds, OmniTypeOK, KubeTypeOK
<1>2. ASSUME NEW u \in UUIDs, MBind(u)
      PROVE  RestOK' /\ PassInv'
  <2>1. cache[u] \in [set: Sets, fin: BOOLEAN, del: BOOLEAN, tmpl: Templates]
    BY <1>2 DEF MBind, MayBind, Live, Exists, MachineObj, NoObj, KubeTypeOK
  <2>2. [set |-> cache[u].set, tearing |-> FALSE] \in Node
    BY <2>1 DEF Node
  <2> QED
    BY <1>2, <2>1, <2>2 DEF MBind, kube, cvars, bounds, OmniTypeOK, KubeTypeOK
<1>3. ASSUME NEW u \in UUIDs, MUnbindWait(u)
      PROVE  RestOK' /\ PassInv'
  <2>1. node[u] \in [set: Sets, tearing: BOOLEAN]
    BY <1>3 DEF MUnbindWait, NodeTearing, Bound, OmniTypeOK, Node, NoNode
  <2>2. [node[u] EXCEPT !.tearing = TRUE] \in Node
    BY <2>1 DEF Node
  <2> QED
    BY <1>3, <2>2 DEF MUnbindWait, NodeTearing, kube, cvars, mvars, bounds, OmniTypeOK,
       KubeTypeOK
<1>4. ASSUME NEW u \in UUIDs, MUnbind(u)
      PROVE  RestOK' /\ PassInv'
  <2>1. NoNode \in Node
    BY DEF Node
  <2> QED
    BY <1>4, <2>1 DEF MUnbind, NodeDestroyed, kube, cvars, bounds, OmniTypeOK, KubeTypeOK
<1>5. CASE MConfigure
  BY <1>5 DEF MConfigure, MStatus, MEndPass, bounds, OmniTypeOK, KubeTypeOK
<1>6. CASE MClean
  BY <1>6 DEF MClean, customCleared, kube, cvars, bounds, OmniTypeOK, KubeTypeOK
<1>7. CASE MUnfinalize
  BY <1>7 DEF MUnfinalize, MWrite, Persist, MEndPass, omni, bounds, OmniTypeOK, KubeTypeOK
<1>8. CASE MFail
  <2>1. mkey \in UUIDs /\ custom' \in [UUIDs -> Templates \cup {NoTmpl, Partial}]
    BY <1>8 DEF MFail, OmniTypeOK
  <2>2. faults' \in 0..MaxFaults
    BY <1>8, FleetAssumption DEF MFail
  <2>3. cfresh' \subseteq cfresh
    BY <1>8 DEF MFail, MStatus
  <2> QED
    BY <1>8, <2>1, <2>2, <2>3 DEF MFail, MEndPass, OmniTypeOK, KubeTypeOK
<1>9. ASSUME NEW u \in UUIDs, MBindFail(u)
      PROVE  RestOK' /\ PassInv'
  <2>1. faults' \in 0..MaxFaults /\ cfresh' \subseteq cfresh
    BY <1>9, FleetAssumption DEF MBindFail, MStatus
  <2> QED
    BY <1>9, <2>1 DEF MBindFail, omni, mvars, OmniTypeOK, KubeTypeOK
<1> QED
  BY <1>1, <1>2, <1>3, <1>4, <1>5, <1>6, <1>7, <1>8, <1>9 DEF MachineStep

LEMMA EnvironmentKeepsRest ==
  ASSUME TypeOK, PassInv, Environment
  PROVE  RestOK' /\ PassInv'
<1> USE DEF TypeOK, RestOK, PassInv, MachinePassTypeOK, PassTypeOK, OmniTypeOK, KubeTypeOK
<1>1. CASE CacheSync
  BY <1>1 DEF CacheSync, omni, cvars, mvars, bounds
<1>a. MaxEdits \in Nat /\ MaxFaults \in Nat /\ MaxFlips \in Nat
  BY FleetAssumption
<1>2. CASE EditSpec \/ DeleteCluster
  <2>1. spec' \in SpecType
    BY <1>2, FleetAssumption DEF EditSpec, DeleteCluster
  <2>2. edits' \in 0..MaxEdits /\ UNCHANGED <<faults, flips>>
    BY <1>2, <1>a DEF EditSpec, DeleteCluster
  <2>3. UNCHANGED <<obj, omni, cvars, mvars>>
    BY <1>2 DEF EditSpec, DeleteCluster
  <2>4. cr' \in {"live", "deleting", "gone", "new"} /\ (cr' \in {"new", "gone"} => cr = "new")
    BY <1>2 DEF EditSpec, DeleteCluster
  <2> QED
    BY <2>1, <2>2, <2>3, <2>4 DEF omni, cvars, mvars
<1>3. CASE Crash
  <2>1. faults' \in 0..MaxFaults /\ UNCHANGED <<edits, flips>>
    BY <1>3, <1>a DEF Crash
  <2>2. NoSet \in Sets \cup {NoSet} /\ UNCHANGED <<cr, spec, obj, omni, cspec>>
    BY <1>3 DEF Crash
  <2> QED
    BY <1>3, <2>1, <2>2 DEF Crash, CEndPass, MEndPass, omni
<1>4. ASSUME NEW u \in UUIDs, LabelSync(u) \/ HealthFlip(u)
      PROVE  RestOK' /\ PassInv'
  <2>1. flips' \in 0..MaxFlips /\ UNCHANGED <<edits, faults>>
    BY <1>4, <1>a DEF LabelSync, HealthFlip, bounds
  <2>2. /\ avail' \in [UUIDs -> BOOLEAN] /\ healthy' \in [UUIDs -> BOOLEAN]
        /\ UNCHANGED <<kube, mset, node, custom, cvars, mvars>>
    BY <1>4 DEF LabelSync, HealthFlip, Bound
  <2> QED
    BY <2>1, <2>2 DEF kube, cvars, mvars
<1>5. ASSUME NEW u \in UUIDs, GarbageCollect(u)
      PROVE  RestOK' /\ PassInv'
  BY <1>5 DEF GarbageCollect, CWrite, Persist, omni, cvars, mrest, bounds
<1> QED
  BY <1>1, <1>2, <1>3, <1>4, <1>5 DEF Environment

\* First takes a part of a set, and so do the selections built from it.
LEMMA SelectionsAreMachines ==
  ASSUME TypeOK
  PROVE  fresh \subseteq UUIDs /\ AdoptSet \subseteq UUIDs
BY DEF fresh, SelectAvailableMachines, First, AdoptSet, AllocatedMachineSetNodes

LEMMA AllocateKeepsRest ==
  ASSUME TypeOK, CacheInv, PassInv, Allocate
  PROVE  RestOK' /\ PassInv'
<1> USE DEF TypeOK, RestOK, PassInv, MachinePassTypeOK, PassTypeOK, OmniTypeOK, KubeTypeOK
<1>1. CASE AddFinalizer
  <2>1. Defaulted(spec) \in SpecType
    BY DEF Defaulted, SpecType
  <2> QED
    BY <1>1, <2>1 DEF AddFinalizer, omni, cvars, mvars, bounds
<1>2. CASE Begin
  BY <1>2 DEF Begin, kube, omni, mvars, bounds, SpecType
<1>3. ASSUME NEW s \in Sets, List(s)
      PROVE  RestOK' /\ PassInv'
  <2>1. \A u \in listMachineSetMachines(s) \ stale : u \in UUIDs /\ Exists(obj[u])
    BY FleetAssumption DEF listMachineSetMachines, CacheInv, Exists
  <2>2. listMachineSetMachines(s) \subseteq UUIDs
    BY DEF listMachineSetMachines
  <2>3. mset' \in [Sets -> {"absent", "bare", "extended", "tearing"}]
    BY <1>3 DEF List
  <2>4. cr # "new" /\ cr # "gone"
    BY <1>3 DEF List
  <2> QED
    BY <1>3, <2>1, <2>2, <2>3, <2>4 DEF List, kube, mvars, bounds
<1>4. CASE Adopt
  <2>1. \A u \in UUIDs : Exists(obj[u]) => obj'[u] = obj[u]
    BY <1>4 DEF Adopt, CWrite, Persist, createMachines
  <2> QED
    BY <1>4, <2>1, SelectionsAreMachines DEF Adopt, CWrite, omni, mrest, bounds
<1>5. CASE ScaleUp
  <2>1. \A u \in UUIDs : Exists(obj[u]) => obj'[u] = obj[u]
    BY <1>5 DEF ScaleUp, CWrite, Persist, createMachines
  <2> QED
    BY <1>5, <2>1, SelectionsAreMachines DEF ScaleUp, CWrite, omni, mrest, bounds
<1>6. CASE ScaleDown
  <2>1. \A u \in UUIDs \ RemovalOrder(toRemove) : obj'[u] = obj[u]
    BY <1>6 DEF ScaleDown, CWrite, Persist, deleteMachines
  <2> QED
    BY <1>6, <2>1 DEF ScaleDown, CWrite, omni, mrest, bounds
<1>7. CASE ScaleNone
  BY <1>7 DEF ScaleNone, kube, omni, mvars, bounds
<1>8. CASE ScaleUpShort
  BY <1>8 DEF ScaleUpShort, CEndPass, kube, omni, mvars, bounds
<1>9. CASE Settle
  <2>1. mset' \in [Sets -> {"absent", "bare", "extended", "tearing"}]
    BY <1>9 DEF Settle
  <2>2. calloc' \in [Sets -> SUBSET UUIDs]
    BY <1>9 DEF Settle
  <2> QED
    BY <1>9, <2>1, <2>2 DEF Settle, CWrite, mrest, bounds
<1>10. CASE SettleConflict
  BY <1>10 DEF SettleConflict, CWrite, CEndPass, omni, mrest, bounds
<1> QED
  BY <1>1, <1>2, <1>3, <1>4, <1>5, <1>6, <1>7, <1>8, <1>9, <1>10 DEF Allocate

LEMMA PruneKeepsRest ==
  ASSUME TypeOK, PassInv, Prune
  PROVE  RestOK' /\ PassInv'
<1> USE DEF TypeOK, RestOK, PassInv, MachinePassTypeOK, PassTypeOK, OmniTypeOK, KubeTypeOK
<1>1. CASE PruneDone
  BY <1>1 DEF PruneDone, CEndPass, kube, omni, mvars, bounds
<1>2. CASE PruneDrop
  BY <1>2 DEF PruneDrop, kube, mvars, bounds
<1>3. CASE PruneDropWait
  BY <1>3 DEF PruneDropWait, CEndPass, kube, mvars, bounds
<1>4. ASSUME NEW s \in Sets, PruneDelete(s)
      PROVE  RestOK' /\ PassInv'
  BY <1>4 DEF PruneDelete, CWrite, CEndPass, omni, mrest, bounds
<1>5. ASSUME NEW s \in Sets, PruneRelease(s) \/ PruneReleaseWait(s)
      PROVE  RestOK' /\ PassInv'
  <2>1. ReleaseStep
    BY <1>5, PruneReleases
  <2>2. node' \in [UUIDs -> Node] /\ custom' \in [UUIDs -> Templates \cup {NoTmpl, Partial}]
    BY <2>1 DEF ReleaseStep
  <2>3. CASE PruneRelease(s)
    BY <2>2, <2>3 DEF PruneRelease, kube, mvars, bounds
  <2>4. CASE PruneReleaseWait(s)
    BY <2>2, <2>4 DEF PruneReleaseWait, CEndPass, kube, mvars, bounds
  <2> QED
    BY <1>5, <2>3, <2>4
<1> QED
  BY <1>1, <1>2, <1>3, <1>4, <1>5 DEF Prune

LEMMA TeardownKeepsRest ==
  ASSUME TypeOK, PassInv, Teardown
  PROVE  RestOK' /\ PassInv'
<1> USE DEF TypeOK, RestOK, PassInv, MachinePassTypeOK, PassTypeOK, OmniTypeOK, KubeTypeOK
<1>1. CASE DeleteMachines
  BY <1>1 DEF DeleteMachines, CWrite, omni, cvars, mrest, bounds
<1>2. CASE DeleteRelease \/ DeleteReleaseWait
  <2>1. ReleaseStep
    BY <1>2, TeardownReleases
  <2>2. node' \in [UUIDs -> Node] /\ custom' \in [UUIDs -> Templates \cup {NoTmpl, Partial}]
    BY <2>1 DEF ReleaseStep
  <2>3. CASE DeleteRelease
    BY <2>2, <2>3 DEF DeleteRelease, kube, mvars, bounds
  <2>4. CASE DeleteReleaseWait
    BY <2>2, <2>4 DEF DeleteReleaseWait, kube, cvars, mvars, bounds
  <2> QED
    BY <1>2, <2>3, <2>4
<1>3. ASSUME NEW s \in Sets, DeleteDrop(s)
      PROVE  RestOK' /\ PassInv'
  BY <1>3 DEF DeleteDrop, kube, cvars, mvars, bounds
<1>4. ASSUME NEW s \in Sets, DeleteDropWait(s)
      PROVE  RestOK' /\ PassInv'
  BY <1>4 DEF DeleteDropWait, CEndPass, kube, mvars, bounds
<1>5. CASE DeleteDone
  BY <1>5 DEF DeleteDone, CEndPass, omni, mvars, bounds
<1> QED
  BY <1>1, <1>2, <1>3, <1>4, <1>5 DEF Teardown

LEMMA BrokenKeepsRest ==
  ASSUME TypeOK, PassInv, Broken
  PROVE  RestOK' /\ PassInv'
<1>1. /\ faults' \in 0..MaxFaults /\ CEndPass
      /\ UNCHANGED <<cr, spec, avail, healthy, cspec, mpc, mkey, mtmpl, edits, flips>>
  BY FleetAssumption DEF Broken, CFail, CFailRelease, CFailDrop, CFails, mrest, TypeOK
<1>2. mset' \in [Sets -> {"absent", "bare", "extended", "tearing"}]
  BY DEF Broken, CFail, CFailRelease, CFailDrop, TypeOK, OmniTypeOK
<1>3. node' \in [UUIDs -> Node] /\ custom' \in [UUIDs -> Templates \cup {NoTmpl, Partial}]
  <2>1. CASE CFailRelease
    BY <2>1, BrokenReleases DEF ReleaseStep
  <2>2. CASE ~CFailRelease
    BY <2>2 DEF Broken, CFail, CFailDrop, TypeOK, OmniTypeOK
  <2> QED
    BY <2>1, <2>2
<1>4. mfresh' \in BOOLEAN
  BY DEF Broken, CFail, CFailRelease, CFailDrop, CWrite, TypeOK, MachinePassTypeOK
<1>5. OmniTypeOK'
  BY <1>1, <1>2, <1>3 DEF TypeOK, OmniTypeOK
<1>6. PassTypeOK'
  BY <1>1 DEF TypeOK, PassTypeOK, CEndPass
<1>7. MachinePassTypeOK'
  BY <1>1, <1>4 DEF TypeOK, MachinePassTypeOK
<1>8. PassInv'
  BY <1>1 DEF PassInv, CEndPass
<1> QED
  BY <1>1, <1>5, <1>6, <1>7, <1>8 DEF TypeOK, KubeTypeOK, RestOK

LEMMA TypeStep ==
  TypeOK /\ CacheInv /\ PassInv /\ [Next]_vars
  => TypeOK' /\ CacheInv' /\ PassInv'
<1> SUFFICES ASSUME TypeOK, CacheInv, PassInv, [Next]_vars
             PROVE  TypeOK' /\ CacheInv' /\ PassInv'
  OBVIOUS
<1>1. RestOK' /\ PassInv'
  <2>1. CASE UNCHANGED vars
    BY <2>1 DEF vars, kube, omni, cvars, mvars, bounds, TypeOK, RestOK, PassInv,
       MachinePassTypeOK, PassTypeOK, OmniTypeOK, KubeTypeOK
  <2>2. CASE ClusterPass
    BY <2>2, AllocateKeepsRest, PruneKeepsRest, TeardownKeepsRest, BrokenKeepsRest
       DEF ClusterPass
  <2>3. CASE MachinePass
    <3>1. MachineStep
      BY <2>3 DEF MachinePass, MachineStep
    <3> QED
      BY <3>1, MachineKeepsRest
  <2>4. CASE Environment
    BY <2>4, EnvironmentKeepsRest
  <2> QED
    BY <2>1, <2>2, <2>3, <2>4 DEF Next
<1> QED
  BY <1>1, ObjectsKeepType DEF TypeOK, KubeTypeOK, RestOK

LEMMA TypeInit == Init => TypeOK /\ CacheInv /\ PassInv
<1> SUFFICES ASSUME Init
             PROVE  TypeOK /\ CacheInv /\ PassInv
  OBVIOUS
<1>1. node \in [UUIDs -> Node] /\ mset \in [Sets -> {"absent", "bare"}]
  <2>1. PICK home \in [OutOfBand -> Sets \cup {NoSet}] :
       /\ mset = [s \in Sets |-> IF \E u \in OutOfBand : home[u] = s
                                 THEN "bare" ELSE "absent"]
       /\ node = [u \in UUIDs |-> IF u \in OutOfBand
                                  THEN [set |-> home[u], tearing |-> FALSE] ELSE NoNode]
    BY DEF Init
  <2>2. \A u \in OutOfBand : [set |-> home[u], tearing |-> FALSE] \in Node
    BY DEF Node, NoNode
  <2> QED
    BY <2>1, <2>2 DEF Node
<1>2. KubeTypeOK /\ CacheInv
  <2>1. spec \in SpecType
    BY FleetAssumption DEF Init
  <2> QED
    BY <2>1 DEF Init, KubeTypeOK, CacheInv, MachineObj
<1>3. OmniTypeOK
  BY <1>1 DEF Init, OmniTypeOK, Bound
<1>4. PassTypeOK /\ PassInv
  <2>1. cspec \in SpecType
    BY FleetAssumption DEF Init
  <2>2. calloc \in [Sets -> SUBSET UUIDs] /\ cset \in Sets \cup {NoSet}
    BY DEF Init
  <2> QED
    BY <2>1, <2>2 DEF Init, PassTypeOK, PassInv
<1>5. MachinePassTypeOK /\ edits \in 0..MaxEdits /\ faults \in 0..MaxFaults
      /\ flips \in 0..MaxFlips
  <2>1. MaxEdits \in Nat /\ MaxFaults \in Nat /\ MaxFlips \in Nat
    BY FleetAssumption
  <2>2. edits = 0 /\ faults = 0 /\ flips = 0 /\ mpc = "idle" /\ mkey = -1
        /\ mtmpl = NoTmpl /\ mfresh = FALSE
    BY DEF Init
  <2>3. MachinePassTypeOK
    BY <2>2 DEF MachinePassTypeOK
  <2> QED
    BY <2>1, <2>2, <2>3
<1> QED
  BY <1>2, <1>3, <1>4, <1>5 DEF TypeOK

\* Every reachable state is well typed, whatever the fleet and the bounds.
THEOREM FleetTypeCorrect == Spec => []TypeOK
<1>1. Spec => [](TypeOK /\ CacheInv /\ PassInv)
  BY TypeInit, TypeStep, PTL DEF Spec
<1> QED
  BY <1>1, PTL

-----------------------------------------------------------------------------
(* Nothing leaks: what is held of a machine always has a finalizer in front *)
(* of it, known to the cache too, so that the backstop leaves it alone.    *)

HInv == ObjInv /\ MachineInv /\ HeldInv

LEMMA MoveFacts ==
  ASSUME NEW o \in MachineObj, NEW p \in MachineObj, ObjMove(o, p), o.del => o.fin
  PROVE  /\ o.fin => p.fin /\ p.set = o.set /\ (o.del => p.del)
         /\ ~o.fin => ~p.fin
         /\ p.del => p.fin
<1>1. o \in [set: Sets \cup {NoSet}, fin: BOOLEAN, del: BOOLEAN,
             tmpl: Templates \cup {NoTmpl}]
  <2>1. CASE o = NoObj
    BY <2>1 DEF NoObj
  <2>2. CASE o \in [set: Sets, fin: BOOLEAN, del: BOOLEAN, tmpl: Templates]
    BY <2>2
  <2> QED
    BY <2>1, <2>2 DEF MachineObj
<1>2. CASE p = o
  BY <1>2
<1>3. CASE o = NoObj /\ Live(p) /\ ~p.fin
  BY <1>3 DEF NoObj, Live
<1>4. CASE Exists(o) /\ ~o.fin /\ p = NoObj
  BY <1>4 DEF NoObj
<1>5. CASE o.fin /\ p = [o EXCEPT !.del = TRUE]
  <2>1. p.fin = o.fin /\ p.set = o.set /\ p.del = TRUE
    BY <1>1, <1>5
  <2> QED
    BY <1>5, <2>1
<1>6. ASSUME NEW t \in Templates, p = [o EXCEPT !.tmpl = t]
      PROVE  p.fin = o.fin /\ p.set = o.set /\ p.del = o.del
  BY <1>1, <1>6
<1> QED
  BY <1>2, <1>3, <1>4, <1>5, <1>6 DEF ObjMove

LEMMA HeldClusterWrite ==
  ASSUME IInv, ClusterWriteStep
  PROVE  HInv'
<1> USE DEF IInv, TypeOK, KubeTypeOK
<1>1. /\ obj' \in [UUIDs -> MachineObj]
      /\ \A u \in UUIDs : ObjMove(obj[u], obj'[u])
      /\ UNCHANGED <<node, custom, mpc, mkey, mtmpl>>
      /\ mfresh' = (mfresh /\ mkey \notin Changed(obj'))
      /\ cache' = obj' \/ cache' = cache
  BY DEF ClusterWriteStep, ClusterWrites, CWrite, Persist
<1>2. \A u \in UUIDs :
        /\ obj[u].fin => obj'[u].fin /\ obj'[u].set = obj[u].set /\ (obj[u].del => obj'[u].del)
        /\ ~obj[u].fin => ~obj'[u].fin
        /\ obj'[u].del => obj'[u].fin
  <2> SUFFICES ASSUME NEW u \in UUIDs
               PROVE  /\ obj[u].fin => /\ obj'[u].fin /\ obj'[u].set = obj[u].set
                                      /\ (obj[u].del => obj'[u].del)
                      /\ ~obj[u].fin => ~obj'[u].fin
                      /\ obj'[u].del => obj'[u].fin
    OBVIOUS
  <2>1. obj[u] \in MachineObj /\ obj'[u] \in MachineObj /\ (obj[u].del => obj[u].fin)
    BY <1>1 DEF ObjInv
  <2> QED
    BY <1>1, <2>1, MoveFacts
<1>3. mpc # "idle" => mkey \in UUIDs
  BY DEF MachinePassTypeOK
<1>4. ObjInv'
  BY <1>1, <1>2 DEF ObjInv, Live
<1>5. MachineInv'
  BY <1>1, <1>2, <1>3 DEF MachineInv, Bound, Changed
<1>6. HeldInv'
  BY <1>1, <1>2 DEF HeldInv, Bound, Fronted
<1> QED
  BY <1>4, <1>5, <1>6 DEF HInv

LEMMA HeldSync ==
  ASSUME IInv, SyncStep
  PROVE  HInv'
<1> USE DEF IInv, SyncStep
<1>1. mpc # "idle" => mkey \in UUIDs
  BY DEF TypeOK, MachinePassTypeOK
<1>2. ObjInv'
  BY DEF ObjInv, Live
<1>3. MachineInv'
  BY <1>1 DEF MachineInv, MEndPass, Bound, mvars
<1>4. HeldInv'
  BY DEF HeldInv, Bound, Fronted
<1> QED
  BY <1>2, <1>3, <1>4 DEF HInv

LEMMA HeldRelease ==
  ASSUME IInv, ReleaseStep
  PROVE  HInv'
<1> USE DEF IInv, ReleaseStep
<1>1. mpc # "idle" => mkey \in UUIDs
  BY DEF TypeOK, MachinePassTypeOK
<1>2. ObjInv'
  BY DEF ObjInv, Live
<1>3. \A u \in UUIDs : ~Bound(u) => ~(Bound(u))' /\ custom'[u] = custom[u]
  BY DEF Bound
<1>4. MachineInv'
  BY <1>1, <1>3 DEF MachineInv, mvars
<1>5. HeldInv'
  BY DEF HeldInv, Bound, Fronted, NoNode
<1> QED
  BY <1>2, <1>4, <1>5 DEF HInv

LEMMA HeldMachine ==
  ASSUME IInv, CacheInv', MachineStep
  PROVE  HInv'
<1> USE DEF IInv, TypeOK, KubeTypeOK, OmniTypeOK, MachinePassTypeOK
<1>1. ASSUME NEW u \in UUIDs, MAddFinalizer(u)
      PROVE  HInv'
  <2>1. cache[u] = obj[u] /\ Live(obj[u]) /\ ~obj[u].fin
    BY <1>1 DEF MAddFinalizer, CacheInv
  <2>2. /\ obj' = [obj EXCEPT ![u] = [obj[u] EXCEPT !.fin = TRUE]]
        /\ UNCHANGED <<node, custom, mpc, mkey, mfresh>>
        /\ cache' = obj' \/ cache' = cache
    BY <1>1, <2>1 DEF MAddFinalizer, MWrite, Persist, omni, mvars
  <2>3. /\ obj'[u].fin /\ obj'[u].set = obj[u].set /\ obj'[u].del = obj[u].del
        /\ \A v \in UUIDs \ {u} : obj'[v] = obj[v]
    <3>1. obj[u] \in [set: Sets, fin: BOOLEAN, del: BOOLEAN, tmpl: Templates]
      BY <2>1 DEF Live, Exists, MachineObj, NoObj
    <3> QED
      BY <2>2, <3>1
  <2>4. mpc = "idle"
    BY <1>1 DEF MAddFinalizer
  <2>5. ObjInv'
    BY <2>1, <2>2, <2>3 DEF ObjInv, Live, Exists
  <2>6. MachineInv'
    BY <2>2, <2>4 DEF MachineInv
  <2>7. HeldInv'
    BY <2>1, <2>2, <2>3 DEF HeldInv, Bound, Fronted
  <2> QED
    BY <2>5, <2>6, <2>7 DEF HInv
<1>2. ASSUME NEW u \in UUIDs, MBind(u)
      PROVE  HInv'
  <2>1. /\ UNCHANGED <<obj, cache, custom>> /\ mpc' = "configure" /\ mkey' = u
        /\ cache[u].fin /\ Live(cache[u])
        /\ mtmpl' = cache[u].tmpl
        /\ node' = node \/ node' = [node EXCEPT ![u] = [set |-> cache[u].set, tearing |-> FALSE]]
    BY <1>2 DEF MBind, MayBind, kube
  <2>2. ObjInv'
    BY <2>1 DEF ObjInv, Live
  <2>3. obj[u].fin /\ obj[u].set = cache[u].set
    BY <2>1 DEF ObjInv
  <2>4. MachineInv'
    <3>1. cache[u].tmpl \in Templates
      BY <2>1 DEF Live, Exists, MachineObj, NoObj
    <3> QED
      BY <2>1, <2>3, <3>1 DEF MachineInv
  <2>5. HeldInv'
    BY <2>1, <2>3 DEF HeldInv, Bound, Fronted
  <2> QED
    BY <2>2, <2>4, <2>5 DEF HInv
<1>3. ASSUME NEW u \in UUIDs, MUnbindWait(u)
      PROVE  HInv'
  <2>1. /\ UNCHANGED <<obj, cache, custom, mpc, mkey, mfresh>> /\ mpc = "idle"
        /\ node' = [node EXCEPT ![u].tearing = TRUE]
    BY <1>3 DEF MUnbindWait, NodeTearing, kube, mvars
  <2>2. \A v \in UUIDs : node'[v].set = node[v].set
    <3>1. node[u] \in [set: Sets, tearing: BOOLEAN]
      BY <1>3 DEF MUnbindWait, NodeTearing, Bound, Node, NoNode
    <3> QED
      BY <2>1, <3>1
  <2> QED
    BY <2>1, <2>2 DEF HInv, ObjInv, MachineInv, HeldInv, Bound, Fronted, Live
<1>4. ASSUME NEW u \in UUIDs, MUnbind(u)
      PROVE  HInv'
  <2>1. /\ UNCHANGED <<obj, cache, custom>> /\ mpc' = "clean" /\ mkey' = u
        /\ cache[u].fin /\ cache[u].del /\ mfresh' = (u \notin stale)
        /\ node' = [node EXCEPT ![u] = NoNode]
    BY <1>4 DEF MUnbind, NodeDestroyed, kube
  <2>2. ObjInv'
    BY <2>1 DEF ObjInv, Live
  <2>3. u \notin stale => obj[u] = cache[u]
    BY DEF CacheInv
  <2>4. MachineInv'
    BY <2>1, <2>3 DEF MachineInv, ObjInv, Bound, NoNode
  <2>5. HeldInv'
    BY <2>1 DEF HeldInv, Bound, Fronted, NoNode
  <2> QED
    BY <2>2, <2>4, <2>5 DEF HInv
<1>5. CASE MConfigure
  <2>1. /\ UNCHANGED <<obj, cache, node>> /\ mpc = "configure" /\ mpc' = "idle"
        /\ custom' = [custom EXCEPT ![mkey] = mtmpl]
    BY <1>5 DEF MConfigure, MEndPass
  <2> QED
    BY <2>1 DEF HInv, ObjInv, MachineInv, HeldInv, Bound, Fronted, Live
<1>6. CASE MClean
  <2>1. /\ UNCHANGED <<obj, cache, node, mkey, mfresh>> /\ mpc = "clean" /\ mpc' = "unfinalize"
        /\ custom' = [custom EXCEPT ![mkey] = NoTmpl]
    BY <1>6 DEF MClean, customCleared, kube
  <2> QED
    BY <2>1 DEF HInv, ObjInv, MachineInv, HeldInv, Bound, Fronted, Live
<1>7. CASE MUnfinalize
  <2>1. /\ UNCHANGED <<node, custom>> /\ mpc = "unfinalize" /\ mpc' = "idle"
        /\ mkey \in UUIDs /\ ~Bound(mkey) /\ custom[mkey] = NoTmpl
    BY <1>7 DEF MUnfinalize, MEndPass, omni, MachineInv
  <2>2. CASE mfresh
    <3>1. obj' = [obj EXCEPT ![mkey] = NoObj] /\ (cache' = obj' \/ cache' = cache)
      BY <1>7, <2>2 DEF MUnfinalize, MWrite, Persist
    <3>2. cache[mkey].del
      BY <2>1, <2>2 DEF MachineInv
    <3>3. ObjInv'
      BY <2>1, <3>1, <3>2 DEF ObjInv, Live, NoObj
    <3>4. HeldInv'
      BY <2>1, <3>1 DEF HeldInv, Bound, Fronted
    <3> QED
      BY <2>1, <3>3, <3>4 DEF HInv, MachineInv
  <2>3. CASE ~mfresh
    BY <1>7, <2>1, <2>3 DEF MUnfinalize, HInv, ObjInv, MachineInv, HeldInv, Bound, Fronted, Live
  <2> QED
    BY <2>2, <2>3
<1>8. CASE MFail
  <2>1. /\ UNCHANGED <<obj, cache, node>> /\ mpc' = "idle" /\ mkey \in UUIDs
        /\ \/ custom' = custom
           \/ /\ mpc = "configure" \/ custom[mkey] # NoTmpl
              /\ custom' = [custom EXCEPT ![mkey] = Partial]
    BY <1>8 DEF MFail, MEndPass
  <2> QED
    BY <2>1 DEF HInv, ObjInv, MachineInv, HeldInv, Bound, Fronted, Live
<1>9. ASSUME NEW u \in UUIDs, MBindFail(u)
      PROVE  HInv'
  <2>1. UNCHANGED <<obj, cache, node, custom, mpc, mkey, mtmpl, mfresh>>
    BY <1>9 DEF MBindFail, omni, mvars
  <2> QED
    BY <2>1 DEF HInv, ObjInv, MachineInv, HeldInv, Bound, Fronted, Live
<1> QED
  BY <1>1, <1>2, <1>3, <1>4, <1>5, <1>6, <1>7, <1>8, <1>9 DEF MachineStep

LEMMA IInvStep == IInv /\ [Next]_vars => IInv'
<1> SUFFICES ASSUME IInv, [Next]_vars
             PROVE  IInv'
  OBVIOUS
<1>1. TypeOK' /\ CacheInv' /\ PassInv'
  BY TypeStep DEF IInv
<1>3. HInv'
  <2>1. CASE QuietStep
    BY <2>1 DEF QuietStep, mvars, IInv, HInv, ObjInv, MachineInv, HeldInv, Bound, Fronted, Live
  <2> QED
    BY <1>1, <2>1, StepKinds, HeldClusterWrite, HeldSync, HeldRelease, HeldMachine DEF IInv
<1> QED
  BY <1>1, <1>3 DEF IInv, HInv

LEMMA IInvInit == Init => IInv
<1> SUFFICES ASSUME Init
             PROVE  IInv
  OBVIOUS
<1>1. TypeOK /\ CacheInv /\ PassInv
  BY TypeInit
<1>2. ObjInv
  BY DEF Init, ObjInv, NoObj, Live
<1>3. \A u \in UUIDs : (u \in Fronted => ~Bound(u)) /\ custom[u] = NoTmpl
  BY DEF Init, Fronted, Bound, NoNode
<1>4. HeldInv
  BY <1>3 DEF HeldInv, Fronted
<1> QED
  BY <1>1, <1>2, <1>4 DEF IInv, MachineInv, Init

LEMMA FleetInvariant == Spec => []IInv
  BY IInvInit, IInvStep, PTL DEF Spec

\* A binding made by the controller is always in front of a Machine object
\* whose finalizer will remove it, whatever crashes, conflicts and lag.
THEOREM NoBindingLeaks == Spec => []NoLeakedBinding
<1>1. IInv => NoLeakedBinding
  BY DEF IInv, HeldInv, NoLeakedBinding, Fronted
<1> QED
  BY <1>1, FleetInvariant, PTL

\* A machine never returns to the pool with customisation.
THEOREM NoCustomisationLeaks == Spec => []NoLeakedCustomisation
<1>1. IInv => NoLeakedCustomisation
  BY DEF IInv, HeldInv, NoLeakedCustomisation
<1> QED
  BY <1>1, FleetInvariant, PTL

-----------------------------------------------------------------------------
(* Fleet implements MachineLifecycle.                                      *)

\* A move of one machine, read off the detailed state.
SamePlace(u) == phaseOf(u)' = phaseOf(u) /\ obj'[u].set = obj[u].set

LifeMove(u) ==
  \/ SamePlace(u) /\ Held(u)' = Held(u)
  \/ SamePlace(u) /\ phaseOf(u) \in {"guarded", "leaving"} /\ ~Held(u) /\ Held(u)'
  \/ SamePlace(u) /\ phaseOf(u) = "leaving" /\ Held(u) /\ ~Held(u)'
  \/ /\ phaseOf(u) = "free" /\ phaseOf(u)' = "claimed"
     /\ obj'[u].set \in Sets /\ Held(u)' = Held(u)
  \/ /\ phaseOf(u) = "claimed" /\ phaseOf(u)' = "guarded"
     /\ obj'[u].set = obj[u].set /\ Held(u)' = Held(u)
  \/ /\ phaseOf(u) = "claimed" /\ phaseOf(u)' = "free"
     /\ obj'[u].set = NoSet /\ Held(u)' = Held(u)
  \/ /\ phaseOf(u) = "guarded" /\ phaseOf(u)' = "leaving"
     /\ obj'[u].set = obj[u].set /\ Held(u)' = Held(u)
  \/ /\ phaseOf(u) = "leaving" /\ phaseOf(u)' = "free"
     /\ obj'[u].set = NoSet /\ ~Held(u) /\ ~Held(u)'

LEMMA PhaseFacts ==
  ASSUME TypeOK, ObjInv, NEW u \in UUIDs
  PROVE  /\ obj[u] = NoObj => phaseOf(u) = "free"
         /\ obj[u] = NoObj \/ obj[u].set \in Sets
         /\ obj[u].del => phaseOf(u) = "leaving"
         /\ obj[u].fin /\ ~obj[u].del => phaseOf(u) = "guarded"
         /\ obj[u] # NoObj /\ ~obj[u].fin => phaseOf(u) = "claimed"
         /\ obj[u].fin => phaseOf(u) \in {"guarded", "leaving"}
<1>1. obj[u] \in MachineObj /\ (obj[u].del => obj[u].fin)
  BY DEF TypeOK, KubeTypeOK, ObjInv
<1>2. CASE obj[u] = NoObj
  BY <1>2 DEF phaseOf, Exists, NoObj
<1>3. CASE obj[u] \in [set: Sets, fin: BOOLEAN, del: BOOLEAN, tmpl: Templates]
  <2>1. Exists(obj[u]) /\ obj[u].set \in Sets /\ obj[u] # NoObj
    BY <1>3, FleetAssumption DEF Exists, NoObj
  <2> QED
    BY <1>1, <1>3, <2>1 DEF phaseOf
<1> QED
  BY <1>1, <1>2, <1>3 DEF MachineObj

LEMMA LifeOfClusterWrite ==
  ASSUME IInv, IInv', ClusterWriteStep, NEW u \in UUIDs
  PROVE  LifeMove(u)
<1>1. /\ TypeOK /\ ObjInv /\ TypeOK' /\ ObjInv'
      /\ ObjMove(obj[u], obj'[u]) /\ Held(u)' = Held(u)
  BY DEF IInv, ClusterWriteStep, ClusterWrites, Held, Bound
<1>2. obj[u] \in MachineObj /\ obj'[u] \in MachineObj
      /\ (obj[u].del => obj[u].fin) /\ (obj'[u].del => obj'[u].fin)
  BY <1>1 DEF TypeOK, KubeTypeOK, ObjInv
<1>3. obj[u] # NoObj => obj[u] \in [set: Sets, fin: BOOLEAN, del: BOOLEAN, tmpl: Templates]
  BY <1>2 DEF MachineObj
<1>4. ~Exists(NoObj) /\ ~NoObj.fin /\ ~NoObj.del /\ NoObj.set = NoSet
  BY DEF NoObj, Exists
<1>5. CASE obj'[u] = obj[u]
  BY <1>1, <1>5 DEF LifeMove, SamePlace, phaseOf
<1>6. CASE obj[u] = NoObj /\ Live(obj'[u]) /\ ~obj'[u].fin
  <2>1. obj'[u].set \in Sets /\ Exists(obj'[u]) /\ ~obj'[u].del
    BY <1>2, <1>4, <1>6 DEF Live, MachineObj
  <2> QED
    BY <1>1, <1>4, <1>6, <2>1 DEF LifeMove, phaseOf
<1>7. CASE Exists(obj[u]) /\ ~obj[u].fin /\ obj'[u] = NoObj
  BY <1>1, <1>2, <1>4, <1>7 DEF LifeMove, phaseOf
<1>8. CASE obj[u].fin /\ obj'[u] = [obj[u] EXCEPT !.del = TRUE]
  <2>1. obj'[u].set = obj[u].set /\ obj'[u].fin /\ obj'[u].del /\ obj[u].del \in BOOLEAN
    BY <1>3, <1>4, <1>8
  <2>2. Exists(obj[u]) /\ Exists(obj'[u])
    BY <1>3, <1>4, <1>8, <2>1, FleetAssumption DEF Exists
  <2> QED
    BY <1>1, <1>8, <2>1, <2>2 DEF LifeMove, SamePlace, phaseOf
<1>9. ASSUME NEW t \in Templates, Exists(obj[u]), obj'[u] = [obj[u] EXCEPT !.tmpl = t]
      PROVE  LifeMove(u)
  <2>1. obj'[u].set = obj[u].set /\ obj'[u].fin = obj[u].fin /\ obj'[u].del = obj[u].del
    BY <1>3, <1>4, <1>9
  <2> QED
    BY <1>1, <2>1 DEF LifeMove, SamePlace, phaseOf, Exists
<1> QED
  BY <1>1, <1>5, <1>6, <1>7, <1>8, <1>9 DEF ObjMove

LEMMA LifeOfRelease ==
  ASSUME IInv, ReleaseStep, NEW u \in Fronted
  PROVE  LifeMove(u)
<1>1. u \in UUIDs /\ obj'[u] = obj[u]
  BY DEF Fronted, ReleaseStep
<1>2. Bound(u) => cache[u].set = node[u].set
  BY DEF IInv, HeldInv
<1>3. node'[u].set = node[u].set /\ custom'[u] = custom[u]
  BY <1>1, <1>2 DEF ReleaseStep
<1> QED
  BY <1>1, <1>3 DEF LifeMove, SamePlace, phaseOf, Held, Bound

LEMMA LifeOfMachine ==
  ASSUME IInv, IInv', MachineStep, NEW u \in Fronted
  PROVE  LifeMove(u)
<1>0. /\ TypeOK /\ ObjInv /\ MachineInv /\ HeldInv /\ CacheInv
      /\ u \in UUIDs /\ (mpc # "idle" => mkey \in UUIDs)
      /\ node \in [UUIDs -> Node] /\ custom \in [UUIDs -> Templates \cup {NoTmpl, Partial}]
      /\ obj \in [UUIDs -> MachineObj]
  BY DEF IInv, Fronted, TypeOK, OmniTypeOK, MachinePassTypeOK, KubeTypeOK
<1>a. Held(u) => obj[u].fin
  BY <1>0 DEF HeldInv, Held
<1>b. ASSUME obj'[u] = obj[u]
      PROVE  SamePlace(u)
  BY <1>b DEF SamePlace, phaseOf
<1>c. ASSUME obj'[u] = obj[u], node'[u].set = node[u].set, custom'[u] = custom[u]
      PROVE  LifeMove(u)
  BY <1>b, <1>c DEF LifeMove, Held, Bound
<1>d. ASSUME obj'[u] = obj[u], obj[u].fin, Held(u)'
      PROVE  LifeMove(u)
  BY <1>0, <1>b, <1>d, PhaseFacts DEF LifeMove
<1>e. ASSUME obj'[u] = obj[u], obj[u].del \/ ~obj[u].fin, Held(u)' => Held(u)
      PROVE  LifeMove(u)
  <2>1. CASE Held(u)' = Held(u)
    BY <1>b, <1>e, <2>1 DEF LifeMove
  <2>2. CASE Held(u) /\ ~Held(u)'
    BY <1>0, <1>a, <1>b, <1>e, <2>2, PhaseFacts DEF LifeMove
  <2> QED
    BY <1>e, <2>1, <2>2 DEF Held, Bound
<1>1. ASSUME NEW v \in UUIDs, MAddFinalizer(v)
      PROVE  LifeMove(u)
  <2>1. /\ cache[v] = obj[v] /\ Live(obj[v]) /\ ~obj[v].fin /\ UNCHANGED <<node, custom>>
        /\ obj' = [obj EXCEPT ![v] = [obj[v] EXCEPT !.fin = TRUE]]
    BY <1>0, <1>1 DEF MAddFinalizer, CacheInv, MWrite, Persist, omni
  <2>2. CASE u = v
    <3>1. obj[u] \in [set: Sets, fin: BOOLEAN, del: BOOLEAN, tmpl: Templates]
      BY <1>0, <2>1, <2>2 DEF Live, Exists, MachineObj, NoObj
    <3>2. obj'[u].fin /\ obj'[u].set = obj[u].set /\ ~obj'[u].del /\ Exists(obj[u])
          /\ ~obj[u].del
      BY <1>0, <2>1, <2>2, <3>1 DEF Live
    <3> QED
      BY <2>1, <2>2, <3>2 DEF LifeMove, phaseOf, Exists, Held, Bound
  <2>3. CASE u # v
    BY <1>0, <1>c, <2>1, <2>3
  <2> QED
    BY <2>2, <2>3
<1>2. ASSUME NEW v \in UUIDs, MBind(v)
      PROVE  LifeMove(u)
  <2>1. /\ UNCHANGED <<obj, custom>> /\ Live(cache[v]) /\ cache[v].fin
        /\ node' = IF Bound(v) THEN node
                   ELSE [node EXCEPT ![v] = [set |-> cache[v].set, tearing |-> FALSE]]
    BY <1>2 DEF MBind, MayBind, kube
  <2>2. CASE u = v /\ ~Bound(v)
    <3>1. (Bound(u))' /\ obj[u].fin
      BY <1>0, <2>1, <2>2 DEF Bound, Live, Exists, ObjInv
    <3> QED
      BY <1>d, <2>1, <3>1 DEF Held
  <2>3. CASE u # v \/ Bound(v)
    BY <1>0, <1>c, <2>1, <2>3
  <2> QED
    BY <2>2, <2>3
<1>3. ASSUME NEW v \in UUIDs, MUnbindWait(v)
      PROVE  LifeMove(u)
  <2>1. UNCHANGED <<obj, custom>> /\ node' = [node EXCEPT ![v].tearing = TRUE] /\ Bound(v)
    BY <1>3 DEF MUnbindWait, NodeTearing, kube
  <2>2. node[v] \in [set: Sets, tearing: BOOLEAN]
    BY <1>0, <2>1 DEF Bound, Node, NoNode
  <2>3. node'[u].set = node[u].set
    BY <1>0, <2>1, <2>2
  <2> QED
    BY <1>c, <2>1, <2>3
<1>4. ASSUME NEW v \in UUIDs, MUnbind(v)
      PROVE  LifeMove(u)
  <2>1. UNCHANGED <<obj, custom>> /\ node' = [node EXCEPT ![v] = NoNode]
        /\ cache[v].del /\ cache[v].fin
    BY <1>4 DEF MUnbind, NodeDestroyed, kube
  <2>2. CASE u = v
    <3>1. obj[u].del \/ ~obj[u].fin
      BY <1>0, <2>1, <2>2 DEF ObjInv
    <3>2. Held(u)' => Held(u)
      BY <1>0, <2>1, <2>2 DEF Held, Bound, NoNode
    <3> QED
      BY <1>e, <2>1, <3>1, <3>2
  <2>3. CASE u # v
    BY <1>0, <1>c, <2>1, <2>3
  <2> QED
    BY <2>2, <2>3
<1>5. CASE MConfigure
  <2>1. UNCHANGED <<obj, node>> /\ custom' = [custom EXCEPT ![mkey] = mtmpl]
        /\ mkey \in UUIDs /\ mtmpl \in Templates /\ obj[mkey].fin
    BY <1>0, <1>5 DEF MConfigure, MachineInv
  <2>2. CASE u = mkey
    <3>1. Held(u)'
      BY <1>0, <2>1, <2>2 DEF Held, Templates, NoTmpl
    <3> QED
      BY <1>d, <2>1, <2>2, <3>1
  <2>3. CASE u # mkey
    BY <1>0, <1>c, <2>1, <2>3
  <2> QED
    BY <2>2, <2>3
<1>6. CASE MClean
  <2>1. UNCHANGED <<obj, node>> /\ custom' = [custom EXCEPT ![mkey] = NoTmpl]
        /\ mkey \in UUIDs /\ (obj[mkey].del \/ ~obj[mkey].fin)
    BY <1>0, <1>6 DEF MClean, customCleared, MachineInv, kube
  <2>2. CASE u = mkey
    <3>1. Held(u)' => Held(u)
      BY <1>0, <2>1, <2>2 DEF Held, Bound
    <3> QED
      BY <1>e, <2>1, <2>2, <3>1
  <2>3. CASE u # mkey
    BY <1>0, <1>c, <2>1, <2>3
  <2> QED
    BY <2>2, <2>3
<1>7. CASE MUnfinalize
  <2>1. /\ UNCHANGED <<node, custom>> /\ mkey \in UUIDs
        /\ ~Bound(mkey) /\ custom[mkey] = NoTmpl
        /\ obj' = obj \/ (mfresh /\ obj' = [obj EXCEPT ![mkey] = NoObj])
    BY <1>0, <1>7 DEF MUnfinalize, MWrite, Persist, MachineInv, omni
  <2>2. CASE u = mkey /\ obj'[u] # obj[u]
    <3>1. obj'[u] = NoObj /\ obj[u].del
      BY <1>0, <1>7, <2>1, <2>2 DEF MachineInv, MUnfinalize
    <3>2. phaseOf(u) = "leaving" /\ phaseOf(u)' = "free" /\ obj'[u].set = NoSet
      BY <1>0, <3>1, PhaseFacts DEF phaseOf, Exists, NoObj
    <3>3. ~Held(u) /\ ~Held(u)'
      BY <2>1, <2>2 DEF Held, Bound
    <3> QED
      BY <3>2, <3>3 DEF LifeMove
  <2>3. CASE u # mkey \/ obj'[u] = obj[u]
    BY <1>0, <1>c, <2>1, <2>3
  <2> QED
    BY <2>2, <2>3
<1>8. CASE MFail
  <2>1. UNCHANGED <<obj, node>> /\ mkey \in UUIDs
        /\ \/ custom' = custom
           \/ /\ mpc = "configure" \/ custom[mkey] # NoTmpl
              /\ custom' = [custom EXCEPT ![mkey] = Partial]
    BY <1>0, <1>8 DEF MFail
  <2>2. CASE u = mkey /\ custom'[u] # custom[u]
    <3>1. Held(u)' /\ obj[u].fin
      BY <1>0, <2>1, <2>2 DEF Held, Partial, NoTmpl, MachineInv, HeldInv
    <3> QED
      BY <1>d, <2>1, <3>1
  <2>3. CASE u # mkey \/ custom'[u] = custom[u]
    BY <1>0, <1>c, <2>1, <2>3
  <2> QED
    BY <2>2, <2>3
<1>9. ASSUME NEW v \in UUIDs, MBindFail(v)
      PROVE  LifeMove(u)
  BY <1>c, <1>9 DEF MBindFail, omni
<1> QED
  BY <1>1, <1>2, <1>3, <1>4, <1>5, <1>6, <1>7, <1>8, <1>9 DEF MachineStep

LEMMA LifeStep ==
  ASSUME IInv, IInv', [Next]_vars, NEW u \in Fronted
  PROVE  LifeMove(u)
<1>1. u \in UUIDs
  BY DEF Fronted
<1>2. CASE QuietStep \/ SyncStep
  BY <1>2 DEF QuietStep, SyncStep, LifeMove, SamePlace, phaseOf, Held, Bound
<1> QED
  BY <1>1, <1>2, StepKinds, LifeOfClusterWrite, LifeOfRelease, LifeOfMachine DEF IInv

LEMMA LifeTypes ==
  ASSUME TypeOK, ObjInv
  PROVE  Lifecycle!States
<1>1. \A u \in Fronted : /\ phaseOf(u) \in {"free", "claimed", "guarded", "leaving"}
                         /\ obj[u].set \in Sets \cup {NoSet} /\ Held(u) \in BOOLEAN
  <2> TAKE u \in Fronted
  <2>1. u \in UUIDs
    BY DEF Fronted
  <2>2. obj[u].set \in Sets \cup {NoSet}
    BY <2>1, PhaseFacts DEF NoObj
  <2> QED
    BY <2>2 DEF phaseOf, Held, Bound
<1> QED
  BY <1>1 DEF Lifecycle!States, Lifecycle!Phases

\* The two controllers together, with lag, crashes, conflicts and failures,
\* give every machine the life MachineLifecycle promises.
THEOREM LifecycleHolds == Spec => LifecycleImplemented
<1>1. Init => Lifecycle!Init
  <2> SUFFICES ASSUME Init
               PROVE  Lifecycle!Init
    OBVIOUS
  <2>1. \A u \in Fronted : obj[u] = NoObj /\ ~Bound(u) /\ custom[u] = NoTmpl
    BY DEF Init, Fronted, Bound, NoNode
  <2>2. \A u \in Fronted : phaseOf(u) = "free" /\ obj[u].set = NoSet /\ Held(u) = FALSE
    BY <2>1 DEF phaseOf, Exists, NoObj, Held
  <2> QED
    BY <2>2 DEF Lifecycle!Init
<1>2. IInv /\ IInv' /\ [Next]_vars => [Lifecycle!Next]_(Lifecycle!vars)
  <2> SUFFICES ASSUME IInv, IInv', [Next]_vars
               PROVE  Lifecycle!Next
    OBVIOUS
  <2>1. Lifecycle!States'
    BY LifeTypes, PTL DEF IInv
  <2>2. ASSUME NEW u \in Fronted
        PROVE  \/ Lifecycle!Rest(u) \/ Lifecycle!Hold(u) \/ Lifecycle!Release(u)
               \/ Lifecycle!Claim(u) \/ Lifecycle!Guard(u) \/ Lifecycle!Unclaim(u)
               \/ Lifecycle!Leave(u) \/ Lifecycle!Free(u)
    <3>1. LifeMove(u)
      BY LifeStep
    <3> QED
      BY <3>1 DEF LifeMove, SamePlace, Lifecycle!Rest, Lifecycle!Hold, Lifecycle!Release,
         Lifecycle!Claim, Lifecycle!Guard, Lifecycle!Unclaim, Lifecycle!Leave,
         Lifecycle!Free, Lifecycle!Keeps, Lifecycle!Goes
  <2> QED
    BY <2>1, <2>2 DEF Lifecycle!Next
<1> QED
  BY <1>1, <1>2, FleetInvariant, PTL DEF Spec, LifecycleImplemented, Lifecycle!Spec

=============================================================================
