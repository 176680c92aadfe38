-------------------------- MODULE FleetScaleProofs --------------------------
(***************************************************************************)
(* Proofs about scaling, pruning and teardown in Fleet, for every set of   *)
(* machines, sets and specs, whatever the bounds, and however far the      *)
(* informer cache and Omni's labels lag.  What a pass reads is a copy of   *)
(* any age: what is proved of a machine holds of those whose copy was the  *)
(* current one when it was read (cfresh), and the numbers are off by no    *)
(* more than the others.                                                   *)
(***************************************************************************)
EXTENDS FleetProofs, FiniteSetTheorems

-----------------------------------------------------------------------------
(* Counting.                                                               *)

\* The k smallest of a finite set of numbers are k at most: two of them do
\* not have the same rank.
LEMMA FirstCount ==
  ASSUME NEW S, S \subseteq Nat, IsFiniteSet(S), NEW k \in Nat
  PROVE  /\ First(k, S) \subseteq S
         /\ IsFiniteSet(First(k, S))
         /\ Cardinality(First(k, S)) <= k
<1> DEFINE F == First(k, S)
           below(u) == {v \in S : v < u}
           rank == [u \in F |-> Cardinality(below(u))]
<1>1. F \subseteq S /\ IsFiniteSet(F) /\ Cardinality(F) \in Nat
  BY FS_Subset, FS_CardinalityType DEF First
<1>2. \A u \in S : IsFiniteSet(below(u)) /\ Cardinality(below(u)) \in Nat
  BY FS_Subset, FS_CardinalityType
<1>3. \A u \in F : Cardinality(below(u)) \in 0..(k - 1)
  BY <1>1, <1>2 DEF First
<1>4. rank \in [F -> 0..(k - 1)]
  BY <1>3
<1>5. ASSUME NEW u \in F, NEW v \in F, u < v
      PROVE  rank[u] # rank[v]
  <2>1. below(u) \subseteq below(v) /\ u \in below(v) /\ u \notin below(u)
    <3>1. u \in S /\ v \in S /\ S \subseteq Nat
      BY <1>1
    <3>2. ~(u < u) /\ \A x \in S : x < u => x < v
      BY <1>5, <3>1
    <3> QED
      BY <1>5, <3>1, <3>2
  <2>2. Cardinality(below(u)) # Cardinality(below(v))
    <3> HIDE DEF below
    <3> QED
      BY <1>1, <1>2, <2>1, FS_Subset
  <2> QED
    BY <2>2
<1>6. IsFiniteSet(0..(k - 1)) /\ Cardinality(0..(k - 1)) = k
  BY FS_Interval
<1>7. ~(k < Cardinality(F))
  <2> SUFFICES ASSUME k < Cardinality(F)
               PROVE  FALSE
    OBVIOUS
  <2> HIDE DEF F, rank
  <2>1. PICK u \in F, v \in F : u # v /\ rank[u] = rank[v]
    BY <1>1, <1>4, <1>6, FS_PigeonHole
  <2> QED
    BY <1>1, <1>5, <2>1
<1> QED
  BY <1>1, <1>7

\* Machines picked for removal are active ones, and no more than asked for.
LEMMA RemovalCount ==
  ASSUME TypeOK, NEW k \in Nat
  PROVE  /\ RemovalOrder(k) \subseteq active
         /\ IsFiniteSet(RemovalOrder(k))
         /\ Cardinality(RemovalOrder(k)) <= k
<1> DEFINE U == Unhealthy
           H == active \ Unhealthy
<1>1. /\ U \subseteq active /\ U \subseteq Nat /\ H \subseteq Nat
      /\ IsFiniteSet(U) /\ IsFiniteSet(H) /\ Cardinality(U) \in Nat
  <2>1. active \subseteq UUIDs
    BY DEF TypeOK, PassTypeOK, active
  <2>2. UUIDs \subseteq Nat /\ IsFiniteSet(UUIDs)
    BY FleetAssumption
  <2>3. U \subseteq active
    BY DEF Unhealthy
  <2> HIDE DEF U
  <2> QED
    BY <2>1, <2>2, <2>3, FS_Subset, FS_CardinalityType
<1>2. CASE k <= Cardinality(U)
  BY <1>1, <1>2, FirstCount DEF RemovalOrder
<1>3. CASE ~(k <= Cardinality(U))
  <2> DEFINE F == First(k - Cardinality(U), H)
  <2>1. k - Cardinality(U) \in Nat
    BY <1>1, <1>3
  <2>2. F \subseteq H /\ IsFiniteSet(F) /\ Cardinality(F) <= k - Cardinality(U)
    BY <1>1, <2>1, FirstCount
  <2>3. RemovalOrder(k) = U \cup F
    BY <1>3 DEF RemovalOrder
  <2> HIDE DEF F, U, H
  <2>4. U \cap F = {}
    BY <2>2 DEF U, H
  <2>5. /\ IsFiniteSet(U \cup F)
        /\ Cardinality(U \cup F) = Cardinality(U) + Cardinality(F) - Cardinality(U \cap F)
    BY <1>1, <2>2, FS_Union
  <2>6. Cardinality(F) \in Nat /\ Cardinality(U \cap F) = 0
    BY <2>2, <2>4, FS_CardinalityType, FS_EmptySet
  <2>7. U \cup F \subseteq active
    BY <1>1, <2>2 DEF H
  <2> QED
    BY <1>1, <2>1, <2>2, <2>3, <2>5, <2>6, <2>7
<1> QED
  BY <1>2, <1>3

-----------------------------------------------------------------------------
(* What a pass knows.                                                      *)

\* A binding is of the set its Machine object names.  While no finalizer
\* guards it no copy of the object says one does, its label does not offer
\* the machine, and Omni still has its set.
BindInv ==
  \A u \in UUIDs : Bound(u) =>
    /\ Exists(obj[u]) => obj[u].set = node[u].set
    /\ cache[u].fin => obj[u].fin
    /\ ~obj[u].fin => ~Available(u) /\ mset[node[u].set] # "absent"

\* A cached copy that is being deleted carries the finalizer.
CopyInv == \A u \in UUIDs : cache[u].del => cache[u].fin

\* Of a set that is about to be removed, or of all of them, the pass has seen
\* no Machine; and the bindings it would leave behind are guarded.
ScopeInv ==
  /\ CP \in spec.sets /\ CP \in cspec.sets
  /\ cpc \notin {"scale", "settle"} => cnew = {}
  /\ cpc = "drop" =>
       /\ \A u \in cfresh : obj[u].set # cset
       /\ \A u \in UUIDs : node[u].set = cset => obj[u].fin
  /\ cpc = "dropall" =>
       /\ \A u \in cfresh : ~Exists(obj[u])
       /\ \A u \in UUIDs : Bound(u) => obj[u].fin

\* The list a pass took is right about every machine whose entry was current,
\* also while it adopts and scales; once it has adopted, it counts each
\* binding of the set that has no Machine object.
ListInv ==
  /\ cpc \in {"adopt", "scale"} =>
       /\ \A u \in cfresh :
            /\ u \in cexist \cup cnew <=> obj[u].set = cset
            /\ u \in active <=> obj[u].set = cset /\ ~obj[u].del
       /\ \A u \in cdel : Bound(u) => obj[u].fin
  /\ cpc = "scale" => BareIn(cset, obj, node) \subseteq active

ScaleInv == BindInv /\ CopyInv /\ ScopeInv /\ ListInv

LEMMA GuardedExist ==
  ASSUME TypeOK
  PROVE  \A u \in UUIDs : obj[u].fin => Exists(obj[u])
BY FleetAssumption DEF TypeOK, KubeTypeOK, MachineObj, NoObj, Exists

\* A step keeps what holds of bindings when it makes none but in front of a
\* guarded object of the same set, and takes no guard, label or set away from
\* those it leaves.
LEMMA BindKept ==
  ASSUME BindInv, CopyInv, ObjInv', cache' = cache \/ cache' = obj',
         \A u \in UUIDs : (Bound(u))' =>
           \/ obj'[u].fin /\ obj'[u].set = node'[u].set
           \/ /\ Bound(u) /\ node'[u].set = node[u].set
              /\ obj[u].fin => obj'[u].fin
              /\ Exists(obj'[u]) => \/ Exists(obj[u]) /\ obj'[u].set = obj[u].set
                                    \/ obj'[u].set = node[u].set
              /\ ~obj[u].fin => /\ (Available(u))' => Available(u)
                                /\ mset'[node[u].set] # "absent"
  PROVE  BindInv' /\ CopyInv'
<1>1. CopyInv'
  BY DEF CopyInv, ObjInv
<1>2. BindInv'
  <2> SUFFICES ASSUME NEW u \in UUIDs, (Bound(u))'
               PROVE  /\ Exists(obj'[u]) => obj'[u].set = node'[u].set
                      /\ cache'[u].fin => obj'[u].fin
                      /\ ~obj'[u].fin => ~(Available(u))' /\ mset'[node'[u].set] # "absent"
    BY DEF BindInv
  <2>1. CASE obj'[u].fin /\ obj'[u].set = node'[u].set
    BY <2>1
  <2>2. CASE ~(obj'[u].fin /\ obj'[u].set = node'[u].set)
    BY <2>2 DEF BindInv
  <2> QED
    BY <2>1, <2>2
<1> QED
  BY <1>1, <1>2

\* A step that writes no Machine object and no binding.
LEMMA BindCalm ==
  ASSUME BindInv, CopyInv, ObjInv, UNCHANGED <<obj, cache, node, avail>>,
         \A s \in Sets : mset[s] # "absent" => mset'[s] # "absent",
         TypeOK
  PROVE  BindInv' /\ CopyInv'
<1>1. ObjInv'
  BY DEF ObjInv, Live
<1>2. \A u \in UUIDs : Bound(u) => node[u].set \in Sets
  BY DEF TypeOK, OmniTypeOK, Node, NoNode, Bound
<1>3. \A u \in UUIDs : (Bound(u))' = Bound(u) /\ (Available(u))' = Available(u)
  BY DEF Bound, Available
<1> QED
  BY <1>1, <1>2, <1>3, BindKept DEF BindInv

\* A step to a place where nothing is listed or removed has little to keep.
LEMMA RestKeepsScope ==
  ASSUME ScopeInv,
         cpc' \notin {"adopt", "scale", "drop", "dropall"},
         cpc' = "settle" \/ cnew' = {},
         spec' = spec, cspec' \in {cspec, spec}
  PROVE  ScopeInv' /\ ListInv'
BY DEF ScopeInv, ListInv

-----------------------------------------------------------------------------
(* Steps of the Machine controller.                                        *)

\* What a step of it may do to a machine: nothing, guard its object, bind it
\* to the set its guarded object names, release it, or let an unbound object
\* go.  What it writes is no longer what a pass has listed.
MachineMove(u) ==
  \/ obj'[u] = obj[u] /\ node'[u].set \in {node[u].set, NoSet}
  \/ /\ node'[u] = node[u] /\ Live(obj[u]) /\ obj'[u].set = obj[u].set
     /\ obj'[u].fin /\ ~obj'[u].del /\ u \notin cfresh'
  \/ obj'[u] = obj[u] /\ obj[u].fin /\ node'[u].set = obj[u].set
  \/ /\ node'[u] = node[u] /\ ~Bound(u) /\ obj[u].del
     /\ obj'[u] = NoObj /\ u \notin cfresh'

LEMMA MachineMoves ==
  ASSUME IInv, MachineStep
  PROVE  /\ \A u \in UUIDs : MachineMove(u)
         /\ UNCHANGED <<cr, spec, mset, avail, crest>>
         /\ cfresh' \subseteq cfresh
         /\ cache' = cache \/ cache' = obj'
<1>0. /\ MachineInv /\ ObjInv /\ CacheInv /\ TypeOK
      /\ node \in [UUIDs -> Node] /\ obj \in [UUIDs -> MachineObj]
      /\ (mpc # "idle" => mkey \in UUIDs)
  BY DEF IInv, TypeOK, OmniTypeOK, KubeTypeOK, MachinePassTypeOK
<1>1. UNCHANGED <<cr, spec, mset, avail, crest>> /\ (cache' = cache \/ cache' = obj')
  BY DEF MachineStep, MAddFinalizer, MBind, MBindFail, MUnbindWait, MUnbind, MConfigure,
     MClean, MUnfinalize, MFail, MWrite, Persist, kube, omni, cvars, crest
<1>2. cfresh' \subseteq cfresh
  BY DEF MachineStep, MAddFinalizer, MBind, MBindFail, MUnbindWait, MUnbind, MConfigure,
     MClean, MUnfinalize, MFail, MWrite, MStatus, cvars
<1>3. ASSUME NEW v \in UUIDs, MAddFinalizer(v), NEW u \in UUIDs
      PROVE  MachineMove(u)
  <2>1. /\ cache[v] = obj[v] /\ Live(obj[v]) /\ node' = node /\ v \notin cfresh'
        /\ obj' = [obj EXCEPT ![v] = [obj[v] EXCEPT !.fin = TRUE]]
    BY <1>0, <1>3 DEF MAddFinalizer, CacheInv, MWrite, Persist, omni
  <2>2. obj[v] \in [set: Sets, fin: BOOLEAN, del: BOOLEAN, tmpl: Templates]
    BY <1>0, <2>1 DEF Live, Exists, MachineObj, NoObj
  <2>3. LET o == [obj[v] EXCEPT !.fin = TRUE]
        IN  o.set = obj[v].set /\ o.fin /\ o.del = obj[v].del
    BY <2>2
  <2> QED
    BY <1>0, <2>1, <2>3 DEF MachineMove, Live
<1>4. ASSUME NEW v \in UUIDs, MBind(v), NEW u \in UUIDs
      PROVE  MachineMove(u)
  <2>1. /\ obj' = obj /\ Live(cache[v]) /\ cache[v].fin
        /\ node' = IF Bound(v) THEN node
                   ELSE [node EXCEPT ![v] = [set |-> cache[v].set, tearing |-> FALSE]]
    BY <1>4 DEF MBind, MayBind, kube
  <2>2. obj[v].fin /\ obj[v].set = cache[v].set
    BY <1>0, <2>1 DEF ObjInv
  <2> QED
    BY <1>0, <2>1, <2>2 DEF MachineMove
<1>5. ASSUME NEW v \in UUIDs, MUnbindWait(v), NEW u \in UUIDs
      PROVE  MachineMove(u)
  <2>1. obj' = obj /\ Bound(v) /\ node' = [node EXCEPT ![v].tearing = TRUE]
    BY <1>5 DEF MUnbindWait, NodeTearing, kube
  <2>2. node[v] \in [set: Sets, tearing: BOOLEAN]
    BY <1>0, <2>1 DEF Bound, Node, NoNode
  <2> QED
    BY <1>0, <2>1, <2>2 DEF MachineMove
<1>6. ASSUME NEW v \in UUIDs, MUnbind(v), NEW u \in UUIDs
      PROVE  MachineMove(u)
  BY <1>0, <1>6 DEF MUnbind, NodeDestroyed, NoNode, kube, MachineMove
<1>7. ASSUME \/ MConfigure \/ MClean \/ MFail
             \/ \E v \in UUIDs : MBindFail(v),
             NEW u \in UUIDs
      PROVE  MachineMove(u)
  BY <1>7 DEF MConfigure, MClean, MFail, MBindFail, kube, omni, MachineMove
<1>8. ASSUME MUnfinalize, NEW u \in UUIDs
      PROVE  MachineMove(u)
  BY <1>0, <1>8 DEF MUnfinalize, MWrite, Persist, MachineInv, omni, MachineMove
<1> QED
  BY <1>1, <1>2, <1>3, <1>4, <1>5, <1>6, <1>7, <1>8 DEF MachineStep

\* A step of the Machine controller disturbs none of it.
LEMMA MachineKeepsScale ==
  ASSUME IInv, IInv', ScaleInv, MachineStep
  PROVE  ScaleInv'
<1>0. /\ \A u \in UUIDs : MachineMove(u)
      /\ UNCHANGED <<spec, mset, avail, cpc, cspec, cset, cexist, cnew, cdel>>
      /\ cfresh' \subseteq cfresh /\ (cache' = cache \/ cache' = obj')
  BY MachineMoves DEF crest
<1>1. /\ ~Exists(NoObj) /\ ~NoObj.fin
      /\ cfresh \subseteq UUIDs /\ cdel \subseteq UUIDs /\ TypeOK /\ ObjInv /\ ObjInv'
      /\ (cpc \in {"adopt", "scale", "drop"} => cset # NoSet)
  BY FleetAssumption DEF NoObj, Exists, IInv, TypeOK, PassTypeOK, PassInv
<1>2. \A u \in UUIDs :
        /\ (Bound(u))' =>
             \/ obj'[u].fin /\ obj'[u].set = node'[u].set
             \/ /\ Bound(u) /\ node'[u].set = node[u].set
                /\ obj[u].fin => obj'[u].fin
                /\ Exists(obj'[u]) => Exists(obj[u]) /\ obj'[u].set = obj[u].set
                /\ (Available(u))' => Available(u)
        /\ u \in cfresh' => obj'[u] = obj[u]
        /\ (Bound(u))' /\ obj[u].fin => obj'[u].fin
        /\ node'[u].set # NoSet /\ ~obj'[u].fin => node'[u].set = node[u].set /\ ~obj[u].fin
        /\ (Bound(u))' /\ ~Exists(obj'[u]) => node'[u].set = node[u].set /\ ~Exists(obj[u])
  <2> TAKE u \in UUIDs
  <2>1. MachineMove(u) /\ (obj[u].fin => Exists(obj[u]))
    BY <1>0, <1>1, GuardedExist
  <2>2. Bound(u) /\ (Bound(u))' => ((Available(u))' => Available(u))
    BY <1>0 DEF Available, Bound
  <2> QED
    BY <1>1, <2>1, <2>2 DEF MachineMove, Bound, Exists, Live
<1>3. BindInv' /\ CopyInv'
  <2>1. \A u \in UUIDs : (Bound(u))' =>
          \/ obj'[u].fin /\ obj'[u].set = node'[u].set
          \/ /\ Bound(u) /\ node'[u].set = node[u].set
             /\ obj[u].fin => obj'[u].fin
             /\ Exists(obj'[u]) => \/ Exists(obj[u]) /\ obj'[u].set = obj[u].set
                                   \/ obj'[u].set = node[u].set
             /\ ~obj[u].fin => /\ (Available(u))' => Available(u)
                               /\ mset'[node[u].set] # "absent"
    BY <1>0, <1>2 DEF ScaleInv, BindInv
  <2> QED
    BY <1>0, <1>1, <2>1, BindKept DEF ScaleInv
<1>4. ScopeInv'
  BY <1>0, <1>1, <1>2 DEF ScaleInv, ScopeInv, Bound
<1>5. ListInv'
  <2>1. cpc = "scale" => BareIn(cset, obj', node') \subseteq active
    <3> SUFFICES ASSUME cpc = "scale", NEW u \in UUIDs,
                        node'[u].set = cset, ~Exists(obj'[u])
                 PROVE  u \in active
      BY DEF BareIn
    <3>1. node[u].set = cset /\ ~Exists(obj[u])
      BY <1>1, <1>2 DEF Bound
    <3> QED
      BY <3>1 DEF ScaleInv, ListInv, BareIn
  <2>2. \A u \in cdel : cpc \in {"adopt", "scale"} /\ (Bound(u))' => obj'[u].fin
    <3> SUFFICES ASSUME NEW u \in cdel, cpc \in {"adopt", "scale"}, (Bound(u))'
                 PROVE  obj'[u].fin
      OBVIOUS
    <3>1. CASE Bound(u)
      BY <1>1, <1>2, <3>1 DEF ScaleInv, ListInv
    <3>2. CASE ~Bound(u)
      BY <1>1, <1>2, <3>2
    <3> QED
      BY <3>1, <3>2
  <2>3. active' = active
    BY <1>0 DEF active
  <2> QED
    BY <1>0, <1>1, <1>2, <2>1, <2>2, <2>3 DEF ScaleInv, ListInv
<1> QED
  BY <1>3, <1>4, <1>5 DEF ScaleInv

-----------------------------------------------------------------------------
(* Writes and releases of the cluster controller.                          *)

\* A write of the cluster controller keeps what holds of bindings, when an
\* object is only created in front of a binding of its set or of none.
LEMMA WriteKeepsBind ==
  ASSUME IInv, ScaleInv, ObjInv', CWrite(obj'), ClusterWrites(obj'),
         UNCHANGED <<node, avail>>,
         \A s \in Sets : mset[s] # "absent" => mset'[s] # "absent",
         \A u \in UUIDs : ~Exists(obj[u]) /\ Exists(obj'[u]) /\ Bound(u) =>
           obj'[u].set = node[u].set
  PROVE  BindInv' /\ CopyInv'
<1>1. /\ \A u \in UUIDs : (Bound(u))' = Bound(u) /\ (Available(u))' = Available(u)
      /\ \A u \in UUIDs : Bound(u) => node[u].set \in Sets
  BY DEF IInv, TypeOK, OmniTypeOK, Node, NoNode, Bound, Available
<1>2. \A u \in UUIDs :
        /\ Exists(obj[u]) /\ Exists(obj'[u]) => obj'[u].set = obj[u].set
        /\ obj[u].fin => obj'[u].fin
  <2> TAKE u \in UUIDs
  <2>1. obj[u] \in MachineObj /\ ObjMove(obj[u], obj'[u]) /\ NoSet \notin Sets
    BY FleetAssumption DEF IInv, TypeOK, KubeTypeOK, ClusterWrites
  <2>2. CASE obj[u] = NoObj
    BY <2>2 DEF NoObj, Exists
  <2>3. CASE obj[u] \in [set: Sets, fin: BOOLEAN, del: BOOLEAN, tmpl: Templates]
    <3>1. CASE obj'[u] = obj[u] \/ (~obj[u].fin /\ obj'[u] = NoObj)
      BY <3>1 DEF NoObj, Exists
    <3>2. CASE obj'[u] = [obj[u] EXCEPT !.del = TRUE]
      BY <2>3, <3>2
    <3>3. ASSUME NEW t \in Templates, obj'[u] = [obj[u] EXCEPT !.tmpl = t]
          PROVE  obj'[u].set = obj[u].set /\ obj'[u].fin = obj[u].fin
      BY <2>3, <3>3
    <3>4. obj[u] # NoObj
      BY <2>1, <2>3 DEF NoObj
    <3> QED
      BY <2>1, <3>1, <3>2, <3>3, <3>4 DEF ObjMove
  <2> QED
    BY <2>1, <2>2, <2>3 DEF MachineObj
<1>3. BindInv /\ CopyInv /\ (cache' = cache \/ cache' = obj')
  BY DEF CWrite, Persist, ScaleInv
<1>4. \A u \in UUIDs : (Bound(u))' =>
        /\ Bound(u) /\ node'[u].set = node[u].set
        /\ obj[u].fin => obj'[u].fin
        /\ Exists(obj'[u]) => \/ Exists(obj[u]) /\ obj'[u].set = obj[u].set
                              \/ obj'[u].set = node[u].set
        /\ ~obj[u].fin => /\ (Available(u))' => Available(u)
                          /\ mset'[node[u].set] # "absent"
  BY <1>1, <1>2, <1>3 DEF BindInv
<1> QED
  BY <1>3, <1>4, BindKept

\* Deleting Machines creates none; nor does syncing them.
LEMMA DeleteKeepsBind ==
  ASSUME IInv, ScaleInv, ObjInv', NEW S, CWrite(deleteMachines(S)),
         UNCHANGED <<mset, node, avail>>
  PROVE  BindInv' /\ CopyInv'
<1>1. obj' = deleteMachines(S) /\ ClusterWrites(obj') /\ CWrite(obj')
  BY DeleteMoves DEF CWrite, Persist, IInv
<1>2. \A u \in UUIDs : ~Exists(obj[u]) => ~Exists(obj'[u])
  BY <1>1 DEF deleteMachines, Deleted
<1> QED
  BY <1>1, <1>2, WriteKeepsBind

LEMMA SyncKeepsBind ==
  ASSUME IInv, ScaleInv, ObjInv', NEW S, S \subseteq cexist \cap cfresh,
         CWrite(syncMachines(S)), UNCHANGED <<node, avail>>,
         \A s \in Sets : mset[s] # "absent" => mset'[s] # "absent"
  PROVE  BindInv' /\ CopyInv'
<1>1. obj' = syncMachines(S) /\ ClusterWrites(obj') /\ CWrite(obj')
  BY SyncMoves DEF CWrite, Persist, IInv
<1>2. \A u \in UUIDs : ~Exists(obj[u]) => obj'[u] = obj[u]
  BY <1>1 DEF syncMachines, IInv, PassInv
<1> QED
  BY <1>1, <1>2, WriteKeepsBind

\* Creating Machines for a set keeps it over bindings of it or of none.
LEMMA CreateKeepsBind ==
  ASSUME IInv, ScaleInv, ObjInv', NEW S, NEW s \in Sets,
         \A u \in S \cap UUIDs : ~Exists(obj[u]) /\ Bound(u) => node[u].set = s,
         CWrite(createMachines(S, s)), UNCHANGED <<mset, node, avail>>
  PROVE  BindInv' /\ CopyInv'
<1>1. obj' = createMachines(S, s) /\ ClusterWrites(obj') /\ CWrite(obj')
  BY CreateMoves DEF CWrite, Persist, IInv
<1>2. \A u \in UUIDs : ~Exists(obj[u]) /\ Exists(obj'[u]) =>
                         u \in S /\ obj'[u].set = s
  BY <1>1 DEF createMachines
<1> QED
  BY <1>1, <1>2, WriteKeepsBind

\* A release of bindings keeps what holds of those that stay.
LEMMA ReleaseKeepsBind ==
  ASSUME IInv, ScaleInv, ObjInv', ReleaseStep, UNCHANGED <<mset, avail>>
  PROVE  BindInv' /\ CopyInv'
<1>1. \A u \in UUIDs : (Bound(u))' => Bound(u) /\ node'[u].set = node[u].set
  BY DEF ReleaseStep, Bound, NoNode
<1>2. UNCHANGED <<obj, cache>>
  BY DEF ReleaseStep
<1>3. \A u \in UUIDs : Bound(u) /\ (Bound(u))' => ((Available(u))' => Available(u))
  BY DEF Available
<1> QED
  BY <1>1, <1>2, <1>3, BindKept DEF ScaleInv, BindInv

\* A machine that is offered and has no Machine object is not bound.
LEMMA FreshUnbound ==
  ASSUME TypeOK, BindInv
  PROVE  \A u \in fresh : u \in UUIDs /\ (~Exists(obj[u]) => ~Bound(u))
<1>1. \A u \in fresh : u \in UUIDs /\ Available(u)
  BY DEF fresh, SelectAvailableMachines, First
<1> QED
  BY <1>1, GuardedExist DEF BindInv

LEMMA ScaleNumbers ==
  ASSUME TypeOK, PassInv, cpc = "scale"
  PROVE  /\ cset \in Sets /\ desired \in Nat /\ needed \in Int
         /\ IsFiniteSet(active) /\ Cardinality(active) \in Nat
         /\ desired = needed + Cardinality(active)
         /\ needed < 0 => toRemove \in Nat /\ toRemove <= -needed
<1>1. cset \in Sets /\ desired \in Nat
  BY DEF PassInv, TypeOK, PassTypeOK, SpecType, desired
<1>2. active \subseteq UUIDs
  BY DEF TypeOK, PassTypeOK, active
<1>3. IsFiniteSet(active) /\ Cardinality(active) \in Nat
  BY <1>2, FleetAssumption, FS_Subset, FS_CardinalityType
<1>4. needed \in Int /\ desired = needed + Cardinality(active)
  BY <1>1, <1>3 DEF needed
<1>5. needed < 0 => toRemove \in Nat /\ toRemove <= -needed
  BY <1>4 DEF toRemove
<1> QED
  BY <1>1, <1>3, <1>4, <1>5

\* Machines adopted that have no object are bound to the set; of those whose
\* entry was current none has one, and none of them was counted before.
LEMMA AdoptedAreBare ==
  ASSUME IInv, ScaleInv, cpc = "adopt"
  PROVE  /\ cset \in Sets /\ cset # NoSet /\ cnew = {}
         /\ \A u \in AdoptSet :
              /\ u \in UUIDs /\ u \notin cexist /\ node[u].set = cset
              /\ Exists(obj[u]) => obj[u].set = cset
              /\ u \in cfresh => ~Exists(obj[u])
<1>1. cset \in Sets /\ cset # NoSet /\ cnew = {}
  BY FleetAssumption DEF IInv, PassInv, ScaleInv, ScopeInv
<1>2. \A u \in AdoptSet : u \in UUIDs /\ node[u].set = cset /\ u \notin cexist
  BY DEF AdoptSet, AllocatedMachineSetNodes
<1>3. \A u \in AdoptSet : Exists(obj[u]) => obj[u].set = cset
  BY <1>1, <1>2 DEF ScaleInv, BindInv, Bound
<1>4. \A u \in AdoptSet \cap cfresh : ~Exists(obj[u])
  BY <1>1, <1>2, <1>3 DEF ScaleInv, ListInv
<1> QED
  BY <1>1, <1>2, <1>3, <1>4

-----------------------------------------------------------------------------
(* Steps of the cluster controller and of the environment.                 *)

LEMMA ListKeepsScale ==
  ASSUME IInv, ScaleInv, NEW s \in Sets, List(s)
  PROVE  ScaleInv'
<1>1. /\ s # NoSet /\ TypeOK /\ ObjInv /\ BindInv /\ CopyInv
      /\ UNCHANGED <<spec, obj, cache, node, avail, cspec, cnew>>
      /\ cpc = "list" /\ cpc' = "adopt" /\ cset' = s
      /\ cexist' = {u \in UUIDs : cache[u].set = s}
      /\ cdel' = {u \in cexist' : cache[u].del}
      /\ cfresh' = UUIDs \ stale
      /\ mset' = IF mset[s] = "absent" THEN [mset EXCEPT ![s] = "bare"] ELSE mset
  BY FleetAssumption DEF IInv, ScaleInv, List, listMachineSetMachines, kube
<1>2. mset \in [Sets -> {"absent", "bare", "extended", "tearing"}]
  BY <1>1 DEF TypeOK, OmniTypeOK
<1>3. \A t : mset[t] # "absent" => mset'[t] # "absent"
  BY <1>1, <1>2
<1>4. BindInv' /\ CopyInv'
  BY <1>1, <1>3, BindCalm
<1>5. ScopeInv' /\ cnew' = {}
  BY <1>1 DEF ScaleInv, ScopeInv
<1>6. ListInv'
  <2>1. \A u \in cfresh' : cache[u] = obj[u] /\ u \in UUIDs
    BY <1>1 DEF IInv, CacheInv
  <2>2. active' = cexist' \ cdel'
    BY <1>5 DEF active
  <2>3. \A u \in cdel' : Bound(u) => obj[u].fin
    BY <1>1 DEF BindInv, CopyInv
  <2> QED
    BY <1>1, <1>5, <2>1, <2>2, <2>3 DEF ListInv, Bound
<1> QED
  BY <1>4, <1>5, <1>6 DEF ScaleInv

LEMMA AdoptKeepsScale ==
  ASSUME IInv, ObjInv', ScaleInv, Adopt
  PROVE  ScaleInv'
<1>1. /\ cpc = "adopt" /\ cpc' = "scale" /\ cnew' = AdoptSet
      /\ UNCHANGED <<spec, mset, node, avail, cspec, cset, cexist, cdel, cfresh>>
      /\ CWrite(createMachines(AdoptSet, cset))
  BY DEF Adopt, omni
<1>2. /\ cset \in Sets /\ cset # NoSet /\ cnew = {}
      /\ \A u \in AdoptSet :
           /\ u \in UUIDs /\ u \notin cexist /\ node[u].set = cset
           /\ Exists(obj[u]) => obj[u].set = cset
           /\ u \in cfresh => ~Exists(obj[u])
  BY <1>1, AdoptedAreBare
<1>3. TypeOK /\ ListInv /\ ScopeInv
  BY DEF IInv, ScaleInv
<1>4. BindInv' /\ CopyInv'
  BY <1>1, <1>2, CreateKeepsBind
<1>5. \A u \in UUIDs :
        /\ u \in AdoptSet => obj'[u].set = cset
        /\ u \in AdoptSet /\ ~Exists(obj[u]) => ~obj'[u].del
        /\ Exists(obj[u]) => obj'[u] = obj[u]
        /\ u \notin AdoptSet => obj'[u] = obj[u]
  BY <1>1, <1>2 DEF CWrite, Persist, createMachines
<1>6. ScopeInv'
  BY <1>1, <1>3 DEF ScopeInv
<1>7. ListInv'
  <2>1. active' = active \cup AdoptSet
    BY <1>1, <1>2, <1>3 DEF active, TypeOK, PassTypeOK
  <2>2. \A u \in cfresh : /\ u \in cexist \cup AdoptSet <=> obj'[u].set = cset
                          /\ u \in active' <=> obj'[u].set = cset /\ ~obj'[u].del
    BY <1>1, <1>2, <1>3, <1>5, <2>1 DEF ListInv, TypeOK, PassTypeOK
  <2>3. \A u \in cdel : Bound(u) => obj'[u].fin
    BY <1>1, <1>3, <1>5, GuardedExist DEF ListInv, TypeOK, PassTypeOK
  <2>4. BareIn(cset, obj', node) \subseteq active'
    <3> SUFFICES ASSUME NEW u \in UUIDs, node[u].set = cset, ~Exists(obj'[u])
                 PROVE  u \in active'
      BY DEF BareIn
    <3>1. u \notin AdoptSet /\ u \in cexist
      BY <1>2, <1>5 DEF Exists, AdoptSet, AllocatedMachineSetNodes
    <3>2. u \notin cdel
      BY <1>2, <1>3, <2>3, <3>1, GuardedExist, <1>5 DEF Bound, ListInv
    <3> QED
      BY <2>1, <3>1, <3>2 DEF active
  <2> QED
    BY <1>1, <2>2, <2>3, <2>4 DEF ListInv, Bound
<1> QED
  BY <1>4, <1>6, <1>7 DEF ScaleInv

LEMMA AllocateKeepsScale ==
  ASSUME IInv, IInv', ScaleInv, Allocate
  PROVE  ScaleInv'
<1>0. TypeOK /\ PassInv /\ ObjInv /\ ObjInv' /\ BindInv /\ CopyInv /\ ScopeInv /\ ListInv
  BY DEF IInv, ScaleInv
<1> USE <1>0
<1>1. CASE AddFinalizer
  <2>1. UNCHANGED <<obj, cache, mset, node, avail, cpc, cspec, cset, cexist, cnew, cdel>>
        /\ cpc = "idle" /\ spec'.sets = spec.sets
    BY <1>1 DEF AddFinalizer, omni, cvars, Defaulted, TypeOK, KubeTypeOK, SpecType
  <2>2. ScopeInv' /\ ListInv'
    BY <2>1 DEF ScopeInv, ListInv
  <2> QED
    BY <2>1, <2>2, BindCalm DEF ScaleInv
<1>2. CASE Begin \/ ScaleNone \/ ScaleUpShort
  <2>1. UNCHANGED <<spec, obj, cache, mset, node, avail>>
        /\ cpc' \in {"list", "settle", "idle"}
        /\ cspec' \in {cspec, spec} /\ (cpc' # "settle" => cnew' = {})
    BY <1>2 DEF Begin, ScaleNone, ScaleUpShort, CEndPass, ScopeInv, kube, omni
  <2> QED
    BY <2>1, BindCalm, RestKeepsScope DEF ScaleInv
<1>3. CASE ScaleUp
  <2>1. /\ UNCHANGED <<spec, mset, node, avail, cspec>> /\ cpc' = "settle"
        /\ CWrite(createMachines(fresh, cset)) /\ cset \in Sets
    BY <1>3, ScaleNumbers DEF ScaleUp, omni
  <2>2. BindInv' /\ CopyInv'
    BY <2>1, FreshUnbound, CreateKeepsBind
  <2> QED
    BY <2>1, <2>2, RestKeepsScope DEF ScaleInv
<1>4. CASE ScaleDown
  <2>1. /\ UNCHANGED <<spec, mset, node, avail, cspec>> /\ cpc' = "settle"
        /\ CWrite(deleteMachines(RemovalOrder(toRemove)))
    BY <1>4 DEF ScaleDown, omni
  <2>2. BindInv' /\ CopyInv'
    BY <2>1, DeleteKeepsBind
  <2> QED
    BY <2>1, <2>2, RestKeepsScope DEF ScaleInv
<1>5. CASE Settle
  <2>1. /\ UNCHANGED <<spec, node, avail, cspec>> /\ cset \in Sets
        /\ CWrite(syncMachines(cexist \cap csync)) /\ cexist \cap csync \subseteq cexist \cap cfresh
        /\ cpc' \in {"prune", "list"} /\ cnew' = {}
        /\ mset' = IF mset[cset] = "tearing" THEN mset
                   ELSE [mset EXCEPT ![cset] = IF cspec.tmpl = 2 THEN "extended" ELSE "bare"]
    BY <1>5 DEF Settle, PassInv
  <2>2. \A s \in Sets : mset[s] # "absent" => mset'[s] # "absent"
    BY <2>1 DEF TypeOK, OmniTypeOK
  <2>3. BindInv' /\ CopyInv'
    BY <2>1, <2>2, SyncKeepsBind
  <2> QED
    BY <2>1, <2>3, RestKeepsScope DEF ScaleInv
<1>6. CASE SettleConflict
  <2>1. /\ UNCHANGED <<spec, mset, node, avail, cspec>> /\ cpc' = "idle" /\ cnew' = {}
        /\ \E S \in SUBSET (cexist \cap cfresh) : CWrite(syncMachines(S))
    BY <1>6 DEF SettleConflict, CEndPass, omni
  <2>2. BindInv' /\ CopyInv'
    BY <2>1, SyncKeepsBind
  <2> QED
    BY <2>1, <2>2, RestKeepsScope DEF ScaleInv
<1> QED
  BY <1>1, <1>2, <1>3, <1>4, <1>5, <1>6, ListKeepsScale, AdoptKeepsScale DEF Allocate

LEMMA PruneKeepsScale ==
  ASSUME IInv, IInv', ScaleInv, Prune
  PROVE  ScaleInv'
<1>0. /\ TypeOK /\ PassInv /\ CacheInv /\ ObjInv /\ ObjInv' /\ BindInv /\ CopyInv
      /\ ScopeInv
  BY DEF IInv, ScaleInv
<1> USE <1>0
<1>1. CASE PruneDone
  <2>1. UNCHANGED <<spec, obj, cache, mset, node, avail, cspec>> /\ cpc' = "idle"
        /\ cnew' = {}
    BY <1>1 DEF PruneDone, CEndPass, kube, omni
  <2> QED
    BY <2>1, BindCalm, RestKeepsScope DEF ScaleInv
<1>2. ASSUME NEW s \in Sets, PruneDelete(s)
      PROVE  ScaleInv'
  <2>1. UNCHANGED <<spec, mset, node, avail, cspec>> /\ cpc' = "idle" /\ cnew' = {}
        /\ \E S : CWrite(deleteMachines(S))
    BY <1>2 DEF PruneDelete, CEndPass, omni
  <2> QED
    BY <2>1, DeleteKeepsBind, RestKeepsScope DEF ScaleInv
<1>3. ASSUME NEW s \in Sets, PruneRelease(s)
      PROVE  ScaleInv'
  <2>1. /\ UNCHANGED <<spec, obj, cache, mset, avail, cspec, cnew>>
        /\ cpc = "prune" /\ cpc' = "drop" /\ cset' = s /\ cfresh' = UUIDs \ stale
        /\ \A u \in UUIDs : cache[u].set # s
        /\ node' = [u \in UUIDs |-> IF u \in AllocatedMachineSetNodes(s)
                                    THEN NoNode ELSE node[u]]
    BY <1>3 DEF PruneRelease, AllUnwound, listMachineSetMachines, Released, kube
  <2>2. \A u \in UUIDs : node'[u].set # s
    BY <2>1, FleetAssumption DEF AllocatedMachineSetNodes, NoNode
  <2>3. BindInv' /\ CopyInv'
    BY <1>3, <2>1, PruneReleases, ReleaseKeepsBind
  <2>4. \A u \in cfresh' : obj'[u].set # s
    BY <2>1 DEF CacheInv
  <2>5. ScopeInv' /\ ListInv'
    BY <2>1, <2>2, <2>4 DEF ScopeInv, ListInv
  <2> QED
    BY <2>3, <2>5 DEF ScaleInv
<1>4. ASSUME NEW s \in Sets, PruneReleaseWait(s)
      PROVE  ScaleInv'
  <2>1. UNCHANGED <<spec, mset, avail, cspec>> /\ cpc' = "idle" /\ cnew' = {}
    BY <1>4 DEF PruneReleaseWait, CEndPass, kube
  <2> QED
    BY <1>4, <2>1, PruneReleases, ReleaseKeepsBind, RestKeepsScope DEF ScaleInv
<1>5. CASE PruneDrop \/ PruneDropWait
  <2>1. /\ UNCHANGED <<spec, obj, cache, node, avail, cspec>> /\ cpc = "drop"
        /\ cpc' \in {"prune", "idle"} /\ cnew' = {} /\ cset \in Sets
        /\ \E v \in {"absent", "tearing"} : mset' = [mset EXCEPT ![cset] = v]
    BY <1>5 DEF PruneDrop, PruneDropWait, CEndPass, PassInv, ScopeInv, kube
  <2>2. /\ \A t : t # cset => mset'[t] = mset[t]
        /\ \A u \in UUIDs : node[u].set = cset => obj[u].fin
    BY <2>1 DEF TypeOK, OmniTypeOK, ScopeInv
  <2>3. \A u \in UUIDs : (Bound(u))' = Bound(u) /\ (Available(u))' = Available(u)
    BY <2>1 DEF Bound, Available
  <2>4. BindInv' /\ CopyInv'
    BY <2>1, <2>2, <2>3, BindKept DEF BindInv
  <2> QED
    BY <2>1, <2>4, RestKeepsScope DEF ScaleInv
<1> QED
  BY <1>1, <1>2, <1>3, <1>4, <1>5 DEF Prune

LEMMA TeardownKeepsScale ==
  ASSUME IInv, IInv', ScaleInv, Teardown
  PROVE  ScaleInv'
<1>0. /\ TypeOK /\ PassInv /\ CacheInv /\ ObjInv /\ ObjInv' /\ BindInv /\ CopyInv
      /\ ScopeInv
  BY DEF IInv, ScaleInv
<1> USE <1>0
<1>1. CASE DeleteMachines
  <2>1. UNCHANGED <<spec, mset, node, avail, cpc, cspec, cnew>> /\ cpc = "idle"
        /\ \E S : CWrite(deleteMachines(S))
    BY <1>1 DEF DeleteMachines, omni, cvars
  <2>2. cnew' = {}
    BY <2>1 DEF ScopeInv
  <2> QED
    BY <2>1, <2>2, DeleteKeepsBind, RestKeepsScope DEF ScaleInv
<1>2. CASE DeleteRelease
  <2>1. /\ UNCHANGED <<spec, obj, cache, mset, avail, cspec, cnew>>
        /\ cpc = "idle" /\ cpc' = "dropall" /\ cfresh' = UUIDs \ stale
        /\ \A u \in UUIDs : ~Exists(cache[u])
        /\ node' = [u \in UUIDs |-> IF u \in ClusterNodes THEN NoNode ELSE node[u]]
    BY <1>2 DEF DeleteRelease, AllUnwound, listClusterMachines, Released, kube
  <2>2. \A u \in UUIDs : (Bound(u))' => obj[u].fin
    BY <2>1 DEF ClusterNodes, NoNode, Bound, BindInv
  <2>3. BindInv' /\ CopyInv'
    BY <1>2, <2>1, TeardownReleases, ReleaseKeepsBind
  <2>4. \A u \in cfresh' : ~Exists(obj'[u])
    BY <2>1 DEF CacheInv
  <2>5. ScopeInv' /\ ListInv'
    BY <2>1, <2>2, <2>4 DEF ScopeInv, ListInv
  <2> QED
    BY <2>3, <2>5 DEF ScaleInv
<1>3. CASE DeleteReleaseWait
  <2>1. UNCHANGED <<spec, mset, avail, cpc, cspec, cnew>> /\ cpc = "idle"
    BY <1>3 DEF DeleteReleaseWait, kube, cvars
  <2>2. cnew' = {}
    BY <2>1 DEF ScopeInv
  <2> QED
    BY <1>3, <2>1, <2>2, TeardownReleases, ReleaseKeepsBind, RestKeepsScope DEF ScaleInv
<1>4. ASSUME \/ \E s \in Sets : DeleteDrop(s) \/ DeleteDropWait(s)
             \/ DeleteDone
      PROVE  ScaleInv'
  <2>1. /\ UNCHANGED <<spec, obj, cache, node, avail, cspec>> /\ cpc = "dropall"
        /\ \/ cpc' = "idle" /\ cnew' = {}
           \/ UNCHANGED <<cpc, cset, cnew, cfresh>>
    BY <1>4 DEF DeleteDrop, DeleteDropWait, DeleteDone, CEndPass, kube, omni, cvars
  <2>2. cnew = {} /\ \A u \in UUIDs : Bound(u) => obj[u].fin
    BY <2>1 DEF ScopeInv
  <2>3. \A u \in UUIDs : (Bound(u))' = Bound(u)
    BY <2>1 DEF Bound
  <2>4. BindInv' /\ CopyInv'
    BY <2>1, <2>2, <2>3, BindKept DEF BindInv
  <2>5. ScopeInv' /\ ListInv'
    BY <2>1, <2>2, <2>3 DEF ScopeInv, ListInv
  <2> QED
    BY <2>4, <2>5 DEF ScaleInv
<1> QED
  BY <1>1, <1>2, <1>3, <1>4 DEF Teardown

\* A pass that fails half-way has created or marked some of the machines it
\* would have, synced some, or released some bindings.
LEMMA BrokenKeepsScale ==
  ASSUME IInv, IInv', ScaleInv, Broken
  PROVE  ScaleInv'
<1>0. TypeOK /\ PassInv /\ ObjInv /\ ObjInv' /\ ScopeInv
  BY DEF IInv, ScaleInv
<1> USE <1>0
<1>1. /\ UNCHANGED <<spec, avail, cspec>> /\ cpc' = "idle" /\ cnew' = {}
  BY DEF Broken, CFail, CFailRelease, CFailDrop, CFails, CEndPass
<1>2. CASE CFail
  <2>0. UNCHANGED <<node, mset>>
    BY <1>2 DEF CFail
  <2>1. PICK f \in PartWrites : CWrite(f)
    BY <1>2 DEF CFail
  <2>2. BindInv' /\ CopyInv'
    <3>1. CASE cpc = "adopt"
      <4>1. PICK S \in SUBSET AdoptSet : f = createMachines(S, cset)
        BY <2>1, <3>1 DEF PartWrites
      <4> QED
        BY <1>1, <2>0, <2>1, <3>1, <4>1, AdoptedAreBare, CreateKeepsBind
    <3>2. CASE cpc = "scale" /\ needed > 0 /\ Cardinality(fresh) >= needed
      <4>0. PartWrites = {createMachines(First(k, fresh), cset) : k \in 0..needed}
        BY <3>2, ScaleNumbers DEF PartWrites
      <4>1. PICK k \in 0..needed : f = createMachines(First(k, fresh), cset)
        BY <2>1, <4>0
      <4>2. First(k, fresh) \subseteq fresh
        BY DEF First
      <4>3. \A u \in First(k, fresh) : ~Exists(obj[u]) => ~Bound(u)
        BY <4>2, FreshUnbound DEF ScaleInv
      <4> QED
        BY <1>1, <2>0, <2>1, <3>2, <4>1, <4>3, ScaleNumbers, CreateKeepsBind
    <3>3. CASE cpc = "settle"
      <4>1. PICK S \in SUBSET (cexist \cap csync \cap cfresh) : f = syncMachines(S)
        BY <2>1, <3>3 DEF PartWrites
      <4> QED
        BY <1>1, <2>0, <2>1, <4>1, SyncKeepsBind
    <3>4. CASE f = obj
      <4>1. obj' = obj /\ (cache' = cache \/ cache' = obj')
        BY <2>1, <3>4 DEF CWrite, Persist
      <4>2. \A u \in UUIDs : (Bound(u))' = Bound(u) /\ (Available(u))' = Available(u)
        BY <1>1, <2>0 DEF Bound, Available
      <4> QED
        BY <2>0, <4>1, <4>2, BindKept DEF ScaleInv, BindInv
    <3>5. CASE \E S : f = deleteMachines(S)
      BY <1>1, <2>0, <2>1, <3>5, DeleteKeepsBind
    <3>6. \/ cpc = "adopt" \/ cpc = "settle"
          \/ cpc = "scale" /\ needed > 0 /\ Cardinality(fresh) >= needed
          \/ \E S : f = deleteMachines(S)
          \/ f = obj
      BY <2>1 DEF PartWrites
    <3> QED
      BY <3>1, <3>2, <3>3, <3>4, <3>5, <3>6
  <2> QED
    BY <1>1, <2>2, RestKeepsScope DEF ScaleInv
<1>3. CASE CFailRelease
  <2>1. mset' = mset
    BY <1>3 DEF CFailRelease
  <2> QED
    BY <1>1, <1>3, <2>1, BrokenReleases, ReleaseKeepsBind, RestKeepsScope DEF ScaleInv
<1>4. ASSUME NEW s \in Sets, CFailDrop(s)
      PROVE  ScaleInv'
  <2>1. UNCHANGED <<obj, cache, node>> /\ mset' = [mset EXCEPT ![s] = "bare"]
    BY <1>4 DEF CFailDrop
  <2>2. \A t \in Sets : mset[t] # "absent" => mset'[t] # "absent"
    BY <2>1 DEF TypeOK, OmniTypeOK
  <2> QED
    BY <1>1, <2>1, <2>2, BindCalm, RestKeepsScope DEF ScaleInv
<1> QED
  BY <1>2, <1>3, <1>4 DEF Broken

\* A step that writes no Machine object and no binding, and that the pass does
\* not take.
LEMMA CalmKeepsLists ==
  ASSUME TypeOK, ScopeInv, ListInv, CP \in spec'.sets,
         UNCHANGED <<obj, node, cpc, cspec, cset, cexist, cnew, cdel, cfresh>>
  PROVE  ScopeInv' /\ ListInv'
<1>1. /\ \A u \in UUIDs : (Bound(u))' = Bound(u)
      /\ active' = active /\ BareIn(cset', obj', node') = BareIn(cset, obj, node)
  BY DEF Bound, active
<1>2. ScopeInv'
  BY <1>1 DEF ScopeInv
<1>3. ListInv'
  BY <1>1 DEF ListInv, TypeOK, PassTypeOK
<1> QED
  BY <1>2, <1>3

LEMMA EnvironmentKeepsScale ==
  ASSUME IInv, IInv', ScaleInv, Environment
  PROVE  ScaleInv'
<1>0. TypeOK /\ PassInv /\ ObjInv /\ ObjInv' /\ BindInv /\ CopyInv /\ ScopeInv /\ ListInv
  BY DEF IInv, ScaleInv
<1> USE <1>0
<1>1. CASE CacheSync \/ Crash
  <2>1. /\ UNCHANGED <<spec, obj, mset, node, avail, cspec>> /\ cache' = obj
        /\ \/ UNCHANGED <<cpc, cset, cexist, cnew, cdel, cfresh>>
           \/ cpc' = "idle" /\ cnew' = {}
    BY <1>1 DEF CacheSync, Crash, CEndPass, omni, cvars
  <2>2. \A u \in UUIDs : (Bound(u))' = Bound(u) /\ (Available(u))' = Available(u)
    BY <2>1 DEF Bound, Available
  <2>3. BindInv' /\ CopyInv'
    BY <2>1, <2>2, BindKept DEF BindInv
  <2>4. ScopeInv' /\ ListInv'
    BY <2>1, CalmKeepsLists, RestKeepsScope DEF ScopeInv
  <2> QED
    BY <2>3, <2>4 DEF ScaleInv
<1>2. CASE EditSpec \/ DeleteCluster
  <2>1. UNCHANGED <<obj, cache, mset, node, avail, cpc, cspec, cset, cexist, cnew, cdel, cfresh>>
        /\ CP \in spec'.sets
    BY <1>2, FleetAssumption DEF EditSpec, DeleteCluster, ScopeInv, omni, cvars
  <2>2. ScopeInv' /\ ListInv'
    BY <2>1, CalmKeepsLists
  <2> QED
    BY <2>1, <2>2, BindCalm DEF ScaleInv
<1>3. ASSUME NEW v \in UUIDs, LabelSync(v) \/ HealthFlip(v)
      PROVE  ScaleInv'
  <2>1. /\ UNCHANGED <<spec, obj, cache, mset, node, cpc, cspec, cset, cexist, cnew, cdel,
                       cfresh>>
        /\ \/ avail' = avail
           \/ LabelLag /\ avail' = [avail EXCEPT ![v] = ~Bound(v)]
    BY <1>3 DEF LabelSync, HealthFlip, kube, cvars
  <2>2. \A u \in UUIDs : Bound(u) /\ (Available(u))' => Available(u)
    BY <2>1 DEF Available, Bound, TypeOK, OmniTypeOK
  <2>3. \A u \in UUIDs : (Bound(u))' = Bound(u)
    BY <2>1 DEF Bound
  <2>4. BindInv' /\ CopyInv'
    BY <2>1, <2>2, <2>3, BindKept DEF BindInv
  <2>5. ScopeInv' /\ ListInv'
    BY <2>1, CalmKeepsLists DEF ScopeInv
  <2> QED
    BY <2>4, <2>5 DEF ScaleInv
<1>4. ASSUME NEW v \in UUIDs, GarbageCollect(v)
      PROVE  ScaleInv'
  <2>1. /\ UNCHANGED <<spec, mset, node, avail, cpc, cspec, cnew>>
        /\ cpc = "idle" /\ CWrite([obj EXCEPT ![v] = Deleted(@)])
    BY <1>4 DEF GarbageCollect, PassInv, omni, cvars
  <2>2. deleteMachines({v}) = [obj EXCEPT ![v] = Deleted(@)]
    BY DEF deleteMachines, TypeOK, KubeTypeOK
  <2>3. BindInv' /\ CopyInv'
    BY <2>1, <2>2, DeleteKeepsBind
  <2>4. cnew' = {}
    BY <2>1 DEF ScopeInv
  <2> QED
    BY <2>1, <2>3, <2>4, RestKeepsScope DEF ScaleInv
<1> QED
  BY <1>1, <1>2, <1>3, <1>4 DEF Environment

LEMMA ScaleInit == Init => ScaleInv
<1> SUFFICES ASSUME Init
             PROVE  ScaleInv
  OBVIOUS
<1>1. /\ \A u \in UUIDs : obj[u] = NoObj /\ cache[u] = NoObj /\ (Bound(u) => ~avail[u])
      /\ spec \in Specs /\ cspec = spec /\ cpc = "idle" /\ cnew = {}
  BY DEF Init
<1>2. \A u \in UUIDs : Bound(u) => mset[node[u].set] # "absent"
  <2>1. PICK home \in [OutOfBand -> Sets \cup {NoSet}] :
          /\ mset = [s \in Sets |-> IF \E u \in OutOfBand : home[u] = s
                                    THEN "bare" ELSE "absent"]
          /\ node = [u \in UUIDs |-> IF u \in OutOfBand
                                     THEN [set |-> home[u], tearing |-> FALSE] ELSE NoNode]
    BY DEF Init
  <2> QED
    BY <2>1 DEF Bound, NoNode
<1>3. BindInv /\ CopyInv
  BY <1>1, <1>2 DEF BindInv, CopyInv, NoObj, Exists, Available
<1>4. ScopeInv /\ ListInv
  BY <1>1, FleetAssumption DEF ScopeInv, ListInv
<1> QED
  BY <1>3, <1>4 DEF ScaleInv

LEMMA ScaleInvStep ==
  ASSUME IInv, ScaleInv, [Next]_vars
  PROVE  IInv' /\ ScaleInv'
<1>0. IInv'
  BY IInvStep
<1>1. CASE UNCHANGED vars
  <2>1. UNCHANGED <<spec, obj, cache, mset, node, avail, cpc, cspec, cset, cexist, cnew,
                    cdel, cfresh>>
    BY <1>1 DEF vars, kube, omni, cvars
  <2>2. \A u \in UUIDs : (Bound(u))' = Bound(u) /\ (Available(u))' = Available(u)
    BY <2>1 DEF Bound, Available
  <2>3. ScopeInv' /\ ListInv'
    BY <2>1, CalmKeepsLists DEF ScaleInv, ScopeInv, IInv
  <2> QED
    BY <1>0, <2>1, <2>2, <2>3 DEF ScaleInv, BindInv, CopyInv
<1>2. CASE ClusterPass
  BY <1>0, <1>2, AllocateKeepsScale, PruneKeepsScale, TeardownKeepsScale, BrokenKeepsScale
     DEF ClusterPass
<1>3. CASE MachinePass
  BY <1>0, <1>3, MachineKeepsScale DEF MachinePass, MachineStep
<1> QED
  BY <1>0, <1>1, <1>2, <1>3, EnvironmentKeepsScale DEF Next

LEMMA ScaleInvariant == Spec => [](IInv /\ ScaleInv)
<1>1. Init => IInv /\ ScaleInv
  BY IInvInit, ScaleInit
<1>2. (IInv /\ ScaleInv) /\ [Next]_vars => (IInv /\ ScaleInv)'
  BY ScaleInvStep
<1> QED
  BY <1>1, <1>2, PTL DEF Spec

-----------------------------------------------------------------------------
(* What it shows.                                                          *)

\* Who takes a Machine out of its set: scaling down, pruning, or what follows
\* the deletion of the OmniCluster; each in part when a call of it fails.
Scaling(R) == \E k \in 0..toRemove : R = RemovalOrder(k)
Pruning(R) == \E s \in Orphans : R \subseteq listMachineSetMachines(s)

LEMMA RemovalSteps ==
  ASSUME IInv, ScaleInv, [Next]_vars, NEW u \in UUIDs, Live(obj[u]),
         ~(Live(obj'[u]) /\ obj'[u].set = obj[u].set)
  PROVE  \/ /\ cpc = "scale" /\ needed < 0
            /\ \E R : Scaling(R) /\ obj' = deleteMachines(R)
         \/ /\ cpc = "prune"
            /\ \E R : Pruning(R) /\ obj' = deleteMachines(R)
         \/ cpc = "idle" /\ cr \in {"deleting", "gone"}
<1>0. TypeOK /\ PassInv /\ obj' # obj /\ obj[u] \in MachineObj /\ Exists(obj[u])
  BY DEF IInv, TypeOK, KubeTypeOK, Live
<1> USE <1>0
<1>1. ASSUME NEW S, NEW s, obj' = createMachines(S, s)
      PROVE  FALSE
  BY <1>1 DEF createMachines
<1>2. ASSUME NEW S, obj' = syncMachines(S)
      PROVE  FALSE
  <2>1. obj[u] \in [set: Sets, fin: BOOLEAN, del: BOOLEAN, tmpl: Templates]
    BY DEF MachineObj, NoObj, Exists
  <2>2. LET o == [obj[u] EXCEPT !.tmpl = cspec.tmpl]
        IN  o.set = obj[u].set /\ o.del = obj[u].del
    BY <2>1
  <2>3. obj'[u] = obj[u] \/ obj'[u] = [obj[u] EXCEPT !.tmpl = cspec.tmpl]
    BY <1>2 DEF syncMachines
  <2> QED
    BY <2>2, <2>3 DEF Live, Exists
<1>3. ~MachinePass
  <2> SUFFICES ASSUME MachineStep
               PROVE  FALSE
    BY DEF MachinePass, MachineStep
  <2> QED
    BY MachineMoves DEF MachineMove, Live, Exists
<1>4. CASE Allocate
  <2>1. ScaleDown
    BY <1>1, <1>2, <1>4 DEF Allocate, AddFinalizer, Begin, List, Adopt, ScaleUp,
       ScaleUpShort, ScaleNone, Settle, SettleConflict, CWrite, Persist, kube
  <2> QED
    BY <2>1, ScaleNumbers DEF ScaleDown, CWrite, Persist, Scaling
<1>5. CASE Prune
  <2>1. PICK s \in Sets : PruneDelete(s)
    BY <1>5 DEF Prune, PruneDone, PruneDrop, PruneDropWait, PruneRelease,
       PruneReleaseWait, kube
  <2> QED
    BY <2>1 DEF PruneDelete, CWrite, Persist, Pruning, Undeleted
<1>6. CASE Teardown
  BY <1>6 DEF Teardown, DeleteMachines, DeleteRelease, DeleteReleaseWait, DeleteDrop,
     DeleteDropWait, DeleteDone, kube
<1>7. CASE Broken
  <2>1. CFail
    BY <1>7 DEF Broken, CFailRelease, CFailDrop
  <2>2. obj' \in PartWrites /\ (cpc = "idle" => cr = "deleting")
    BY <2>1 DEF CFail, CWrite, Persist
  <2>3. CASE cpc = "scale"
    <3>1. needed < 0 /\ needed \in Int
      BY <1>1, <2>2, <2>3, ScaleNumbers DEF PartWrites
    <3>2. PICK k \in 0..toRemove : obj' = deleteMachines(RemovalOrder(k))
      BY <2>2, <2>3, <3>1 DEF PartWrites
    <3> QED
      BY <2>3, <3>1, <3>2 DEF Scaling
  <2>4. CASE cpc = "prune"
    BY <2>2, <2>4 DEF PartWrites, Pruning, Undeleted
  <2>5. CASE cpc \notin {"scale", "prune", "idle"}
    BY <1>1, <1>2, <2>2, <2>5 DEF PartWrites
  <2> QED
    BY <2>2, <2>3, <2>4, <2>5
<1>8. CASE Environment
  BY <1>8 DEF Environment, CacheSync, EditSpec, DeleteCluster, Crash, LabelSync,
     HealthFlip, GarbageCollect, PassInv, kube
<1> QED
  BY <1>3, <1>4, <1>5, <1>6, <1>7, <1>8 DEF Next, ClusterPass, vars, kube

\* Of the machines it counts, scaling down leaves as many as are desired, or
\* they had left the set before.
LEMMA RemovalLeavesDesired ==
  ASSUME IInv, ScaleInv, cpc = "scale", needed < 0,
         NEW R, Scaling(R), obj' = deleteMachines(R)
  PROVE  Cardinality(LiveIn(cset, obj')) + Cardinality(Gone) >= desired
<1> DEFINE L == LiveIn(cset, obj')
           G == Gone
<1>1. TypeOK /\ PassInv
  BY DEF IInv
<1>2. /\ desired \in Nat /\ needed \in Int
      /\ IsFiniteSet(active) /\ Cardinality(active) \in Nat
      /\ desired = needed + Cardinality(active)
      /\ toRemove \in Nat /\ toRemove <= -needed
  BY <1>1, ScaleNumbers
<1>3. IsFiniteSet(R) /\ Cardinality(R) <= -needed /\ Cardinality(R) \in Nat
  <2>1. PICK k \in 0..toRemove : R = RemovalOrder(k)
    BY DEF Scaling
  <2>2. k \in Nat /\ k <= -needed
    BY <1>2
  <2>3. IsFiniteSet(R) /\ Cardinality(R) <= k
    BY <1>1, <2>1, <2>2, RemovalCount
  <2>4. Cardinality(R) \in Nat
    BY <2>3, FS_CardinalityType
  <2> QED
    BY <1>2, <2>2, <2>3, <2>4
<1>4. active \ R \subseteq L \cup G
  <2> SUFFICES ASSUME NEW u \in active \ R, u \notin Gone
               PROVE  u \in LiveIn(cset, obj')
    OBVIOUS
  <2>1. u \in UUIDs /\ obj'[u] = obj[u]
    BY <1>1 DEF active, TypeOK, PassTypeOK, deleteMachines
  <2>2. u \in LiveIn(cset, obj)
    BY <2>1 DEF Gone, ScaleInv, ListInv, LiveIn
  <2> QED
    BY <2>1, <2>2 DEF LiveIn
<1>5. IsFiniteSet(L) /\ IsFiniteSet(G) /\ Cardinality(L) \in Nat /\ Cardinality(G) \in Nat
  <2>1. L \subseteq UUIDs /\ G \subseteq active
    BY DEF LiveIn, Gone
  <2> HIDE DEF L, G
  <2> QED
    BY <1>2, <2>1, FleetAssumption, FS_Subset, FS_CardinalityType
<1> HIDE DEF L, G
<1>6. /\ IsFiniteSet(L \cup G)
      /\ Cardinality(L \cup G) = Cardinality(L) + Cardinality(G) - Cardinality(L \cap G)
      /\ Cardinality(L \cap G) \in Nat
  BY <1>5, FS_Union, FS_Intersection, FS_CardinalityType
<1>7. /\ Cardinality(active \ R) \in Nat
      /\ Cardinality(active \ R) <= Cardinality(L \cup G)
  BY <1>4, <1>6, FS_Subset, FS_CardinalityType
<1>8. /\ Cardinality(active \ R) = Cardinality(active) - Cardinality(active \cap R)
      /\ Cardinality(active \cap R) \in Nat
      /\ Cardinality(active \cap R) <= Cardinality(R)
  BY <1>2, <1>3, FS_Difference, FS_Intersection, FS_CardinalityType
<1>9. Cardinality(L) + Cardinality(G) >= desired
  BY <1>2, <1>3, <1>5, <1>6, <1>7, <1>8
<1> QED
  BY <1>9 DEF L, G

\* Scale-down never takes a set below its replicas by more than the machines
\* it counts that had left the set, their cached entry being outdated.
THEOREM RemovalIsBounded == Spec => NoOverRemoval
<1> DEFINE Bounded ==
      cpc = "scale" /\ ~(LiveIn(cset, obj) \subseteq LiveIn(cset, obj'))
        => Cardinality(LiveIn(cset, obj')) + Cardinality(Gone) >= desired
<1>1. (IInv /\ ScaleInv) /\ [Next]_vars => Bounded
  <2> SUFFICES ASSUME IInv, ScaleInv, [Next]_vars, cpc = "scale",
                      ~(LiveIn(cset, obj) \subseteq LiveIn(cset, obj'))
               PROVE  Cardinality(LiveIn(cset, obj')) + Cardinality(Gone) >= desired
    OBVIOUS
  <2>1. cset # NoSet
    BY FleetAssumption DEF IInv, PassInv
  <2>2. PICK u \in UUIDs : Live(obj[u]) /\ ~(Live(obj'[u]) /\ obj'[u].set = obj[u].set)
    BY <2>1 DEF LiveIn, Live, Exists
  <2>3. needed < 0 /\ \E R : Scaling(R) /\ obj' = deleteMachines(R)
    BY <2>2, RemovalSteps
  <2> QED
    BY <2>3, RemovalLeavesDesired
<1>2. Spec => [](IInv /\ ScaleInv)
  BY ScaleInvariant
<1> QED
  BY <1>1, <1>2, PTL DEF Spec, NoOverRemoval

\* However far the cache lags, scaling takes at most one control-plane member
\* of a live OmniCluster away at a time, and none while another one that the
\* list shows is leaving; other sets' scaling and pruning take none but by an
\* outdated entry.
THEOREM MembersLeaveOneByOne == Spec => RemovalsOneByOne
<1> DEFINE removed == LiveIn(CP, obj) \ LiveIn(CP, obj')
           Careful ==
             cr = "live" =>
               IF cpc = "scale" /\ cset = CP
               THEN /\ \A u, v \in removed : u = v
                    /\ removed # {} =>
                         \A v \in UUIDs : obj[v].set = CP /\ obj[v].del => v \notin cfresh
               ELSE removed \subseteq IF cpc = "scale" THEN UUIDs \ cfresh ELSE stale
<1>1. (IInv /\ ScaleInv) /\ [Next]_vars => Careful
  <2> SUFFICES ASSUME IInv, ScaleInv, [Next]_vars, cr = "live", removed # {}
               PROVE  Careful
    BY Zenon
  <2>0. TypeOK /\ PassInv /\ CacheInv /\ ListInv /\ ScopeInv /\ CP # NoSet
    BY FleetAssumption DEF IInv, ScaleInv, Sets
  <2>1. PICK x \in removed : TRUE
    OBVIOUS
  <2>2. /\ x \in UUIDs /\ Live(obj[x])
        /\ ~(Live(obj'[x]) /\ obj'[x].set = obj[x].set)
    BY <2>0, <2>1 DEF LiveIn, Live, Exists
  <2>3. CASE cpc = "scale"
    <3>1. PICK R : Scaling(R) /\ obj' = deleteMachines(R) /\ needed < 0
      BY <2>2, <2>3, RemovalSteps
    <3>2. PICK k \in 0..toRemove : R = RemovalOrder(k)
      BY <3>1 DEF Scaling
    <3>3. toRemove \in Nat /\ k \in Nat /\ k <= toRemove
      BY <2>0, <2>3, <3>1, ScaleNumbers
    <3>4. R \subseteq active /\ IsFiniteSet(R) /\ Cardinality(R) <= k
      BY <2>0, <3>2, <3>3, RemovalCount
    <3>5. removed \subseteq R
      BY <3>1 DEF LiveIn, deleteMachines
    <3>6. CASE cset = CP
      <4>1. Cardinality(R) \in Nat
        BY <3>4, FS_CardinalityType
      <4>2. cdel = {} /\ Cardinality(R) \in {0, 1}
        <5>1. Cardinality(R) # 0
          BY <2>1, <3>4, <3>5, FS_EmptySet
        <5>2. toRemove # 0
          BY <3>3, <3>4, <4>1, <5>1
        <5>3. cdel = {} /\ toRemove <= 1
          BY <3>6, <5>2 DEF toRemove
        <5> QED
          BY <3>3, <3>4, <4>1, <5>3
      <4>3. \A u, v \in R : u = v
        BY <3>4, <4>2, FS_EmptySet, FS_Singleton
      <4>4. \A v \in UUIDs : obj[v].set = CP /\ obj[v].del => v \notin cfresh
        BY <2>0, <2>3, <3>6, <4>2 DEF ListInv, active
      <4> QED
        BY <2>3, <3>5, <3>6, <4>3, <4>4
    <3>7. CASE cset # CP
      <4>1. \A u \in removed : u \in UUIDs /\ obj[u].set = CP /\ u \in active
        BY <3>4, <3>5 DEF LiveIn
      <4>2. \A u \in removed : u \notin cfresh
        BY <2>0, <2>3, <3>7, <4>1 DEF ListInv
      <4> QED
        BY <2>3, <3>7, <4>1, <4>2
    <3> QED
      BY <3>6, <3>7
  <2>4. CASE cpc # "scale"
    <3>1. PICK R : Pruning(R) /\ obj' = deleteMachines(R)
      BY <2>2, <2>4, RemovalSteps
    <3>2. PICK s \in Orphans : R \subseteq listMachineSetMachines(s)
      BY <3>1 DEF Pruning
    <3>3. s # CP
      BY <2>0 DEF Orphans, ScopeInv
    <3>4. \A u \in removed : u \in UUIDs /\ obj[u].set = CP /\ cache[u].set = s
      BY <3>1, <3>2 DEF LiveIn, deleteMachines, listMachineSetMachines
    <3>5. \A u \in removed : u \in stale
      BY <2>0, <3>3, <3>4 DEF CacheInv
    <3> QED
      BY <2>4, <3>5
  <2> QED
    BY <2>3, <2>4
<1>2. Spec => [](IInv /\ ScaleInv)
  BY ScaleInvariant
<1> QED
  BY <1>1, <1>2, PTL DEF Spec, RemovalsOneByOne

\* Creating some of the machines picked fills a set up to its replicas at
\* most, its bindings without a Machine object counted, but for what the pass
\* could not see.
LEMMA CreatedFits ==
  ASSUME IInv, ScaleInv, cpc = "scale", needed > 0,
         NEW F, F \subseteq fresh, obj' = createMachines(F, cset), node' = node
  PROVE  Cardinality((LiveIn(cset, obj') \cup BareIn(cset, obj', node')) \ Unseen)
           <= desired
<1> DEFINE L == (LiveIn(cset, obj') \cup BareIn(cset, obj', node')) \ Unseen
<1>1. /\ cset \in Sets /\ cset # NoSet /\ desired \in Nat /\ needed \in Nat
      /\ IsFiniteSet(active) /\ Cardinality(active) \in Nat
      /\ desired = needed + Cardinality(active)
  BY ScaleNumbers, FleetAssumption DEF IInv
<1>2. IsFiniteSet(fresh) /\ Cardinality(fresh) <= needed
  <2> DEFINE A == SelectAvailableMachines \ claimed
  <2>1. A \subseteq UUIDs
    BY DEF SelectAvailableMachines, First
  <2>2. A \subseteq Nat /\ IsFiniteSet(A)
    BY <2>1, FleetAssumption, FS_Subset
  <2> HIDE DEF A
  <2>3. IsFiniteSet(First(needed, A)) /\ Cardinality(First(needed, A)) <= needed
    BY <1>1, <2>2, FirstCount
  <2> QED
    BY <2>3 DEF fresh, A
<1>3. /\ IsFiniteSet(F) /\ Cardinality(F) \in Nat /\ Cardinality(F) <= needed
  BY <1>1, <1>2, FS_Subset, FS_CardinalityType
<1>4. /\ BareIn(cset, obj, node) \subseteq active
      /\ LiveIn(cset, obj) \ Unseen \subseteq active
  BY <1>1 DEF ScaleInv, ListInv, Unseen, LiveIn
<1>5. L \subseteq active \cup F
  <2> SUFFICES ASSUME NEW u \in L, u \notin F
               PROVE  u \in active
    OBVIOUS
  <2>1. u \in UUIDs /\ obj'[u] = obj[u] /\ u \notin Unseen
    BY DEF createMachines, LiveIn, BareIn
  <2>2. u \in LiveIn(cset, obj) \cup BareIn(cset, obj, node)
    BY <2>1 DEF LiveIn, BareIn
  <2> QED
    BY <1>4, <2>1, <2>2
<1> HIDE DEF L
<1>6. /\ IsFiniteSet(active \cup F)
      /\ Cardinality(active \cup F)
           = Cardinality(active) + Cardinality(F) - Cardinality(active \cap F)
  BY <1>1, <1>3, FS_Union
<1>7. Cardinality(active \cap F) \in Nat
  BY <1>1, FS_Intersection, FS_CardinalityType
<1>8. Cardinality(L) <= Cardinality(active \cup F) /\ Cardinality(L) \in Nat
  BY <1>5, <1>6, FS_Subset, FS_CardinalityType
<1>9. Cardinality(L) <= desired
  BY <1>1, <1>3, <1>6, <1>7, <1>8
<1> QED
  BY <1>9 DEF L

\* The steps that end the scaling of a set.
LEMMA ScalingEnds ==
  ASSUME [Next]_vars, cpc = "scale", cpc' # "scale"
  PROVE  ScaleUp \/ ScaleUpShort \/ ScaleDown \/ ScaleNone \/ CFail \/ Crash
<1>1. cpc' # cpc
  OBVIOUS
<1>2. ~(UNCHANGED vars) /\ ~MachinePass
  BY <1>1 DEF vars, cvars, MachinePass, MAddFinalizer, MBind, MBindFail, MUnbindWait,
     MUnbind, MConfigure, MClean, MUnfinalize, MFail, crest
<1>3. Environment => Crash
  BY <1>1 DEF Environment, CacheSync, EditSpec, DeleteCluster, LabelSync, HealthFlip,
     GarbageCollect, cvars
<1>4. ~Prune /\ ~Teardown
  BY DEF Prune, PruneDone, PruneDrop, PruneDropWait, PruneDelete, PruneRelease,
     PruneReleaseWait, Teardown, DeleteMachines, DeleteRelease, DeleteReleaseWait,
     DeleteDone, DeleteDrop, DeleteDropWait
<1>5. Allocate => ScaleUp \/ ScaleUpShort \/ ScaleDown \/ ScaleNone
  BY DEF Allocate, AddFinalizer, Begin, List, Adopt, Settle, SettleConflict
<1>6. Broken => CFail
  BY DEF Broken, CFailRelease, CFailDrop
<1> QED
  BY <1>2, <1>3, <1>4, <1>5, <1>6 DEF Next, ClusterPass

\* Scale-up never brings a set above its replicas, whether all the machines
\* picked are created or the pass fails half-way, by more than the Machines
\* that were missing, or outdated, in the cached list.
THEOREM AllocationIsBounded == Spec => NoOverAllocation
<1> DEFINE Fits ==
      cpc = "scale" /\ cpc' \in {"settle", "idle"} =>
        LET created == {u \in UUIDs : ~Exists(obj[u]) /\ Exists(obj'[u])} IN
        created # {} =>
          Cardinality((LiveIn(cset, obj') \cup BareIn(cset, obj', node')) \ Unseen)
            <= desired
<1>1. (IInv /\ ScaleInv) /\ [Next]_vars => Fits
  <2> SUFFICES ASSUME IInv, ScaleInv, [Next]_vars,
                      cpc = "scale", cpc' \in {"settle", "idle"},
                      NEW u \in UUIDs, ~Exists(obj[u]), Exists(obj'[u])
               PROVE  Cardinality((LiveIn(cset, obj') \cup BareIn(cset, obj', node'))
                                    \ Unseen) <= desired
    OBVIOUS
  <2>1. ScaleUp \/ ScaleDown \/ CFail
    BY ScalingEnds DEF ScaleUpShort, ScaleNone, Crash, kube
  <2>2. \A S : obj' # deleteMachines(S)
    BY DEF deleteMachines, Deleted, Exists, NoObj
  <2>3. ~ScaleDown /\ obj' # obj
    BY <2>2 DEF ScaleDown, CWrite, Persist
  <2>4. CASE ScaleUp
    BY <2>4, CreatedFits DEF ScaleUp, CWrite, Persist, omni
  <2>5. CASE CFail
    <3>1. obj' \in PartWrites /\ node' = node
      BY <2>5 DEF CFail, CWrite, Persist
    <3>2. needed \in Int
      BY ScaleNumbers DEF IInv
    <3>3. needed > 0 /\ Cardinality(fresh) >= needed
      BY <2>2, <2>3, <3>1, <3>2 DEF PartWrites
    <3>4. PartWrites = {createMachines(First(k, fresh), cset) : k \in 0..needed}
      BY <3>2, <3>3 DEF PartWrites
    <3>5. PICK k \in 0..needed : obj' = createMachines(First(k, fresh), cset)
      BY <3>1, <3>4
    <3>6. First(k, fresh) \subseteq fresh
      BY DEF First
    <3> QED
      BY <3>1, <3>3, <3>5, <3>6, CreatedFits
  <2> QED
    BY <2>1, <2>3, <2>4, <2>5
<1>2. Spec => [](IInv /\ ScaleInv)
  BY ScaleInvariant
<1> QED
  BY <1>1, <1>2, PTL DEF Spec, NoOverAllocation

\* The steps that remove a set from Omni.
LEMMA SetGoes ==
  ASSUME IInv, [Next]_vars, NEW s \in Sets, mset[s] # "absent", mset'[s] = "absent"
  PROVE  \/ cpc = "drop" /\ s = cset
         \/ cpc = "dropall"
<1>0. mset' # mset /\ mset \in [Sets -> {"absent", "bare", "extended", "tearing"}]
  BY DEF IInv, TypeOK, OmniTypeOK
<1>1. ~(UNCHANGED vars) /\ ~MachinePass /\ ~Environment
  BY <1>0 DEF vars, omni, MachinePass, MAddFinalizer, MBind, MBindFail, MUnbindWait,
     MUnbind, MConfigure, MClean, MUnfinalize, MFail, Environment, CacheSync, EditSpec,
     DeleteCluster, LabelSync, HealthFlip, GarbageCollect, Crash
<1>2. ASSUME NEW t \in Sets, NEW v, v # "absent", mset' = [mset EXCEPT ![t] = v]
      PROVE  FALSE
  BY <1>0, <1>2
<1>3. ~Allocate
  <2>1. CASE \E t \in Sets : List(t)
    BY <1>0, <1>2, <2>1 DEF List
  <2>2. CASE Settle
    BY <1>0, <1>2, <2>2 DEF Settle, IInv, PassInv
  <2> QED
    BY <1>0, <2>1, <2>2 DEF Allocate, AddFinalizer, Begin, Adopt, ScaleUp, ScaleUpShort,
       ScaleDown, ScaleNone, SettleConflict, omni
<1>4. Prune => cpc = "drop" /\ s = cset
  <2>1. PruneDrop => cpc = "drop" /\ s = cset
    BY <1>0 DEF PruneDrop
  <2>2. ~PruneDropWait
    BY <1>2 DEF PruneDropWait, IInv, PassInv
  <2> QED
    BY <1>0, <2>1, <2>2 DEF Prune, PruneDone, PruneDelete, PruneRelease,
       PruneReleaseWait, omni
<1>5. Teardown => cpc = "dropall"
  BY <1>0 DEF Teardown, DeleteMachines, DeleteRelease, DeleteReleaseWait, DeleteDone,
     DeleteDrop, DeleteDropWait, omni
<1>6. ~Broken
  BY <1>0, <1>2 DEF Broken, CFail, CFailRelease, CFailDrop
<1> QED
  BY <1>1, <1>3, <1>4, <1>5, <1>6 DEF Next, ClusterPass

\* However far the cache lags, a machine set leaves Omni under a Machine only
\* when that Machine was missing from the list that said it had none.
THEOREM ListedLeaveFirst == Spec => SetsOutliveListed
<1> DEFINE Outlived ==
      \A s \in Sets : mset[s] # "absent" /\ mset'[s] = "absent" =>
        \A u \in UUIDs : obj[u].set = s => u \notin cfresh
<1>1. (IInv /\ ScaleInv) /\ [Next]_vars => Outlived
  <2> SUFFICES ASSUME IInv, ScaleInv, [Next]_vars, NEW s \in Sets,
                      mset[s] # "absent", mset'[s] = "absent",
                      NEW u \in UUIDs, obj[u].set = s
               PROVE  u \notin cfresh
    OBVIOUS
  <2>1. (cpc = "drop" /\ s = cset) \/ cpc = "dropall"
    BY SetGoes
  <2>2. Exists(obj[u])
    BY FleetAssumption DEF Exists
  <2> QED
    BY <2>1, <2>2 DEF ScaleInv, ScopeInv
<1>2. Spec => [](IInv /\ ScaleInv)
  BY ScaleInvariant
<1> QED
  BY <1>1, <1>2, PTL DEF Spec, SetsOutliveListed

LEMMA FinalizerGoes ==
  ASSUME [Next]_vars, cr = "deleting", cr' = "gone"
  PROVE  DeleteDone
<1>1. cr' # cr
  OBVIOUS
<1>2. ~(UNCHANGED vars) /\ ~MachinePass
  BY <1>1 DEF vars, kube, MachinePass, MAddFinalizer, MBind, MBindFail, MUnbindWait,
     MUnbind, MConfigure, MClean, MUnfinalize, MFail
<1>3. ~Environment
  BY <1>1 DEF Environment, CacheSync, EditSpec, DeleteCluster, LabelSync, HealthFlip,
     GarbageCollect, Crash, kube
<1>4. ~Prune /\ ~Allocate /\ ~Broken
  BY <1>1 DEF Prune, PruneDone, PruneDrop, PruneDropWait, PruneDelete, PruneRelease,
     PruneReleaseWait, Allocate, AddFinalizer, Begin, List, Adopt, ScaleUp, ScaleUpShort,
     ScaleDown, ScaleNone, Settle, SettleConflict, Broken, CFail, CFailRelease,
     CFailDrop, CFails, kube
<1>5. Teardown => DeleteDone
  BY <1>1 DEF Teardown, DeleteMachines, DeleteRelease, DeleteReleaseWait, DeleteDrop,
     DeleteDropWait, kube
<1> QED
  BY <1>2, <1>3, <1>4, <1>5 DEF Next, ClusterPass

\* The finalizer of an OmniCluster goes only when its sets are gone; a machine
\* still in use then, adopted ones included, has a Machine object that was
\* missing from the list, and whose finalizer guards all it holds.
THEOREM TeardownLeavesOwned == Spec => LeftoversAreOwned
<1> DEFINE Owned ==
      cr = "deleting" /\ cr' = "gone" =>
        /\ \A s \in Sets : mset[s] = "absent"
        /\ \A u \in UUIDs : InUse(u) => u \notin cfresh /\ (Held(u) => obj[u].fin)
<1>1. (IInv /\ ScaleInv) /\ [Next]_vars => Owned
  <2> SUFFICES ASSUME IInv, ScaleInv, [Next]_vars, cr = "deleting", cr' = "gone"
               PROVE  /\ \A s \in Sets : mset[s] = "absent"
                      /\ \A u \in UUIDs : InUse(u) =>
                           u \notin cfresh /\ (Held(u) => obj[u].fin)
    OBVIOUS
  <2>1. cpc = "dropall" /\ \A s \in Sets : mset[s] = "absent"
    BY FinalizerGoes DEF DeleteDone
  <2>2. /\ \A u \in cfresh : ~Exists(obj[u])
        /\ \A u \in UUIDs : Bound(u) => obj[u].fin
    BY <2>1 DEF ScaleInv, ScopeInv
  <2>3. \A u \in UUIDs : Held(u) => obj[u].fin
    BY <2>2 DEF IInv, HeldInv, Held
  <2>4. \A u \in UUIDs : InUse(u) => Exists(obj[u])
    BY <2>3, GuardedExist DEF InUse, IInv
  <2> QED
    BY <2>1, <2>2, <2>3, <2>4
<1>2. Spec => [](IInv /\ ScaleInv)
  BY ScaleInvariant
<1> QED
  BY <1>1, <1>2, PTL DEF Spec, LeftoversAreOwned

=============================================================================
