------------------------------- MODULE Fleet -------------------------------
(***************************************************************************)
(* One OmniCluster: its cluster controller, the Machine controller, Omni,  *)
(* the API server's cache, the user, and crashes of the controller         *)
(* process, composed.                                                      *)
(***************************************************************************)
EXTENDS ClusterController, MachineController

\* The user changes the spec, or deletes the OmniCluster.
EditSpec ==
  /\ edits < MaxEdits /\ cr \in {"new", "live"}
  /\ \E sp \in Specs \ {spec} : spec' = sp
  /\ edits' = edits + 1
  /\ UNCHANGED <<cr, obj, cache, stale, omni, cvars, mvars, faults, flips>>

DeleteCluster ==
  /\ edits < MaxEdits /\ cr \in {"new", "live"}
  /\ cr' = IF cr = "new" THEN "gone" ELSE "deleting"
  /\ edits' = edits + 1
  /\ UNCHANGED <<spec, obj, cache, stale, omni, cvars, mvars, faults, flips>>

\* Kubernetes deletes the Machines owned by an OmniCluster that is gone.
GarbageCollect(u) ==
  /\ cr = "gone" /\ Live(obj[u])
  /\ CWrite([obj EXCEPT ![u] = Deleted(@)])
  /\ UNCHANGED <<cr, spec, omni, cvars, mrest, bounds>>

\* The controller process dies and restarts with a filled cache.
Crash ==
  /\ faults < MaxFaults
  /\ cpc # "idle" \/ mpc # "idle" \/ stale # {}
  /\ CEndPass /\ MEndPass
  /\ cache' = obj /\ stale' = {}
  /\ faults' = faults + 1
  /\ UNCHANGED <<cr, spec, obj, omni, cspec, edits, flips>>

Environment ==
  \/ CacheSync \/ EditSpec \/ DeleteCluster \/ Crash
  \/ \E u \in UUIDs : LabelSync(u) \/ HealthFlip(u) \/ GarbageCollect(u)

Init ==
  /\ cr = "new" /\ spec \in Specs
  /\ obj = [u \in UUIDs |-> NoObj] /\ cache = obj /\ stale = {}
  /\ \E home \in [OutOfBand -> Sets \cup {NoSet}] :
       /\ mset = [s \in Sets |-> IF \E u \in OutOfBand : home[u] = s
                                 THEN "bare" ELSE "absent"]
       /\ node = [u \in UUIDs |-> IF u \in OutOfBand
                                  THEN [set |-> home[u], tearing |-> FALSE] ELSE NoNode]
  /\ avail = [u \in UUIDs |-> ~Bound(u)]
  /\ custom = [u \in UUIDs |-> NoTmpl]
  /\ healthy = [u \in UUIDs |-> Bound(u)]
  /\ cpc = "idle" /\ cspec = spec /\ ctodo = {} /\ cset = NoSet
  /\ cexist = {} /\ cnew = {} /\ cdel = {} /\ csync = {} /\ cfresh = {}
  /\ claimed = {}
  /\ calloc = [s \in Sets |-> {}]
  /\ mpc = "idle" /\ mkey = -1 /\ mtmpl = NoTmpl /\ mfresh = FALSE
  /\ edits = 0 /\ faults = 0 /\ flips = 0

Next == ClusterPass \/ MachinePass \/ Environment

Spec == Init /\ [][Next]_vars

ClusterProgress ==
  \/ Allocate \/ PruneDone \/ PruneDrop
  \/ (\E s \in Sets : PruneDelete(s) \/ PruneRelease(s) \/ DeleteDrop(s))
  \/ DeleteMachines \/ DeleteRelease \/ DeleteDone

MachineProgress ==
  \/ MConfigure \/ MClean \/ MUnfinalize
  \/ \E u \in UUIDs : MAddFinalizer(u) \/ MBind(u) \/ MUnbind(u)

\* Passes are requeued until they succeed and every requeueLong after that,
\* and Omni finishes the teardowns it is asked for; watches and labels are
\* delivered; Kubernetes collects garbage.  Nothing is assumed of the order in
\* which the work is done.  Edits, faults and changes of health need not happen.
Fairness ==
  /\ WF_vars(ClusterProgress) /\ WF_vars(MachineProgress) /\ WF_vars(CacheSync)
  /\ WF_vars(\E u \in UUIDs : GarbageCollect(u))
  /\ WF_vars(\E u \in UUIDs : LabelSync(u))

FairSpec == Spec /\ Fairness

-----------------------------------------------------------------------------
(* Properties.                                                             *)

KubeTypeOK ==
  /\ cr \in {"new", "live", "deleting", "gone"} /\ spec \in SpecType
  /\ obj \in [UUIDs -> MachineObj] /\ cache \in [UUIDs -> MachineObj]
  /\ stale \subseteq UUIDs

OmniTypeOK ==
  /\ mset \in [Sets -> {"absent", "bare", "extended", "tearing"}]
  /\ node \in [UUIDs -> Node] /\ avail \in [UUIDs -> BOOLEAN]
  /\ custom \in [UUIDs -> Templates \cup {NoTmpl, Partial}]
  /\ healthy \in [UUIDs -> BOOLEAN]

PassTypeOK ==
  /\ cpc \in {"idle", "list", "adopt", "scale", "settle", "prune", "drop", "dropall"}
  /\ cspec \in SpecType /\ ctodo \subseteq Sets /\ cset \in Sets \cup {NoSet}
  /\ cexist \subseteq UUIDs /\ cnew \subseteq UUIDs /\ cdel \subseteq cexist
  /\ csync \subseteq UUIDs /\ cfresh \subseteq UUIDs /\ claimed \subseteq UUIDs
  /\ calloc \in [Sets -> SUBSET UUIDs]

MachinePassTypeOK ==
  /\ mpc \in {"idle", "configure", "clean", "unfinalize"}
  /\ mkey \in UUIDs \cup {-1} /\ (mpc # "idle" => mkey \in UUIDs)
  /\ mtmpl \in Templates \cup {NoTmpl} /\ mfresh \in BOOLEAN

\* Every variable keeps its type; an outdated copy never turns a Machine that
\* is gone into one of no set.
TypeOK ==
  /\ KubeTypeOK /\ OmniTypeOK /\ PassTypeOK /\ MachinePassTypeOK
  /\ edits \in 0..MaxEdits /\ faults \in 0..MaxFaults /\ flips \in 0..MaxFlips

\* A machine bound in Omni by this controller always has a Machine object with
\* the finalizer, of the same set, so nothing a crash, a conflict, a lagging
\* cache or a deletion interrupts can leak a binding.
NoLeakedBinding ==
  \A u \in UUIDs \ OutOfBand :
    Bound(u) => obj[u].fin /\ obj[u].set = node[u].set

\* Config patches and kernel args exist only under an object whose finalizer
\* will remove them: a machine returns to the pool without customisation.
NoLeakedCustomisation ==
  \A u \in UUIDs : custom[u] # NoTmpl => obj[u].fin

\* Every machine that was not bound out of band goes through the life that
\* MachineLifecycle promises: it is read off its Machine object and Omni.
Fronted == UUIDs \ OutOfBand

phaseOf(u) ==
  IF ~Exists(obj[u]) THEN "free"
  ELSE IF obj[u].del THEN "leaving"
  ELSE IF obj[u].fin THEN "guarded" ELSE "claimed"

Held(u) == Bound(u) \/ custom[u] # NoTmpl

Lifecycle == INSTANCE MachineLifecycle WITH
  Machines <- Fronted, Homes <- Sets, NoHome <- NoSet,
  phase <- [u \in Fronted |-> phaseOf(u)],
  home <- [u \in Fronted |-> obj[u].set],
  held <- [u \in Fronted |-> Held(u)]

LifecycleImplemented == Lifecycle!Spec

LiveIn(s, o) == {u \in UUIDs : o[u].set = s /\ ~o[u].del}

\* Machines bound to a set in Omni with no object in front of them.
BareIn(s, o, n) == {u \in UUIDs : n[u].set = s /\ ~Exists(o[u])}

\* Scale-up brings a set above the replicas of the spec it works from by no
\* more than the Machines of it whose cached entry was outdated, or missing,
\* when the pass listed them (none, when the cache is current): neither
\* bindings without objects (made before the Machine objects existed), nor
\* objects not yet bound, nor machines claimed by another set make it count
\* wrong.
Unseen == LiveIn(cset, obj) \ (active \cup cfresh)

NoOverAllocation ==
  [][cpc = "scale" /\ cpc' \in {"settle", "idle"} =>
       LET created == {u \in UUIDs : ~Exists(obj[u]) /\ Exists(obj'[u])} IN
       created # {} =>
         Cardinality((LiveIn(cset, obj') \cup BareIn(cset, obj', node')) \ Unseen)
           <= desired]_vars

\* Scale-down takes a set below the replicas of the spec it works from by no
\* more than the machines it counts that had left the set, their cached entry
\* being outdated (none, when the cache is current).
Gone == active \ (LiveIn(cset, obj) \cup cfresh)

NoOverRemoval ==
  [][cpc = "scale" /\ ~(LiveIn(cset, obj) \subseteq LiveIn(cset, obj'))
       => Cardinality(LiveIn(cset, obj')) + Cardinality(Gone) >= desired]_vars

\* Control-plane members leave one at a time: while the OmniCluster is live at
\* most one control-plane Machine is being torn down.
OneControlPlaneRemoval ==
  cr = "live" =>
    \A u, v \in {x \in UUIDs : obj[x].set = CP /\ obj[x].del} : u = v

\* However far the cache lags, scaling the control plane of a live OmniCluster
\* takes at most one member away, and none while one it could know of is
\* leaving: another leaves at that moment only if its cached entry was
\* outdated when the pass listed it.  Scaling another set, or pruning one,
\* takes a member of the control plane away (Delete is by name alone) only if
\* the entry it works from is outdated.
RemovalsOneByOne ==
  [][LET removed == LiveIn(CP, obj) \ LiveIn(CP, obj') IN
     cr = "live" =>
       IF cpc = "scale" /\ cset = CP
       THEN /\ \A u, v \in removed : u = v
            /\ removed # {} =>
                 \A v \in UUIDs : obj[v].set = CP /\ obj[v].del => v \notin cfresh
       ELSE removed \subseteq IF cpc = "scale" THEN UUIDs \ cfresh ELSE stale]_vars

\* A machine set leaves Omni only once every Machine object of it is gone.
SetOutlivesMachines ==
  \A u \in UUIDs : Exists(obj[u]) => mset[obj[u].set] # "absent"

\* However far the cache lags, a set leaves Omni under a Machine object only if
\* that object's cached entry was outdated when the pass found the set empty.
SetsOutliveListed ==
  [][\A s \in Sets : mset[s] # "absent" /\ mset'[s] = "absent" =>
       \A u \in UUIDs : obj[u].set = s => u \notin cfresh]_vars

\* The allocation a pass is about to report puts no machine in two sets.
AllocatedOnce ==
  cpc = "prune" => \A s, t \in Sets : s # t => calloc[s] \cap calloc[t] = {}

\* When the OmniCluster's finalizer goes, all it had in Omni is gone: sets,
\* bindings (adopted ones too) and customisation; and no Machine object is
\* left to bring any of it back.
InUse(u) == Held(u) \/ Exists(obj[u])

NothingLeftBehind ==
  [][cr = "deleting" /\ cr' = "gone" =>
       /\ \A u \in UUIDs : ~InUse(u)
       /\ \A s \in Sets : mset[s] = "absent"]_vars

\* However far the cache lags, the sets are gone by then, and what is left is
\* left by a Machine whose cached entry was outdated when the pass found none;
\* that Machine carries the finalizer that will clean up after it.
LeftoversAreOwned ==
  [][cr = "deleting" /\ cr' = "gone" =>
       /\ \A s \in Sets : mset[s] = "absent"
       /\ \A u \in UUIDs : InUse(u) => u \notin cfresh /\ (Held(u) => obj[u].fin)]_vars

\* Omni matches the spec: each declared set has its replicas bound, with the
\* spec's customisation, and no other set is left.
Converged ==
  /\ \A s \in spec.sets :
       /\ mset[s] \in {"bare", "extended"}
       /\ Cardinality({u \in UUIDs : node[u].set = s /\ ~node[u].tearing}) = spec.rep[s]
  /\ \A u \in UUIDs : Bound(u) => custom[u] = spec.tmpl
  /\ \A s \in Sets \ spec.sets : mset[s] = "absent"

\* An OmniCluster that is not deleted converges to its last spec, and stays
\* converged, when Omni has machines for it and no set was pruned under a
\* Machine that the cached list missed (SetOutlivesMachines: such a Machine
\* stays for ever, since pruning starts from the sets Omni has).
Convergence ==
  <>[](cr = "live") /\ []SetOutlivesMachines => <>[]Converged

\* A deleted OmniCluster goes away, and in the end nothing of it is left in
\* Omni: what its last pass missed is deleted as garbage by Kubernetes and
\* cleaned up behind the finalizers.
DeletionCompletes ==
  (cr = "deleting")
    ~> (/\ cr = "gone" /\ \A u \in UUIDs : ~InUse(u)
        /\ \A s \in Sets : mset[s] = "absent")

=============================================================================
