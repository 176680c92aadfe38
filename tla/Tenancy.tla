------------------------------ MODULE Tenancy ------------------------------
(***************************************************************************)
(* Several OmniClusters share one Omni account.  An Omni cluster is known  *)
(* by the name of the OmniCluster alone and carries the OmniCluster that   *)
(* owns it as a label; a Machine is known by its namespace and the UUID of *)
(* the machine, its binding in Omni by the UUID alone.  Each controller    *)
(* has one worker: passes over different OmniClusters do not overlap, nor  *)
(* do passes over different Machines, but the two controllers interleave.  *)
(* Each OmniCluster declares one set with one machine; what happens within *)
(* one OmniCluster (scaling, several sets, lagging caches, teardowns Omni  *)
(* has not finished) is in Fleet.                                          *)
(***************************************************************************)
EXTENDS Integers, FiniteSets

CONSTANTS
  CRs,          \* OmniClusters, as <namespace>/<name> identifies them
  at,           \* OmniCluster -> its namespace and name
  UUIDs,        \* machines of the Omni account
  NoName,       \* "bound to no cluster"
  NoCR,         \* an Omni cluster without the owner label
  Absent,       \* an Omni cluster that does not exist
  PreExisting,  \* names of Omni clusters that may have been made by hand
  MaxFaults     \* bound: passes that fail or are cut off

Names  == {at[c].name : c \in CRs}
Spaces == {at[c].ns : c \in CRs}
Keys   == Spaces \X UUIDs
NoKey  == <<NoName, -1>>

ASSUME TenancyAssumption ==
  /\ UUIDs \subseteq Nat /\ IsFiniteSet(UUIDs)
  /\ \A c, d \in CRs : at[c].ns = at[d].ns /\ at[c].name = at[d].name => c = d
  /\ NoName \notin Names /\ NoCR \notin CRs /\ Absent \notin CRs /\ NoCR # Absent
  /\ PreExisting \subseteq Names /\ MaxFaults \in Nat

VARIABLES
  cr,       \* OmniCluster -> "new" (no finalizer), "live", "deleting", "gone"
  obj,      \* <<namespace, UUID>> -> Machine object
  owner,    \* name -> owner label of the Omni cluster, NoCR, or Absent
  mset,     \* name -> TRUE: its machine set exists in Omni
  secret,   \* name -> TRUE: its kubeconfig Secret exists
  node,     \* UUID -> name of the cluster whose set the machine is bound to
  cpc, cc,  \* the cluster controller's pass: next step, OmniCluster
  mpc, mkey,\* the Machine controller's pass: next step, Machine
  faults

omni  == <<owner, mset, node>>
cvars == <<cpc, cc>>
mvars == <<mpc, mkey>>
vars  == <<cr, obj, owner, mset, secret, node, cpc, cc, mpc, mkey, faults>>

\* A Machine object: its cluster, finalizer and deletion timestamp.
NoObj      == [name |-> NoName, fin |-> FALSE, del |-> FALSE]
MachineObj == [name: Names, fin: BOOLEAN, del: BOOLEAN] \cup {NoObj}
Exists(o)  == o.name # NoName
Deleted(o) == IF ~Exists(o) THEN o
              ELSE IF o.fin THEN [o EXCEPT !.del = TRUE] ELSE NoObj

nameOf(c)     == at[c].name
keyOf(c, u)   == <<at[c].ns, u>>

\* A fault to test against: the list is of the namespace alone.
listNamespaceMachines(c) == {u \in UUIDs : Exists(obj[keyOf(c, u)])}

\* The Machines of an OmniCluster: by namespace, and by its name as a label.
listClusterMachines(c) == {u \in UUIDs : obj[keyOf(c, u)].name = nameOf(c)}

AllocatedMachineSetNodes(n) == {u \in UUIDs : node[u] = n}

CStep(s, c) == cpc' = s /\ cc' = c

\* A fault to test against: the pass keeps its OmniCluster.
CEndKept == cpc' = "idle" /\ UNCHANGED cc

CEnd == cpc' = "idle" /\ cc' = NoCR
MEnd == mpc' = "idle" /\ mkey' = NoKey

-----------------------------------------------------------------------------
(* The user deletes OmniClusters.  One created late is one whose first pass *)
(* comes late.                                                             *)

DeleteCR(c) ==
  /\ cr[c] \in {"new", "live"}
  /\ cr' = [cr EXCEPT ![c] = IF cr[c] = "new" THEN "gone" ELSE "deleting"]
  /\ UNCHANGED <<obj, omni, secret, cvars, mvars, faults>>

-----------------------------------------------------------------------------
(* A pass over a live OmniCluster.                                         *)

\* The first pass only adds the finalizer.
AddFinalizer(c) ==
  /\ cpc = "idle" /\ cr[c] = "new"
  /\ cr' = [cr EXCEPT ![c] = "live"]
  /\ UNCHANGED <<obj, omni, secret, cvars, mvars, faults>>

\* A fault to test against: the owner label is not looked at.
ForeignNever(c) == FALSE

\* The Omni cluster of this name belongs to another OmniCluster.
Foreign(c) == owner[nameOf(c)] \in CRs \ {c}

\* EnsureCluster: create it, adopt it, or find it owned.  A foreign one is
\* refused, which ends the pass with nothing changed.
EnsureCluster(c) ==
  /\ cpc = "idle" /\ cr[c] = "live" /\ ~Foreign(c)
  /\ owner' = [owner EXCEPT ![nameOf(c)] = c]
  /\ CStep("allocate", c)
  /\ UNCHANGED <<cr, obj, mset, secret, node, mvars, faults>>

\* A fault to test against: the available label is not asked for.
AvailableAny == UUIDs

Available == {u \in UUIDs : node[u] = NoName}

\* The machines that get an object: bindings without one, else the first
\* available machine by name when no active one is there.
Chosen(c) ==
  LET existing == listClusterMachines(c)
      adopted  == AllocatedMachineSetNodes(nameOf(c)) \ existing
      active   == adopted \cup {u \in existing : ~obj[keyOf(c, u)].del}
      free     == Available \ existing
  IN IF active # {} THEN adopted ELSE {u \in free : \A v \in free : u <= v}

Short(c) == Chosen(c) = {} /\ \A u \in listClusterMachines(c) : obj[keyOf(c, u)].del

\* EnsureMachineSet and the allocation of its one machine.  The AlreadyExists
\* of an object of another cluster is tolerated.  Without a machine to choose
\* the pass fails.
Allocate ==
  /\ cpc = "allocate"
  /\ mset' = [mset EXCEPT ![nameOf(cc)] = TRUE]
  /\ obj' = [k \in Keys |->
               IF k[1] = at[cc].ns /\ k[2] \in Chosen(cc) /\ ~Exists(obj[k])
               THEN [name |-> nameOf(cc), fin |-> FALSE, del |-> FALSE] ELSE obj[k]]
  /\ IF Short(cc) THEN CEnd ELSE CStep("publish", cc)
  /\ UNCHANGED <<cr, owner, secret, node, mvars, faults>>

\* The end of the pass: the Secret is there when the cluster was Ready.
Publish ==
  /\ cpc = "publish"
  /\ secret' \in {secret, [secret EXCEPT ![nameOf(cc)] = TRUE]}
  /\ CEnd
  /\ UNCHANGED <<cr, obj, omni, mvars, faults>>

-----------------------------------------------------------------------------
(* A pass over an OmniCluster that is being deleted.                       *)

\* Another OmniCluster owns the Omni cluster: only the finalizer goes.
DeleteSkip(c) ==
  /\ cpc = "idle" /\ cr[c] = "deleting" /\ Foreign(c)
  /\ cr' = [cr EXCEPT ![c] = "gone"]
  /\ UNCHANGED <<obj, omni, secret, cvars, mvars, faults>>

\* ClusterOwner: owned by this one, without a label, or not there.
DeleteCheck(c) ==
  /\ cpc = "idle" /\ cr[c] = "deleting" /\ ~Foreign(c)
  /\ CStep("secrets", c)
  /\ UNCHANGED <<cr, obj, omni, secret, mvars, faults>>

DeleteSecrets ==
  /\ cpc = "secrets"
  /\ secret' = [secret EXCEPT ![nameOf(cc)] = FALSE]
  /\ CStep("machines", cc)
  /\ UNCHANGED <<cr, obj, omni, mvars, faults>>

\* A fault to test against: the Machines are not waited for.
UnwoundUnchecked(c) == TRUE

Unwound(c) == listClusterMachines(c) = {}

\* Delete the Machines; while one was listed, the pass fails and is retried.
DeleteMachines ==
  /\ cpc = "machines"
  /\ obj' = [k \in Keys |-> IF k[1] = at[cc].ns /\ k[2] \in listClusterMachines(cc)
                            THEN Deleted(obj[k]) ELSE obj[k]]
  /\ IF Unwound(cc) THEN CStep("release", cc) ELSE CEnd
  /\ UNCHANGED <<cr, omni, secret, mvars, faults>>

\* A fault to test against: nothing is left once the Machines are gone.
DeleteReleaseNone ==
  /\ cpc = "release"
  /\ CStep("drop", cc)
  /\ UNCHANGED <<cr, obj, omni, secret, mvars, faults>>

\* The backstop: bindings left in the sets labelled with the cluster's name.
DeleteRelease ==
  /\ cpc = "release"
  /\ node' = [u \in UUIDs |-> IF mset[nameOf(cc)] /\ node[u] = nameOf(cc)
                              THEN NoName ELSE node[u]]
  /\ CStep("drop", cc)
  /\ UNCHANGED <<cr, obj, owner, mset, secret, mvars, faults>>

DeleteDrop ==
  /\ cpc = "drop"
  /\ mset' = [mset EXCEPT ![nameOf(cc)] = FALSE]
  /\ CStep("cluster", cc)
  /\ UNCHANGED <<cr, obj, owner, secret, node, mvars, faults>>

\* A fault to test against: the Omni cluster stays, with its label.
DeleteOmniClusterKept ==
  /\ cpc = "cluster"
  /\ CStep("done", cc)
  /\ UNCHANGED <<cr, obj, owner, mset, secret, node, mvars, faults>>

DeleteOmniCluster ==
  /\ cpc = "cluster"
  /\ owner' = [owner EXCEPT ![nameOf(cc)] = Absent]
  /\ CStep("done", cc)
  /\ UNCHANGED <<cr, obj, mset, secret, node, mvars, faults>>

\* RemoveFinalizer and Update.
DeleteDone ==
  /\ cpc = "done"
  /\ cr' = [cr EXCEPT ![cc] = "gone"]
  /\ CEnd
  /\ UNCHANGED <<obj, omni, secret, mvars, faults>>

-----------------------------------------------------------------------------
(* A pass over a Machine.                                                  *)

MAddFinalizer(k) ==
  /\ mpc = "idle" /\ Exists(obj[k]) /\ ~obj[k].del /\ ~obj[k].fin
  /\ obj' = [obj EXCEPT ![k].fin = TRUE]
  /\ UNCHANGED <<cr, omni, secret, cvars, mvars, faults>>

\* The pass has read its Machine and will bind it.  Left out, since nothing
\* changes: a pass over one that is bound already, to its own set or to another
\* (which fails, and is requeued).
MGet(k) ==
  /\ mpc = "idle" /\ Exists(obj[k]) /\ ~obj[k].del /\ obj[k].fin
  /\ node[k[2]] = NoName
  /\ mpc' = "bind" /\ mkey' = k
  /\ UNCHANGED <<cr, obj, omni, secret, cvars, faults>>

\* EnsureMachineSetNode; refused when the machine is bound to another set.
MBind ==
  /\ mpc = "bind"
  /\ node' = IF node[mkey[2]] = NoName THEN [node EXCEPT ![mkey[2]] = obj[mkey].name]
             ELSE node
  /\ MEnd
  /\ UNCHANGED <<cr, obj, owner, mset, secret, cvars, faults>>

\* DeleteMachineSetNode goes by the UUID, whatever set the binding is of.
nodeReleased(u) == [node EXCEPT ![u] = NoName]

MRelease(k) ==
  /\ mpc = "idle" /\ obj[k].del /\ obj[k].fin
  /\ node' = nodeReleased(k[2])
  /\ mpc' = "unfinalize" /\ mkey' = k
  /\ UNCHANGED <<cr, obj, owner, mset, secret, cvars, faults>>

MUnfinalize ==
  /\ mpc = "unfinalize"
  /\ obj' = [obj EXCEPT ![mkey] = NoObj]
  /\ MEnd
  /\ UNCHANGED <<cr, omni, secret, cvars, faults>>

-----------------------------------------------------------------------------

\* A call of a pass fails, or the process dies with both passes under way.
Fail ==
  /\ faults < MaxFaults /\ faults' = faults + 1
  /\ cpc # "idle" \/ mpc # "idle"
  /\ CEnd \/ UNCHANGED cvars
  /\ MEnd \/ UNCHANGED mvars
  /\ UNCHANGED <<cr, obj, omni, secret>>

\* An Omni cluster made by hand may have a machine bound.
Init ==
  /\ cr = [c \in CRs |-> "new"]
  /\ obj = [k \in Keys |-> NoObj]
  /\ \E pre \in SUBSET PreExisting, home \in [UUIDs -> PreExisting \cup {NoName}] :
       /\ \A u \in UUIDs : home[u] \in pre \cup {NoName}
       /\ \A u, v \in UUIDs : home[u] = home[v] /\ home[u] # NoName => u = v
       /\ owner = [n \in Names |-> IF n \in pre THEN NoCR ELSE Absent]
       /\ mset = [n \in Names |-> n \in pre]
       /\ node = home
  /\ secret = [n \in Names |-> FALSE]
  /\ cpc = "idle" /\ cc = NoCR /\ mpc = "idle" /\ mkey = NoKey
  /\ faults = 0

CBegin(c) == AddFinalizer(c) \/ EnsureCluster(c) \/ DeleteSkip(c) \/ DeleteCheck(c)
CContinue ==
  \/ Allocate \/ Publish \/ DeleteSecrets \/ DeleteMachines \/ DeleteRelease
  \/ DeleteDrop \/ DeleteOmniCluster \/ DeleteDone

MBegin(k) == MAddFinalizer(k) \/ MGet(k) \/ MRelease(k)
MContinue == MBind \/ MUnfinalize

Next ==
  \/ \E c \in CRs : DeleteCR(c) \/ CBegin(c)
  \/ \E k \in Keys : MBegin(k)
  \/ CContinue \/ MContinue \/ Fail

Spec == Init /\ [][Next]_vars

\* A pass that has begun goes on to its end; the queue of OmniClusters is first
\* come, first served, so each gets its passes however often others are
\* requeued; some Machine that has work to do gets its pass.  The user need not
\* do anything.
Fairness ==
  /\ WF_vars(CContinue) /\ \A c \in CRs : SF_vars(CBegin(c))
  /\ WF_vars(MContinue \/ \E k \in Keys : MBegin(k))

FairSpec == Spec /\ Fairness

-----------------------------------------------------------------------------
(* What the owner label promises, as OmniTenure states it.                  *)

\* Something is there in an Omni cluster's name: its machine set, its Secret, a
\* Machine or a binding.
InUse(n) ==
  \/ mset[n] \/ secret[n]
  \/ \E k \in Keys : obj[k].name = n
  \/ AllocatedMachineSetNodes(n) # {}

Tenure == INSTANCE OmniTenure WITH
  Tenants <- CRs, NoTenant <- NoCR, holder <- owner,
  used <- [n \in Names |-> InUse(n)],
  leaving <- {c \in CRs : cr[c] \in {"deleting", "gone"}}

-----------------------------------------------------------------------------
(* Properties.                                                             *)

\* Every variable keeps its type; a pass has an OmniCluster or a Machine until
\* it ends.
TypeOK ==
  /\ cr \in [CRs -> {"new", "live", "deleting", "gone"}]
  /\ obj \in [Keys -> MachineObj]
  /\ owner \in [Names -> CRs \cup {NoCR, Absent}]
  /\ mset \in [Names -> BOOLEAN] /\ secret \in [Names -> BOOLEAN]
  /\ node \in [UUIDs -> Names \cup {NoName}]
  /\ cpc \in {"idle", "allocate", "publish", "secrets", "machines", "release",
              "drop", "cluster", "done"}
  /\ mpc \in {"idle", "bind", "unfinalize"}
  /\ cc \in CRs \cup {NoCR} /\ (cpc = "idle" <=> cc = NoCR)
  /\ mkey \in Keys \cup {NoKey} /\ (mpc = "idle" <=> mkey = NoKey)
  /\ faults \in 0..MaxFaults

\* Only the OmniCluster that owns an Omni cluster has Machines of its name.
OnlyOwnerHasMachines ==
  \A c \in CRs, u \in UUIDs :
    obj[keyOf(c, u)].name = nameOf(c) => owner[nameOf(c)] = c

\* The Omni cluster, machine set and Secret of an OmniCluster that is live and
\* owns them stay, whatever happens to OmniClusters of the same name: the
\* owner is checked once at the start of a pass that then takes many steps.
NoForeignTeardown ==
  [][\A c \in CRs :
       cr[c] = "live" /\ owner[nameOf(c)] = c =>
         /\ owner'[nameOf(c)] = c
         /\ mset[nameOf(c)] => mset'[nameOf(c)]
         /\ secret[nameOf(c)] => secret'[nameOf(c)]]_vars

\* A machine in the set of a live OmniCluster stays bound.
Steady(c, u) ==
  cr[c] = "live" /\ owner[nameOf(c)] = c /\ node[u] = nameOf(c)
    => node'[u] = nameOf(c)

MachinesStay == [][\A c \in CRs, u \in UUIDs : Steady(c, u)]_vars

\* A machine of which Machines of two namespaces exist.
Shared(u) ==
  \E k, l \in Keys : k[2] = u /\ l[2] = u /\ k # l /\ Exists(obj[k]) /\ Exists(obj[l])

\* Nothing but a Machine of the same UUID in another namespace takes a machine
\* from the set of a live OmniCluster.
UnsharedMachinesStay ==
  [][\A c \in CRs, u \in UUIDs : ~Shared(u) => Steady(c, u)]_vars

\* The passes of both controllers, whatever interleaves and fails, hand an Omni
\* cluster over as OmniTenure says: it goes only once its owner is deleted and
\* its machine set, Secret, Machines and bindings are all gone.
TenureImplemented == Tenure!Spec

\* An OmniCluster that stays, while the others of its name are deleted or
\* not there, ends up owning the Omni cluster; and keeps it.
HandOver ==
  \A c \in CRs :
    <>[](/\ cr[c] = "live"
         /\ \A d \in CRs \ {c} : nameOf(d) = nameOf(c) => cr[d] \notin {"new", "live"})
      => <>[](owner[nameOf(c)] = c)

\* An OmniCluster that stays the owner gets a machine and keeps it, when each
\* OmniCluster could have one and no machine is shared between namespaces.
Served ==
  Cardinality(UUIDs) >= Cardinality(Names) /\ []~(\E u \in UUIDs : Shared(u)) =>
    \A c \in CRs :
      <>[](cr[c] = "live" /\ owner[nameOf(c)] = c)
        => <>[](\E u \in UUIDs : node[u] = nameOf(c))

=============================================================================
