---------------------------- MODULE TenureProofs ----------------------------
(***************************************************************************)
(* Tenancy implements OmniTenure: for any OmniClusters, namespaces and     *)
(* machines, an Omni cluster changes hands only through a deletion that    *)
(* has taken everything there was in its name.                             *)
(***************************************************************************)
EXTENDS TenancyProofs

\* Behind "everything": what there is in a name belongs to its machine set, the
\* last thing to go; and a cluster that does not exist has none.
UseInv ==
  \A n \in Names :
    /\ ~mset[n] => /\ ~secret[n]
                   /\ \A k \in Keys : obj[k].name # n
                   /\ \A u \in UUIDs : node[u] # n
    /\ owner[n] = Absent => ~mset[n]

\* What a deletion has taken stays away until it ends, whatever the Machine
\* controller does meanwhile; a pass that publishes has its set.
TakenInv ==
  /\ cpc = "publish" => mset[nameOf(cc)]
  /\ cpc \in Tearing \ {"secrets"} => ~secret[nameOf(cc)]
  /\ cpc \in {"drop", "cluster", "done"} => \A u \in UUIDs : node[u] # nameOf(cc)
  /\ cpc \in {"cluster", "done"} => ~mset[nameOf(cc)]

TenureInv == UseInv /\ TakenInv

-----------------------------------------------------------------------------
(* Where things come from, and that they stay away.                        *)

\* Once a deletion has found no Machine of its OmniCluster there is none of its
\* name at all: another namespace's would have another owner.
LEMMA NoneLeft ==
  ASSUME IInv, cpc \in Unwinding
  PROVE  cc \in CRs /\ \A k \in Keys : obj[k].name # nameOf(cc)
<1>1. cc \in CRs /\ ~Foreign(cc) /\ listClusterMachines(cc) = {}
  BY DEF IInv, PassInv, Unwinding
<1>2. ASSUME NEW k \in Keys, obj[k].name = nameOf(cc)
      PROVE  FALSE
  <2>1. PICK d \in CRs : k = keyOf(d, k[2]) /\ nameOf(d) = nameOf(cc)
    BY <1>1, <1>2, Keyed DEF IInv, OwnerInv, Exists
  <2>2. owner[nameOf(cc)] = d
    BY <1>2, <2>1, Keyed DEF IInv, OnlyOwnerHasMachines
  <2>3. d = cc
    BY <1>1, <2>2 DEF Foreign
  <2> QED
    BY <1>1, <1>2, <2>1, <2>3, Keyed DEF listClusterMachines
<1> QED
  BY <1>1, <1>2

\* A step that gives a cluster's name a Machine is the allocation of its owner.
LEMMA NewMachine ==
  ASSUME IInv, [Next]_vars, NEW n \in Names, NEW k \in Keys,
         obj'[k].name = n, obj[k].name # n
  PROVE  Allocate /\ cc \in CRs /\ n = nameOf(cc)
<1>1. TypeOK /\ MachinePassInv /\ n # NoName
  BY TenancyAssumption DEF IInv, TenancyAssumption
<1>2. Allocate
  BY <1>1, ObjShrinks DEF NoNew, Exists
<1> QED
  BY <1>1, <1>2, AllocateCreates DEF Creates

\* A step that binds a machine under a name has a Machine of that name.
LEMMA NewBinding ==
  ASSUME IInv, [Next]_vars, NEW n \in Names, NEW u \in UUIDs,
         node'[u] = n, node[u] # n
  PROVE  \E k \in Keys : obj[k].name = n
<1>1. TypeOK /\ MachinePassInv /\ n # NoName
  BY TenancyAssumption DEF IInv, TenancyAssumption
<1>2. MBind
  BY <1>1, NodeChange DEF TypeOK, DeleteRelease, MRelease, nodeReleased
<1> QED
  BY <1>1, <1>2 DEF TypeOK, MBind, MachinePassInv

LEMMA UseStep ==
  ASSUME IInv, TenureInv, [Next]_vars
  PROVE  UseInv'
<1>0. TypeOK /\ PassInv /\ UseInv /\ TakenInv
  BY DEF IInv, TenureInv
<1>1. ASSUME NEW n \in Names, ~mset'[n]
      PROVE  /\ ~secret'[n]
             /\ \A k \in Keys : obj'[k].name # n
             /\ \A u \in UUIDs : node'[u] # n
  <2>1. CASE ~mset[n]
    <3>1. ~secret'[n]
      BY <1>0, <2>1, KeepChange, Keyed
      DEF UseInv, TakenInv, TypeOK, Publish, DeleteSecrets, Allocate, DeleteDrop
    <3>2. \A k \in Keys : obj'[k].name # n
      BY <1>0, <1>1, <2>1, NewMachine DEF UseInv, TypeOK, Allocate
    <3>3. \A u \in UUIDs : node'[u] # n
      BY <1>0, <2>1, NewBinding DEF UseInv
    <3> QED
      BY <3>1, <3>2, <3>3
  <2>2. CASE mset[n]
    <3>1. DeleteDrop /\ n = nameOf(cc)
      BY <1>0, <1>1, <2>2, KeepChange DEF TypeOK, Allocate, Publish, DeleteSecrets, DeleteDrop, omni
    <3>2. \A k \in Keys : obj[k].name # n
      BY <3>1, NoneLeft DEF DeleteDrop, Unwinding
    <3> QED
      BY <1>0, <3>1, <3>2 DEF TakenInv, DeleteDrop, Tearing
  <2> QED
    BY <2>1, <2>2 DEF TypeOK
<1>2. ASSUME NEW n \in Names, owner'[n] = Absent
      PROVE  ~mset'[n]
  <2>1. CASE UNCHANGED owner
    <3>1. ~mset[n]
      BY <1>0, <1>2, <2>1 DEF UseInv
    <3>2. Allocate => n # nameOf(cc)
      BY <1>0, <1>2, <2>1, TenancyAssumption DEF PassInv, Allocate, TenancyAssumption
    <3> QED
      BY <1>0, <3>1, <3>2, KeepChange
      DEF TypeOK, Allocate, Publish, DeleteSecrets, DeleteDrop, omni
  <2>2. ASSUME NEW c \in CRs, EnsureCluster(c)
        PROVE  ~mset'[n]
    BY <1>0, <1>2, <2>2, Keyed, TenancyAssumption
    DEF UseInv, TypeOK, EnsureCluster, TenancyAssumption
  <2>3. CASE DeleteOmniCluster
    BY <1>0, <1>2, <2>3 DEF UseInv, TakenInv, TypeOK, DeleteOmniCluster
  <2> QED
    BY <1>0, <2>1, <2>2, <2>3, OwnerChange
<1> QED
  BY <1>1, <1>2 DEF UseInv

LEMMA TakenStep ==
  ASSUME IInv, TenureInv, [Next]_vars
  PROVE  TakenInv'
<1>0. TypeOK /\ PassInv /\ UseInv /\ TakenInv
  BY DEF IInv, TenureInv
<1>1. CASE UNCHANGED <<cpc, cc>> /\ cpc # "idle"
  <2>1. UNCHANGED <<mset, secret>>
    BY <1>0, <1>1, KeepChange
    DEF Allocate, Publish, DeleteSecrets, DeleteDrop, CStep, CEnd
  <2>2. ASSUME cpc \in {"drop", "cluster", "done"}, NEW u \in UUIDs
        PROVE  node'[u] # nameOf(cc)
    <3>1. cc \in CRs /\ nameOf(cc) \in Names /\ \A k \in Keys : obj[k].name # nameOf(cc)
      BY <2>2, NoneLeft, Keyed DEF Unwinding
    <3> QED
      BY <1>0, <2>2, <3>1, NewBinding DEF TakenInv
  <2> QED
    BY <1>0, <1>1, <2>1, <2>2 DEF TakenInv, nameOf
<1>2. CASE cpc' = "idle"
  BY <1>2 DEF TakenInv, Tearing
<1>3. ASSUME NEW c \in CRs, EnsureCluster(c) \/ DeleteCheck(c)
      PROVE  TakenInv'
  BY <1>3 DEF TakenInv, Tearing, EnsureCluster, DeleteCheck, CStep
<1>4. CASE Allocate /\ cpc' # "idle"
  BY <1>0, <1>4, Keyed DEF TakenInv, Tearing, TypeOK, Allocate, CStep, CEnd, nameOf
<1>5. CASE DeleteSecrets
  BY <1>0, <1>5, Keyed DEF TakenInv, Tearing, TypeOK, DeleteSecrets, CStep, nameOf
<1>6. CASE DeleteMachines /\ cpc' # "idle"
  BY <1>0, <1>6 DEF TakenInv, Tearing, DeleteMachines, CStep, CEnd, nameOf
<1>7. CASE DeleteRelease
  <2>1. cc \in CRs /\ nameOf(cc) \in Names /\ nameOf(cc) # NoName
    BY <1>0, <1>7, Keyed DEF PassInv, DeleteRelease
  <2>2. \A u \in UUIDs : node'[u] # nameOf(cc)
    BY <1>0, <1>7, <2>1 DEF UseInv, DeleteRelease
  <2> QED
    BY <1>0, <1>7, <2>2 DEF TakenInv, Tearing, DeleteRelease, CStep, nameOf
<1>8. CASE DeleteDrop
  BY <1>0, <1>8, Keyed DEF TakenInv, Tearing, TypeOK, DeleteDrop, CStep, nameOf
<1>9. CASE DeleteOmniCluster
  BY <1>0, <1>9 DEF TakenInv, Tearing, DeleteOmniCluster, CStep, nameOf
<1> QED
  BY <1>0, <1>1, <1>2, <1>3, <1>4, <1>5, <1>6, <1>7, <1>8, <1>9, CPassChange

LEMMA TenureInit == Init => TenureInv
<1> SUFFICES ASSUME Init PROVE TenureInv
  OBVIOUS
<1>1. PICK pre \in SUBSET PreExisting, home \in [UUIDs -> PreExisting \cup {NoName}] :
        /\ \A u \in UUIDs : home[u] \in pre \cup {NoName}
        /\ owner = [n \in Names |-> IF n \in pre THEN NoCR ELSE Absent]
        /\ mset = [n \in Names |-> n \in pre]
        /\ node = home
  BY DEF Init
<1>2. \A n \in Names : n # NoName
  BY TenancyAssumption DEF TenancyAssumption
<1>3. /\ \A k \in Keys : obj[k].name = NoName
      /\ \A n \in Names : ~secret[n]
  BY DEF Init, NoObj
<1>4. UseInv
  BY <1>1, <1>2, <1>3, TenancyAssumption DEF UseInv, TenancyAssumption
<1> QED
  BY <1>4 DEF Init, TenureInv, TakenInv, Tearing

-----------------------------------------------------------------------------
(* The refinement.                                                         *)

\* With the machine set last, something is in use in a name exactly while its
\* machine set is there.
LEMMA UseIsSet ==
  ASSUME TypeOK, UseInv, NEW n \in Names
  PROVE  InUse(n) <=> mset[n]
BY DEF InUse, UseInv, AllocatedMachineSetNodes, TypeOK

\* An OmniCluster that was told to leave does not come back.
LEMMA LeavingGrows ==
  ASSUME IInv, [Next]_vars, NEW c \in CRs, cr[c] \in {"deleting", "gone"}
  PROVE  cr'[c] \in {"deleting", "gone"}
BY CRChange DEF IInv, TypeOK, PassInv, DeleteCR, AddFinalizer, DeleteSkip, DeleteDone

\* The move a step makes in one name; OmniTenure's, without the renaming.
LEMMA TenureMoves ==
  ASSUME IInv, TenureInv, [Next]_vars, NEW n \in Names
  PROVE  \/ owner'[n] = owner[n] /\ mset'[n] = mset[n]
         \/ /\ owner[n] \in {NoCR, Absent} /\ (owner[n] = Absent => ~mset[n])
            /\ owner'[n] \in CRs /\ cr'[owner'[n]] = "live" /\ cr[owner'[n]] = "live"
            /\ mset'[n] = mset[n]
         \/ owner[n] \in CRs /\ owner'[n] = owner[n] /\ ~mset[n] /\ mset'[n]
         \/ /\ owner[n] # NoCR => owner[n] \in CRs /\ cr[owner[n]] = "deleting"
            /\ owner'[n] = owner[n] /\ mset[n] /\ ~mset'[n]
         \/ /\ owner[n] # NoCR => owner[n] \in CRs /\ cr[owner[n]] = "deleting"
            /\ owner'[n] = Absent /\ ~mset[n] /\ ~mset'[n]
<1>0. TypeOK /\ PassInv /\ UseInv /\ TakenInv
  BY DEF IInv, TenureInv
<1>1. ASSUME NEW c \in CRs, EnsureCluster(c)
      PROVE  \/ owner'[n] = owner[n] /\ mset'[n] = mset[n]
             \/ /\ owner[n] \in {NoCR, Absent} /\ (owner[n] = Absent => ~mset[n])
                /\ owner'[n] \in CRs /\ cr'[owner'[n]] = "live" /\ cr[owner'[n]] = "live"
                /\ mset'[n] = mset[n]
  BY <1>0, <1>1, Keyed DEF EnsureCluster, Foreign, TypeOK, UseInv
<1>2. CASE DeleteOmniCluster
  <2>1. /\ cc \in CRs /\ cr[cc] = "deleting" /\ owner[nameOf(cc)] \in {cc, NoCR, Absent}
        /\ ~mset[nameOf(cc)] /\ mset' = mset
        /\ owner' = [owner EXCEPT ![nameOf(cc)] = Absent]
    BY <1>0, <1>2, Keyed DEF PassInv, TakenInv, DeleteOmniCluster, Foreign, TypeOK
  <2>2. CASE n = nameOf(cc)
    <3>1. owner'[n] = Absent
      BY <1>0, <2>1, <2>2 DEF TypeOK
    <3> QED
      BY <2>1, <2>2, <3>1
  <2>3. CASE n # nameOf(cc)
    BY <1>0, <2>1, <2>3 DEF TypeOK
  <2> QED
    BY <2>2, <2>3
<1>3. CASE UNCHANGED owner
  <2>1. CASE mset'[n] = mset[n]
    BY <1>3, <2>1
  <2>2. CASE Allocate /\ mset'[n] # mset[n]
    <3>1. cc \in CRs /\ n = nameOf(cc) /\ owner[n] = cc /\ mset'[n] /\ ~mset[n]
      BY <1>0, <2>2 DEF PassInv, Allocate, TypeOK
    <3> QED
      BY <1>3, <3>1
  <2>3. CASE DeleteDrop /\ mset'[n] # mset[n]
    <3>1. /\ cc \in CRs /\ n = nameOf(cc) /\ cr[cc] = "deleting" /\ ~mset'[n] /\ mset[n]
          /\ owner[n] \in {cc, NoCR, Absent}
      BY <1>0, <2>3, Keyed DEF PassInv, DeleteDrop, TypeOK, Foreign
    <3>2. owner[n] # Absent
      BY <1>0, <3>1 DEF UseInv
    <3> QED
      BY <1>3, <3>1, <3>2
  <2> QED
    BY <1>0, <2>1, <2>2, <2>3, KeepChange DEF Publish, DeleteSecrets, omni
<1> QED
  BY <1>0, <1>1, <1>2, <1>3, OwnerChange

LEMMA TenureStates ==
  ASSUME TypeOK
  PROVE  Tenure!States
BY DEF TypeOK, Tenure!States, InUse, AllocatedMachineSetNodes

\* The two controllers keep what the owner label promises: an Omni cluster goes
\* only when its OmniCluster is deleted and its machine set, Secret, Machines
\* and bindings are gone (deleteOmniResources, EnsureCluster, ClusterOwner).
THEOREM TenureHolds == Spec => TenureImplemented
<1> DEFINE AInv == IInv /\ TenureInv
<1>1. Init => AInv
  BY InitHolds, TenureInit
<1>2. AInv /\ [Next]_vars => AInv'
  BY NextKeeps, UseStep, TakenStep DEF TenureInv
<1>3. AInv => TypeOK /\ UseInv
  BY DEF IInv, TenureInv
<1>4. Init => Tenure!Init
  <2> SUFFICES ASSUME Init PROVE Tenure!Init
    OBVIOUS
  <2>1. TypeOK /\ UseInv
    BY <1>1, <1>3
  <2>2. \A n \in Names : owner[n] \in {NoCR, Absent} /\ (owner[n] = Absent => ~InUse(n))
    BY <2>1, UseIsSet DEF Init, UseInv
  <2>3. owner \in [Names -> {NoCR, Absent}]
    BY <2>1, <2>2 DEF TypeOK
  <2>4. [n \in Names |-> InUse(n)] \in [Names -> BOOLEAN]
    BY <2>1, TenureStates DEF Tenure!States
  <2>5. {c \in CRs : cr[c] \in {"deleting", "gone"}} = {}
    BY DEF Init
  <2> QED
    BY <2>2, <2>3, <2>4, <2>5 DEF Tenure!Init
<1>5. AInv => Tenure!States /\ \A n \in Names : InUse(n) <=> mset[n]
  BY <1>3, TenureStates, UseIsSet
<1>6. AInv /\ AInv' /\ [Next]_vars => [Tenure!Next]_(Tenure!vars)
  <2> SUFFICES ASSUME AInv, AInv', [Next]_vars
               PROVE  Tenure!Next
    OBVIOUS
  <2>0. /\ \A n \in Names : InUse(n) <=> mset[n]
        /\ (\A n \in Names : InUse(n) <=> mset[n])'
    BY <1>5, PTL
  <2>1. Tenure!States'
    BY <1>5, PTL
  <2>2. {c \in CRs : cr[c] \in {"deleting", "gone"}}
          \subseteq {c \in CRs : cr'[c] \in {"deleting", "gone"}}
    BY LeavingGrows
  <2>3. ASSUME NEW n \in Names
        PROVE  \/ Tenure!Rest(n) \/ Tenure!Take(n) \/ Tenure!Use(n)
               \/ Tenure!Clear(n) \/ Tenure!Leave(n)
    <3>1. (InUse(n) <=> mset[n]) /\ (InUse(n)' <=> mset'[n])
      BY <2>0
    <3>2. InUse(n) \in BOOLEAN /\ InUse(n)' \in BOOLEAN
      BY DEF InUse
    <3> QED
      BY <3>1, <3>2, TenureMoves DEF Tenure!Rest, Tenure!Take, Tenure!Use, Tenure!Clear,
         Tenure!Leave, Tenure!May, Tenure!Idle
  <2> QED
    BY <2>1, <2>2, <2>3 DEF Tenure!Next
<1> QED
  BY <1>1, <1>2, <1>4, <1>6, PTL DEF Spec, TenureImplemented, Tenure!Spec

=============================================================================
