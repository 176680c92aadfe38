--------------------------- MODULE TenancyProofs ---------------------------
(***************************************************************************)
(* For any number of OmniClusters and machines, any placement in           *)
(* namespaces and any bound on faults: the owner label keeps OmniClusters  *)
(* of one name apart, and only a Machine of the same UUID in another       *)
(* namespace can take a machine from a live OmniCluster.                   *)
(***************************************************************************)
EXTENDS Tenancy, TLAPS

\* What a pass knows while it is under way: one that builds owns the Omni
\* cluster, one that tears down is of an OmniCluster being deleted and no other
\* owns it, and from the release on no Machine of it is left.
PassInv ==
  /\ cpc \in {"allocate", "publish"} => cc \in CRs /\ owner[nameOf(cc)] = cc
                                        /\ cr[cc] \in {"live", "deleting"}
  /\ cpc \in {"secrets", "machines", "release", "drop", "cluster", "done"}
       => cc \in CRs /\ cr[cc] = "deleting" /\ ~Foreign(cc)
  /\ cpc \in {"release", "drop", "cluster", "done"} => listClusterMachines(cc) = {}

MachinePassInv ==
  /\ mpc = "bind" => mkey \in Keys /\ Exists(obj[mkey]) /\ obj[mkey].fin
  /\ mpc = "unfinalize" => mkey \in Keys /\ node[mkey[2]] = NoName

\* A Machine is on its way out only when its OmniCluster is.
DelInv ==
  \A c \in CRs, u \in UUIDs :
    obj[keyOf(c, u)].name = nameOf(c) /\ obj[keyOf(c, u)].del => cr[c] = "deleting"

\* A binding is fronted by a Machine of its cluster, which has its finalizer or
\* is the only one of that machine, or by no Machine at all.
Alone(k)  == \A l \in Keys : l[2] = k[2] /\ l # k => ~Exists(obj[l])
Bare(u)   == \A l \in Keys : l[2] = u => ~Exists(obj[l])
Fronts(c, u) ==
  obj[keyOf(c, u)].name = nameOf(c) /\ (obj[keyOf(c, u)].fin \/ Alone(keyOf(c, u)))

BindInv ==
  \A c \in CRs, u \in UUIDs :
    node[u] = nameOf(c) =>
      Bare(u) \/ \E d \in CRs : nameOf(d) = nameOf(c) /\ Fronts(d, u)

\* Every Machine is of an OmniCluster of its namespace.
OwnerInv ==
  \A k \in Keys : Exists(obj[k]) =>
    \E c \in CRs : k = keyOf(c, k[2]) /\ nameOf(c) = obj[k].name

IInv == TypeOK /\ OnlyOwnerHasMachines /\ PassInv /\ MachinePassInv /\ DelInv /\ OwnerInv /\ BindInv

-----------------------------------------------------------------------------
(* Facts about names and keys.                                             *)

\* No OmniCluster's name is the "no name"; a Machine's key splits into its
\* namespace and UUID.
LEMMA Keyed ==
  /\ \A c \in CRs : nameOf(c) \in Names /\ nameOf(c) # NoName
  /\ \A c \in CRs, u \in UUIDs :
       /\ keyOf(c, u) \in Keys /\ keyOf(c, u) # NoKey
       /\ keyOf(c, u)[1] = at[c].ns /\ keyOf(c, u)[2] = u
  /\ \A k \in Keys : k[1] \in Spaces /\ k[2] \in UUIDs /\ k = <<k[1], k[2]>> /\ k # NoKey
BY TenancyAssumption DEF TenancyAssumption, Names, Spaces, Keys, nameOf, keyOf, NoKey

LEMMA NoObjFacts == ~Exists(NoObj) /\ NoObj \in MachineObj /\ ~NoObj.fin /\ ~NoObj.del
BY DEF Exists, NoObj, MachineObj

\* What deletion makes of a Machine object.
LEMMA DeletedFacts ==
  ASSUME NEW o \in MachineObj
  PROVE  /\ Deleted(o) \in MachineObj
         /\ Exists(o) /\ o.fin => /\ Exists(Deleted(o)) /\ Deleted(o).name = o.name
                                  /\ Deleted(o).fin /\ Deleted(o).del
         /\ ~o.fin => Deleted(o) = NoObj
<1>1. CASE o = NoObj
  BY <1>1, NoObjFacts DEF Deleted
<1>2. CASE o \in [name: Names, fin: BOOLEAN, del: BOOLEAN]
  <2>1. Exists(o)
    BY <1>2, TenancyAssumption DEF TenancyAssumption, Exists
  <2>2. CASE ~o.fin
    BY <2>1, <2>2, NoObjFacts DEF Deleted
  <2>3. CASE o.fin
    <3>1. Deleted(o) = [o EXCEPT !.del = TRUE]
      BY <2>1, <2>3 DEF Deleted
    <3>2. /\ Deleted(o) \in [name: Names, fin: BOOLEAN, del: BOOLEAN]
          /\ Deleted(o).name = o.name /\ Deleted(o).fin /\ Deleted(o).del
      BY <1>2, <2>3, <3>1
    <3> QED
      BY <2>1, <2>3, <3>2 DEF MachineObj, Exists
  <2> QED
    BY <2>2, <2>3
<1> QED
  BY <1>1, <1>2 DEF MachineObj

-----------------------------------------------------------------------------
(* Types.                                                                  *)

LEMMA TypeStep ==
  ASSUME TypeOK, [Next]_vars
  PROVE  TypeOK'
<1>1. ASSUME NEW c \in CRs, DeleteCR(c)
      PROVE  TypeOK'
  BY <1>1, TenancyAssumption, Keyed DEF TypeOK, TenancyAssumption, DeleteCR, omni, cvars, mvars, CStep, CEnd, Foreign
<1>2. ASSUME NEW c \in CRs, AddFinalizer(c)
      PROVE  TypeOK'
  BY <1>2, TenancyAssumption, Keyed DEF TypeOK, TenancyAssumption, AddFinalizer, omni, cvars, mvars, CStep, CEnd, Foreign
<1>3. ASSUME NEW c \in CRs, EnsureCluster(c)
      PROVE  TypeOK'
  BY <1>3, TenancyAssumption, Keyed DEF TypeOK, TenancyAssumption, EnsureCluster, omni, cvars, mvars, CStep, CEnd, Foreign
<1>4. ASSUME NEW c \in CRs, DeleteSkip(c)
      PROVE  TypeOK'
  BY <1>4, TenancyAssumption, Keyed DEF TypeOK, TenancyAssumption, DeleteSkip, omni, cvars, mvars, CStep, CEnd, Foreign
<1>5. ASSUME NEW c \in CRs, DeleteCheck(c)
      PROVE  TypeOK'
  BY <1>5, TenancyAssumption, Keyed DEF TypeOK, TenancyAssumption, DeleteCheck, omni, cvars, mvars, CStep, CEnd, Foreign
<1>6. ASSUME Allocate
      PROVE  TypeOK'
  <2>1. cc \in CRs /\ nameOf(cc) \in Names
    BY <1>6, Keyed DEF TypeOK, Allocate
  <2>2. obj' \in [Keys -> MachineObj]
    BY <1>6, <2>1 DEF TypeOK, Allocate, MachineObj
  <2> QED
    BY <1>6, <2>1, <2>2, TenancyAssumption
    DEF TypeOK, TenancyAssumption, Allocate, mvars, CStep, CEnd
<1>7. ASSUME Publish
      PROVE  TypeOK'
  BY <1>7, TenancyAssumption, Keyed, DeletedFacts, NoObjFacts DEF TypeOK, TenancyAssumption, Publish, omni, cvars, mvars, CStep, CEnd
<1>8. ASSUME DeleteSecrets
      PROVE  TypeOK'
  BY <1>8, TenancyAssumption, Keyed, DeletedFacts, NoObjFacts DEF TypeOK, TenancyAssumption, DeleteSecrets, omni, cvars, mvars, CStep, CEnd
<1>9. ASSUME DeleteMachines
      PROVE  TypeOK'
  BY <1>9, TenancyAssumption, Keyed, DeletedFacts, NoObjFacts DEF TypeOK, TenancyAssumption, DeleteMachines, omni, cvars, mvars, CStep, CEnd
<1>10. ASSUME DeleteRelease
      PROVE  TypeOK'
  BY <1>10, TenancyAssumption, Keyed, DeletedFacts, NoObjFacts DEF TypeOK, TenancyAssumption, DeleteRelease, omni, cvars, mvars, CStep, CEnd
<1>11. ASSUME DeleteDrop
      PROVE  TypeOK'
  BY <1>11, TenancyAssumption, Keyed, DeletedFacts, NoObjFacts DEF TypeOK, TenancyAssumption, DeleteDrop, omni, cvars, mvars, CStep, CEnd
<1>12. ASSUME DeleteOmniCluster
      PROVE  TypeOK'
  BY <1>12, TenancyAssumption, Keyed, DeletedFacts, NoObjFacts DEF TypeOK, TenancyAssumption, DeleteOmniCluster, omni, cvars, mvars, CStep, CEnd
<1>13. ASSUME DeleteDone
      PROVE  TypeOK'
  BY <1>13, TenancyAssumption, Keyed, DeletedFacts, NoObjFacts DEF TypeOK, TenancyAssumption, DeleteDone, omni, cvars, mvars, CStep, CEnd
<1>14. ASSUME NEW k \in Keys, MAddFinalizer(k)
      PROVE  TypeOK'
  <2>1. obj[k] \in [name: Names, fin: BOOLEAN, del: BOOLEAN]
    BY <1>14, NoObjFacts DEF TypeOK, MAddFinalizer, MachineObj
  <2>2. obj' = [obj EXCEPT ![k] = [obj[k] EXCEPT !.fin = TRUE]]
    BY <1>14 DEF MAddFinalizer
  <2>3. [obj[k] EXCEPT !.fin = TRUE] \in MachineObj
    BY <2>1 DEF MachineObj
  <2>4. obj' \in [Keys -> MachineObj]
    BY <2>2, <2>3 DEF TypeOK
  <2> QED
    BY <1>14, <2>4 DEF TypeOK, MAddFinalizer, omni, cvars, mvars
<1>15. ASSUME NEW k \in Keys, MGet(k)
      PROVE  TypeOK'
  BY <1>15, TenancyAssumption, Keyed DEF TypeOK, TenancyAssumption, MachineObj, NoObj, Exists, nodeReleased, MGet, omni, cvars, mvars
<1>16. ASSUME NEW k \in Keys, MRelease(k)
      PROVE  TypeOK'
  BY <1>16, TenancyAssumption, Keyed DEF TypeOK, TenancyAssumption, MachineObj, NoObj, Exists, nodeReleased, MRelease, omni, cvars, mvars
<1>17. ASSUME MBind
      PROVE  TypeOK'
  BY <1>17, TenancyAssumption, Keyed, NoObjFacts
  DEF TypeOK, TenancyAssumption, MachineObj, NoObj, MBind, omni, cvars, mvars, MEnd, CEnd
<1>18. ASSUME MUnfinalize
      PROVE  TypeOK'
  BY <1>18, TenancyAssumption, Keyed, NoObjFacts DEF TypeOK, TenancyAssumption, MachineObj, MUnfinalize, omni, cvars, mvars, MEnd, CEnd
<1>19. ASSUME Fail
      PROVE  TypeOK'
  BY <1>19, TenancyAssumption, Keyed, NoObjFacts DEF TypeOK, TenancyAssumption, MachineObj, Fail, omni, cvars, mvars, MEnd, CEnd
<1> QED
  BY <1>1, <1>2, <1>3, <1>4, <1>5, <1>6, <1>7, <1>8, <1>9, <1>10, <1>11, <1>12, <1>13, <1>14, <1>15, <1>16, <1>17, <1>18, <1>19 DEF Next, CBegin, CContinue, MBegin, MContinue, vars, TypeOK

-----------------------------------------------------------------------------
(* Kinds of steps.                                                         *)

\* No Machine appears, and none changes its cluster.
NoNew == \A k \in Keys : Exists(obj'[k]) => obj'[k].name = obj[k].name

\* Machines appear in the namespace of c, for machines that are in the pool or
\* bound to c's set.
Creates(c) ==
  \A k \in Keys : \/ obj'[k] = obj[k]
                  \/ /\ k = keyOf(c, k[2]) /\ ~Exists(obj[k])
                     /\ Exists(obj'[k]) /\ obj'[k].name = nameOf(c)
                     /\ ~obj'[k].fin /\ ~obj'[k].del
                     /\ node[k[2]] \in {NoName, nameOf(c)}
                     /\ node[k[2]] = nameOf(c) => obj[k].name # nameOf(c)

ObjSteps ==
  \/ UNCHANGED obj
  \/ Allocate \/ DeleteMachines \/ MUnfinalize
  \/ \E k \in Keys : MAddFinalizer(k)

LEMMA ObjChange ==
  ASSUME TypeOK, [Next]_vars
  PROVE  ObjSteps
BY DEF ObjSteps, Next, CBegin, CContinue, MBegin, MContinue, vars, DeleteCR, AddFinalizer,
       EnsureCluster, DeleteSkip, DeleteCheck, Publish, DeleteSecrets, DeleteRelease,
       DeleteDrop, DeleteOmniCluster, DeleteDone, MGet, MBind, MRelease, Fail

LEMMA AllocateCreates ==
  ASSUME TypeOK, Allocate
  PROVE  cc \in CRs /\ Creates(cc)
<1>1. cc \in CRs
  BY DEF TypeOK, Allocate
<1>2. \A u \in Chosen(cc) : u \in UUIDs /\ node[u] \in {NoName, nameOf(cc)}
  BY DEF Chosen, AllocatedMachineSetNodes, Available, listClusterMachines
<1>3. ASSUME NEW k \in Keys, obj'[k] # obj[k]
      PROVE  /\ k[1] = at[cc].ns /\ k[2] \in Chosen(cc) /\ ~Exists(obj[k])
             /\ obj'[k] = [name |-> nameOf(cc), fin |-> FALSE, del |-> FALSE]
  BY <1>3 DEF Allocate
<1>4. ASSUME NEW k \in Keys, obj'[k] # obj[k]
      PROVE  /\ k = keyOf(cc, k[2]) /\ Exists(obj'[k]) /\ obj'[k].name = nameOf(cc)
             /\ ~obj'[k].fin /\ ~obj'[k].del /\ obj[k].name # nameOf(cc)
  BY <1>1, <1>3, <1>4, Keyed DEF keyOf, Exists
<1> QED
  BY <1>1, <1>2, <1>3, <1>4 DEF Creates

LEMMA FinFacts ==
  ASSUME TypeOK, NEW k \in Keys, MAddFinalizer(k)
  PROVE  /\ \A l \in Keys : l # k => obj'[l] = obj[l]
         /\ Exists(obj[k]) /\ Exists(obj'[k]) /\ obj'[k].name = obj[k].name
         /\ obj'[k].fin /\ ~obj'[k].del
<1>1. obj' = [obj EXCEPT ![k] = [obj[k] EXCEPT !.fin = TRUE]]
  BY DEF MAddFinalizer
<1>2. obj[k] \in [name: Names, fin: BOOLEAN, del: BOOLEAN] /\ ~obj[k].del
  BY NoObjFacts DEF TypeOK, MAddFinalizer, MachineObj
<1> QED
  BY <1>1, <1>2 DEF TypeOK, MAddFinalizer, Exists

LEMMA DeleteFacts ==
  ASSUME TypeOK, DeleteMachines
  PROVE  /\ cc \in CRs
         /\ \A k \in Keys :
              \/ obj'[k] = obj[k]
              \/ /\ k = keyOf(cc, k[2]) /\ obj[k].name = nameOf(cc) /\ ~obj[k].fin
                 /\ ~Exists(obj'[k])
              \/ /\ k = keyOf(cc, k[2]) /\ obj[k].name = nameOf(cc) /\ obj[k].fin
                 /\ Exists(obj'[k]) /\ obj'[k].name = obj[k].name
                 /\ obj'[k].fin /\ obj'[k].del
<1>1. cc \in CRs
  BY DEF TypeOK, DeleteMachines
<1>2. ASSUME NEW k \in Keys, obj'[k] # obj[k]
      PROVE  /\ k[1] = at[cc].ns /\ k[2] \in listClusterMachines(cc)
             /\ obj'[k] = Deleted(obj[k])
  BY <1>2 DEF DeleteMachines
<1>3. ASSUME NEW k \in Keys, obj'[k] # obj[k]
      PROVE  /\ k = keyOf(cc, k[2]) /\ obj[k].name = nameOf(cc) /\ Exists(obj[k])
             /\ obj[k] \in MachineObj /\ obj'[k] = Deleted(obj[k])
  <2>1. k = keyOf(cc, k[2])
    BY <1>1, <1>2, <1>3, Keyed DEF keyOf
  <2>2. obj[k].name = nameOf(cc)
    BY <1>2, <1>3, <2>1 DEF listClusterMachines
  <2> QED
    BY <1>1, <1>2, <1>3, <2>1, <2>2, Keyed DEF Exists, TypeOK
<1> QED
  BY <1>1, <1>3, DeletedFacts, NoObjFacts

LEMMA UnfinalizeFacts ==
  ASSUME TypeOK, MachinePassInv, MUnfinalize
  PROVE  /\ mkey \in Keys /\ node[mkey[2]] = NoName
         /\ obj' = [obj EXCEPT ![mkey] = NoObj]
BY DEF TypeOK, MachinePassInv, MUnfinalize

LEMMA ObjShrinks ==
  ASSUME TypeOK, MachinePassInv, [Next]_vars, ~Allocate
  PROVE  NoNew
<1>1. CASE UNCHANGED obj
  BY <1>1 DEF NoNew
<1>2. CASE DeleteMachines
  BY <1>2, DeleteFacts DEF NoNew
<1>3. CASE MUnfinalize
  BY <1>3, UnfinalizeFacts, NoObjFacts DEF NoNew, TypeOK
<1>4. CASE \E k \in Keys : MAddFinalizer(k)
  BY <1>4, FinFacts DEF NoNew
<1> QED
  BY <1>1, <1>2, <1>3, <1>4, ObjChange DEF ObjSteps

-----------------------------------------------------------------------------
(* Who owns the Machines.                                                  *)

LEMMA OwnerStep ==
  ASSUME IInv, [Next]_vars
  PROVE  OwnerInv'
<1>0. TypeOK /\ MachinePassInv /\ OwnerInv
  BY DEF IInv
<1>1. CASE Allocate
  <2> SUFFICES ASSUME NEW k \in Keys, Exists(obj'[k])
               PROVE  \E c \in CRs : k = keyOf(c, k[2]) /\ nameOf(c) = obj'[k].name
    BY DEF OwnerInv, Exists, nameOf, keyOf
  <2> QED
    BY <1>0, <1>1, AllocateCreates DEF OwnerInv, Creates
<1>2. CASE ~Allocate
  <2>1. NoNew
    BY <1>0, <1>2, ObjShrinks
  <2> SUFFICES ASSUME NEW k \in Keys, Exists(obj'[k])
               PROVE  \E c \in CRs : k = keyOf(c, k[2]) /\ nameOf(c) = obj'[k].name
    BY DEF OwnerInv, Exists, nameOf, keyOf
  <2> QED
    BY <1>0, <2>1 DEF OwnerInv, NoNew, Exists
<1> QED
  BY <1>1, <1>2

\* The owner label changes only where a pass builds or removes the cluster.
LEMMA OwnerChange ==
  ASSUME TypeOK, [Next]_vars
  PROVE  \/ UNCHANGED owner
         \/ \E c \in CRs : EnsureCluster(c)
         \/ DeleteOmniCluster
BY DEF Next, CBegin, CContinue, MBegin, MContinue, vars, omni, DeleteCR, AddFinalizer, DeleteSkip,
       DeleteCheck, Allocate, Publish, DeleteSecrets, DeleteMachines, DeleteRelease, DeleteDrop,
       DeleteDone, MAddFinalizer, MGet, MBind, MRelease, MUnfinalize, Fail

LEMMA OnlyOwnerStep ==
  ASSUME IInv, [Next]_vars
  PROVE  OnlyOwnerHasMachines'
<1> SUFFICES ASSUME NEW c \in CRs, NEW u \in UUIDs, obj'[keyOf(c, u)].name = nameOf(c)
             PROVE  owner'[nameOf(c)] = c
  BY DEF OnlyOwnerHasMachines, keyOf, nameOf
<1>0. TypeOK /\ MachinePassInv /\ OnlyOwnerHasMachines /\ PassInv
  BY DEF IInv
<1>1. CASE Allocate
  <2>1. /\ cc \in CRs /\ Creates(cc) /\ owner[nameOf(cc)] = cc /\ owner' = owner
    BY <1>0, <1>1, AllocateCreates DEF PassInv, Allocate
  <2>2. CASE obj'[keyOf(c, u)] = obj[keyOf(c, u)]
    BY <1>0, <2>1, <2>2 DEF OnlyOwnerHasMachines
  <2>3. CASE obj'[keyOf(c, u)] # obj[keyOf(c, u)]
    <3>1. keyOf(c, u) = keyOf(cc, u) /\ nameOf(c) = nameOf(cc)
      BY <2>1, <2>3, Keyed DEF Creates
    <3>2. c = cc
      BY <2>1, <3>1, TenancyAssumption DEF TenancyAssumption, keyOf, nameOf
    <3> QED
      BY <2>1, <3>2
  <2> QED
    BY <2>2, <2>3
<1>2. CASE ~Allocate
  <2>1. obj[keyOf(c, u)].name = nameOf(c)
    <3>1. NoNew
      BY <1>0, <1>2, ObjShrinks
    <3> QED
      BY <3>1, Keyed DEF NoNew, Exists
  <2>2. owner[nameOf(c)] = c
    BY <1>0, <2>1 DEF OnlyOwnerHasMachines
  <2>3. CASE UNCHANGED owner
    BY <2>2, <2>3
  <2>4. ASSUME NEW d \in CRs, EnsureCluster(d)
        PROVE  owner'[nameOf(c)] = c
    BY <1>0, <2>2, <2>4, Keyed DEF EnsureCluster, Foreign, TypeOK
  <2>5. CASE DeleteOmniCluster
    <3>1. cc \in CRs /\ ~Foreign(cc) /\ listClusterMachines(cc) = {}
      BY <1>0, <2>5 DEF PassInv, DeleteOmniCluster
    <3>2. c # cc
      BY <2>1, <3>1 DEF listClusterMachines
    <3>3. nameOf(c) # nameOf(cc)
      BY <2>2, <3>1, <3>2 DEF Foreign
    <3> QED
      BY <1>0, <2>2, <2>5, <3>1, <3>3, Keyed DEF DeleteOmniCluster, TypeOK
  <2> QED
    BY <1>0, <2>3, <2>4, <2>5, OwnerChange
<1> QED
  BY <1>1, <1>2

-----------------------------------------------------------------------------
(* Passes under way.                                                       *)

\* What a step does to the pass of the cluster controller: it leaves it, ends
\* it, begins one, or takes its next step.
LEMMA CPassChange ==
  ASSUME TypeOK, [Next]_vars
  PROVE  \/ UNCHANGED <<cpc, cc>>
         \/ cpc' = "idle"
         \/ \E c \in CRs : EnsureCluster(c) \/ DeleteCheck(c)
         \/ Allocate \/ DeleteSecrets \/ DeleteMachines \/ DeleteRelease
         \/ DeleteDrop \/ DeleteOmniCluster
BY DEF Next, CBegin, CContinue, MBegin, MContinue, vars, cvars, DeleteCR, AddFinalizer, DeleteSkip,
       Publish, DeleteDone, CEnd, MAddFinalizer, MGet, MBind, MRelease, MUnfinalize, Fail

\* The state of an OmniCluster changes only by the user, by its first pass, and
\* where its finalizer is removed.
LEMMA CRChange ==
  ASSUME TypeOK, [Next]_vars
  PROVE  \/ UNCHANGED cr
         \/ \E c \in CRs : DeleteCR(c) \/ AddFinalizer(c) \/ DeleteSkip(c)
         \/ DeleteDone
BY DEF Next, CBegin, CContinue, MBegin, MContinue, vars, EnsureCluster, DeleteCheck, Allocate,
       Publish, DeleteSecrets, DeleteMachines, DeleteRelease, DeleteDrop, DeleteOmniCluster,
       MAddFinalizer, MGet, MBind, MRelease, MUnfinalize, Fail

Building    == {"allocate", "publish"}
Tearing     == {"secrets", "machines", "release", "drop", "cluster", "done"}
Unwinding   == {"release", "drop", "cluster", "done"}

LEMMA PassStep ==
  ASSUME IInv, [Next]_vars
  PROVE  PassInv'
<1>0. TypeOK /\ MachinePassInv /\ PassInv
  BY DEF IInv
<1>1. CASE UNCHANGED <<cpc, cc>> /\ cpc # "idle"
  <2>1. CASE ~(UNCHANGED cr)
    <3>1. PICK c \in CRs : DeleteCR(c)
      BY <1>0, <1>1, <2>1, CRChange DEF AddFinalizer, DeleteSkip, DeleteDone, CEnd
    <3>2. UNCHANGED <<owner, obj>> /\ cr[c] \in {"new", "live"}
          /\ cr' = [cr EXCEPT ![c] = IF cr[c] = "new" THEN "gone" ELSE "deleting"]
      BY <3>1 DEF DeleteCR, omni
    <3> QED
      BY <1>0, <1>1, <3>2 DEF PassInv, TypeOK, Foreign, listClusterMachines
  <2>2. CASE UNCHANGED cr
    <3>1. UNCHANGED owner
      BY <1>0, <1>1, OwnerChange DEF EnsureCluster, DeleteOmniCluster, CStep
    <3>2. CASE Allocate
      BY <1>1, <3>2 DEF Allocate, CStep, CEnd
    <3>3. CASE ~Allocate
      <4>1. NoNew
        BY <1>0, <3>3, ObjShrinks
      <4>2. ASSUME cpc \in Unwinding
            PROVE  listClusterMachines(cc)' = {}
        <5>1. cc \in CRs /\ listClusterMachines(cc) = {}
          BY <1>0, <4>2 DEF PassInv, Unwinding
        <5> QED
          BY <1>1, <4>1, <5>1, Keyed DEF listClusterMachines, NoNew, Exists
      <4> QED
        BY <1>0, <1>1, <2>2, <3>1, <4>2 DEF PassInv, Foreign, Unwinding
    <3> QED
      BY <3>2, <3>3
  <2> QED
    BY <2>1, <2>2
<1>2. CASE cpc' = "idle"
  BY <1>2 DEF PassInv
<1>3. ASSUME NEW c \in CRs, EnsureCluster(c)
      PROVE  PassInv'
  BY <1>0, <1>3, Keyed DEF PassInv, EnsureCluster, CStep, TypeOK
<1>4. ASSUME NEW c \in CRs, DeleteCheck(c)
      PROVE  PassInv'
  BY <1>4 DEF PassInv, DeleteCheck, CStep, Foreign, omni
<1>5. CASE Allocate /\ cpc' # "idle"
  BY <1>0, <1>5 DEF PassInv, Allocate, CStep, CEnd
<1>6. CASE DeleteSecrets
  BY <1>0, <1>6 DEF PassInv, DeleteSecrets, CStep, Foreign, omni
<1>7. CASE DeleteMachines /\ cpc' # "idle"
  <2>1. /\ cc' = cc /\ cpc' = "release" /\ Unwound(cc)
        /\ cc \in CRs /\ cr[cc] = "deleting" /\ ~Foreign(cc) /\ UNCHANGED <<cr, owner>>
    BY <1>0, <1>7 DEF PassInv, DeleteMachines, CStep, CEnd, omni
  <2>2. NoNew
    BY <1>0, <1>7, <2>1, ObjShrinks DEF DeleteMachines, Allocate
  <2>3. listClusterMachines(cc)' = {}
    BY <2>1, <2>2, Keyed DEF listClusterMachines, NoNew, Exists, Unwound
  <2> QED
    BY <2>1, <2>3 DEF PassInv, Foreign
<1>8. CASE DeleteRelease
  BY <1>0, <1>8 DEF PassInv, DeleteRelease, CStep, Foreign, listClusterMachines
<1>9. CASE DeleteDrop
  BY <1>0, <1>9 DEF PassInv, DeleteDrop, CStep, Foreign, listClusterMachines
<1>10. CASE DeleteOmniCluster
  BY <1>0, <1>10, TenancyAssumption, Keyed
  DEF PassInv, DeleteOmniCluster, CStep, Foreign, listClusterMachines, TypeOK, TenancyAssumption
<1> QED
  BY <1>0, <1>1, <1>2, <1>3, <1>4, <1>5, <1>6, <1>7, <1>8, <1>9, <1>10, CPassChange

LEMMA MPassChange ==
  ASSUME TypeOK, [Next]_vars
  PROVE  \/ UNCHANGED <<mpc, mkey>>
         \/ mpc' = "idle"
         \/ \E k \in Keys : MGet(k) \/ MRelease(k)
BY DEF Next, CBegin, CContinue, MBegin, MContinue, vars, mvars, MEnd, DeleteCR, AddFinalizer,
       EnsureCluster, DeleteSkip, DeleteCheck, Allocate, Publish, DeleteSecrets, DeleteMachines,
       DeleteRelease, DeleteDrop, DeleteOmniCluster, DeleteDone, MAddFinalizer, MBind,
       MUnfinalize, Fail

\* Bindings change by the Machine controller and by the backstop.
LEMMA NodeChange ==
  ASSUME TypeOK, [Next]_vars
  PROVE  \/ UNCHANGED node
         \/ MBind \/ DeleteRelease
         \/ \E k \in Keys : MRelease(k)
BY DEF Next, CBegin, CContinue, MBegin, MContinue, vars, omni, DeleteCR, AddFinalizer,
       EnsureCluster, DeleteSkip, DeleteCheck, Allocate, Publish, DeleteSecrets, DeleteMachines,
       DeleteDrop, DeleteOmniCluster, DeleteDone, MAddFinalizer, MGet, MUnfinalize, Fail

LEMMA MachinePassStep ==
  ASSUME IInv, [Next]_vars
  PROVE  MachinePassInv'
<1>0. TypeOK /\ MachinePassInv
  BY DEF IInv
<1>1. CASE mpc' = "idle"
  BY <1>1 DEF MachinePassInv
<1>2. ASSUME NEW k \in Keys, MGet(k)
      PROVE  MachinePassInv'
  BY <1>2 DEF MachinePassInv, MGet, Exists
<1>3. ASSUME NEW k \in Keys, MRelease(k)
      PROVE  MachinePassInv'
  BY <1>0, <1>3, Keyed DEF MachinePassInv, MRelease, nodeReleased, TypeOK
<1>4. CASE UNCHANGED <<mpc, mkey>> /\ mpc = "bind"
  <2>1. mkey \in Keys /\ Exists(obj[mkey]) /\ obj[mkey].fin
    BY <1>0, <1>4 DEF MachinePassInv
  <2>2. Exists(obj'[mkey]) /\ obj'[mkey].fin
    <3>1. CASE UNCHANGED obj
      BY <2>1, <3>1
    <3>2. CASE Allocate
      BY <1>0, <2>1, <3>2, AllocateCreates DEF Creates
    <3>3. CASE DeleteMachines
      BY <1>0, <2>1, <3>3, DeleteFacts
    <3>4. CASE MUnfinalize
      BY <1>4, <3>4 DEF MUnfinalize
    <3>5. CASE \E k \in Keys : MAddFinalizer(k)
      BY <1>4, <3>5 DEF MAddFinalizer
    <3> QED
      BY <1>0, <3>1, <3>2, <3>3, <3>4, <3>5, ObjChange DEF ObjSteps
  <2> QED
    BY <1>4, <2>1, <2>2 DEF MachinePassInv, Exists
<1>5. CASE UNCHANGED <<mpc, mkey>> /\ mpc = "unfinalize"
  <2>1. mkey \in Keys /\ node[mkey[2]] = NoName /\ mkey[2] \in UUIDs
    BY <1>0, <1>5, Keyed DEF MachinePassInv
  <2>2. node'[mkey[2]] = NoName
    BY <1>0, <1>5, <2>1, NodeChange DEF MBind, DeleteRelease, MRelease
  <2> QED
    BY <1>5, <2>1, <2>2 DEF MachinePassInv
<1> QED
  BY <1>0, <1>1, <1>2, <1>3, <1>4, <1>5, MPassChange DEF TypeOK

LEMMA DelStep ==
  ASSUME IInv, [Next]_vars
  PROVE  DelInv'
<1> SUFFICES ASSUME NEW c \in CRs, NEW u \in UUIDs,
                    obj'[keyOf(c, u)].name = nameOf(c), obj'[keyOf(c, u)].del
             PROVE  cr'[c] = "deleting"
  BY DEF DelInv, keyOf, nameOf
<1>0. TypeOK /\ MachinePassInv /\ OnlyOwnerHasMachines /\ PassInv /\ DelInv
  BY DEF IInv
<1>1. CASE DeleteMachines /\ obj'[keyOf(c, u)] # obj[keyOf(c, u)]
  <2>1. cc \in CRs /\ keyOf(c, u) = keyOf(cc, u) /\ nameOf(c) = nameOf(cc)
    BY <1>0, <1>1, DeleteFacts, Keyed DEF Exists
  <2>2. c = cc
    BY <2>1, TenancyAssumption DEF TenancyAssumption, keyOf, nameOf
  <2> QED
    BY <1>0, <1>1, <2>2 DEF PassInv, DeleteMachines
<1>2. CASE obj'[keyOf(c, u)] = obj[keyOf(c, u)]
  <2>1. cr[c] = "deleting" /\ owner[nameOf(c)] = c
    BY <1>0, <1>2 DEF DelInv, OnlyOwnerHasMachines
  <2>2. CASE UNCHANGED cr
    BY <2>1, <2>2
  <2>3. ASSUME NEW d \in CRs, DeleteCR(d) \/ AddFinalizer(d)
        PROVE  cr'[c] = "deleting"
    BY <1>0, <2>1, <2>3 DEF DeleteCR, AddFinalizer, TypeOK
  <2>4. ASSUME NEW d \in CRs, DeleteSkip(d)
        PROVE  cr'[c] = "deleting"
    BY <1>0, <2>1, <2>4 DEF DeleteSkip, Foreign, TypeOK
  <2>5. CASE DeleteDone
    <3>1. cc \in CRs /\ listClusterMachines(cc) = {}
      BY <1>0, <2>5 DEF PassInv, DeleteDone
    <3>2. c # cc
      BY <1>2, <3>1 DEF listClusterMachines
    <3> QED
      BY <1>0, <2>1, <2>5, <3>1, <3>2 DEF DeleteDone, TypeOK
  <2> QED
    BY <1>0, <2>2, <2>3, <2>4, <2>5, CRChange
<1>3. CASE Allocate /\ obj'[keyOf(c, u)] # obj[keyOf(c, u)]
  BY <1>0, <1>3, AllocateCreates, Keyed DEF Creates
<1>4. CASE MUnfinalize /\ obj'[keyOf(c, u)] # obj[keyOf(c, u)]
  BY <1>0, <1>4, UnfinalizeFacts, NoObjFacts, Keyed DEF TypeOK
<1>5. CASE (\E k \in Keys : MAddFinalizer(k)) /\ obj'[keyOf(c, u)] # obj[keyOf(c, u)]
  BY <1>0, <1>5, FinFacts, Keyed
<1> QED
  BY <1>0, <1>1, <1>2, <1>3, <1>4, <1>5, ObjChange DEF ObjSteps

-----------------------------------------------------------------------------
(* Bindings and the Machines that front them.                              *)

LEMMA BindStep ==
  ASSUME IInv, [Next]_vars
  PROVE  BindInv'
<1> SUFFICES ASSUME NEW c \in CRs, NEW u \in UUIDs, node'[u] = nameOf(c)
             PROVE  Bare(u)' \/ \E d \in CRs : nameOf(d) = nameOf(c) /\ Fronts(d, u)'
  BY DEF BindInv, nameOf, Bare, Fronts, keyOf, Alone
<1>0. TypeOK /\ MachinePassInv /\ OnlyOwnerHasMachines /\ PassInv /\ OwnerInv /\ BindInv
  BY DEF IInv
<1>1. CASE node'[u] # node[u]
  <2>1. MBind /\ mkey \in Keys /\ mkey[2] = u /\ obj[mkey].name = nameOf(c)
        /\ Exists(obj[mkey]) /\ obj[mkey].fin /\ UNCHANGED obj
    BY <1>0, <1>1, NodeChange, Keyed
    DEF MBind, DeleteRelease, MRelease, nodeReleased, TypeOK, MachinePassInv
  <2>2. PICK d \in CRs : mkey = keyOf(d, u) /\ nameOf(d) = nameOf(c)
    BY <1>0, <2>1 DEF OwnerInv
  <2>3. Fronts(d, u)'
    BY <2>1, <2>2 DEF Fronts, keyOf, nameOf
  <2> QED
    BY <2>2, <2>3
<1>2. CASE node'[u] = node[u]
  <2>0. node[u] = nameOf(c) /\ node[u] # NoName
    BY <1>2, Keyed
  <2>1. CASE UNCHANGED obj
    BY <1>0, <2>0, <2>1 DEF BindInv, Bare, Fronts, Alone, keyOf, nameOf
  <2>2. CASE Allocate
    <3>1. PICK e \in CRs : Creates(e) /\ owner[nameOf(e)] = e
      BY <1>0, <2>2, AllocateCreates DEF PassInv, Allocate
    <3>2. ASSUME NEW k \in Keys, k[2] = u, obj'[k] # obj[k]
          PROVE  k = keyOf(e, u) /\ nameOf(e) = nameOf(c) /\ obj'[k].name = nameOf(e)
                 /\ ~Exists(obj[k])
      BY <2>0, <3>1, <3>2 DEF Creates
    <3>3. CASE Bare(u)
      <4>1. CASE \E k \in Keys : k[2] = u /\ obj'[k] # obj[k]
        <5>1. PICK k \in Keys : k[2] = u /\ obj'[k] # obj[k]
          BY <4>1
        <5>2. k = keyOf(e, u) /\ nameOf(e) = nameOf(c) /\ obj'[k].name = nameOf(e)
          BY <3>2, <5>1
        <5>3. \A l \in Keys : l[2] = u /\ l # keyOf(e, u) => ~Exists(obj'[l])
          BY <3>2, <3>3 DEF Bare
        <5>4. Fronts(e, u)'
          BY <3>1, <5>2, <5>3, Keyed DEF Fronts, Alone, keyOf, nameOf, Exists
        <5> QED
          BY <3>1, <5>2, <5>4
      <4>2. CASE ~\E k \in Keys : k[2] = u /\ obj'[k] # obj[k]
        BY <3>3, <4>2 DEF Bare, Exists
      <4> QED
        BY <4>1, <4>2
    <3>4. CASE ~Bare(u)
      <4>1. PICK d \in CRs : nameOf(d) = nameOf(c) /\ Fronts(d, u)
        BY <1>0, <2>0, <3>4 DEF BindInv
      <4>2. owner[nameOf(c)] = d /\ Exists(obj[keyOf(d, u)]) /\ keyOf(d, u) \in Keys
        BY <1>0, <4>1, Keyed DEF Fronts, OnlyOwnerHasMachines, Exists
      <4>3. \A k \in Keys : k[2] = u => obj'[k] = obj[k]
        BY <3>1, <3>2, <4>1, <4>2
      <4>4. Fronts(d, u)'
        BY <4>1, <4>2, <4>3, Keyed DEF Fronts, Alone, keyOf, nameOf, Exists
      <4> QED
        BY <4>1, <4>4
    <3> QED
      BY <3>3, <3>4
  <2>3. CASE DeleteMachines
    <3>1. ASSUME NEW k \in Keys, Exists(obj'[k])
          PROVE  Exists(obj[k]) /\ obj'[k].name = obj[k].name /\ (obj[k].fin => obj'[k].fin)
      BY <1>0, <2>3, <3>1, DeleteFacts DEF Exists
    <3>2. CASE Bare(u)
      BY <3>1, <3>2 DEF Bare, Exists
    <3>3. CASE ~Bare(u)
      <4>1. PICK d \in CRs : nameOf(d) = nameOf(c) /\ Fronts(d, u)
        BY <1>0, <2>0, <3>3 DEF BindInv
      <4>2. keyOf(d, u) \in Keys /\ keyOf(d, u)[2] = u
        BY Keyed
      <4>3. CASE Exists(obj'[keyOf(d, u)])
        <5>1. Fronts(d, u)'
          BY <3>1, <4>1, <4>2, <4>3 DEF Fronts, Alone, keyOf, nameOf, Exists
        <5> QED
          BY <4>1, <5>1
      <4>4. CASE ~Exists(obj'[keyOf(d, u)])
        <5>1. Exists(obj[keyOf(d, u)])
          BY <4>1, Keyed DEF Fronts, Exists
        <5>2. ~obj[keyOf(d, u)].fin
          BY <1>0, <2>3, <4>2, <4>4, <5>1, DeleteFacts
        <5>3. Alone(keyOf(d, u))
          BY <4>1, <5>2 DEF Fronts
        <5>4. \A l \in Keys : l[2] = u => ~Exists(obj'[l])
          BY <3>1, <4>2, <4>4, <5>3 DEF Alone
        <5> QED
          BY <5>4 DEF Bare, Exists
      <4> QED
        BY <4>3, <4>4
    <3> QED
      BY <3>2, <3>3
  <2>4. CASE MUnfinalize
    <3>1. /\ mkey \in Keys /\ mkey[2] # u /\ obj' = [obj EXCEPT ![mkey] = NoObj]
      BY <1>0, <2>0, <2>4, UnfinalizeFacts
    <3>2. \A k \in Keys : k[2] = u => obj'[k] = obj[k]
      BY <1>0, <3>1 DEF TypeOK
    <3> QED
      BY <1>0, <2>0, <3>2, Keyed DEF BindInv, Bare, Fronts, Alone, keyOf, nameOf, Exists
  <2>5. ASSUME NEW k \in Keys, MAddFinalizer(k)
        PROVE  Bare(u)' \/ \E d \in CRs : nameOf(d) = nameOf(c) /\ Fronts(d, u)'
    <3>1. \A l \in Keys : /\ Exists(obj'[l]) <=> Exists(obj[l])
                          /\ obj'[l].name = obj[l].name /\ (obj[l].fin => obj'[l].fin)
      BY <1>0, <2>5, FinFacts
    <3> QED
      BY <1>0, <2>0, <3>1, Keyed DEF BindInv, Bare, Fronts, Alone, keyOf, nameOf, Exists
  <2> QED
    BY <1>0, <2>1, <2>2, <2>3, <2>4, <2>5, ObjChange DEF ObjSteps
<1> QED
  BY <1>1, <1>2

\* The machine set and the Secret of a cluster change where a pass makes them or
\* removes them.
LEMMA KeepChange ==
  ASSUME TypeOK, [Next]_vars
  PROVE  \/ UNCHANGED <<mset, secret>> \/ Allocate \/ Publish
         \/ DeleteSecrets \/ DeleteDrop
BY DEF Next, CBegin, CContinue, MBegin, MContinue, vars, omni, DeleteCR, AddFinalizer,
       EnsureCluster, DeleteSkip, DeleteCheck, DeleteMachines, DeleteRelease,
       DeleteOmniCluster, DeleteDone, MAddFinalizer, MGet, MBind, MRelease,
       MUnfinalize, Fail

-----------------------------------------------------------------------------
(* The theorems.                                                           *)

LEMMA InitHolds == Init => IInv
<1> SUFFICES ASSUME Init PROVE IInv
  OBVIOUS
<1>1. PICK pre \in SUBSET PreExisting, home \in [UUIDs -> PreExisting \cup {NoName}] :
        /\ owner = [n \in Names |-> IF n \in pre THEN NoCR ELSE Absent]
        /\ mset = [n \in Names |-> n \in pre]
        /\ node = home
  BY DEF Init
<1>2. TypeOK
  BY <1>1, TenancyAssumption, NoObjFacts DEF Init, TypeOK, TenancyAssumption
<1>3. \A k \in Keys : ~Exists(obj[k])
  BY NoObjFacts DEF Init
<1>4. OnlyOwnerHasMachines /\ DelInv
  BY <1>3, Keyed DEF OnlyOwnerHasMachines, DelInv, Exists
<1>5. OwnerInv /\ BindInv
  BY <1>3 DEF OwnerInv, BindInv, Bare
<1>6. PassInv /\ MachinePassInv
  BY DEF Init, PassInv, MachinePassInv
<1> QED
  BY <1>2, <1>4, <1>5, <1>6 DEF IInv

LEMMA NextKeeps == IInv /\ [Next]_vars => IInv'
BY TypeStep, OwnerStep, OnlyOwnerStep, PassStep, MachinePassStep, DelStep, BindStep DEF IInv

LEMMA Inductive == Spec => []IInv
BY InitHolds, NextKeeps, PTL DEF Spec

\* Every reachable state is well typed, and a pass has an OmniCluster or a
\* Machine exactly until it ends (both controllers).
THEOREM TenancyTypeCorrect == Spec => []TypeOK
<1>1. IInv => TypeOK
  BY DEF IInv
<1> QED
  BY <1>1, Inductive, PTL

\* EnsureCluster and ClusterOwner keep OmniClusters of one name apart: only the
\* owner of an Omni cluster has Machines of its name.
THEOREM OwnersHaveMachines == Spec => []OnlyOwnerHasMachines
<1>1. IInv => OnlyOwnerHasMachines
  BY DEF IInv
<1> QED
  BY <1>1, Inductive, PTL

\* deleteOmniResources never takes the Omni cluster, the machine set or the
\* Secret of a live OmniCluster that owns them.
THEOREM NoForeignTeardownHolds == Spec => NoForeignTeardown
<1> DEFINE Kept(c) ==
      cr[c] = "live" /\ owner[nameOf(c)] = c =>
        /\ owner'[nameOf(c)] = c
        /\ mset[nameOf(c)] => mset'[nameOf(c)]
        /\ secret[nameOf(c)] => secret'[nameOf(c)]
<1>1. ASSUME IInv, [Next]_vars
      PROVE  \A c \in CRs : Kept(c)
  <2> SUFFICES ASSUME NEW c \in CRs, cr[c] = "live", owner[nameOf(c)] = c
               PROVE  /\ owner'[nameOf(c)] = c
                      /\ mset[nameOf(c)] => mset'[nameOf(c)]
                      /\ secret[nameOf(c)] => secret'[nameOf(c)]
    OBVIOUS
  <2>0. TypeOK /\ PassInv /\ nameOf(c) \in Names
    BY <1>1, Keyed DEF IInv
  <2>1. cpc \in Tearing => cc \in CRs /\ nameOf(cc) # nameOf(c)
    BY <2>0 DEF PassInv, Tearing, Foreign
  <2>2. owner'[nameOf(c)] = c
    <3>1. ASSUME NEW d \in CRs, EnsureCluster(d)
          PROVE  owner'[nameOf(c)] = c
      BY <2>0, <3>1, Keyed DEF EnsureCluster, Foreign, TypeOK
    <3>2. CASE DeleteOmniCluster
      BY <2>0, <2>1, <3>2 DEF DeleteOmniCluster, TypeOK, Tearing
    <3> QED
      BY <1>1, <2>0, <3>1, <3>2, OwnerChange
  <2>3. \/ UNCHANGED <<mset, secret>> \/ Allocate \/ Publish
        \/ DeleteSecrets \/ DeleteDrop
    BY <1>1, <2>0, KeepChange
  <2>4. mset[nameOf(c)] => mset'[nameOf(c)]
    BY <2>0, <2>1, <2>3
    DEF TypeOK, Allocate, Publish, DeleteSecrets, DeleteDrop, Tearing, omni
  <2>5. secret[nameOf(c)] => secret'[nameOf(c)]
    BY <2>0, <2>1, <2>3
    DEF TypeOK, Allocate, Publish, DeleteSecrets, DeleteDrop, Tearing, omni
  <2> QED
    BY <2>2, <2>4, <2>5
<1>2. Spec => [][\A c \in CRs : Kept(c)]_vars
  BY <1>1, Inductive, PTL DEF Spec
<1> QED
  BY <1>2 DEF NoForeignTeardown

\* Nothing but the release of a Machine of the same UUID in another namespace
\* unbinds a machine of a live OmniCluster: releaseMachineOmni goes by UUID.
THEOREM UnsharedMachinesHold == Spec => UnsharedMachinesStay
<1>1. ASSUME IInv, [Next]_vars
      PROVE  \A c \in CRs, u \in UUIDs : ~Shared(u) => Steady(c, u)
  <2> SUFFICES ASSUME NEW c \in CRs, NEW u \in UUIDs, ~Shared(u),
                      cr[c] = "live", owner[nameOf(c)] = c, node[u] = nameOf(c)
               PROVE  node'[u] = nameOf(c)
    BY DEF Steady
  <2>0. TypeOK /\ PassInv /\ OnlyOwnerHasMachines /\ DelInv /\ BindInv
        /\ nameOf(c) # NoName
    BY <1>1, Keyed DEF IInv
  <2>1. CASE MBind
    BY <2>0, <2>1 DEF MBind, TypeOK
  <2>2. CASE DeleteRelease
    <3>1. nameOf(cc) # nameOf(c)
      BY <2>0, <2>2 DEF PassInv, DeleteRelease, Foreign
    <3> QED
      BY <2>2, <3>1 DEF DeleteRelease
  <2>3. ASSUME NEW k \in Keys, MRelease(k)
        PROVE  node'[u] = nameOf(c)
    <3>1. CASE k[2] # u
      BY <2>0, <2>3, <3>1 DEF MRelease, nodeReleased, TypeOK
    <3>2. CASE k[2] = u
      <4>1. Exists(obj[k]) /\ obj[k].del
        BY <2>0, <2>3, NoObjFacts, TenancyAssumption
        DEF MRelease, TypeOK, MachineObj, Exists, TenancyAssumption
      <4>2. PICK d \in CRs : nameOf(d) = nameOf(c) /\ Fronts(d, u)
        BY <2>0, <3>2, <4>1 DEF BindInv, Bare
      <4>3. d = c /\ keyOf(d, u) \in Keys /\ keyOf(d, u)[2] = u /\ Exists(obj[keyOf(d, u)])
        BY <2>0, <4>2, Keyed DEF Fronts, OnlyOwnerHasMachines, Exists
      <4>4. k = keyOf(c, u)
        BY <3>2, <4>1, <4>3 DEF Shared
      <4> QED
        BY <2>0, <4>1, <4>2, <4>3, <4>4 DEF DelInv, Fronts
    <3> QED
      BY <3>1, <3>2
  <2> QED
    BY <1>1, <2>0, <2>1, <2>2, <2>3, NodeChange
<1>2. Spec => [][\A c \in CRs, u \in UUIDs : ~Shared(u) => Steady(c, u)]_vars
  BY <1>1, Inductive, PTL DEF Spec
<1> QED
  BY <1>2 DEF UnsharedMachinesStay

=============================================================================
