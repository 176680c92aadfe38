------------------------- MODULE DriftRebootProofs -------------------------
(***************************************************************************)
(* Theorems about DriftReboot, for every set of machines, cooldown and     *)
(* bound, with lagging and with coherent caches.                           *)
(***************************************************************************)
EXTENDS DriftReboot, TLAPS

\* What one write to the API server does to the types and to CacheCurrent,
\* whichever controller makes it.
LEMMA PersistLemma ==
  ASSUME TypeOK, CacheCurrent,
         NEW m \in Machines, NEW o \in MachineObj, Persist(m, o)
  PROVE  /\ obj' \in [Machines -> MachineObj]
         /\ cache' \in [Machines -> MachineObj]
         /\ stale' \subseteq Machines
         /\ CacheCurrent'
         /\ obj'[m] = o
         /\ \A n \in Machines : n # m => obj'[n] = obj[n]
<1>1. CacheLag \in BOOLEAN
  BY DriftRebootAssumption
<1>2. CASE CacheLag
  BY <1>1, <1>2 DEF Persist, TypeOK, CacheCurrent
<1>3. CASE ~CacheLag
  BY <1>1, <1>3 DEF Persist, TypeOK, CacheCurrent
<1> QED BY <1>2, <1>3

\* The record updates that the actions persist stay Machine objects.
LEMMA ObjLemma ==
  ASSUME NEW o \in MachineObj, NEW t \in Times, NEW p \in Phases
  PROVE  /\ [o EXCEPT !.req = t] \in MachineObj
         /\ [o EXCEPT !.last = t] \in MachineObj
         /\ [o EXCEPT !.phase = p] \in MachineObj
BY DEF MachineObj

\* What GetDriftingMachines returns are machines.
LEMMA DriftingLemma == GetDriftingMachines \subseteq Machines
BY DEF GetDriftingMachines

-----------------------------------------------------------------------------
\* The inductive invariant behind every theorem below: the types and the
\* handshake between the two controllers hold together, neither alone is
\* preserved (an accepted write is typed because the copy it came from is
\* current).
IInv == TypeOK /\ HandshakeInv

LEMMA InitInv == Init => IInv
<1> SUFFICES ASSUME Init PROVE IInv
  OBVIOUS
<1>1. /\ CacheLag \in BOOLEAN /\ MaxTime \in Nat \ {0}
      /\ MaxEdits \in Nat /\ MaxFaults \in Nat /\ NoMachine \notin Machines
  BY DriftRebootAssumption
<1>2. obj \in [Machines -> MachineObj] /\ cache = obj
  BY <1>1 DEF Init, MachineObj, Times, Phases, NoTime
<1>3. rep \in [Machines -> Report]
  BY DEF Init, Report, Configs
<1>4. TypeOK
  <2>1. /\ clock \in 1..MaxTime /\ mstamp \in Times
        /\ edits \in 0..MaxEdits /\ faults \in 0..MaxFaults
        /\ attempt \in [Machines -> Times]
    BY <1>1 DEF Init, Times, NoTime
  <2>2. config \in [Machines -> Configs] /\ up \in [Machines -> BOOLEAN]
    BY DEF Init, Configs
  <2>3. /\ stale \subseteq Machines /\ drifting \subseteq Machines
        /\ unsettled \subseteq Machines /\ mfresh \in BOOLEAN
        /\ cpc = "idle" /\ mpc = "idle" /\ mkey = NoMachine /\ cond = "Absent"
    BY DEF Init
  <2> QED BY <1>2, <1>3, <2>1, <2>2, <2>3 DEF TypeOK, Conditions
<1>5. HandshakeInv
  BY <1>1 DEF Init, HandshakeInv, CacheCurrent, NoFuture, StampMatches, NoTime
<1> QED BY <1>4, <1>5 DEF IInv

\* Steps of the cluster controller.
LEMMA ClusterInv == IInv /\ ClusterPass => IInv'
<1> SUFFICES ASSUME IInv, ClusterPass PROVE IInv'
  OBVIOUS
<1> USE DEF IInv
<1>1. CASE CGetDrifting
  BY <1>1, DriftingLemma
  DEF CGetDrifting, TypeOK, HandshakeInv, CacheCurrent, NoFuture, StampMatches,
      kube, mvars, omni, bound, Conditions
<1>2. CASE SignalNoDrift
  BY <1>2
  DEF SignalNoDrift, EndPass, TypeOK, HandshakeInv, CacheCurrent, NoFuture,
      StampMatches, kube, mvars, omni, bound, Conditions
<1>3. CASE SignalInFlight
  BY <1>3
  DEF SignalInFlight, EndPass, TypeOK, HandshakeInv, CacheCurrent, NoFuture,
      StampMatches, kube, mvars, omni, bound, Conditions
<1>4. CASE SignalCooldown
  BY <1>4
  DEF SignalCooldown, EndPass, TypeOK, HandshakeInv, CacheCurrent, NoFuture,
      StampMatches, kube, mvars, omni, bound, Conditions
<1>5. ASSUME NEW m \in Machines, SignalConflict(m) PROVE IInv'
  BY <1>5
  DEF SignalConflict, EndPass, TypeOK, HandshakeInv, CacheCurrent, NoFuture,
      StampMatches, kube, mvars, omni, bound, Conditions
<1>6. ASSUME NEW m \in Machines, SignalRequest(m) PROVE IInv'
  <2>1. clock \in Times /\ cache[m] = obj[m] /\ cache[m] \in MachineObj
    BY <1>6 DEF SignalRequest, TypeOK, HandshakeInv, CacheCurrent, Times
  <2>2. [cache[m] EXCEPT !.req = clock] \in MachineObj
    BY <2>1, ObjLemma DEF Phases
  <2>3. Persist(m, [cache[m] EXCEPT !.req = clock])
    BY <1>6 DEF SignalRequest
  <2>4. /\ obj' \in [Machines -> MachineObj] /\ cache' \in [Machines -> MachineObj]
        /\ stale' \subseteq Machines /\ CacheCurrent'
        /\ obj'[m] = [cache[m] EXCEPT !.req = clock]
        /\ \A n \in Machines : n # m => obj'[n] = obj[n]
    BY <2>2, <2>3, PersistLemma DEF HandshakeInv
  <2>5. TypeOK'
    BY <1>6, <2>4
    DEF SignalRequest, EndPass, SpecChanged, Outdate, TypeOK, omni, bound, Conditions
  <2>6. NoFuture'
    <3>1. obj'[m].req = clock /\ obj'[m].last = obj[m].last
      BY <2>1, <2>4 DEF MachineObj
    <3>2. clock' = clock /\ clock \in Int
      BY <1>6 DEF SignalRequest, TypeOK, bound
    <3>3. \A n \in Machines : n # m => obj'[n] = obj[n]
      BY <2>4
    <3> QED
      BY <3>1, <3>2, <3>3 DEF HandshakeInv, NoFuture
  <2>7. StampMatches'
    <3>1. /\ UNCHANGED <<mpc, mkey, mstamp, attempt, clock>>
          /\ mfresh' => mfresh /\ mkey # m
      BY <1>6 DEF SignalRequest, SpecChanged, Outdate, bound
    <3>2. \A n \in Machines : n # m => obj'[n] = obj[n]
      BY <2>4
    <3> QED BY <3>1, <3>2 DEF HandshakeInv, StampMatches, TypeOK
  <2> QED BY <2>4, <2>5, <2>6, <2>7 DEF HandshakeInv
<1> QED
  BY <1>1, <1>2, <1>3, <1>4, <1>5, <1>6 DEF ClusterPass

\* Steps of the Machine controller.
LEMMA MachineInv == IInv /\ MachinePass => IInv'
<1> SUFFICES ASSUME IInv, MachinePass PROVE IInv'
  OBVIOUS
<1> USE DEF IInv
<1>1. ASSUME NEW m \in Machines, MGet(m) PROVE IInv'
  BY <1>1
  DEF MGet, TypeOK, HandshakeInv, CacheCurrent, NoFuture, StampMatches,
      kube, cvars, omni, bound
<1>2. ASSUME NEW m \in Machines, MSettle(m) PROVE IInv'
  <2>1. cache[m] = obj[m] /\ obj[m] \in MachineObj /\ Persist(m, cache[m])
    BY <1>2 DEF MSettle, TypeOK, HandshakeInv, CacheCurrent
  <2>2. /\ obj' \in [Machines -> MachineObj] /\ cache' \in [Machines -> MachineObj]
        /\ stale' \subseteq Machines /\ CacheCurrent'
        /\ \A n \in Machines : obj'[n] = obj[n]
    BY <2>1, PersistLemma DEF HandshakeInv
  <2>3. TypeOK'
    BY <1>2, <2>2 DEF MSettle, TypeOK, cvars, omni, bound
  <2>4. NoFuture' /\ StampMatches'
    BY <1>2, <2>2 DEF MSettle, HandshakeInv, NoFuture, StampMatches, bound
  <2> QED BY <2>2, <2>3, <2>4 DEF HandshakeInv
<1>3. ASSUME NEW m \in Machines, MRelease(m) PROVE IInv'
  <2>1. /\ obj' \in [Machines -> MachineObj] /\ cache' \in [Machines -> MachineObj]
        /\ stale' \subseteq Machines /\ CacheCurrent'
        /\ \A n \in Machines : /\ obj'[n].req = obj[n].req
                               /\ obj'[n].last = obj[n].last
    <3>1. CASE m \in stale
      BY <1>3, <3>1 DEF MRelease, kube, TypeOK, HandshakeInv, CacheCurrent
    <3>2. CASE m \notin stale
      <4> DEFINE o == [cache[m] EXCEPT !.phase = "gone"]
      <4>1. cache[m] = obj[m] /\ obj[m] \in MachineObj /\ Persist(m, o)
        BY <1>3, <3>2 DEF MRelease, TypeOK, HandshakeInv, CacheCurrent
      <4>2. o \in MachineObj /\ o.req = obj[m].req /\ o.last = obj[m].last
        BY <4>1, ObjLemma DEF MachineObj, Phases
      <4> HIDE DEF o
      <4> QED BY <4>1, <4>2, PersistLemma DEF HandshakeInv
    <3> QED BY <3>1, <3>2
  <2>2. TypeOK'
    BY <1>3, <2>1 DEF MRelease, TypeOK, cvars, mvars, bound, Configs
  <2>3. NoFuture' /\ StampMatches'
    BY <1>3, <2>1
    DEF MRelease, HandshakeInv, NoFuture, StampMatches, TypeOK, mvars, bound
  <2> QED BY <2>1, <2>2, <2>3 DEF HandshakeInv
<1>4. CASE MReboot
  <2>1. /\ clock \in Times /\ clock \in Int /\ mkey \in Machines
        /\ attempt' = [attempt EXCEPT ![mkey] = clock] /\ mstamp' = clock
        /\ mpc' = "stamp" /\ UNCHANGED <<kube, mkey, clock>>
    BY <1>4 DEF MReboot, TypeOK, Times, bound
  <2>2. TypeOK'
    BY <1>4, <2>1 DEF MReboot, TypeOK, kube, cvars, bound
  <2>3. HandshakeInv'
    BY <2>1 DEF HandshakeInv, CacheCurrent, NoFuture, StampMatches, TypeOK, kube
  <2> QED BY <2>2, <2>3
<1>5. CASE MStamp
  <2>1. mkey \in Machines /\ mstamp \in Times /\ obj[mkey] \in MachineObj
    BY <1>5 DEF MStamp, TypeOK
  <2>2. /\ obj' \in [Machines -> MachineObj] /\ cache' \in [Machines -> MachineObj]
        /\ stale' \subseteq Machines /\ CacheCurrent' /\ unsettled' \subseteq Machines
        /\ \A n \in Machines : /\ obj'[n].req = obj[n].req
                               /\ \/ obj'[n].last = obj[n].last
                                  \/ obj'[n].last = mstamp
    <3>1. CASE ~mfresh
      BY <1>5, <3>1 DEF MStamp, kube, TypeOK, HandshakeInv, CacheCurrent
    <3>2. CASE mfresh
      <4> DEFINE o == [obj[mkey] EXCEPT !.last = mstamp]
      <4>1. Persist(mkey, o) /\ unsettled' \subseteq Machines
        BY <1>5, <2>1, <3>2 DEF MStamp, TypeOK
      <4>2. o \in MachineObj /\ o.req = obj[mkey].req /\ o.last = mstamp
        BY <2>1, ObjLemma DEF MachineObj, Phases
      <4> HIDE DEF o
      <4> QED BY <2>1, <4>1, <4>2, PersistLemma DEF HandshakeInv
    <3> QED BY <3>1, <3>2 DEF TypeOK
  <2>3. mstamp <= clock
    BY <1>5 DEF MStamp, HandshakeInv, StampMatches
  <2>4. TypeOK'
    <3>1. mstamp' \in Times
      BY <1>5, DriftRebootAssumption DEF MStamp, EndMachinePass, Times, NoTime
    <3>2. mkey' = NoMachine /\ mpc' = "idle" /\ mfresh' = FALSE
      BY <1>5 DEF MStamp, EndMachinePass
    <3> QED BY <1>5, <2>2, <3>1, <3>2 DEF MStamp, TypeOK, cvars, omni, bound
  <2>5. NoFuture' /\ StampMatches'
    <3>1. mpc' = "idle" /\ clock' = clock
      BY <1>5 DEF MStamp, EndMachinePass, bound
    <3> QED BY <2>2, <2>3, <3>1 DEF HandshakeInv, NoFuture, StampMatches
  <2> QED BY <2>2, <2>4, <2>5 DEF HandshakeInv
<1>6. CASE MFailEarly
  <2>1. mkey \in Machines /\ obj[mkey] \in MachineObj
    BY <1>6 DEF MFailEarly, TypeOK
  <2>2. /\ obj' \in [Machines -> MachineObj] /\ cache' \in [Machines -> MachineObj]
        /\ stale' \subseteq Machines /\ CacheCurrent'
        /\ \A n \in Machines : obj'[n] = obj[n]
    <3>1. CASE ~mfresh
      BY <1>6, <3>1 DEF MFailEarly, kube, TypeOK, HandshakeInv, CacheCurrent
    <3>2. CASE mfresh
      BY <1>6, <2>1, <3>2, PersistLemma DEF MFailEarly, HandshakeInv
    <3> QED BY <3>1, <3>2 DEF TypeOK
  <2>3. TypeOK'
    <3>1. faults' \in 0..MaxFaults
      BY <1>6, DriftRebootAssumption DEF MFailEarly, TypeOK
    <3> QED BY <1>6, <2>2, <3>1 DEF MFailEarly, TypeOK, cvars, omni
  <2>4. NoFuture' /\ StampMatches'
    BY <1>6, <2>2 DEF MFailEarly, HandshakeInv, NoFuture, StampMatches
  <2> QED BY <2>2, <2>3, <2>4 DEF HandshakeInv
<1> QED
  BY <1>1, <1>2, <1>3, <1>4, <1>5, <1>6 DEF MachinePass

\* Steps of the other writers, Omni, the machines, time and crashes.
LEMMA EnvironmentInv == IInv /\ Environment => IInv'
<1> SUFFICES ASSUME IInv, Environment PROVE IInv'
  OBVIOUS
<1> USE DEF IInv
<1>1. CASE CacheSync
  BY <1>1
  DEF CacheSync, TypeOK, HandshakeInv, CacheCurrent, NoFuture, StampMatches,
      cvars, mvars, omni, bound
<1>2. CASE Tick
  <2>1. clock' \in 1..MaxTime /\ clock \in Int /\ clock' = clock + 1
    BY <1>2, DriftRebootAssumption DEF Tick, TypeOK
  <2>2. TypeOK'
    BY <1>2, <2>1 DEF Tick, TypeOK, kube, cvars, mvars, omni
  <2>3. \A m \in Machines : obj[m].req \in Int /\ obj[m].last \in Int
    BY DEF TypeOK, MachineObj, Times
  <2>4. CacheCurrent' /\ NoFuture'
    BY <1>2, <2>1, <2>3 DEF Tick, HandshakeInv, CacheCurrent, NoFuture, kube
  <2>5. mstamp \in Int
    BY DEF TypeOK, Times
  <2>6. StampMatches'
    BY <1>2, <2>1, <2>5 DEF Tick, HandshakeInv, StampMatches, kube, mvars
  <2> QED BY <2>2, <2>4, <2>6 DEF HandshakeInv
<1>3. CASE Crash
  <2>1. mstamp' \in Times /\ faults' \in 0..MaxFaults
    BY <1>3, DriftRebootAssumption DEF Crash, EndMachinePass, TypeOK, Times, NoTime
  <2>2. /\ mpc' = "idle" /\ mkey' = NoMachine /\ mfresh' = FALSE
        /\ cache' = obj /\ stale' = {} /\ obj' = obj /\ clock' = clock
    BY <1>3 DEF Crash, EndMachinePass
  <2>3. TypeOK'
    BY <1>3, <2>1, <2>2 DEF Crash, TypeOK, omni
  <2>4. HandshakeInv'
    BY <2>2 DEF HandshakeInv, CacheCurrent, NoFuture, StampMatches
  <2> QED BY <2>3, <2>4
<1>4. ASSUME NEW m \in Machines, syncMachineSpec(m) PROVE IInv'
  <2>1. cache[m] = obj[m] /\ obj[m] \in MachineObj /\ Persist(m, cache[m])
    BY <1>4 DEF syncMachineSpec, desiredMachineSpec, TypeOK, HandshakeInv, CacheCurrent
  <2>2. /\ obj' \in [Machines -> MachineObj] /\ cache' \in [Machines -> MachineObj]
        /\ stale' \subseteq Machines /\ CacheCurrent'
        /\ \A n \in Machines : obj'[n] = obj[n]
    BY <2>1, PersistLemma DEF HandshakeInv
  <2>3. edits' \in 0..MaxEdits
    BY <1>4, DriftRebootAssumption DEF syncMachineSpec, TypeOK
  <2>4. /\ UNCHANGED <<mpc, mkey, mstamp, attempt, clock>>
        /\ mfresh' \in BOOLEAN /\ (mfresh' => mfresh)
        /\ unsettled' \subseteq Machines
    BY <1>4 DEF syncMachineSpec, SpecChanged, Outdate, TypeOK
  <2>5. TypeOK'
    BY <1>4, <2>2, <2>3, <2>4 DEF syncMachineSpec, TypeOK, cvars, omni
  <2>6. NoFuture' /\ StampMatches'
    BY <2>2, <2>4 DEF HandshakeInv, NoFuture, StampMatches, TypeOK
  <2> QED BY <2>2, <2>5, <2>6 DEF HandshakeInv
<1>5. ASSUME NEW m \in Machines, deleteMachine(m) PROVE IInv'
  <2> DEFINE o == [obj[m] EXCEPT !.phase = "deleting"]
  <2>1. obj[m] \in MachineObj /\ Persist(m, o)
    BY <1>5 DEF deleteMachine, TypeOK
  <2>2. o \in MachineObj /\ o.req = obj[m].req /\ o.last = obj[m].last
    BY <2>1, ObjLemma DEF MachineObj, Phases
  <2> HIDE DEF o
  <2>3. /\ obj' \in [Machines -> MachineObj] /\ cache' \in [Machines -> MachineObj]
        /\ stale' \subseteq Machines /\ CacheCurrent'
        /\ \A n \in Machines : obj'[n].req = obj[n].req /\ obj'[n].last = obj[n].last
    BY <2>1, <2>2, PersistLemma DEF HandshakeInv
  <2>4. edits' \in 0..MaxEdits
    BY <1>5, DriftRebootAssumption DEF deleteMachine, TypeOK
  <2>5. /\ UNCHANGED <<mpc, mkey, mstamp, attempt, unsettled, clock>>
        /\ mfresh' \in BOOLEAN /\ (mfresh' => mfresh)
    BY <1>5 DEF deleteMachine, Outdate, TypeOK
  <2>6. TypeOK'
    BY <1>5, <2>3, <2>4, <2>5 DEF deleteMachine, TypeOK, cvars, omni
  <2>7. NoFuture' /\ StampMatches'
    BY <2>3, <2>5 DEF HandshakeInv, NoFuture, StampMatches, TypeOK
  <2> QED BY <2>3, <2>6, <2>7 DEF HandshakeInv
<1>6. ASSUME NEW m \in Machines, ConfigChange(m) PROVE IInv'
  <2>1. edits' \in 0..MaxEdits
    BY <1>6, DriftRebootAssumption DEF ConfigChange, TypeOK
  <2>2. TypeOK'
    BY <1>6, <2>1 DEF ConfigChange, TypeOK, kube, cvars, mvars, Configs
  <2>3. HandshakeInv'
    BY <1>6
    DEF ConfigChange, HandshakeInv, CacheCurrent, NoFuture, StampMatches, kube, mvars
  <2> QED BY <2>2, <2>3
<1>7. ASSUME NEW m \in Machines, MachineBoots(m) PROVE IInv'
  BY <1>7
  DEF MachineBoots, TypeOK, HandshakeInv, CacheCurrent, NoFuture, StampMatches,
      kube, cvars, mvars, bound, Configs
<1>8. ASSUME NEW m \in Machines, OmniReport(m) PROVE IInv'
  BY <1>8
  DEF OmniReport, TypeOK, HandshakeInv, CacheCurrent, NoFuture, StampMatches,
      kube, cvars, mvars, bound, Report
<1> QED
  BY <1>1, <1>2, <1>3, <1>4, <1>5, <1>6, <1>7, <1>8 DEF Environment

\* The types and the handshake invariant are inductive.
LEMMA NextInv == IInv /\ [Next]_vars => IInv'
<1> SUFFICES ASSUME IInv, [Next]_vars PROVE IInv'
  OBVIOUS
<1>1. CASE Next
  BY <1>1, ClusterInv, MachineInv, EnvironmentInv DEF Next
<1>2. CASE UNCHANGED vars
  BY <1>2
  DEF IInv, TypeOK, HandshakeInv, CacheCurrent, NoFuture, StampMatches,
      vars, kube, cvars, mvars, omni, bound
<1> QED BY <1>1, <1>2

\* Every variable keeps its type in every reachable state.
THEOREM TypeCorrect == Spec => []TypeOK
<1>1. IInv => TypeOK
  BY DEF IInv
<1> QED BY <1>1, InitInv, NextInv, PTL DEF Spec

\* In every reachable state a cached copy with a current version equals the
\* API server's object, and a pending stamp answers the request it was made
\* for: the optimistic-concurrency discipline of the two controllers.
THEOREM HandshakeHolds == Spec => []HandshakeInv
<1>1. IInv => HandshakeInv
  BY DEF IInv
<1> QED BY <1>1, InitInv, NextInv, PTL DEF Spec

-----------------------------------------------------------------------------
(* What a step may do to the reboot fields of a Machine.                   *)

\* The fields of m are left alone; an object that is gone stays gone, and goes
\* between two passes of the Machine controller.
Kept(m) == /\ obj'[m].req = obj[m].req /\ obj'[m].last = obj[m].last
           /\ obj[m].phase = "gone" => obj'[m].phase = "gone"
           /\ obj'[m].phase = "gone" => obj[m].phase = "gone" \/ mpc = "idle"

\* m is requested, at the end of a pass whose copy of m is current.
Requested(m) == /\ MayRequest(m) /\ m \notin stale
                /\ obj'[m].req = clock /\ obj'[m].last = obj[m].last
                /\ \A n \in Machines : n # m => obj'[n] = obj[n]
                /\ cpc = "signal" /\ cpc' = "idle"

\* m is stamped, by a pass whose copy of m is current, which ends.
Stamped(m) == /\ mpc = "stamp" /\ mkey = m /\ mfresh /\ mpc' = "idle"
              /\ obj'[m].last = mstamp /\ obj'[m].req = obj[m].req
              /\ obj'[m].phase = obj[m].phase

\* Persisting o writes it to m and leaves the other objects alone.
LEMMA PersistObj ==
  ASSUME TypeOK, NEW m \in Machines, NEW o, Persist(m, o)
  PROVE  obj'[m] = o /\ \A n \in Machines : n # m => obj'[n] = obj[n]
BY DEF Persist, TypeOK

\* Every step keeps, requests or stamps each Machine.
LEMMA ObjStep ==
  ASSUME IInv, [Next]_vars
  PROVE  \A m \in Machines : Kept(m) \/ Requested(m) \/ Stamped(m)
<1>1. ASSUME UNCHANGED obj
      PROVE \A m \in Machines : Kept(m)
  BY <1>1 DEF Kept
<1>2. ASSUME NEW k \in Machines, Persist(k, obj[k])
      PROVE \A m \in Machines : Kept(m)
  BY <1>2, PersistObj DEF Kept, IInv
<1>3. ASSUME NEW k \in Machines, SignalRequest(k)
      PROVE \A m \in Machines : Kept(m) \/ Requested(m)
  <2> DEFINE o == [cache[k] EXCEPT !.req = clock]
  <2>1. cache[k] = obj[k] /\ obj[k] \in MachineObj
    BY <1>3 DEF SignalRequest, IInv, HandshakeInv, CacheCurrent, TypeOK
  <2>2. /\ Persist(k, o) /\ MayRequest(k) /\ k \notin stale
        /\ cpc = "signal" /\ cpc' = "idle"
    BY <1>3 DEF SignalRequest, EndPass, omni
  <2>3. o.req = clock /\ o.last = obj[k].last
    BY <2>1 DEF MachineObj
  <2> HIDE DEF o
  <2>4. obj'[k] = o /\ \A n \in Machines : n # k => obj'[n] = obj[n]
    BY <2>2, PersistObj DEF IInv
  <2> QED BY <2>2, <2>3, <2>4 DEF Kept, Requested
<1>4. ASSUME NEW k \in Machines, MRelease(k)
      PROVE \A m \in Machines : Kept(m)
  <2>1. CASE k \in stale
    BY <1>1, <1>4, <2>1 DEF MRelease, kube
  <2>2. CASE k \notin stale
    <3> DEFINE o == [cache[k] EXCEPT !.phase = "gone"]
    <3>1. cache[k] = obj[k] /\ obj[k] \in MachineObj /\ Persist(k, o) /\ mpc = "idle"
      BY <1>4, <2>2 DEF MRelease, IInv, HandshakeInv, CacheCurrent, TypeOK
    <3>2. o.req = obj[k].req /\ o.last = obj[k].last /\ o.phase = "gone"
      BY <3>1 DEF MachineObj
    <3> HIDE DEF o
    <3> QED BY <3>1, <3>2, PersistObj DEF Kept, IInv
  <2> QED BY <2>1, <2>2
<1>5. ASSUME NEW k \in Machines, deleteMachine(k)
      PROVE \A m \in Machines : Kept(m)
  <2> DEFINE o == [obj[k] EXCEPT !.phase = "deleting"]
  <2>1. obj[k] \in MachineObj /\ Persist(k, o) /\ obj[k].phase = "live"
    BY <1>5 DEF deleteMachine, IInv, TypeOK
  <2>2. o.req = obj[k].req /\ o.last = obj[k].last /\ o.phase = "deleting"
    BY <2>1 DEF MachineObj
  <2> HIDE DEF o
  <2> QED BY <2>1, <2>2, PersistObj DEF Kept, IInv
<1>6. CASE MStamp
  <2>1. CASE ~mfresh
    BY <1>1, <1>6, <2>1 DEF MStamp, kube
  <2>2. CASE mfresh
    <3> DEFINE o == [obj[mkey] EXCEPT !.last = mstamp]
    <3>1. mkey \in Machines /\ obj[mkey] \in MachineObj /\ Persist(mkey, o)
      BY <1>6, <2>2 DEF MStamp, IInv, TypeOK
    <3>2. o.req = obj[mkey].req /\ o.last = mstamp /\ o.phase = obj[mkey].phase
      BY <3>1 DEF MachineObj
    <3> HIDE DEF o
    <3>3. obj'[mkey] = o /\ \A n \in Machines : n # mkey => obj'[n] = obj[n]
      BY <3>1, PersistObj DEF IInv
    <3>4. mpc = "stamp" /\ mpc' = "idle"
      BY <1>6 DEF MStamp, EndMachinePass
    <3> QED BY <2>2, <3>2, <3>3, <3>4 DEF Kept, Stamped
  <2> QED BY <2>1, <2>2 DEF IInv, TypeOK
<1>7. CASE MFailEarly
  <2>1. mkey \in Machines
    BY <1>7 DEF MFailEarly, IInv, TypeOK
  <2> QED BY <1>1, <1>2, <1>7, <2>1 DEF MFailEarly, kube
<1>8. ASSUME NEW k \in Machines, MSettle(k) \/ syncMachineSpec(k)
      PROVE \A m \in Machines : Kept(m)
  <2>1. Persist(k, cache[k]) /\ cache[k] = obj[k]
    BY <1>8 DEF MSettle, syncMachineSpec, desiredMachineSpec, IInv, HandshakeInv, CacheCurrent
  <2> QED BY <1>2, <2>1
<1>9. CASE UNCHANGED vars
  BY <1>1, <1>9 DEF vars, kube
<1>10. CASE ClusterPass
  BY <1>1, <1>3, <1>10
  DEF ClusterPass, CGetDrifting, SignalNoDrift, SignalInFlight, SignalCooldown,
      SignalConflict, kube
<1>11. CASE MachinePass
  BY <1>1, <1>4, <1>6, <1>7, <1>8, <1>11 DEF MachinePass, MGet, MReboot, kube
<1>12. CASE Environment
  BY <1>1, <1>5, <1>8, <1>12
  DEF Environment, CacheSync, Tick, Crash, ConfigChange, MachineBoots, OmniReport, kube
<1> QED BY <1>9, <1>10, <1>11, <1>12 DEF Next

\* A candidate's cached cooldown has passed, and no listed machine is owed a
\* reboot.
LEMMA MayRequestLemma ==
  ASSUME NEW m \in Machines, MayRequest(m)
  PROVE  /\ cooledDown(m) /\ cache[m].phase # "gone"
         /\ \A n \in Machines : cache[n].phase # "gone" => ~rebootOwed(cache[n])
BY DEF MayRequest, anyRebootInFlight, selectDriftRebootCandidate, listClusterMachines

-----------------------------------------------------------------------------
\* A reboot is requested only on a machine whose persisted LastRebootTime is
\* absent or at least rebootCooldown old, however far the cache lags.
THEOREM RequestsRespectCooldown == Spec => RequestRespectsCooldown
<1> DEFINE A == \A m \in Machines :
                  obj'[m].req # obj[m].req /\ obj'[m].req # NoTime =>
                    obj[m].last = NoTime \/ obj'[m].req - obj[m].last >= Cooldown
<1>1. IInv /\ [Next]_vars => A
  <2> SUFFICES ASSUME IInv, [Next]_vars, NEW m \in Machines,
                      obj'[m].req # obj[m].req
               PROVE  obj[m].last = NoTime \/ obj'[m].req - obj[m].last >= Cooldown
    OBVIOUS
  <2>1. Requested(m)
    BY ObjStep DEF Kept, Stamped
  <2>2. cache[m] = obj[m]
    BY <2>1 DEF Requested, IInv, HandshakeInv, CacheCurrent
  <2>3. cooledDown(m)
    BY <2>1, MayRequestLemma DEF Requested
  <2> QED BY <2>1, <2>2, <2>3 DEF Requested, cooledDown
<1>2. IInv /\ [Next]_vars => [A]_vars
  BY <1>1
<1> HIDE DEF A
<1>3. Spec => [][A]_vars
  BY <1>2, InitInv, NextInv, PTL DEF Spec
<1> QED BY <1>3 DEF RequestRespectsCooldown, A

\* A reboot stops being owed only after its RPC was issued: no writer of the
\* Machine loses a request, and no stamp is persisted without an attempt.
THEOREM OwedEndsOnlyByAttempt == Spec => OwedEndsByAttempt
<1> DEFINE A == \A m \in Machines :
                  rebootOwed(obj[m]) /\ ~rebootOwed(obj'[m]) =>
                    attempt[m] >= obj[m].req
<1>1. IInv /\ [Next]_vars => A
  <2> SUFFICES ASSUME IInv, [Next]_vars, NEW m \in Machines,
                      rebootOwed(obj[m]), ~rebootOwed(obj'[m])
               PROVE  attempt[m] >= obj[m].req
    OBVIOUS
  <2>1. ~Kept(m)
    BY DEF Kept, rebootOwed
  <2>2. ~Requested(m)
    <3> SUFFICES ASSUME Requested(m) PROVE FALSE
      OBVIOUS
    <3>1. cache[m] = obj[m] /\ cache[m].phase # "gone" /\ ~rebootOwed(cache[m])
      BY MayRequestLemma DEF Requested, IInv, HandshakeInv, CacheCurrent
    <3> QED BY <3>1
  <2>3. Stamped(m)
    BY <2>1, <2>2, ObjStep
  <2>4. mstamp = attempt[m] /\ obj[m].req <= mstamp
    BY <2>3 DEF Stamped, IInv, HandshakeInv, StampMatches
  <2>5. mstamp \in Int /\ obj[m].req \in Int
    BY DEF IInv, TypeOK, MachineObj, Times
  <2> QED BY <2>4, <2>5
<1>2. IInv /\ [Next]_vars => [A]_vars
  BY <1>1
<1> HIDE DEF A
<1>3. Spec => [][A]_vars
  BY <1>2, InitInv, NextInv, PTL DEF Spec
<1> QED BY <1>3 DEF OwedEndsByAttempt, A

\* A reboot is requested only while every reboot in flight is hidden from the
\* cluster controller by an outdated copy, for any number of machines and
\* however far the cache lags.
THEOREM RequestsSeeNone == Spec => RequestsUnseen
<1> DEFINE A == \A m \in Machines :
                  obj'[m].req # obj[m].req => Owed \subseteq stale \ {m}
<1>1. IInv /\ [Next]_vars => A
  <2> SUFFICES ASSUME IInv, [Next]_vars, NEW m \in Machines,
                      obj'[m].req # obj[m].req, NEW n \in Owed
               PROVE  n \in stale /\ n # m
    OBVIOUS
  <2>1. Requested(m)
    BY ObjStep DEF Kept, Stamped
  <2>2. n \in Machines /\ obj[n].phase # "gone" /\ rebootOwed(obj[n])
    BY DEF Owed
  <2>3. n \in stale
    BY <2>1, <2>2, MayRequestLemma DEF Requested, IInv, HandshakeInv, CacheCurrent
  <2> QED BY <2>1, <2>3 DEF Requested
<1>2. IInv /\ [Next]_vars => [A]_vars
  BY <1>1
<1> HIDE DEF A
<1>3. Spec => [][A]_vars
  BY <1>2, InitInv, NextInv, PTL DEF Spec
<1> QED BY <1>3 DEF RequestsUnseen, A

\* A Machine pass keeps what it is at, ends, or starts from a cached copy that
\* is owed a reboot; it never comes to have a better copy than it started with.
LEMMA MachineStage ==
  ASSUME [Next]_vars
  PROVE  \/ mpc' = "idle"
         \/ mpc = "reboot" /\ mpc' = "stamp"
         \/ mpc' = mpc /\ mkey' = mkey /\ (mfresh' => mfresh)
         \/ \E m \in Machines : MGet(m)
BY DEF Next, vars, ClusterPass, MachinePass, Environment, CGetDrifting, SignalNoDrift,
   SignalInFlight, SignalCooldown, SignalRequest, SignalConflict, SpecChanged, Outdate,
   MSettle, MRelease, MReboot, MStamp, MFailEarly, CacheSync, Tick, Crash,
   EndMachinePass, syncMachineSpec, deleteMachine, ConfigChange, MachineBoots,
   OmniReport, mvars

\* A pass about to issue the RPC from a copy that is still current has an owed
\* reboot before it.
RebootInv == mpc = "reboot" /\ mfresh => mkey \in Owed

LEMMA RebootStep ==
  ASSUME IInv, RebootInv, [Next]_vars
  PROVE  RebootInv'
<1> SUFFICES ASSUME mpc' = "reboot", mfresh'
             PROVE  mkey' \in Owed'
  BY DEF RebootInv
<1>1. ASSUME NEW m \in Machines, MGet(m)
      PROVE  mkey' \in Owed'
  <2>1. cache[m] = obj[m]
    BY <1>1 DEF MGet, IInv, HandshakeInv, CacheCurrent
  <2> QED BY <1>1, <2>1 DEF MGet, kube, Owed, rebootOwed
<1>2. CASE mpc = "reboot" /\ mkey' = mkey /\ mfresh
  <2>1. mkey \in Owed /\ mkey \in Machines
    BY <1>2 DEF RebootInv, Owed
  <2>2. CASE Kept(mkey)
    BY <1>2, <2>1, <2>2 DEF Kept, Owed, rebootOwed
  <2>3. CASE Requested(mkey)
    <3>1. cache[mkey] = obj[mkey] /\ cache[mkey].phase # "gone"
          /\ ~rebootOwed(cache[mkey])
      BY <2>1, <2>3, MayRequestLemma DEF Requested, IInv, HandshakeInv, CacheCurrent
    <3> QED BY <2>1, <3>1 DEF Owed
  <2> QED BY <1>2, <2>1, <2>2, <2>3, ObjStep DEF Stamped
<1> QED BY <1>1, <1>2, MachineStage

\* The RPC is issued for an owed reboot, or by a pass whose copy is outdated,
\* whatever the cache, a crash or a refused write does.
THEOREM RebootsAnswerRequests == Spec => RebootsAreOwed
<1> DEFINE A == mpc = "reboot" /\ mpc' = "stamp" => mkey \in Owed \/ ~mfresh
<1>1. Init => RebootInv
  BY DEF Init, RebootInv
<1>2. IInv /\ RebootInv /\ [Next]_vars => RebootInv'
  BY RebootStep
<1>3. RebootInv => [A]_vars
  BY DEF RebootInv
<1> HIDE DEF A
<1>4. Spec => [][A]_vars
  BY <1>1, <1>2, <1>3, InitInv, NextInv, PTL DEF Spec
<1> QED BY <1>4 DEF RebootsAreOwed, A

=============================================================================
