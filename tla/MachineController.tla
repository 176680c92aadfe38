------------------------- MODULE MachineController -------------------------
(***************************************************************************)
(* MachineReconciler: converges one Machine object onto Omni (bind,        *)
(* config patches, kernel args) and unwinds it behind a finalizer.  One    *)
(* worker: passes over different Machines do not overlap.  Its reboot      *)
(* section is in DriftReboot.                                              *)
(***************************************************************************)
EXTENDS FleetState

\* A write by the Machine pass to its own object.
MWrite(u, o) ==
  /\ Persist([obj EXCEPT ![u] = o])
  /\ cfresh' = cfresh \ {u}

crest == <<cpc, cspec, ctodo, cset, cexist, cnew, cdel, csync, claimed, calloc>>

MEndPass == mpc' = "idle" /\ mkey' = -1 /\ mtmpl' = NoTmpl /\ mfresh' = FALSE

\* First pass over a new object: the finalizer is added and the pass ends.
\* An outdated copy is refused and the pass retried.
MAddFinalizer(u) ==
  /\ mpc = "idle" /\ Live(cache[u]) /\ ~cache[u].fin /\ u \notin stale
  /\ MWrite(u, [cache[u] EXCEPT !.fin = TRUE])
  /\ UNCHANGED <<cr, spec, omni, crest, mvars, bounds>>

\* A fault to test against: binding does not wait for the finalizer.
MayBindEarly(u) == Live(cache[u])

MayBind(u) == Live(cache[u]) /\ cache[u].fin

\* A status write of a pass over u outdates the other copies of the object; it
\* is skipped when nothing changed, and refused when the pass's copy is not
\* the current one.
MStatus(u, current, changed) ==
  IF changed /\ current
  THEN /\ stale' = IF CacheLag THEN stale \cup {u} ELSE stale
       /\ cfresh' = cfresh \ {u}
  ELSE UNCHANGED <<stale, cfresh>>

\* EnsureMachineSetNode: create the binding, or find it already there.  Left
\* out, since nothing changes: a pass over a machine that has all it needs.
MBind(u) ==
  /\ mpc = "idle" /\ MayBind(u)
  /\ node[u].set \in {NoSet, cache[u].set}
  /\ ~Bound(u) \/ custom[u] # cache[u].tmpl
  /\ node' = IF Bound(u) THEN node
             ELSE [node EXCEPT ![u] = [set |-> cache[u].set, tearing |-> FALSE]]
  /\ healthy' = IF Bound(u) THEN healthy ELSE [healthy EXCEPT ![u] = FALSE]
  /\ mpc' = "configure" /\ mkey' = u /\ mtmpl' = cache[u].tmpl
  /\ mfresh' = (u \notin stale)
  /\ UNCHANGED <<kube, mset, avail, custom, cvars, bounds>>

\* EnsureMachineSetNode fails, because Omni does not answer or because the
\* machine is bound to another set: setFailure writes the status.
MBindFail(u) ==
  /\ mpc = "idle" /\ MayBind(u) /\ faults < MaxFaults
  /\ MStatus(u, u \notin stale, TRUE)
  /\ faults' = faults + 1
  /\ UNCHANGED <<cr, spec, obj, cache, omni, crest, mvars, edits, flips>>

\* Config patches are ensured and pruned, kernel args ensured or deleted, and
\* the status says so.
MConfigure ==
  /\ mpc = "configure"
  /\ custom' = [custom EXCEPT ![mkey] = mtmpl]
  /\ MStatus(mkey, mfresh, custom[mkey] # mtmpl)
  /\ MEndPass
  /\ UNCHANGED <<cr, spec, obj, cache, mset, node, avail, healthy, crest, bounds>>

\* Delete path, releaseMachineOmni: unbind; while Omni tears the binding down
\* the pass fails and is retried.
MUnbindWait(u) ==
  /\ mpc = "idle" /\ cache[u].del /\ cache[u].fin
  /\ ~node[u].tearing /\ NodeTearing(u)
  /\ UNCHANGED <<kube, mset, avail, custom, healthy, cvars, mvars, bounds>>

MUnbind(u) ==
  /\ mpc = "idle" /\ cache[u].del /\ cache[u].fin
  /\ NodeDestroyed(u)
  /\ mpc' = "clean" /\ mkey' = u /\ mtmpl' = NoTmpl /\ mfresh' = (u \notin stale)
  /\ UNCHANGED <<kube, mset, avail, custom, healthy, cvars, bounds>>

\* A fault to test against: the patches and kernel args are left behind.
customLeft(u) == custom

customCleared(u) == [custom EXCEPT ![u] = NoTmpl]

\* Then its config patches and kernel args are removed.
MClean ==
  /\ mpc = "clean"
  /\ custom' = customCleared(mkey)
  /\ mpc' = "unfinalize"
  /\ UNCHANGED <<kube, mset, node, avail, healthy, cvars, mkey, mtmpl, mfresh, bounds>>

\* A fault to test against: the object is written back with its finalizer.
MUnfinalizeKept ==
  /\ mpc = "unfinalize"
  /\ IF mfresh THEN MWrite(mkey, obj[mkey]) ELSE UNCHANGED <<obj, cache, stale, cfresh>>
  /\ MEndPass
  /\ UNCHANGED <<cr, spec, omni, crest, bounds>>

\* RemoveFinalizer and Update: the API server drops the object.  Refused when
\* the copy is outdated: the teardown is repeated, from its first call.
MUnfinalize ==
  /\ mpc = "unfinalize"
  /\ IF mfresh THEN MWrite(mkey, NoObj) ELSE UNCHANGED <<obj, cache, stale, cfresh>>
  /\ MEndPass
  /\ UNCHANGED <<cr, spec, omni, crest, bounds>>

\* An Omni call of a pass fails, after some of the patches or kernel args have
\* been written or removed: setFailure, or in the delete path a plain error,
\* and the pass is retried.
MFail ==
  /\ mpc # "idle" /\ faults < MaxFaults
  /\ \/ UNCHANGED custom
     \/ /\ mpc = "configure" \/ (mpc = "clean" /\ custom[mkey] # NoTmpl)
        /\ custom' = [custom EXCEPT ![mkey] = Partial]
  /\ MStatus(mkey, mfresh, mpc = "configure")
  /\ MEndPass
  /\ faults' = faults + 1
  /\ UNCHANGED <<cr, spec, obj, cache, mset, node, avail, healthy, crest, edits, flips>>

MachinePass ==
  \/ \E u \in UUIDs : \/ MAddFinalizer(u) \/ MBind(u) \/ MBindFail(u)
                      \/ MUnbindWait(u) \/ MUnbind(u)
  \/ MConfigure \/ MClean \/ MUnfinalize \/ MFail

=============================================================================
