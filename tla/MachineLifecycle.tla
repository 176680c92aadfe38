-------------------------- MODULE MachineLifecycle --------------------------
(***************************************************************************)
(* What the two controllers promise together about each machine of the     *)
(* Omni account: it is claimed for one set before anything is done to it,  *)
(* guarded by a finalizer before anything of it is held in Omni (a binding,*)
(* config patches, kernel args), keeps its set until it is released, and   *)
(* returns to the pool only when nothing of it is held any more.           *)
(***************************************************************************)
CONSTANTS Machines, Homes, NoHome

VARIABLES
  phase,   \* machine -> "free", "claimed", "guarded", "leaving"
  home,    \* machine -> the set it is claimed for
  held     \* machine -> TRUE: something of it is held in Omni

vars == <<phase, home, held>>

Phases == {"free", "claimed", "guarded", "leaving"}

States ==
  /\ phase \in [Machines -> Phases]
  /\ home \in [Machines -> Homes \cup {NoHome}]
  /\ held \in [Machines -> BOOLEAN]

Init ==
  /\ phase = [u \in Machines |-> "free"]
  /\ home = [u \in Machines |-> NoHome]
  /\ held = [u \in Machines |-> FALSE]

Keeps(u)    == phase'[u] = phase[u] /\ home'[u] = home[u]
Goes(u, p, q) == phase[u] = p /\ phase'[u] = q

Claim(u) ==
  Goes(u, "free", "claimed") /\ home'[u] \in Homes /\ held'[u] = held[u]
Guard(u) ==
  Goes(u, "claimed", "guarded") /\ home'[u] = home[u] /\ held'[u] = held[u]
Unclaim(u) ==
  Goes(u, "claimed", "free") /\ home'[u] = NoHome /\ held'[u] = held[u]
Leave(u) ==
  Goes(u, "guarded", "leaving") /\ home'[u] = home[u] /\ held'[u] = held[u]
Free(u) ==
  Goes(u, "leaving", "free") /\ home'[u] = NoHome /\ ~held[u] /\ ~held'[u]

Hold(u)     == Keeps(u) /\ phase[u] \in {"guarded", "leaving"} /\ ~held[u] /\ held'[u]
Release(u)  == Keeps(u) /\ phase[u] = "leaving" /\ held[u] /\ ~held'[u]
Rest(u)     == Keeps(u) /\ held'[u] = held[u]

\* Each machine makes at most one move; a step may move several.
Next ==
  /\ States'
  /\ \A u \in Machines : \/ Rest(u) \/ Hold(u) \/ Release(u)
                         \/ Claim(u) \/ Guard(u) \/ Unclaim(u) \/ Leave(u) \/ Free(u)

Spec == Init /\ [][Next]_vars

=============================================================================
