----------------------------- MODULE OmniTenure -----------------------------
(***************************************************************************)
(* What the owner label of an Omni cluster promises to the tenants that    *)
(* share an account: a cluster has one holder at a time, only under a      *)
(* holder does anything come into use in its name, and only when a holder  *)
(* that is leaving has nothing of it in use any more does the cluster go,  *)
(* so that the next holder starts from nothing.                            *)
(***************************************************************************)
CONSTANTS Names, Tenants, NoTenant, Absent

VARIABLES
  holder,   \* name -> tenant, NoTenant (made by hand), Absent (no cluster)
  used,     \* name -> TRUE: something is there in its name
  leaving   \* tenants that were told to leave

vars == <<holder, used, leaving>>

States ==
  /\ holder \in [Names -> Tenants \cup {NoTenant, Absent}]
  /\ used \in [Names -> BOOLEAN]
  /\ leaving \in SUBSET Tenants

Init ==
  /\ holder \in [Names -> {NoTenant, Absent}]
  /\ used \in [Names -> BOOLEAN]
  /\ \A n \in Names : holder[n] = Absent => ~used[n]
  /\ leaving = {}

Idle(n) == holder[n] = Absent /\ ~used[n]
May(n)  == holder[n] \in leaving \cup {NoTenant}

Rest(n)  == holder'[n] = holder[n] /\ used'[n] = used[n]
Take(n)  == /\ holder[n] = NoTenant \/ Idle(n)
            /\ holder'[n] \in Tenants \ leaving /\ used'[n] = used[n]
Use(n)   == holder[n] \in Tenants /\ holder'[n] = holder[n] /\ ~used[n] /\ used'[n]
Clear(n) == May(n) /\ holder'[n] = holder[n] /\ used[n] /\ ~used'[n]
Leave(n) == May(n) /\ holder'[n] = Absent /\ ~used[n] /\ ~used'[n]

\* Each name makes at most one move.
Next ==
  /\ States' /\ leaving \subseteq leaving'
  /\ \A n \in Names : Rest(n) \/ Take(n) \/ Use(n) \/ Clear(n) \/ Leave(n)

Spec == Init /\ [][Next]_vars

=============================================================================
