--------------------------- MODULE MCDriftReboot ---------------------------
(* Instances of DriftReboot for TLC; the cfg files give the constants.     *)
EXTENDS DriftReboot, TLC

\* Machines are interchangeable: no action orders or names them.  Used only
\* where no liveness property is checked.
Symmetry == Permutations(Machines)

=============================================================================
