--------------------------- MODULE MCPublication ---------------------------
(* Instances of Publication for TLC.                                       *)
EXTENDS Publication

\* The Secret's format changes between runs of the controller.
FormatChanges == {[fmt |-> f, ns |-> "flux-system"] : f \in {"raw", "argo"}}

\* One format, one namespace.
OneFormat == {[fmt |-> "raw", ns |-> "flux-system"]}

\* Format and namespace change together, as the README has it for Argo CD.
FormatMoves == {[fmt |-> "raw", ns |-> "flux-system"], [fmt |-> "argo", ns |-> "argocd"]}

=============================================================================
