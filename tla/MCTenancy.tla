----------------------------- MODULE MCTenancy -----------------------------
(* Instances of Tenancy for TLC.                                           *)
EXTENDS Tenancy

CONSTANTS c1, c2, c3

\* Two OmniClusters of one name in two namespaces, and one of another name in
\* the first of these.
ThreePlaces ==
  [c \in CRs |-> CASE c = c1 -> [ns |-> "n1", name |-> "a"]
                   [] c = c2 -> [ns |-> "n2", name |-> "a"]
                   [] c = c3 -> [ns |-> "n1", name |-> "b"]]

\* Two OmniClusters that differ in both.
TwoPlaces ==
  [c \in CRs |-> CASE c = c1 -> [ns |-> "n1", name |-> "a"]
                   [] c = c2 -> [ns |-> "n2", name |-> "b"]]

=============================================================================
