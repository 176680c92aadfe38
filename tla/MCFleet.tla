------------------------------ MODULE MCFleet ------------------------------
(* Instances of Fleet for TLC.                                             *)
EXTENDS Fleet

\* A spec with c control-plane machines and, for a worker set, -1 replicas
\* when it is not declared.
MkSpec(c, ws, t) ==
  [sets |-> {CP} \cup {w \in Workers : ws[w] >= 0},
   rep |-> [s \in Sets |-> IF s = CP THEN c ELSE IF ws[s] < 0 THEN 0 ELSE ws[s]],
   tmpl |-> t]

\* A worker set that is declared, or removed with a change of customisation.
RemoveSpecs ==
  {MkSpec(1, [w \in Workers |-> 1], 1), MkSpec(1, [w \in Workers |-> -1], 2)}

\* Both sets are scaled, the worker set to nothing and out of the spec.
ScaleSpecs ==
  {MkSpec(1, [w \in Workers |-> -1], 1), MkSpec(1, [w \in Workers |-> 2], 1),
   MkSpec(1, [w \in Workers |-> 1], 1), MkSpec(3, [w \in Workers |-> 0], 1)}

\* The control plane grows while the worker set stays as it is.
GrowSpecs == {MkSpec(c, [w \in Workers |-> 1], 1) : c \in {1, 3}}

\* A worker set is renamed: the declared one is w1 or w2 of Workers.
RenameSpecs ==
  {MkSpec(1, [w \in Workers |-> IF w = v THEN 1 ELSE -1], 1) : v \in Workers}

=============================================================================
