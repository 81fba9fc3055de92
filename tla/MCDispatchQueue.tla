--------------------------- MODULE MCDispatchQueue ---------------------------
(* Three operations a, b and c, whose dependencies are acyclic.             *)
EXTENDS DispatchQueue

CONSTANTS a, b, c

MCOperation == {a, b, c}

(* b may wait for a, c for both: no cycle can be built.                     *)
AcyclicDependencies ==
  [o \in MCOperation |-> IF o = a THEN {} ELSE IF o = b THEN {a} ELSE {a, b}]
=============================================================================
