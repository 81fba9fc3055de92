------------------------ MODULE MCOperationDispatcher ------------------------
(* Instances of OperationDispatcher. Operations that may not depend on each *)
(* other are interchangeable, so a run of safety properties alone may use   *)
(* symmetry; dependencies are left to MCDispatchQueue.                      *)
EXTENDS OperationDispatcher, TLC

CONSTANTS a, b

MCOperation == {a, b}

NoDependencies == [o \in MCOperation |-> {}]

AnyOrder == Permutations(MCOperation)
=============================================================================
