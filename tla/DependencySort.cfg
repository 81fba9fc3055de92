SPECIFICATION Spec
CONSTANT Length = 4
INVARIANT TypeOK
INVARIANT ReadyIsUnblocked
INVARIANT ResultInDependencyOrder
PROPERTY Terminates
CHECK_DEADLOCK FALSE
