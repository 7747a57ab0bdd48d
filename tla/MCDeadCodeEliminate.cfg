CONSTANT Programs <- MCPrograms
SPECIFICATION Spec
CHECK_DEADLOCK FALSE
INVARIANT KeepsMeaning
INVARIANT UsesCoverOperands
INVARIANT NothingDeadIsLeft
PROPERTY Terminates
