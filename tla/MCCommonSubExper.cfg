CONSTANTS
  Programs <- MCPrograms
  Arith <- MCArith
SPECIFICATION Spec
CHECK_DEADLOCK FALSE
INVARIANT NothingLeftTwice
INVARIANT UsersFollow
INVARIANT SideEffectsKnown
PROPERTY Implements
PROPERTY HangsAtJoins
