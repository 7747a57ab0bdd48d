SPECIFICATION Spec
CONSTANTS
  Blocks <- MCBlocks
  Entry = 1
  Vars = {x}
  Programs <- MCPrograms
  Undef = Undef
  Garbage = Garbage
INVARIANT
  MissingOperandIsUndef
