SPECIFICATION FairSpec
CONSTANTS
  Blocks <- MCBlocks
  Entry = 1
  Null = Null
  x = x
  a = a
  c = c
  Instructions <- MCInstructions
  Programs <- MCPrograms
INVARIANTS
  OperandsComeFirst
  NothingInvariantLeft
PROPERTIES
  OnlyMovesOut
  Terminates
