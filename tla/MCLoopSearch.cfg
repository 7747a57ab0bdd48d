SPECIFICATION FairSpec
CONSTANTS
  Blocks <- MCBlocks
  Entry = 1
  Null = Null
  Programs <- MCPrograms
INVARIANTS
  LoopsAreNatural
  LoopsNest
  EveryLoopHasBase
PROPERTIES
  Terminates
