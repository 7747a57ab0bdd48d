SPECIFICATION FairSpec
CONSTANTS
  Blocks <- MCBlocks
  Entry = 1
  Null = Null
  Cfgs <- GraphsUpToRenaming
INVARIANTS
  AssertionsHold
  IdomIsImmediateDominator
  FrontierIsExact
PROPERTIES
  Terminates
