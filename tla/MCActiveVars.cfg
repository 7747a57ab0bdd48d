SPECIFICATION FairSpec
CONSTANTS
  Blocks <- MCBlocks
  Entry = 1
  v = v
  Values = {v}
  None = None
  Programs <- MCPrograms
INVARIANTS
  NothingDeadIsLive
  NothingLiveIsMissed
PROPERTIES
  LiveInGrows
  Terminates
