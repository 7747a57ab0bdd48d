SPECIFICATION FairSpec
CONSTANTS
  Blocks <- MCBlocks
  Entry = 1
  Zero = Zero
  One = One
  Unknown = Unknown
  Undefined = Undefined
  Programs <- MCPrograms
INVARIANTS
  GraphIsWhole
  FollowsOriginal
  HangNeedsDeadLoop
PROPERTIES
  Terminates
