SPECIFICATION Spec
CONSTANTS
  Blocks <- MCBlocks
  Entry = 1
  Zero = Zero
  One = One
  Unknown = Unknown
  Undefined = Undefined
  Programs <- IfIfPrograms
INVARIANT
  SetOperandInRange
