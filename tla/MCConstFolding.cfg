CONSTANT Sources <- MCSources
CONSTANT Envs <- MCEnvs
CONSTANT Width = 8
SPECIFICATION Spec
CHECK_DEADLOCK FALSE
INVARIANT WellTyped
INVARIANT MeansSource
INVARIANT FoldingKeepsMeaning
INVARIANT NothingConstantLeft
