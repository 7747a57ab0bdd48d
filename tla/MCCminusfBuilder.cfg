SPECIFICATION Spec
CONSTANTS
  Names = {"x"}
  Functions <- MCFunctions
  Statements <- MCStatements
INVARIANTS
  FlagTracksTerminator
  GraphFitsPasses
  FollowsSource
