CONSTANTS
  Null = Null
  Sessions <- MCSessions
  Trees <- MCTrees
  MaxRuns = 2
SPECIFICATION MCSpec
 
PROPERTIES MetadataLegal TargetResolved
CHECK_DEADLOCK FALSE
