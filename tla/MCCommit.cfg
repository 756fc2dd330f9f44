SPECIFICATION Spec
CONSTANTS
  a = a
  b = b
  c = c
  f1 = f1
  f2 = f2
  f3 = f3
  Nothing = Nothing
  Names <- ThreeNames
  Paths <- ThreePaths
  Files <- ThreeFiles
  Installed <- FirstThree
  Faults = {"unlink", "dbremove", "mkdir", "open", "extract", "write"}
  MaxRuns = 1
  MaxFaults = 2
  MaxInterrupts = 1
  MaxCrashes = 1
INVARIANT
  
  SuccessMeansSound
