SPECIFICATION Spec
CONSTANTS
  p1 = p1
  p2 = p2
  NoFile = NoFile
  Stale = Stale
  Procs <- TwoProcs
  Ops <- MixedOps
  MaxStarts = 1
  MaxPkgs = 1
  MaxSignals = 2
  MaxKills = 1
INVARIANTS
  MutualExclusion
  CacheMirrorsDisk
  ExitUnlocks

  
