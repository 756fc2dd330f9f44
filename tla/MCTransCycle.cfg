SPECIFICATION FairSpec
CONSTANTS
  p1 = p1
  p2 = p2
  NoFile = NoFile
  Stale = Stale
  Procs <- OneProc
  Ops <- AllOps
  MaxStarts = 2
  MaxPkgs = 2
  MaxSignals = 2
  MaxKills = 1
INVARIANTS
  InterruptStopsLoops
  CallsInOrder
PROPERTIES
  Termination
