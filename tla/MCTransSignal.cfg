SPECIFICATION Spec
CONSTANTS
  p1 = p1
  p2 = p2
  NoFile = NoFile
  Stale = Stale
  Procs <- OneProc
  Ops <- FrontEndOps
  MaxStarts = 1
  MaxPkgs = 1
  MaxSignals = 1
  MaxKills = 0
INVARIANTS
  SignalExitUnlocks
