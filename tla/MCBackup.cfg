SPECIFICATION Spec
CONSTANTS
  x = x
  y = y
  u = u
  v = v
  Nothing = Nothing
  Partial = Partial
  Packaged <- Upstream
  Edited <- TwoEdits
  PlainName = TRUE
  Kinds <- AllKinds
  Faults <- AllFaults
  MaxSave = 2
  MaxOps = 4
INVARIANTS
  
  DocumentedOutcome
SYMMETRY Symmetry
