\* Any two commands and requests, and an epoch that may be opened at any time.
SPECIFICATION Spec
CONSTANTS
  Procs = {p1, p2}
  None = None
  Kinds = {"forecast", "file", "values", "observe", "next", "history", "decide"}
  Objects <- OtherObjects
  Facilities = {f1, f2}
  Models = {m1, m2}
  Loads <- MCLoads
  MaxEpoch = 2
  MaxRows = 2
SYMMETRY Symmetry
INVARIANT PublishedInv
INVARIANT ModelsWellFormed
INVARIANT DecisionSeen
INVARIANT NextOfTonight
PROPERTY LinkKept
