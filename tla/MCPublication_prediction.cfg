\* One command.
SPECIFICATION Spec
CONSTANTS
  Procs = {p1}
  None = None
  Kinds = {"values"}
  Objects <- TwoObjects
  Facilities = {f1}
  Models = {m1}
  Loads <- MCLoads
  MaxEpoch = 1
  MaxRows = 1
INVARIANT PredictedObject
