\* Three requests to one or two workers that may be killed.
SPECIFICATION Spec
CONSTANTS
  Requests = {r1, r2, r3}
  Values = {1, 2}
  MaxWorkers = 2
  None = None
SYMMETRY RequestSymmetry
INVARIANT UploadInv
INVARIANT LatestShown
INVARIANT AssociatedOrRaced
INVARIANT FileKept
