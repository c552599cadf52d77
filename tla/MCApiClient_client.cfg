\* Two processes of one person, each with up to two requests.
SPECIFICATION Spec
CONSTANTS
  Procs = {p1, p2}
  None = None
  MaxKey = 2
  MaxSecond = 2
  MaxRequests = 2
SYMMETRY Symmetry
INVARIANT RequestInv
INVARIANT RefusedForCause
INVARIANT AsWhom
INVARIANT KeyKept
