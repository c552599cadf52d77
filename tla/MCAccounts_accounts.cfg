\* An administrator, one other user and one facility; two requests of any
\* kind.
SPECIFICATION Spec
CONSTANTS
  Requests = {r1, r2}
  Users = {root, u1}
  Root = root
  Facilities = {f1}
  Kinds <- AllKinds
  Targets = {u1}
  None = None
SYMMETRY RequestSymmetry
INVARIANT AccountsInv
INVARIANT ChangesTold
INVARIANT AnswersDocumented
INVARIANT CredentialsTold
INVARIANT RevokedOut
