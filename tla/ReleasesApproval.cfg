\* Two calls that approve or load under two policy files, while the operator
\* edits policies, revokes, re-signs and damages, or leaves all alone; and the
\* validation of every release over three agents.
CONSTANTS
  Calls = {c1, c2}
  Parts <- OnePart
  Paths = {a, b}
  Policies = {p1, p2, p3}
  Granting = {p1, p2}
  None = None
  a1 = a1
  a2 = a2
  a3 = a3
  Agents = {a1, a2, a3}
  Workflow = Workflow
  MaxDepth = 2
  Width = 2
  Documents <- SomeDocuments
SPECIFICATION MCSpec
SYMMETRY ReleasesSymmetry
CONSTRAINT Followed
INVARIANTS LoadedWasVouched ApprovalIsLast ApprovedStaysLoadable VerdictIsRight
CHECK_DEADLOCK FALSE
