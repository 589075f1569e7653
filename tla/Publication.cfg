SPECIFICATION Spec
CONSTANTS
  b1 = b1
  b2 = b2
  b3 = b3
  b4 = b4
  c1 = c1
  c2 = c2
  wheel = wheel
  sums = sums
  stray = stray
  Builds = {b1, b2, b3, b4}
  Commits = {c1, c2}
  CommitOf <- TwoCommits
  Valid = {b1, b2, b3}
  Assets = {wheel, sums}
  Names = {wheel, sums, stray}
  Bad = Bad
  None = None
SYMMETRY PublicationSymmetry
INVARIANTS OutcomesAreTrue
PROPERTIES PublishesWhole NothingReplaced
CHECK_DEADLOCK FALSE
