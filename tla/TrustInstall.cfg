SPECIFICATION Spec
CONSTANTS
  p1 = p1
  p2 = p2
  k1 = k1
  k2 = k2
  v1 = v1
  v2 = v2
  v3 = v3
  own = own
  alias = alias
  Calls = {p1, p2}
  Ids = {own, alias}
  Artifact = own
  Keys = {k1, k2}
  Versions = {v1, v2, v3}
  Authored <- SomeAuthored
  MaxEdits = 1
  None = None
  Torn = Torn
SYMMETRY TrustSymmetry
INVARIANTS RevocationIsFinal InstalledWasSigned InstalledVerifies
PROPERTIES ApprovalsAreKept
CHECK_DEADLOCK FALSE
