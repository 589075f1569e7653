\* Three calls, two names; the operator may lose anything at any time.
CONSTANTS
  Procs = {p1, p2, p3}
  Names = {n1, n2}
  Losses = {"keyring", "identity", "pair"}
  None = None
  Torn = Torn
SPECIFICATION Spec
SYMMETRY KeystoreSymmetry
INVARIANTS Decryptable TornIdentityIsAlone PairsSurvive
PROPERTIES FreshOnlyWhenEmpty
CHECK_DEADLOCK FALSE
