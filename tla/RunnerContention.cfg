\* Three invocations that may all want the same session.
CONSTANTS
  Invocations = {i1, i2, i3}
  Artifacts = {a1}
  ReleaseArtifact = a1
  ToolArtifacts = {}
  Checkpointed = {a1}
  Policies = {p1}
  Granting = {p1}
  Modes = {"file"}
  None = None
SPECIFICATION Spec
SYMMETRY InvocationSymmetry
INVARIANTS SingleExecution StatusAgreesWithReceipt NoAbandonedLock
PROPERTIES ImplementsLog
CHECK_DEADLOCK FALSE
