\* The policy a receipt names, when the release is approved again meanwhile.
CONSTANTS
  Invocations = {i1}
  Artifacts = {a1}
  ReleaseArtifact = a1
  ToolArtifacts = {a1}
  Checkpointed = {a1}
  Policies = {p1, p2}
  Granting = {p1, p2}
  Modes = {"release"}
  None = None
SPECIFICATION Spec
INVARIANTS ReceiptNamesPolicyInForce
CHECK_DEADLOCK FALSE
