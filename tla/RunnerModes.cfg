\* Two invocations of catalog files and of the approved release, trusted or in
\* development mode; the release may be approved again under another policy.
CONSTANTS
  Invocations = {i1, i2}
  Artifacts = {a1, a2}
  ReleaseArtifact = a1
  ToolArtifacts = {a1}
  Checkpointed = {a1}
  Policies = {p1, p2}
  Granting = {p1, p2}
  Modes = {"file", "release", "dev"}
  None = None
SPECIFICATION Spec
SYMMETRY InvocationSymmetry
INVARIANTS SessionIntegrity RevocationStopsLaterRuns SuccessHasEvidence
CHECK_DEADLOCK FALSE
