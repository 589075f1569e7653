\* Every dependency graph of three steps, two at once, scheduled fairly.
CONSTANTS
  Size = 3
  Steps <- StepSet
  Workflows <- EveryDAG
  MaxConcurrency = 2
  Development = FALSE
SPECIFICATION FairSpec
INVARIANTS EvidenceBeforeDependents OutcomeIsFinal StaleNeverCompletes
  RecursionLimitSuffices
PROPERTIES ImplementsTaskGraph Terminates
CHECK_DEADLOCK FALSE
