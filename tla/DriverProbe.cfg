\* A probe of an agent with two containers.
CONSTANTS
  Agents <- AgentSet
  Root = "r"
  Subs <- Delegations
  Servers <- TwoContainers
  Pinned = {"s", "t", "u"}
  Versions = {1}
  Clients = {"probe"}
SPECIFICATION Spec
INVARIANTS ProbeCallbacksRun
CHECK_DEADLOCK FALSE
