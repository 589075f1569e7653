\* A root agent with a host process, whose sub-agents may come to an agent with
\* a container, in two contents, by two ways; or a probe of the root agent.
CONSTANTS
  Agents <- AgentSet
  Root = "r"
  Subs <- Delegations
  Servers <- Mixed
  Pinned = {"t"}
  Versions = {1, 2}
  Clients = {"driver", "probe"}
SPECIFICATION FairSpec
INVARIANTS SilentCloseIsClean EveryCallbackRuns SessionsOutliveRequests DriftRefused
PROPERTIES Terminates
CHECK_DEADLOCK FALSE
