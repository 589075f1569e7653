\* Three connections for two slots.
CONSTANTS
  Requests = {r1, r2, r3}
  Slots = 2
SPECIFICATION ProxyFairSpec
INVARIANTS SlotsConserved StopShutsWhatItKnows
PROPERTIES ConnectionsEnd
CHECK_DEADLOCK FALSE
