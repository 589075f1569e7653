\* The subagent has a money limit, the root agent a limit of calls only; the
\* root's own call declares no output cap.
CONSTANTS
  root = root
  sub = sub
  None = None
  Count = 4
  Calls <- CallSet
  Ledgers = {root, sub}
  Path <- Paths
  Estimate <- OneToken
  Declared <- SomeCaps
  Unbounded = 2
  MaxCalls <- FewCalls
  MaxOutput <- OutputLimits
  Limited = {sub}
  Limit <- MoneyLimits
  Priced = {root, sub}
  InPrice <- UnitPrice
  OutPrice <- UnitPrice
SPECIFICATION Spec
INVARIANTS CallBudget BudgetBounded SpendCovered CompleteUsageIsExact
CHECK_DEADLOCK FALSE
