\* One session that orders what is advised, while goods are sold.
CONSTANTS
  Callers = {c1}
  Direct = {}
  Executors = {e1, e2}
  Item <- TheItem
  Policy <- ThePolicy
  InitialStock = 2
  Asked = {0}
  Failures = {"item", "plan", "exchange", "lookup", "create", "response", "submit"}
  Timeouts = FALSE
  Events = {"sell", "cancel"}
  MaxAttempts = 2
  MaxRequests = 3
  MaxSold = 2
  None = None
SPECIFICATION Spec
INVARIANTS OneOrderPerReference OrderedWithinTarget
\* The sessions are bounded.
CHECK_DEADLOCK FALSE
