\* Calls are given up while they are under way; one instance, a queue.
CONSTANTS
  Callers = {c1, c2}
  Direct = {c2}
  Executors = {e1}
  Item <- TheItem
  Policy <- ThePolicy
  InitialStock = 1
  Asked = {2, 3}
  Failures = {"item", "plan", "exchange", "lookup", "create", "response", "submit"}
  Timeouts = TRUE
  Events = {}
  MaxAttempts = 2
  MaxRequests = 1
  MaxSold = 0
  None = None
SPECIFICATION FairSpec
INVARIANTS AnsweredWithWhatWasAsked OnlyLateOrdersRepeat
PROPERTY EveryRequestEnds
\* The sessions are bounded.
CHECK_DEADLOCK FALSE
