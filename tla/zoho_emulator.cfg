\* Two calls, two keys, two browser sessions of the approver and a restart.
CONSTANTS
  Calls = {c1, c2}
  Keys = {k1, k2}
  Humans = {h1, h2}
  MaxRestarts = 1
  None = None
SYMMETRY SymmetricCalls
SPECIFICATION Spec
INVARIANTS TypeOK ApprovedAsReviewed PendingIsNoDraft OneOrderPerKey
  AnsweredWithItsOrder
PROPERTIES ImplementsLedger
\* Every call is made once.
CHECK_DEADLOCK FALSE
