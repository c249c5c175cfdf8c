\* A restart after the decision is recorded and before it is applied.
CONSTANTS
  Runs = {r1}
  Drafts = {d1}
  Subjects = {alice}
  Approvers = {alice}
  Contents = {c1}
  Threads = {t1}
  Workers = {w1}
  TTL = 1
  MaxTime = 0
  None = None
  Faults = {"crash"}
SPECIFICATION Spec
INVARIANT PendingIsDecidable
