\* Two approver clicks race on one draft while everything around them fails.
CONSTANTS
  Runs = {r1}
  Drafts = {d1}
  Subjects = {alice}
  Approvers = {alice}
  Contents = {c1, c2}
  Threads = {t1, t2}
  Workers = {w1}
  TTL = 1
  MaxTime = 1
  None = None
  Faults = {"crash", "store", "edit", "redelivery"}
SPECIFICATION Spec
SYMMETRY Symmetry
INVARIANTS TypeOK OneOrderPerDraft OrderIsApproved ReportIsTrue
PROPERTIES NoBlindRetry KeepsPromise
