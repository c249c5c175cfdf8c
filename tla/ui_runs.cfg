\* Nothing crashes: what a run's state says about its drafts, and that decisions
\* are carried out and runs leave DRAFTING.
CONSTANTS
  Runs = {r1}
  Drafts = {d1, d2}
  Subjects = {alice, bob}
  Approvers = {alice}
  Contents = {c1}
  Threads = {t1, t2}
  Workers = {w1, w2}
  TTL = 1
  MaxTime = 1
  None = None
  Faults = {}
SPECIFICATION FairSpec
INVARIANTS RunMatchesItsDrafts
PROPERTIES DecisionCarriedOut DraftingEnds
