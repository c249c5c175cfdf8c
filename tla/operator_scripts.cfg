\* Two operators and three runs of any of the four scripts.
CONSTANTS
  Operators = {o1, o2}
  Agents = {"Inventory Agent", "Procurement Agent (A2A)"}
  SECRETS <- TheSecrets
  SECRET_AGENTS <- TheSecretAgents
  Environments <- SomeEnvironments
  TARGET_STOCK = 2
  MaxRuns = 3
  None = None
SYMMETRY Symmetry
SPECIFICATION Spec
INVARIANTS LeastPrivilege OneVersionPerChange SeededOnce
PROPERTIES NothingClobbered
\* The runs are bounded.
CHECK_DEADLOCK FALSE
