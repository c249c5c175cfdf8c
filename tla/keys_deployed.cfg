\* The key is rotated, and one agent deployed with the version that is printed.
CONSTANTS
  Operators = {o1}
  Agents = {"Inventory Agent", "Procurement Agent (A2A)"}
  SECRETS <- TheSecrets
  SECRET_AGENTS <- TheSecretAgents
  Environments <- SomeEnvironments
  TARGET_STOCK = 2
  MaxRuns = 2
  None = None
SPECIFICATION Spec
INVARIANT AgentsHoldOneKey
\* The runs are bounded.
CHECK_DEADLOCK FALSE
