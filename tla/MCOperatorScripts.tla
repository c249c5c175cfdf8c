--------------------------- MODULE MCOperatorScripts ---------------------------
EXTENDS OperatorScriptsProperties

TheSecrets == <<"zoho-invread-mcp-url", "zoho-procurewrite-mcp-url">>
TheSecretAgents ==
  [s \in ToSet(TheSecrets) |->
     IF s = "zoho-invread-mcp-url" THEN {"Inventory Agent", "Procurement Agent (A2A)"}
     ELSE {"Procurement Agent (A2A)"}]

\* Only the second value has changed; or only the first is set, and has changed.
SomeEnvironments ==
  {[s \in Secrets |-> IF s = "zoho-invread-mcp-url" THEN "old" ELSE "new"],
   [s \in Secrets |-> IF s = "zoho-invread-mcp-url" THEN "new" ELSE None]}

Symmetry == Permutations(Operators)
=============================================================================
