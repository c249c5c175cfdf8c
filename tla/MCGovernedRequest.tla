--------------------------- MODULE MCGovernedRequest ---------------------------
EXTENDS GovernedRequestProperties, DemoPolicies

CONSTANTS r1, r2

TheKinds == [r \in {r1, r2} |-> IF r = r1 THEN "ask" ELSE "status"]
TheUsers == [r \in {r1, r2} |-> IF r = r1 THEN "alice" ELSE "bob"]
=============================================================================
