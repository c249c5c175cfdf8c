-------------------------- MODULE MCVerificationKeys --------------------------
EXTENDS VerificationKeys

CONSTANTS gateway, idp, g1, i1, i2

TheServices == [t \in {g1, i1, i2} |-> IF t = g1 THEN gateway ELSE idp]
=============================================================================
