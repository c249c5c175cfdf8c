\* The gateway (one thread) and the identity provider (two), and two restarts
\* of the broker.
CONSTANTS
  gateway = gateway
  idp = idp
  g1 = g1
  i1 = i1
  i2 = i2
  Services = {gateway, idp}
  Threads = {g1, i1, i2}
  ServiceOf <- TheServices
  MaxKey = 2
  None = None
SPECIFICATION FairSpec
INVARIANTS RefusesOnlyOldTokens
PROPERTIES NeverGoesBack HealsAfterRotation
