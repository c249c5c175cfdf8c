\* One user asks and another asks after an order; a restart of the broker, and
\* time for their sign-ins to expire.
CONSTANTS
  r1 = r1
  r2 = r2
  Requests = {r1, r2}
  User <- TheUsers
  Kind <- TheKinds
  Short = TRUE
  AudiencesOf <- TheAudiencesOf
  TokenExchange <- TheExchanges
  TokenMinting <- TheMintings
  GatewayRoutes <- TheRoutes
  MaxSignIn = 2
  MaxToken = 1
  UserLife = 2
  AgentLife = 1
  MaxTime = 2
  MaxKey = 1
  None = None
SPECIFICATION FairSpec
INVARIANTS RefusedOnlyForCause RefusalOrdersNothing AnsweredIsPending
PROPERTIES EveryRequestEnds
\* Every user makes one request.
CHECK_DEADLOCK FALSE
