\* A bound client, one without rights and one that presents credentials; times
\* in units of 150 s; one restart of the broker.
CONSTANTS
  Names = {"alice", "inventory-agent", "procurement-agent"}
  Audiences <- TheAudiences
  Scopes <- TheScopes
  Clients <- TheClients
  DelegationActor <- TheActors
  MayPresentActor <- Presenters
  MayMint <- TheMints
  TokenExchange <- TheExchanges
  TokenMinting <- MintingsOfClients
  Asked <- OneOrAll
  Lifetimes = {2}
  MaxTime = 1
  MaxTokens = 4
  MaxKey = 1
  MaxSignIn = 6
  MaxToken = 2
  None = None
SPECIFICATION Spec
INVARIANTS TypeOK DelegationIsGranted PurchaseChain ActorsAuthenticated
PROPERTIES OnlyNarrows
