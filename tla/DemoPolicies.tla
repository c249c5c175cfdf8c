----------------------------- MODULE DemoPolicies -----------------------------
(***************************************************************************)
(* config/policies.json and config/client_registry.json, as the services   *)
(* load them.                                                              *)
(***************************************************************************)
EXTENDS Integers

CONSTANTS MaxSignIn, MaxToken   \* max_lifetime_seconds (900, 300), in ticks

\* token_exchange
Exchange(actor, from, has, to, gets) ==
  [actor |-> actor, subjectAudience |-> from, subjectScope |-> has,
   targetAudience |-> to, outputScope |-> gets]

TheExchanges ==
  {Exchange("inventory-agent", "inventory-agent", "assistant.inventory",
            "zoho-inventory-mcp", "inventory.read"),
   Exchange("inventory-agent", "inventory-agent", "assistant.inventory",
            "procurement-agent", "purchase.request"),
   Exchange("inventory-agent", "inventory-agent", "assistant.inventory",
            "procurement-agent", "purchase.status"),
   Exchange("procurement-agent", "procurement-agent", "purchase.request",
            "zoho-procurement-mcp", "purchaseorder.create"),
   Exchange("procurement-agent", "procurement-agent", "purchase.status",
            "zoho-procurement-mcp", "purchaseorder.read")}

\* token_minting
Minting(minter, kind, aud, scopes, max) ==
  [minter |-> minter, kind |-> kind, audiences |-> {aud}, scopes |-> scopes,
   maxLifetime |-> max]

Purchase == {"purchase.request", "purchase.status"}
PurchaseOrder == {"purchaseorder.create", "purchaseorder.read"}

TheMintings ==
  {Minting(m, "user_access_token", "inventory-agent", {"assistant.inventory"}, MaxSignIn) :
     m \in {"identity-broker", "inventory-agent-principal"}} \cup
  {Minting("identity-broker", "agent_credential", "registry", {"registry.read"}, MaxToken),
   Minting("identity-broker", "agent_credential", "sts", {"token.exchange"}, MaxToken)} \cup
  {Minting(m, "delegated_access_token", "zoho-inventory-mcp", {"inventory.read"}, MaxToken) :
     m \in {"identity-broker", "inventory-agent-principal"}} \cup
  {Minting(m, "delegated_access_token", "procurement-agent", Purchase, MaxToken) :
     m \in {"identity-broker", "inventory-agent-principal"}} \cup
  {Minting(m, "delegated_access_token", "zoho-procurement-mcp", PurchaseOrder, MaxToken) :
     m \in {"identity-broker", "procurement-agent-principal"}}

\* gateway_routes, all of them with the effect "allow"
Route(actor, target, scope) == [actor |-> actor, target |-> target, scope |-> scope]

TheRoutes ==
  {Route("inventory-agent", "zoho-inventory-mcp", "inventory.read"),
   Route("inventory-agent", "procurement-agent", "purchase.request"),
   Route("inventory-agent", "procurement-agent", "purchase.status"),
   Route("procurement-agent", "zoho-procurement-mcp", "purchaseorder.create"),
   Route("procurement-agent", "zoho-procurement-mcp", "purchaseorder.read")}

\* allowed_audiences (client_registry.json)
TheAudiencesOf ==
  [agent \in {"inventory-agent", "procurement-agent"} |->
     IF agent = "inventory-agent" THEN {"registry", "sts"} ELSE {"sts"}]
=============================================================================
