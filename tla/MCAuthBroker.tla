----------------------------- MODULE MCAuthBroker -----------------------------
(***************************************************************************)
(* The broker with callers of config/broker_clients.json.                   *)
(***************************************************************************)
EXTENDS AuthBrokerProperties, DemoPolicies

TheScopes == {"assistant.inventory", "registry.read", "token.exchange",
              "inventory.read"} \cup Purchase \cup PurchaseOrder
TheAudiences == {"inventory-agent", "registry", "sts", "procurement-agent",
                 "zoho-inventory-mcp", "zoho-procurement-mcp"}
OneOrAll == {{s} : s \in TheScopes} \cup {Purchase, PurchaseOrder}

\* One client of each style: bound to an actor, bound but without the right to
\* mint, and one that presents agent credentials.  Procurement Agent's own client
\* is left out, so that its credential is what it can act by.
TheClients == {"inventory-agent-principal", "procurement-agent-adk-principal",
               "identity-broker"}
Presenters == {"identity-broker"}

TheActors == [c \in TheClients |->
  CASE c = "inventory-agent-principal" -> "inventory-agent"
    [] c = "identity-broker" -> None
    [] OTHER -> "procurement-agent"]
TheMints == [c \in TheClients |->
  CASE c = "identity-broker" -> Kinds
    [] c = "inventory-agent-principal" -> {"user_access_token", Delegated}
    [] OTHER -> {}]
MintingsOfClients == {r \in TheMintings : r.minter \in TheClients}
=============================================================================
