----------------------- MODULE GovernedRequestProperties -----------------------
(***************************************************************************)
(* What a user of the local demo may rely on, across all services.          *)
(***************************************************************************)
EXTENDS GovernedRequest

\* What the agents ask for, delegation by delegation: the actor, the audience
\* and scope of the token it extends, and those of the token it asks for.
Leg(actor, has, to, gets) == [actor |-> actor, has |-> has, to |-> to, gets |-> gets]

Legs == {Leg("inventory-agent", "assistant.inventory",
             "zoho-inventory-mcp", "inventory.read"),
         Leg("inventory-agent", "assistant.inventory",
             "procurement-agent", "purchase.request"),
         Leg("inventory-agent", "assistant.inventory",
             "procurement-agent", "purchase.status"),
         Leg("procurement-agent", "purchase.request",
             "zoho-procurement-mcp", "purchaseorder.create"),
         Leg("procurement-agent", "purchase.status",
             "zoho-procurement-mcp", "purchaseorder.read")}

\* The files of policies agree with the agents: all that they ask for may be
\* exchanged (an agent extends tokens meant for itself), minted and routed.
ASSUME PoliciesAgree ==
  /\ {"registry", "sts"} \subseteq AudiencesOf["inventory-agent"]
  /\ "sts" \in AudiencesOf["procurement-agent"]
  /\ MayMint("agent_credential", "registry", "registry.read", AgentLife)
  /\ MayMint("agent_credential", "sts", "token.exchange", AgentLife)
  /\ \A l \in Legs :
       /\ MayExchange(l.actor, [aud |-> l.actor, scope |-> l.has], l.to, l.gets)
       /\ MayMint("delegated_access_token", l.to, l.gets, AgentLife)
       /\ \E p \in GatewayRoutes :
            p.actor = l.actor /\ p.target = l.to /\ p.scope = l.gets

Carried(r) == {requests[r].tokens[h] : h \in Holders} \ {None}

\* Refusals for which the key is to blame: of services that had to ask for it and
\* were not told, and of those whose threads share a copy, when an older answer
\* came over the newer one.
NoKey == [by : Services, held : {None}] \cup [by : Pooled, held : 0 .. key - 1]

\* A request that an authenticated user makes as the agents make it is refused,
\* at whichever of the seven services, only because a token of its chain has
\* expired or was signed with a key the broker has lost, or for want of the key:
\* the exchange rules, the minting rules, the clients' audiences, the gateway's
\* routes and the checks of the tools agree, and a stale copy of the key is to
\* blame only at the identity provider and the registry (decode_token).
RefusedOnlyForCause ==
  \A r \in Requests :
    requests[r].pc = "refused" =>
      \/ \E t \in Carried(r) : t.key < key \/ t.exp <= now
      \/ requests[r].refusal \in NoKey

\* What is refused for its tokens has had no effect: every check comes before
\* the order is created in Zoho, although each service checks on its own
\* (procurement_mcp_app.py:41-58 is the last).
RefusalOrdersNothing ==
  \A r \in Requests : requests[r].pc = "refused" => r \notin DOMAIN orders

\* Who is told that human approval is pending finds an order that is
\* (agent_a_app.py:111-112), although creating and submitting are two calls to
\* Zoho, any of which may be late.
AnsweredIsPending ==
  \A r \in Requests :
    requests[r].pc = "answered" /\ Kind[r] = "ask" /\ Short =>
      r \in DOMAIN orders /\ orders[r] = "pending_approval"

\* Every request that Inventory Agent takes up ends, however its tokens fare, so
\* that after the last one nothing is under way.
EveryRequestEnds == <>[](\A r \in Requests : requests[r].pc \notin Underway)
=============================================================================
