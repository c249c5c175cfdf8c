---------------------------- MODULE GovernedRequest ----------------------------
(***************************************************************************)
(* A request of a user on its way through the local demo: POST /ask and GET *)
(* /orders of Inventory Agent (agent_a_app.py), each of its delegations     *)
(* through the identity provider (idp_app.py) and the broker, the gateway   *)
(* (gateway_app.py), the registry, the inventory MCP, Procurement Agent     *)
(* (agent_b_app.py) and the procurement MCP, which orders from Zoho.        *)
(*                                                                         *)
(* A request goes through three hops: from Inventory Agent to the inventory *)
(* MCP, from Inventory Agent to Procurement Agent, and from there to the    *)
(* procurement MCP.  For each hop the agent gets a credential, exchanges    *)
(* its subject token for a delegation and sends that through the gateway.   *)
(*                                                                         *)
(* Every service has its own copy of the broker's key; the threads of the   *)
(* identity provider and of the registry, whose handlers are plain, share    *)
(* theirs (how is VerificationKeys).  The inside of the broker is            *)
(* AuthBroker, that of Zoho is ZohoEmulator; Zoho does not restart here.     *)
(***************************************************************************)
EXTENDS Integers, Sequences, FiniteSets

CONSTANTS
  Requests,
  User, Kind,         \* request |-> the user who makes it; "ask" or "status"
  Short,              \* is the stock below the reorder level?
  AudiencesOf,        \* allowed_audiences of client_registry.json
  TokenExchange, TokenMinting, GatewayRoutes,   \* policies.json
  UserLife, AgentLife,                          \* lifetimes asked for
  MaxTime, MaxKey,    \* bounds: the clock, restarts of the broker
  None

ASSUME BoundsAssumption ==
  /\ UserLife \in Nat /\ AgentLife \in Nat /\ MaxTime \in Nat /\ MaxKey \in Nat
  /\ Short \in BOOLEAN
  /\ Kind \in [Requests -> {"ask", "status"}]

\* The claims of a JWT; `key` is the one it was signed with.
Agents == {"inventory-agent", "procurement-agent"}
Audiences == {"inventory-agent", "registry", "sts", "zoho-inventory-mcp",
              "procurement-agent", "zoho-procurement-mcp"}
Scopes == {"assistant.inventory", "registry.read", "token.exchange",
           "inventory.read", "purchase.request", "purchase.status",
           "purchaseorder.create", "purchaseorder.read"}
Token == [sub : {User[r] : r \in Requests} \cup Agents, aud : Audiences,
          scope : Scopes, act : Seq(Agents), exp : Int, key : Int]

ASSUME NoneAssumption == None \notin Token \cup Int

VARIABLES
  requests,
  orders,   \* request |-> the status of its order in Zoho
  cache,    \* the key each service verifies with
  key,      \* the broker's key
  now

vars == <<requests, orders, cache, key, now>>

Pooled == {"identity-broker", "agent-registry"}   \* plain handlers, many threads
Services == {"inventory-agent", "agent-registry", "identity-broker",
             "agent-gateway", "zoho-inventory-mcp", "procurement-agent",
             "zoho-procurement-mcp"}
Ends == {"answered", "refused", "failed"}
PCs == {"start", "signed in", "discover", "registry", "credential", "exchange",
        "sign", "issued", "route", "serve", "item", "create", "submit", "read"}
         \cup Ends

\* tokens: the user's; and of the hop, the agent's credential, the token that is
\* extended and the one it is extended to.  refusal: history, which service
\* refused a token, and the key it ended up with (None: the broker gave none).
Holders == {"user", "credential", "subject", "delegation"}
NoTokens == [h \in Holders |-> None]

Init ==
  /\ requests = [r \in Requests |->
       [pc |-> "start", hop |-> "inventory", tokens |-> NoTokens, refusal |-> None]]
  /\ orders = <<>>
  /\ cache = [s \in Services |-> None]
  /\ key = 0
  /\ now = 0

-----------------------------------------------------------------------------
(* Tokens *)

\* sign: a token that a policy lets the identity provider have minted.
MayMint(kind, aud, scope, life) ==
  \E m \in TokenMinting : /\ m.minter = "identity-broker" /\ m.kind = kind
                          /\ aud \in m.audiences /\ scope \in m.scopes
                          /\ life <= m.maxLifetime

Origin(kind, sub, aud, scope, life) ==
  [sub |-> sub, aud |-> aud, scope |-> scope, act |-> <<>>, exp |-> now + life,
   key |-> key]

\* The exchange is asked for by an actor, for an audience and one scope.
MayExchange(actor, subject, aud, scope) ==
  \E e \in TokenExchange : /\ e.actor = actor
                           /\ e.subjectAudience = subject.aud
                           /\ e.subjectScope = subject.scope
                           /\ e.targetAudience = aud /\ e.outputScope = scope

Delegation(actor, subject, aud, scope) ==
  [sub |-> subject.sub, aud |-> aud, scope |-> scope,
   act |-> <<actor>> \o subject.act,
   exp |-> IF now + AgentLife < subject.exp THEN now + AgentLife ELSE subject.exp,
   key |-> key]

\* What other threads of the service may have stored in the copy by now: their
\* answers may be as old as they like.
Others(s) == IF s \in Pooled THEN 0 .. key ELSE {}

\* GET /jwks: the key, or nothing (the broker is down or late), or what another
\* thread has stored over the answer.
Answers(s) == {key, None} \cup Others(s)

\* Mutant of Decoding: the key is fetched once.
CachedKey(s, t, mine) ==
  {LET held == IF copy = None THEN a ELSE copy IN [held |-> held, kept |-> held] :
     copy \in {mine} \cup Others(s), a \in Answers(s)}

\* decode_token with a copy of the key: the key the service ends up with, and the
\* one it keeps.  Without a copy it asks for one, and if that does not fit again.
Decoding(s, t, mine) ==
  {LET first == IF copy = None THEN a ELSE copy
       held == IF first \in {t.key, None} THEN first ELSE b
   IN  [held |-> held, kept |-> IF held = None THEN first ELSE held] :
     copy \in {mine} \cup Others(s), a \in Answers(s), b \in Answers(s)}

Good(held, t, aud) == held = t.key /\ now < t.exp /\ t.aud = aud

\* The outcomes of a verification, and what is left of one.
Verified(s, t) == Decoding(s, t, cache[s])
Keep(s, v) == cache' = [cache EXCEPT ![s] = v.kept]

-----------------------------------------------------------------------------
(* The agents: which token a hop extends, and what for. *)

Agent(r) == IF requests[r].hop = "connector" THEN "procurement-agent" ELSE "inventory-agent"

Audience(r) ==
  CASE requests[r].hop = "inventory" -> "zoho-inventory-mcp"
    [] requests[r].hop = "a2a"       -> "procurement-agent"
    [] requests[r].hop = "connector" -> "zoho-procurement-mcp"

Scope(r) ==
  CASE requests[r].hop = "inventory" -> "inventory.read"
    [] requests[r].hop = "a2a"       ->
         IF Kind[r] = "ask" THEN "purchase.request" ELSE "purchase.status"
    [] requests[r].hop = "connector" ->
         IF Kind[r] = "ask" THEN "purchaseorder.create" ELSE "purchaseorder.read"

\* What has been answered or has failed is over.
Goto(r, pc) ==
  requests' = [requests EXCEPT
    ![r] = IF pc \in {"answered", "failed"}
           THEN [@ EXCEPT !.pc = pc, !.tokens = NoTokens, !.hop = "inventory"]
           ELSE [@ EXCEPT !.pc = pc]]

\* What is refused is over, too.
Refuse(r, refusal) ==
  requests' = [requests EXCEPT
    ![r].pc = "refused", ![r].refusal = refusal, ![r].hop = "inventory"]

\* decode_token raises an error: 401, or 500 where the handler does not catch it.
Deny(r, s, held) == Refuse(r, [by |-> s, held |-> held])

\* A hop begins: the subject token is the user's, or the one received over A2A.
Begin(r, hop) ==
  LET t == requests[r].tokens
  IN  requests' = [requests EXCEPT
        ![r].pc = "credential", ![r].hop = hop,
        ![r].tokens = [t EXCEPT
          !.subject = IF hop = "connector" THEN t.delegation ELSE t.user,
          !.credential = None, !.delegation = None]]

Tokens(r) == requests[r].tokens

-----------------------------------------------------------------------------
(* The user *)

\* login
SignIn(r) ==
  /\ requests[r].pc = "start"
  /\ MayMint("user_access_token", "inventory-agent", "assistant.inventory", UserLife)
  /\ requests' = [requests EXCEPT
       ![r].pc = "signed in",
       ![r].tokens.user = Origin("user_access_token", User[r], "inventory-agent",
                                 "assistant.inventory", UserLife)]
  /\ UNCHANGED <<orders, cache, key, now>>

\* ask, order_status: Inventory Agent verifies the user's token.
Accept(r) ==
  /\ requests[r].pc = "signed in"
  /\ \E v \in Verified("inventory-agent", Tokens(r).user) :
       /\ Keep("inventory-agent", v)
       /\ IF Good(v.held, Tokens(r).user, "inventory-agent")
          THEN IF Kind[r] = "ask" THEN Goto(r, "discover") ELSE Begin(r, "a2a")
          ELSE Deny(r, "inventory-agent", v.held)
  /\ UNCHANGED <<orders, key, now>>

-----------------------------------------------------------------------------
(* The identity provider and the registry *)

\* client_credentials: oauth_token of the identity provider, and sign.
Credential(r, aud, scope) ==
  IF /\ aud \in AudiencesOf[Agent(r)]
     /\ MayMint("agent_credential", aud, scope, AgentLife)
  THEN requests' = [requests EXCEPT
         ![r].pc = IF aud = "registry" THEN "registry" ELSE "exchange",
         ![r].tokens.credential =
           Origin("agent_credential", Agent(r), aud, scope, AgentLife)]
  ELSE Refuse(r, None)

Discover(r) ==
  /\ requests[r].pc = "discover"
  /\ Credential(r, "registry", "registry.read")
  /\ UNCHANGED <<orders, cache, key, now>>

ReadRegistry(r) ==
  /\ requests[r].pc = "registry"
  /\ \E v \in Verified("agent-registry", Tokens(r).credential) :
       LET t == Tokens(r).credential
       IN  /\ Keep("agent-registry", v)
           /\ IF Good(v.held, t, "registry") /\ t.scope = "registry.read"
              THEN Begin(r, "inventory") ELSE Deny(r, "agent-registry", v.held)
  /\ UNCHANGED <<orders, key, now>>

AgentCredential(r) ==
  /\ requests[r].pc = "credential"
  /\ Credential(r, "sts", "token.exchange")
  /\ UNCHANGED <<orders, cache, key, now>>

\* Mutant of CheckExchange: a refused exchange is tried again with a new credential.
ExchangeAgain(r) ==
  /\ requests[r].pc = "exchange"
  /\ LET idp == "identity-broker"
         actor == Tokens(r).credential
         subject == Tokens(r).subject
     IN  \E v \in Decoding(idp, actor, cache[idp]) :
           IF Good(v.held, actor, "sts")
           THEN \E w \in Decoding(idp, subject, v.kept) :
                  /\ cache' = [cache EXCEPT ![idp] = w.kept]
                  /\ IF /\ Good(w.held, subject, subject.aud)
                        /\ actor.sub = Agent(r)
                        /\ MayExchange(Agent(r), subject, Audience(r), Scope(r))
                     THEN Goto(r, "sign") ELSE Goto(r, "credential")
           ELSE cache' = [cache EXCEPT ![idp] = v.kept] /\ Goto(r, "credential")
  /\ UNCHANGED <<orders, key, now>>

\* Token exchange: the identity provider verifies both tokens, one after the
\* other, and looks for a rule ...
CheckExchange(r) ==
  /\ requests[r].pc = "exchange"
  /\ LET idp == "identity-broker"
         actor == Tokens(r).credential
         subject == Tokens(r).subject
     IN  \E v \in Decoding(idp, actor, cache[idp]) :
           IF Good(v.held, actor, "sts")
           THEN \E w \in Decoding(idp, subject, v.kept) :
                  /\ cache' = [cache EXCEPT ![idp] = w.kept]
                  /\ IF /\ Good(w.held, subject, subject.aud)
                        /\ actor.sub = Agent(r)
                        /\ MayExchange(Agent(r), subject, Audience(r), Scope(r))
                     THEN Goto(r, "sign") ELSE Deny(r, idp, w.held)
           ELSE cache' = [cache EXCEPT ![idp] = v.kept] /\ Deny(r, idp, v.held)
  /\ UNCHANGED <<orders, key, now>>

\* ... the broker verifies them again, with its own key, and signs ...
SignDelegation(r) ==
  /\ requests[r].pc = "sign"
  /\ LET actor == Tokens(r).credential
         subject == Tokens(r).subject
     IN  IF /\ \A t \in {actor, subject} : t.key = key /\ now < t.exp
            /\ actor.aud = "sts"
            /\ MayExchange(actor.sub, subject, Audience(r), Scope(r))
            /\ MayMint("delegated_access_token", Audience(r), Scope(r), AgentLife)
         THEN requests' = [requests EXCEPT
                ![r].pc = "issued",
                ![r].tokens.delegation =
                  Delegation(actor.sub, subject, Audience(r), Scope(r))]
         ELSE Refuse(r, None)
  /\ UNCHANGED <<orders, cache, key, now>>

\* ... and the identity provider verifies what it has got.
IssueDelegation(r) ==
  /\ requests[r].pc = "issued"
  /\ \E v \in Verified("identity-broker", Tokens(r).delegation) :
       LET t == Tokens(r).delegation
       IN  /\ Keep("identity-broker", v)
           /\ IF Good(v.held, t, Audience(r))
              THEN Goto(r, "route") ELSE Deny(r, "identity-broker", v.held)
  /\ UNCHANGED <<orders, key, now>>

-----------------------------------------------------------------------------
(* The gateway and the services behind it *)

RouteRequest(r) ==
  /\ requests[r].pc = "route"
  /\ \E v \in Verified("agent-gateway", Tokens(r).delegation) :
       LET t == Tokens(r).delegation
       IN  /\ Keep("agent-gateway", v)
           /\ IF /\ Good(v.held, t, Audience(r))
                 /\ t.act # <<>>
                 /\ \E p \in GatewayRoutes : /\ p.actor = Head(t.act)
                                             /\ p.target = Audience(r)
                                             /\ p.scope = t.scope
              THEN Goto(r, "serve") ELSE Deny(r, "agent-gateway", v.held)
  /\ UNCHANGED <<orders, key, now>>

\* The service behind a hop verifies the delegation again, and who acts.
Served(r, held, actor, scope) ==
  /\ Good(held, Tokens(r).delegation, Audience(r))
  /\ Head(Tokens(r).delegation.act) = actor
  /\ Tokens(r).delegation.scope = scope

\* mcp (inventory_mcp_app.py)
ServeInventory(r) ==
  /\ requests[r].pc = "serve" /\ requests[r].hop = "inventory"
  /\ \E v \in Verified("zoho-inventory-mcp", Tokens(r).delegation) :
       /\ Keep("zoho-inventory-mcp", v)
       /\ IF Served(r, v.held, "inventory-agent", "inventory.read")
          THEN Goto(r, "item") ELSE Deny(r, "zoho-inventory-mcp", v.held)
  /\ UNCHANGED <<orders, key, now>>

\* The item is read from Zoho, and Inventory Agent asks for more if it is short.
ReadItem(r) ==
  /\ requests[r].pc = "item"
  /\ IF Short THEN Begin(r, "a2a") ELSE Goto(r, "answered")
  /\ UNCHANGED <<orders, cache, key, now>>

\* a2a (agent_b_app.py): the action must fit the scope that was delegated.
AcceptMessage(r) ==
  /\ requests[r].pc = "serve" /\ requests[r].hop = "a2a"
  /\ \E v \in Verified("procurement-agent", Tokens(r).delegation) :
       /\ Keep("procurement-agent", v)
       /\ IF /\ Good(v.held, Tokens(r).delegation, "procurement-agent")
             /\ Tokens(r).delegation.scope =
                  (IF Kind[r] = "ask" THEN "purchase.request" ELSE "purchase.status")
          THEN Begin(r, "connector") ELSE Deny(r, "procurement-agent", v.held)
  /\ UNCHANGED <<orders, key, now>>

\* mcp (procurement_mcp_app.py): the tool must fit the scope.
ServePurchase(r) ==
  /\ requests[r].pc = "serve" /\ requests[r].hop = "connector"
  /\ \E v \in Verified("zoho-procurement-mcp", Tokens(r).delegation) :
       LET asks == Kind[r] = "ask"
       IN  /\ Keep("zoho-procurement-mcp", v)
           /\ IF Served(r, v.held, "procurement-agent",
                        IF asks THEN "purchaseorder.create" ELSE "purchaseorder.read")
              THEN Goto(r, IF asks THEN "create" ELSE "read")
              ELSE Deny(r, "zoho-procurement-mcp", v.held)
  /\ UNCHANGED <<orders, key, now>>

\* The order is created in Zoho; its response may come too late for the MCP.
CreateOrder(r, late) ==
  /\ requests[r].pc = "create"
  /\ orders' = [q \in DOMAIN orders \cup {r} |->
                  IF q = r THEN "draft" ELSE orders[q]]
  /\ Goto(r, IF late THEN "failed" ELSE "submit")
  /\ UNCHANGED <<cache, key, now>>

\* Mutant of SubmitOrder: the answer does not wait for the submission.
AnswerFirst(r, late) ==
  /\ requests[r].pc = "submit"
  /\ Goto(r, IF late THEN "failed" ELSE "answered")
  /\ UNCHANGED <<orders, cache, key, now>>

\* Mutant of SubmitOrder: the delegation is verified once more.
SubmitVerified(r, late) ==
  /\ requests[r].pc = "submit"
  /\ \E v \in Verified("zoho-procurement-mcp", Tokens(r).delegation) :
       /\ Keep("zoho-procurement-mcp", v)
       /\ IF Good(v.held, Tokens(r).delegation, "zoho-procurement-mcp")
          THEN /\ orders' = [orders EXCEPT ![r] = "pending_approval"]
               /\ Goto(r, IF late THEN "failed" ELSE "answered")
          ELSE Deny(r, "zoho-procurement-mcp", v.held) /\ UNCHANGED orders
  /\ UNCHANGED <<key, now>>

\* It is submitted; the answer may come too late for the MCP, or for a caller
\* further up who has given up by now (30 s, 20 s), which stops nobody further down.
SubmitOrder(r, late) ==
  /\ requests[r].pc = "submit"
  /\ orders' = [orders EXCEPT ![r] = "pending_approval"]
  /\ Goto(r, IF late THEN "failed" ELSE "answered")
  /\ UNCHANGED <<cache, key, now>>

ReadOrder(r) ==
  /\ requests[r].pc = "read"
  /\ Goto(r, "answered")
  /\ UNCHANGED <<orders, cache, key, now>>

-----------------------------------------------------------------------------
(* What may go wrong on the way *)

Underway == PCs \ ({"start", "signed in"} \cup Ends)

\* A service is down, or answers too late for a caller that would do the next step
\* (the broker, when it is asked for its key: Answers).
Unavailable(r) ==
  /\ requests[r].pc \in Underway
  /\ Goto(r, "failed")
  /\ UNCHANGED <<orders, cache, key, now>>

RestartBroker ==
  /\ key < MaxKey
  /\ key' = key + 1
  /\ UNCHANGED <<requests, orders, cache, now>>

Tick ==
  /\ now < MaxTime
  /\ now' = now + 1
  /\ UNCHANGED <<requests, orders, cache, key>>

Serve(r) ==
  \/ Discover(r) \/ ReadRegistry(r)
  \/ AgentCredential(r) \/ CheckExchange(r) \/ SignDelegation(r) \/ IssueDelegation(r)
  \/ RouteRequest(r) \/ ServeInventory(r) \/ ReadItem(r)
  \/ AcceptMessage(r) \/ ServePurchase(r) \/ ReadOrder(r)
  \/ \E late \in BOOLEAN : CreateOrder(r, late) \/ SubmitOrder(r, late)

Next ==
  \/ \E r \in Requests :
       \/ SignIn(r) \/ Accept(r) \/ Serve(r) \/ Unavailable(r)
  \/ RestartBroker \/ Tick

Spec == Init /\ [][Next]_vars

\* A handler that runs goes on; users need not ask.
FairSpec == Spec /\ \A r \in Requests : WF_vars(Serve(r))
=============================================================================
