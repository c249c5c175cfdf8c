------------------------- MODULE GovernedRequestProofs -------------------------
(***************************************************************************)
(* Proofs about GovernedRequest for any users, lifetimes, bounds and       *)
(* policies that agree with what the agents ask for.                       *)
(***************************************************************************)
EXTENDS GovernedRequestProperties, SequenceTheorems, TLAPS

Hops == {"inventory", "a2a", "connector"}
Request == [pc : PCs, hop : Hops, tokens : [Holders -> Token \cup {None}],
            refusal : [by : Services, held : Int \cup {None}] \cup {None}]

TypeOK == /\ requests \in [Requests -> Request]
          /\ key \in Int
          /\ now \in Int

\* A token of the request, signed with a key the broker has or has had.
Holds(r, h) == Tokens(r)[h] \in Token /\ Tokens(r)[h].key <= key

\* A reason to refuse the request: one of its tokens, or the want of the key.
BadToken(r) == \E h \in Holders : /\ Tokens(r)[h] \in Token
                                  /\ \/ Tokens(r)[h].key < key
                                     \/ Tokens(r)[h].exp <= now

Cause(r) == BadToken(r) \/ requests[r].refusal \in NoKey

Asking == {"start", "signed in", "discover", "registry"}  \* before the first hop
Delegating == {"credential", "exchange", "sign"}
Delegated == {"issued", "route", "serve"}

\* What is extended at a hop: a token for the agent itself.
SubjectScope(r) ==
  IF requests[r].hop = "connector"
  THEN IF Kind[r] = "ask" THEN "purchase.request" ELSE "purchase.status"
  ELSE "assistant.inventory"

\* The tokens a request carries at a statement are those that it needs there.
TokensInv(r) ==
  /\ requests[r].pc \in Asking => requests[r].hop # "connector"
  /\ requests[r].pc \notin Ends \cup {"start"} =>
       /\ Holds(r, "user")
       /\ Tokens(r)["user"].aud = "inventory-agent"
       /\ Tokens(r)["user"].scope = "assistant.inventory"
  /\ requests[r].pc = "registry" =>
       /\ Holds(r, "credential")
       /\ Tokens(r)["credential"].aud = "registry"
       /\ Tokens(r)["credential"].scope = "registry.read"
  /\ requests[r].pc \in {"exchange", "sign"} =>
       /\ Holds(r, "credential")
       /\ Tokens(r)["credential"].aud = "sts"
       /\ Tokens(r)["credential"].sub = Agent(r)
  /\ requests[r].pc \in Delegating =>
       /\ Holds(r, "subject")
       /\ Tokens(r)["subject"].aud = Agent(r)
       /\ Tokens(r)["subject"].scope = SubjectScope(r)
  /\ requests[r].pc \in Delegated =>
       /\ Holds(r, "delegation")
       /\ Tokens(r)["delegation"].aud = Audience(r)
       /\ Tokens(r)["delegation"].scope = Scope(r)
       /\ Tokens(r)["delegation"].act # <<>>
       /\ Head(Tokens(r)["delegation"].act) = Agent(r)

\* A refusal has its cause, an order is created after the last check, and the
\* answer follows its submission.
OutcomeInv(r) ==
  /\ requests[r].pc = "refused" => Cause(r)
  /\ requests[r].pc = "submit" => r \in DOMAIN orders
  /\ requests[r].pc = "read" => Kind[r] # "ask"
  /\ r \in DOMAIN orders => requests[r].pc \in {"submit", "answered", "failed"}
  /\ requests[r].pc = "answered" /\ Kind[r] = "ask" /\ Short =>
       r \in DOMAIN orders /\ orders[r] = "pending_approval"

RequestInv(r) == TokensInv(r) /\ OutcomeInv(r)

IInv == \A r \in Requests : RequestInv(r)

-----------------------------------------------------------------------------
(* Tokens and keys *)

\* An actor in front of those that act already.
LEMMA ActInFront ==
  ASSUME NEW S, NEW a \in S, NEW s \in Seq(S)
  PROVE  /\ <<a>> \o s \in Seq(S)
         /\ <<a>> \o s # <<>>
         /\ Head(<<a>> \o s) = a
<1>1. <<a>> \in Seq(S) /\ Len(<<a>>) = 1 /\ <<a>>[1] = a
  OBVIOUS
<1>2. /\ <<a>> \o s \in Seq(S)
      /\ Len(<<a>> \o s) = 1 + Len(s)
      /\ (<<a>> \o s)[1] = a
  BY <1>1, ConcatProperties
<1> QED
  BY <1>2

\* A token that a service turns away, though it is meant for the service, has
\* expired or was signed before the last restart of the broker, or the service
\* has not come by the key.
LEMMA TurnedAway ==
  ASSUME NEW t \in Token, NEW s \in Services, NEW mine, TypeOK,
         NEW v \in Decoding(s, t, mine), NEW aud,
         t.key <= key, t.aud = aud, ~ Good(v.held, t, aud)
  PROVE  /\ v.held \in Int \cup {None}
         /\ \/ t.key < key \/ t.exp <= now
            \/ [by |-> s, held |-> v.held] \in NoKey
<1>1. t.key \in Int /\ t.exp \in Int /\ key \in Int /\ now \in Int
  BY DEF Token, TypeOK
<1>2. PICK copy \in {mine} \cup Others(s), a \in Answers(s), b \in Answers(s) :
        LET first == IF copy = None THEN a ELSE copy
            held == IF first \in {t.key, None} THEN first ELSE b
        IN  v = [held |-> held, kept |-> IF held = None THEN first ELSE held]
  BY DEF Decoding
<1>3. v.held \in {t.key, None, b}
  BY <1>2
<1>4. b = key \/ b = None \/ (s \in Pooled /\ b \in 0 .. key)
  BY DEF Answers, Others
<1>5. v.held \in Int \cup {None}
  BY <1>1, <1>3, <1>4
<1>6. CASE t.exp <= now
  BY <1>5, <1>6
<1>7. CASE v.held = None
  BY <1>5, <1>7 DEF NoKey
<1>8. CASE now < t.exp /\ v.held # None
  <2>1. v.held # t.key
    BY <1>8 DEF Good
  <2>2. v.held = b /\ b # None
    BY <1>3, <1>8, <2>1
  <2>3. CASE b = key
    BY <1>1, <1>5, <2>1, <2>2, <2>3
  <2>4. CASE s \in Pooled /\ b \in 0 .. key /\ b # key
    <3>1. b \in 0 .. key - 1
      BY <1>1, <2>4
    <3>2. [by |-> s, held |-> b] \in NoKey
      BY <2>4, <3>1 DEF NoKey
    <3> QED
      BY <1>5, <2>2, <3>2
  <2> QED
    BY <1>4, <2>2, <2>3, <2>4
<1> QED
  BY <1>1, <1>6, <1>7, <1>8

\* A token minted for a subject of its own.
LEMMA OriginToken ==
  ASSUME TypeOK, NEW kind, NEW sub \in {User[r] : r \in Requests} \cup Agents, NEW aud \in Audiences,
         NEW scope \in Scopes, NEW life \in Nat
  PROVE  LET t == Origin(kind, sub, aud, scope, life)
         IN  /\ t \in Token
             /\ t.key = key
             /\ t.sub = sub /\ t.aud = aud /\ t.scope = scope
<1>1. <<>> \in Seq(Agents)
  OBVIOUS
<1> QED
  BY <1>1 DEF Origin, Token, TypeOK

\* A token that extends another by one actor.
LEMMA DelegationToken ==
  ASSUME TypeOK, NEW actor \in Agents, NEW subject \in Token,
         NEW aud \in Audiences, NEW scope \in Scopes
  PROVE  LET t == Delegation(actor, subject, aud, scope)
         IN  /\ t \in Token
             /\ t.key = key
             /\ t.aud = aud /\ t.scope = scope
             /\ t.act # <<>> /\ Head(t.act) = actor
<1> DEFINE act == <<actor>> \o subject.act
<1>1. subject.act \in Seq(Agents) /\ subject.exp \in Int
  BY DEF Token
<1>2. act \in Seq(Agents) /\ act # <<>> /\ Head(act) = actor
  BY <1>1, ActInFront
<1>3. (IF now + AgentLife < subject.exp THEN now + AgentLife ELSE subject.exp) \in Int
  BY <1>1, BoundsAssumption DEF TypeOK
<1> HIDE DEF act
<1>4. Delegation(actor, subject, aud, scope) =
        [sub |-> subject.sub, aud |-> aud, scope |-> scope, act |-> act,
         exp |-> IF now + AgentLife < subject.exp THEN now + AgentLife ELSE subject.exp,
         key |-> key]
  BY DEF Delegation, act
<1> QED
  BY <1>1, <1>2, <1>3, <1>4 DEF Token, TypeOK

\* The names of agents, audiences and scopes are known, and what an agent
\* asks for at a hop is one of the legs.
LEMMA HopNames ==
  ASSUME TypeOK, NEW r \in Requests
  PROVE  /\ Agent(r) \in Agents /\ Audience(r) \in Audiences /\ Scope(r) \in Scopes
         /\ Leg(Agent(r), SubjectScope(r), Audience(r), Scope(r)) \in Legs
         /\ Audience(r) # "sts" /\ Audience(r) # "registry"
<1>1. requests[r].hop \in {"inventory", "a2a", "connector"}
  BY DEF TypeOK, Request, Hops
<1>2. Agent(r) \in {"inventory-agent", "procurement-agent"}
  BY DEF Agent
<1>3. Audience(r) \in {"zoho-inventory-mcp", "procurement-agent", "zoho-procurement-mcp"}
  BY <1>1 DEF Audience
<1>4. Scope(r) \in {"inventory.read", "purchase.request", "purchase.status",
                   "purchaseorder.create", "purchaseorder.read"}
  BY <1>1 DEF Scope
<1>5. Leg(Agent(r), SubjectScope(r), Audience(r), Scope(r)) \in Legs
  <2>1. CASE requests[r].hop = "inventory"
    BY <2>1 DEF Agent, Audience, Scope, SubjectScope, Legs
  <2>2. CASE requests[r].hop = "a2a"
    BY <2>2 DEF Agent, Audience, Scope, SubjectScope, Legs
  <2>3. CASE requests[r].hop = "connector"
    BY <2>3 DEF Agent, Audience, Scope, SubjectScope, Legs
  <2> QED
    BY <1>1, <2>1, <2>2, <2>3
<1>6. Agent(r) \in Agents
  BY <1>2 DEF Agents
<1>7. Audience(r) \in Audiences
  BY <1>3 DEF Audiences
<1>8. Scope(r) \in Scopes
  BY <1>4 DEF Scopes
<1>9. Audience(r) # "sts" /\ Audience(r) # "registry"
  BY <1>3
<1> QED
  BY <1>5, <1>6, <1>7, <1>8, <1>9

\* The policies let the request pass at every hop.
LEMMA LegAllowed ==
  ASSUME TypeOK, NEW r \in Requests, NEW subject,
         subject.aud = Agent(r), subject.scope = SubjectScope(r)
  PROVE  /\ MayExchange(Agent(r), subject, Audience(r), Scope(r))
         /\ MayMint("delegated_access_token", Audience(r), Scope(r), AgentLife)
         /\ \E p \in GatewayRoutes : /\ p.actor = Agent(r)
                                     /\ p.target = Audience(r)
                                     /\ p.scope = Scope(r)
<1> DEFINE l == Leg(Agent(r), SubjectScope(r), Audience(r), Scope(r))
<1>1. /\ l \in Legs
      /\ l.actor = Agent(r) /\ l.has = SubjectScope(r)
      /\ l.to = Audience(r) /\ l.gets = Scope(r)
  BY HopNames DEF Leg
<1> HIDE DEF l
<1>2. /\ MayExchange(l.actor, [aud |-> l.actor, scope |-> l.has], l.to, l.gets)
      /\ MayMint("delegated_access_token", l.to, l.gets, AgentLife)
      /\ \E p \in GatewayRoutes :
           p.actor = l.actor /\ p.target = l.to /\ p.scope = l.gets
  BY <1>1, PoliciesAgree
<1>3. MayExchange(Agent(r), [aud |-> Agent(r), scope |-> SubjectScope(r)],
                  Audience(r), Scope(r))
  BY <1>1, <1>2
<1>4. MayExchange(Agent(r), subject, Audience(r), Scope(r))
  BY <1>3 DEF MayExchange
<1> QED
  BY <1>1, <1>2, <1>4

-----------------------------------------------------------------------------
(* How a request moves *)

\* Only the request itself changes, and keeps its shape.
LEMMA GotoFields ==
  ASSUME TypeOK, NEW r \in Requests, NEW pc \in PCs, Goto(r, pc)
  PROVE  /\ requests' \in [Requests -> Request]
         /\ requests'[r].pc = pc
         /\ pc \notin {"answered", "failed"} =>
              /\ requests'[r].hop = requests[r].hop
              /\ requests'[r].tokens = requests[r].tokens
         /\ \A q \in Requests : q # r => requests'[q] = requests[q]
<1> DEFINE q == requests[r]
           over == pc \in {"answered", "failed"}
           new == IF over
                  THEN [q EXCEPT !.pc = pc, !.tokens = NoTokens, !.hop = "inventory"]
                  ELSE [q EXCEPT !.pc = pc]
<1>1. q \in Request
  BY DEF TypeOK
<1>2. NoTokens \in [Holders -> Token \cup {None}]
  BY DEF NoTokens
<1>3. new \in Request /\ new.pc = pc
  BY <1>1, <1>2 DEF Request, Hops
<1>4. ~ over => new.hop = q.hop /\ new.tokens = q.tokens
  BY <1>1 DEF Request
<1>5. requests' = [requests EXCEPT ![r] = new]
  BY DEF Goto
<1> HIDE DEF new
<1> QED
  BY <1>3, <1>4, <1>5 DEF TypeOK

\* A new token takes its place among the tokens of a request.
LEMMA TokenStored ==
  ASSUME TypeOK, NEW r \in Requests, NEW pc \in PCs, NEW h \in Holders,
         NEW t \in Token,
         requests' = [requests EXCEPT ![r].pc = pc, ![r].tokens[h] = t]
  PROVE  /\ requests' \in [Requests -> Request]
         /\ requests'[r].pc = pc
         /\ requests'[r].hop = requests[r].hop
         /\ requests'[r].tokens[h] = t
         /\ \A g \in Holders : g # h =>
              requests'[r].tokens[g] = requests[r].tokens[g]
         /\ \A q \in Requests : q # r => requests'[q] = requests[q]
<1> DEFINE q == requests[r]
           tokens == [q.tokens EXCEPT ![h] = t]
           new == [q EXCEPT !.pc = pc, !.tokens = tokens]
<1>1. q \in Request
  BY DEF TypeOK
<1>2. /\ tokens \in [Holders -> Token \cup {None}]
      /\ tokens[h] = t
      /\ \A g \in Holders : g # h => tokens[g] = q.tokens[g]
  BY <1>1 DEF Request
<1>3. requests' = [requests EXCEPT ![r] = new]
  BY DEF TypeOK
<1> HIDE DEF tokens
<1>4. new \in Request /\ new.pc = pc /\ new.tokens = tokens /\ new.hop = q.hop
  BY <1>1, <1>2 DEF Request
<1> HIDE DEF new
<1> QED
  BY <1>2, <1>3, <1>4 DEF TypeOK

\* At the start of a hop the subject token is in place.
LEMMA BeginFields ==
  ASSUME TypeOK, NEW r \in Requests, NEW hop \in Hops, Begin(r, hop)
  PROVE  /\ requests' \in [Requests -> Request]
         /\ requests'[r].pc = "credential"
         /\ requests'[r].hop = hop
         /\ requests'[r].tokens["user"] = requests[r].tokens["user"]
         /\ requests'[r].tokens["subject"] =
              IF hop = "connector" THEN requests[r].tokens["delegation"]
                                   ELSE requests[r].tokens["user"]
         /\ \A q \in Requests : q # r => requests'[q] = requests[q]
<1> DEFINE q == requests[r]
           t == q.tokens
           tokens == [t EXCEPT
             !["subject"] = IF hop = "connector" THEN t["delegation"] ELSE t["user"],
             !["credential"] = None, !["delegation"] = None]
           new == [q EXCEPT !.pc = "credential", !.hop = hop, !.tokens = tokens]
<1>1. q \in Request /\ t \in [Holders -> Token \cup {None}]
  BY DEF TypeOK, Request
<1>2. /\ tokens \in [Holders -> Token \cup {None}]
      /\ tokens["user"] = t["user"]
      /\ tokens["subject"] = IF hop = "connector" THEN t["delegation"] ELSE t["user"]
  BY <1>1 DEF Holders
<1>3. requests' = [requests EXCEPT ![r] = new]
  BY DEF Begin, TypeOK
<1> HIDE DEF tokens
<1>4. /\ new \in Request /\ new.pc = "credential"
      /\ new.tokens = tokens /\ new.hop = hop
  BY <1>1, <1>2 DEF Request, PCs
<1> HIDE DEF new
<1> QED
  BY <1>2, <1>3, <1>4 DEF TypeOK

\* Keys and the clock do not go back.
Onward == /\ key \in Int /\ key' \in Int /\ key <= key'
          /\ now \in Int /\ now' \in Int /\ now <= now'

\* What is older than the broker's key stays so.
LEMMA KeysOnward ==
  ASSUME NEW a \in Int, NEW b \in Int, a <= b
  PROVE  0 .. a - 1 \subseteq 0 .. b - 1
OBVIOUS

\* What concerns a request and has not changed is still in order.
LEMMA RequestStays ==
  ASSUME NEW r \in Requests, RequestInv(r), Onward,
         requests'[r] = requests[r],
         r \in DOMAIN orders' <=> r \in DOMAIN orders,
         r \in DOMAIN orders => orders'[r] = orders[r]
  PROVE  RequestInv(r)'
<1>1. \A h \in Holders : Holds(r, h) => Holds(r, h)'
  BY DEF Holds, Tokens, Onward, Token
<1>2. Cause(r) => Cause(r)'
  <2>1. BadToken(r) => BadToken(r)'
    BY DEF BadToken, Tokens, Onward, Token
  <2>2. NoKey \subseteq NoKey'
    <3>1. 0 .. key - 1 \subseteq 0 .. key' - 1
      BY KeysOnward DEF Onward
    <3> QED
      BY <3>1 DEF NoKey
  <2> QED
    BY <2>1, <2>2 DEF Cause
<1>3. /\ Agent(r)' = Agent(r) /\ Audience(r)' = Audience(r)
      /\ Scope(r)' = Scope(r) /\ SubjectScope(r)' = SubjectScope(r)
      /\ Tokens(r)' = Tokens(r)
  BY DEF Agent, Audience, Scope, SubjectScope, Tokens
<1>4. TokensInv(r)'
  BY <1>1, <1>3 DEF RequestInv, TokensInv, Holders
<1>5. OutcomeInv(r)'
  BY <1>2 DEF RequestInv, OutcomeInv
<1> QED
  BY <1>4, <1>5 DEF RequestInv

\* Only the order of request r may change.
SameOrder(q) == /\ (q \in DOMAIN orders') <=> (q \in DOMAIN orders)
                /\ (q \in DOMAIN orders) => (orders'[q] = orders[q])
OnlyOrderOf(r) == \A q \in Requests : q # r => SameOrder(q)

\* A step that moves one request, signs with the key and stays in the present.
LEMMA OneMoves ==
  ASSUME TypeOK, IInv, NEW r \in Requests,
         requests' \in [Requests -> Request],
         \A q \in Requests : q # r => requests'[q] = requests[q],
         UNCHANGED <<key, now>>, OnlyOrderOf(r),
         RequestInv(r)'
  PROVE  TypeOK' /\ IInv'
<1>1. TypeOK' /\ Onward
  BY DEF TypeOK, Onward
<1>2. ASSUME NEW q \in Requests, q # r
      PROVE  RequestInv(q)'
  <2>1. /\ SameOrder(q)
        /\ requests'[q] = requests[q]
        /\ RequestInv(q)
    BY <1>2 DEF OnlyOrderOf, IInv
  <2> QED
    BY <1>1, <2>1, RequestStays DEF SameOrder
<1> QED
  BY <1>1, <1>2 DEF IInv

\* What is refused keeps its tokens.
LEMMA RefuseFields ==
  ASSUME TypeOK, NEW r \in Requests,
         NEW refusal \in [by : Services, held : Int \cup {None}] \cup {None},
         Refuse(r, refusal)
  PROVE  /\ requests' \in [Requests -> Request]
         /\ requests'[r].pc = "refused"
         /\ requests'[r].tokens = requests[r].tokens
         /\ requests'[r].refusal = refusal
         /\ \A q \in Requests : q # r => requests'[q] = requests[q]
<1> DEFINE q == requests[r]
           new == [q EXCEPT !.pc = "refused", !.refusal = refusal, !.hop = "inventory"]
<1>1. q \in Request
  BY DEF TypeOK
<1>2. /\ new \in Request /\ new.pc = "refused"
      /\ new.tokens = q.tokens /\ new.refusal = refusal
  BY <1>1 DEF Request, PCs, Ends, Hops
<1>3. requests' = [requests EXCEPT ![r] = new]
  BY DEF Refuse, TypeOK
<1> HIDE DEF new
<1> QED
  BY <1>2, <1>3 DEF TypeOK

\* A request that is refused before its order is created has a cause.
LEMMA Refusal ==
  ASSUME TypeOK, IInv, NEW r \in Requests,
         NEW refusal \in [by : Services, held : Int \cup {None}] \cup {None},
         Refuse(r, refusal), UNCHANGED <<orders, key, now>>,
         BadToken(r) \/ refusal \in NoKey, r \notin DOMAIN orders
  PROVE  TypeOK' /\ IInv'
<1>1. "refused" \in PCs /\ "refused" \in Ends
  BY DEF PCs, Ends
<1>2. /\ requests' \in [Requests -> Request]
      /\ requests'[r].pc = "refused"
      /\ requests'[r].tokens = requests[r].tokens
      /\ requests'[r].refusal = refusal
      /\ \A q \in Requests : q # r => requests'[q] = requests[q]
  BY RefuseFields
<1>3. Cause(r)'
  <2>1. BadToken(r) => BadToken(r)'
    BY <1>2 DEF BadToken, Tokens
  <2>2. NoKey' = NoKey
    BY DEF NoKey
  <2> QED
    BY <1>2, <2>1, <2>2 DEF Cause
<1>4. TokensInv(r)'
  BY <1>1, <1>2 DEF TokensInv, Asking, Delegating, Delegated
<1>5. OutcomeInv(r)'
  BY <1>2, <1>3 DEF OutcomeInv
<1> QED
  BY <1>2, <1>4, <1>5, OneMoves DEF OnlyOrderOf, SameOrder, RequestInv

\* A request may fail anywhere; an answer to a purchase has its order.
LEMMA Ending ==
  ASSUME TypeOK, IInv, NEW r \in Requests, NEW pc \in {"answered", "failed"},
         Goto(r, pc), UNCHANGED <<key, now>>, OnlyOrderOf(r),
         pc = "answered" /\ Kind[r] = "ask" /\ Short =>
           r \in DOMAIN orders' /\ orders'[r] = "pending_approval"
  PROVE  TypeOK' /\ IInv'
<1>1. pc \in PCs /\ pc \in Ends
  BY DEF PCs, Ends
<1>2. /\ requests' \in [Requests -> Request]
      /\ requests'[r].pc = pc
      /\ \A q \in Requests : q # r => requests'[q] = requests[q]
  BY <1>1, GotoFields
<1>3. TokensInv(r)'
  BY <1>1, <1>2 DEF TokensInv, Asking, Delegating, Delegated
<1>4. OutcomeInv(r)'
  BY <1>2 DEF OutcomeInv
<1> QED
  BY <1>2, <1>3, <1>4, OneMoves DEF RequestInv

\* A request that goes on with the tokens it has, when they will do.
LEMMA Onwards ==
  ASSUME TypeOK, IInv, NEW r \in Requests, NEW pc \in PCs \ Ends, Goto(r, pc),
         UNCHANGED <<key, now>>, OnlyOrderOf(r),
         requests[r].pc \notin Ends \cup {"start"},
         pc \notin Asking \/ requests[r].pc \in Asking,
         pc # "registry",
         pc \in Delegating => pc = "sign" /\ requests[r].pc = "exchange",
         pc \in Delegated => requests[r].pc \in Delegated,
         pc = "submit" <=> r \in DOMAIN orders',
         pc = "read" => Kind[r] # "ask"
  PROVE  TypeOK' /\ IInv'
<1>1. pc \notin {"answered", "failed", "refused"}
  BY DEF Ends
<1>2. /\ requests' \in [Requests -> Request]
      /\ requests'[r].pc = pc
      /\ requests'[r].hop = requests[r].hop
      /\ requests'[r].tokens = requests[r].tokens
      /\ \A q \in Requests : q # r => requests'[q] = requests[q]
  BY <1>1, GotoFields
<1>3. /\ Agent(r)' = Agent(r) /\ Audience(r)' = Audience(r)
      /\ Scope(r)' = Scope(r) /\ SubjectScope(r)' = SubjectScope(r)
      /\ Tokens(r)' = Tokens(r)
  BY <1>2 DEF Agent, Audience, Scope, SubjectScope, Tokens
<1>4. \A h \in Holders : Holds(r, h)' <=> Holds(r, h)
  BY <1>3 DEF Holds
<1>5. TokensInv(r)
  BY DEF IInv, RequestInv
<1>6. TokensInv(r)'
  BY <1>2, <1>3, <1>4, <1>5 DEF TokensInv, Holders, Delegating
<1>7. OutcomeInv(r)'
  BY <1>1, <1>2 DEF OutcomeInv
<1> QED
  BY <1>2, <1>6, <1>7, OneMoves DEF RequestInv

\* A hop begins with a token that is meant for its agent.
LEMMA Beginning ==
  ASSUME TypeOK, IInv, NEW r \in Requests, NEW hop \in Hops, Begin(r, hop),
         UNCHANGED <<orders, key, now>>, r \notin DOMAIN orders,
         requests[r].pc \notin Ends \cup {"start"},
         hop = "connector" =>
           /\ Holds(r, "delegation")
           /\ Tokens(r)["delegation"].aud = "procurement-agent"
           /\ Tokens(r)["delegation"].scope =
                IF Kind[r] = "ask" THEN "purchase.request" ELSE "purchase.status"
  PROVE  TypeOK' /\ IInv'
<1>1. /\ requests' \in [Requests -> Request]
      /\ requests'[r].pc = "credential"
      /\ requests'[r].hop = hop
      /\ requests'[r].tokens["user"] = requests[r].tokens["user"]
      /\ requests'[r].tokens["subject"] =
           IF hop = "connector" THEN requests[r].tokens["delegation"]
                                ELSE requests[r].tokens["user"]
      /\ \A q \in Requests : q # r => requests'[q] = requests[q]
  BY BeginFields
<1>2. /\ Holds(r, "user")
      /\ Tokens(r)["user"].aud = "inventory-agent"
      /\ Tokens(r)["user"].scope = "assistant.inventory"
  BY DEF IInv, RequestInv, TokensInv
<1>3. /\ Holds(r, "user")'
      /\ Tokens(r)["user"]' = Tokens(r)["user"]
  BY <1>1, <1>2 DEF Holds, Tokens
<1>4. /\ Holds(r, "subject")'
      /\ Tokens(r)["subject"].aud' = Agent(r)'
      /\ Tokens(r)["subject"].scope' = SubjectScope(r)'
  BY <1>1, <1>2 DEF Holds, Tokens, Agent, SubjectScope
<1>5. TokensInv(r)'
  BY <1>1, <1>2, <1>3, <1>4 DEF TokensInv, Asking, Delegated
<1>6. OutcomeInv(r)'
  BY <1>1 DEF OutcomeInv
<1> QED
  BY <1>1, <1>5, <1>6, OneMoves DEF RequestInv, OnlyOrderOf, SameOrder

-----------------------------------------------------------------------------
(* The steps of a request *)

\* What the broker signs is signed with its key.
LEMMA SignedNow ==
  ASSUME NEW t, key \in Int, key' = key, t.key = key
  PROVE  t.key <= key'
  OBVIOUS

\* A request gets a token of its own, and goes on with it.
LEMMA Stored ==
  ASSUME TypeOK, IInv, NEW r \in Requests, NEW h \in {"user", "credential", "delegation"},
         NEW t \in Token, t.key = key, r \notin DOMAIN orders,
         NEW pc \in {"signed in", "registry", "exchange", "issued"},
         requests' = [requests EXCEPT ![r].pc = pc, ![r].tokens[h] = t],
         UNCHANGED <<orders, key, now>>,
         \/ /\ requests[r].pc = "start" /\ h = "user" /\ pc = "signed in"
            /\ t.aud = "inventory-agent" /\ t.scope = "assistant.inventory"
         \/ /\ requests[r].pc = "discover" /\ h = "credential" /\ pc = "registry"
            /\ t.aud = "registry" /\ t.scope = "registry.read"
         \/ /\ requests[r].pc = "credential" /\ h = "credential" /\ pc = "exchange"
            /\ t.aud = "sts" /\ t.sub = Agent(r)
         \/ /\ requests[r].pc = "sign" /\ h = "delegation" /\ pc = "issued"
            /\ t.aud = Audience(r) /\ t.scope = Scope(r)
            /\ t.act # <<>> /\ Head(t.act) = Agent(r)
  PROVE  TypeOK' /\ IInv'
<1>1. h \in Holders /\ pc \in PCs
  BY DEF Holders, PCs
<1>2. /\ requests' \in [Requests -> Request]
      /\ requests'[r].pc = pc
      /\ requests'[r].hop = requests[r].hop
      /\ requests'[r].tokens[h] = t
      /\ \A g \in Holders : g # h =>
           requests'[r].tokens[g] = requests[r].tokens[g]
      /\ \A q \in Requests : q # r => requests'[q] = requests[q]
  BY <1>1, TokenStored
<1>3. /\ Agent(r)' = Agent(r) /\ Audience(r)' = Audience(r)
      /\ Scope(r)' = Scope(r) /\ SubjectScope(r)' = SubjectScope(r)
  BY <1>2 DEF Agent, Audience, Scope, SubjectScope
<1>4. /\ Tokens(r)'[h] = t
      /\ \A g \in Holders : g # h => Tokens(r)'[g] = Tokens(r)[g]
  BY <1>2 DEF Tokens
<1>5. /\ Holds(r, h)'
      /\ \A g \in Holders : g # h /\ Holds(r, g) => Holds(r, g)'
  <2>1. key \in Int /\ key' = key
    BY DEF TypeOK
  <2>2. Holds(r, h)'
    <3>1. t.key <= key'
      BY <2>1, SignedNow
    <3> QED
      BY <1>4, <3>1, Zenon DEF Holds
  <2>3. ASSUME NEW g \in Holders, g # h, Holds(r, g)
        PROVE  Holds(r, g)'
    BY <1>4, <2>1, <2>3 DEF Holds
  <2> QED
    BY <2>2, <2>3
<1>6. TokensInv(r)
  BY DEF IInv, RequestInv
<1>7. /\ requests'[r].pc \in Asking => requests[r].pc \in Asking
      /\ requests[r].pc \notin Ends
      /\ requests'[r].pc \in Delegating => requests[r].pc \in Delegating
      /\ requests'[r].pc \in Delegated => h = "delegation" /\ pc = "issued"
  BY <1>2 DEF Asking, Ends, Delegating, Delegated
<1>8. TokensInv(r)'
  BY <1>2, <1>3, <1>4, <1>5, <1>6, <1>7 DEF TokensInv, Holders
<1>9. OutcomeInv(r)'
  BY <1>2 DEF OutcomeInv
<1> QED
  BY <1>2, <1>8, <1>9, OneMoves DEF RequestInv, OnlyOrderOf, SameOrder

\* No order exists of a request that is still checked.
LEMMA NotYet ==
  ASSUME IInv, NEW r \in Requests,
         requests[r].pc \notin {"submit", "answered", "failed"}
  PROVE  r \notin DOMAIN orders
  BY DEF IInv, RequestInv, OutcomeInv

\* Who turns away a token that is meant for it has a cause.
LEMMA Denial ==
  ASSUME TypeOK, IInv, NEW r \in Requests, r \notin DOMAIN orders,
         NEW h \in Holders, Holds(r, h),
         NEW s \in Services, NEW mine,
         NEW v \in Decoding(s, Tokens(r)[h], mine),
         ~ Good(v.held, Tokens(r)[h], Tokens(r)[h].aud),
         Deny(r, s, v.held), UNCHANGED <<orders, key, now>>
  PROVE  TypeOK' /\ IInv'
<1>1. PICK refusal : refusal = [by |-> s, held |-> v.held]
  OBVIOUS
<1>2. /\ v.held \in Int \cup {None}
      /\ \/ Tokens(r)[h].key < key \/ Tokens(r)[h].exp <= now
         \/ refusal \in NoKey
  BY <1>1, TurnedAway DEF Holds
<1>3. BadToken(r) \/ refusal \in NoKey
  BY <1>2 DEF Holds, BadToken
<1>4. refusal \in [by : Services, held : Int \cup {None}] /\ Refuse(r, refusal)
  BY <1>1, <1>2 DEF Deny
<1> QED
  BY <1>3, <1>4, Refusal

\* login and ask: the user's token.
LEMMA UserStep ==
  ASSUME TypeOK, IInv, NEW r \in Requests, SignIn(r) \/ Accept(r)
  PROVE  TypeOK' /\ IInv'
<1>1. CASE SignIn(r)
  <2> DEFINE t == Origin("user_access_token", User[r], "inventory-agent",
                         "assistant.inventory", UserLife)
  <2>1. /\ t \in Token /\ t.key = key
        /\ t.aud = "inventory-agent" /\ t.scope = "assistant.inventory"
    <3>1. /\ User[r] \in {User[q] : q \in Requests} \cup Agents
          /\ "inventory-agent" \in Audiences /\ "assistant.inventory" \in Scopes
      BY DEF Audiences, Scopes
    <3> QED
      BY <3>1, OriginToken, BoundsAssumption
  <2> HIDE DEF t
  <2>2. /\ requests[r].pc = "start"
        /\ requests' = [requests EXCEPT ![r].pc = "signed in", ![r].tokens["user"] = t]
        /\ UNCHANGED <<orders, key, now>>
    BY <1>1 DEF SignIn, t
  <2> QED
    BY <2>1, <2>2, Stored, NotYet
<1>2. CASE Accept(r)
  <2>1. requests[r].pc = "signed in" /\ r \notin DOMAIN orders
    BY <1>2, NotYet DEF Accept
  <2>2. /\ Holds(r, "user") /\ Tokens(r)["user"].aud = "inventory-agent"
    BY <2>1 DEF IInv, RequestInv, TokensInv, Ends
  <2>3. CASE Goto(r, "discover")
    <3>1. "discover" \in PCs \ Ends
      BY DEF PCs, Ends
    <3> QED
      BY <1>2, <2>1, <2>3, <3>1, Onwards DEF Accept, Asking, Delegating,
         Delegated, Ends, OnlyOrderOf, SameOrder
  <2>4. CASE Begin(r, "a2a")
    BY <1>2, <2>1, <2>4, Beginning DEF Accept, Hops, Ends
  <2>5. ASSUME NEW v \in Verified("inventory-agent", Tokens(r).user),
               ~ Good(v.held, Tokens(r).user, "inventory-agent"),
               Deny(r, "inventory-agent", v.held)
        PROVE  TypeOK' /\ IInv'
    <3>1. "inventory-agent" \in Services /\ "user" \in Holders
      BY DEF Services, Holders
    <3>2. UNCHANGED <<orders, key, now>>
      BY <1>2 DEF Accept
    <3> QED
      BY <2>1, <2>2, <2>5, <3>1, <3>2, Denial DEF Verified
  <2> QED
    BY <1>2, <2>3, <2>4, <2>5 DEF Accept
<1> QED
  BY <1>1, <1>2

\* client_credentials: the registry's credential and the token service's.
LEMMA CredentialStep ==
  ASSUME TypeOK, IInv, NEW r \in Requests, Discover(r) \/ AgentCredential(r)
  PROVE  TypeOK' /\ IInv'
<1>0. Agent(r) \in {User[q] : q \in Requests} \cup Agents
  BY HopNames
<1>1. CASE Discover(r)
  <2> DEFINE t == Origin("agent_credential", Agent(r), "registry", "registry.read",
                         AgentLife)
  <2>1. t \in Token /\ t.key = key /\ t.aud = "registry" /\ t.scope = "registry.read"
    <3>1. "registry" \in Audiences /\ "registry.read" \in Scopes
      BY DEF Audiences, Scopes
    <3> QED
      BY <1>0, <3>1, OriginToken, BoundsAssumption
  <2>2. requests[r].pc = "discover" /\ UNCHANGED <<orders, key, now>>
    BY <1>1 DEF Discover
  <2>3. Agent(r) = "inventory-agent"
    BY <2>2 DEF IInv, RequestInv, TokensInv, Asking, Agent
  <2> HIDE DEF t
  <2>4. requests' = [requests EXCEPT ![r].pc = "registry", ![r].tokens["credential"] = t]
    BY <1>1, <2>3, PoliciesAgree DEF Discover, Credential, t
  <2> QED
    BY <2>1, <2>2, <2>4, Stored, NotYet
<1>2. CASE AgentCredential(r)
  <2> DEFINE t == Origin("agent_credential", Agent(r), "sts", "token.exchange",
                         AgentLife)
  <2>1. t \in Token /\ t.key = key /\ t.aud = "sts" /\ t.sub = Agent(r)
    <3>1. "sts" \in Audiences /\ "token.exchange" \in Scopes
      BY DEF Audiences, Scopes
    <3> QED
      BY <1>0, <3>1, OriginToken, BoundsAssumption
  <2>2. requests[r].pc = "credential" /\ UNCHANGED <<orders, key, now>>
    BY <1>2 DEF AgentCredential
  <2>3. "sts" \in AudiencesOf[Agent(r)]
    BY PoliciesAgree DEF Agent
  <2> HIDE DEF t
  <2>4. requests' = [requests EXCEPT ![r].pc = "exchange", ![r].tokens["credential"] = t]
    BY <1>2, <2>3, PoliciesAgree DEF AgentCredential, Credential, t
  <2> QED
    BY <2>1, <2>2, <2>4, Stored, NotYet
<1> QED
  BY <1>1, <1>2

\* The registry and the first hop.
LEMMA RegistryStep ==
  ASSUME TypeOK, IInv, NEW r \in Requests, ReadRegistry(r)
  PROVE  TypeOK' /\ IInv'
<1>1. /\ requests[r].pc = "registry" /\ r \notin DOMAIN orders
      /\ UNCHANGED <<orders, key, now>>
  BY NotYet DEF ReadRegistry
<1>2. /\ Holds(r, "credential") /\ Tokens(r)["credential"].aud = "registry"
      /\ Tokens(r)["credential"].scope = "registry.read"
  BY <1>1 DEF IInv, RequestInv, TokensInv
<1>3. CASE Begin(r, "inventory")
  BY <1>1, <1>3, Beginning DEF Hops, Ends
<1>4. ASSUME NEW v \in Verified("agent-registry", Tokens(r).credential),
             ~ Good(v.held, Tokens(r).credential, "registry"),
             Deny(r, "agent-registry", v.held)
      PROVE  TypeOK' /\ IInv'
  <2>1. "agent-registry" \in Services /\ "credential" \in Holders
    BY DEF Services, Holders
  <2> QED
    BY <1>1, <1>2, <1>4, <2>1, Denial DEF Verified
<1> QED
  BY <1>2, <1>3, <1>4 DEF ReadRegistry

\* The exchange: the identity provider's check, the broker's check and
\* signature, and the check of what it has signed.
LEMMA ExchangeStep ==
  ASSUME TypeOK, IInv, NEW r \in Requests,
         CheckExchange(r) \/ SignDelegation(r) \/ IssueDelegation(r)
  PROVE  TypeOK' /\ IInv'
<1> DEFINE actor == Tokens(r).credential
           subject == Tokens(r).subject
<1>0. /\ requests[r].pc \in {"exchange", "sign", "issued"}
      /\ UNCHANGED <<key, now>> /\ r \notin DOMAIN orders
  BY NotYet DEF CheckExchange, SignDelegation, IssueDelegation
<1>1. requests[r].pc \in {"exchange", "sign"} =>
        /\ Holds(r, "credential") /\ actor.aud = "sts" /\ actor.sub = Agent(r)
        /\ Holds(r, "subject") /\ subject.aud = Agent(r)
        /\ subject.scope = SubjectScope(r)
        /\ MayExchange(Agent(r), subject, Audience(r), Scope(r))
        /\ MayMint("delegated_access_token", Audience(r), Scope(r), AgentLife)
  BY LegAllowed DEF IInv, RequestInv, TokensInv, Delegating
<1>2. CASE CheckExchange(r)
  <2> DEFINE idp == "identity-broker"
  <2>1. /\ requests[r].pc = "exchange" /\ UNCHANGED orders
        /\ idp \in Services /\ "credential" \in Holders /\ "subject" \in Holders
    BY <1>2 DEF CheckExchange, Services, Holders
  <2>2. CASE Goto(r, "sign")
    <3>1. "sign" \in PCs \ Ends
      BY DEF PCs, Ends
    <3> QED
      BY <1>0, <2>1, <2>2, <3>1, Onwards DEF Asking, Delegating, Delegated, Ends,
         OnlyOrderOf, SameOrder
  <2>3. ASSUME NEW v \in Decoding(idp, actor, cache[idp]),
               ~ Good(v.held, actor, "sts"), Deny(r, idp, v.held)
        PROVE  TypeOK' /\ IInv'
    BY <1>0, <1>1, <2>1, <2>3, Denial
  <2>4. ASSUME NEW mine, NEW w \in Decoding(idp, subject, mine),
               ~ Good(w.held, subject, subject.aud), Deny(r, idp, w.held)
        PROVE  TypeOK' /\ IInv'
    BY <1>0, <1>1, <2>1, <2>4, Denial
  <2>5. PICK v \in Decoding(idp, actor, cache[idp]) :
          IF Good(v.held, actor, "sts")
          THEN \E w \in Decoding(idp, subject, v.kept) :
                 IF Good(w.held, subject, subject.aud)
                 THEN Goto(r, "sign") ELSE Deny(r, idp, w.held)
          ELSE Deny(r, idp, v.held)
    BY <1>1, <1>2, <2>1 DEF CheckExchange
  <2> QED
    BY <2>2, <2>3, <2>4, <2>5
<1>4. CASE SignDelegation(r)
  <2>1. requests[r].pc = "sign" /\ UNCHANGED orders
    BY <1>4 DEF SignDelegation
  <2>2. Holds(r, "credential") /\ Holds(r, "subject")
    BY <1>1, <2>1
  <2>3. CASE ~ \A t \in {actor, subject} : t.key = key /\ now < t.exp
    <3>1. Refuse(r, None)
      BY <1>4, <2>3 DEF SignDelegation
    <3>2. BadToken(r)
      BY <2>2, <2>3 DEF Holds, BadToken, Holders, Token, TypeOK
    <3> QED
      BY <1>0, <2>1, <3>1, <3>2, Refusal
  <2>4. CASE \A t \in {actor, subject} : t.key = key /\ now < t.exp
    <3> DEFINE t == Delegation(actor.sub, subject, Audience(r), Scope(r))
    <3>1. /\ t \in Token /\ t.key = key
          /\ t.aud = Audience(r) /\ t.scope = Scope(r)
          /\ t.act # <<>> /\ Head(t.act) = Agent(r)
      <4>1. actor.sub \in Agents /\ subject \in Token
        BY <1>1, <2>1, HopNames DEF Holds
      <4> QED
        BY <1>1, <2>1, <4>1, HopNames, DelegationToken
    <3> HIDE DEF t
    <3>2. requests' = [requests EXCEPT ![r].pc = "issued", ![r].tokens["delegation"] = t]
      BY <1>1, <1>4, <2>1, <2>4 DEF SignDelegation, t
    <3> QED
      BY <1>0, <2>1, <3>1, <3>2, Stored
  <2> QED
    BY <2>3, <2>4
<1>5. CASE IssueDelegation(r)
  <2>1. requests[r].pc = "issued" /\ UNCHANGED orders
    BY <1>5 DEF IssueDelegation
  <2>2. CASE Goto(r, "route")
    <3>1. "route" \in PCs \ Ends
      BY DEF PCs, Ends
    <3> QED
      BY <1>0, <2>1, <2>2, <3>1, Onwards DEF Asking, Delegating, Delegated, Ends,
         OnlyOrderOf, SameOrder
  <2>3. ASSUME NEW v \in Verified("identity-broker", Tokens(r).delegation),
               ~ Good(v.held, Tokens(r).delegation, Audience(r)),
               Deny(r, "identity-broker", v.held)
        PROVE  TypeOK' /\ IInv'
    <3>1. /\ Holds(r, "delegation") /\ Tokens(r).delegation.aud = Audience(r)
          /\ "identity-broker" \in Services /\ "delegation" \in Holders
      BY <2>1 DEF IInv, RequestInv, TokensInv, Delegated, Services, Holders
    <3> QED
      BY <1>0, <2>1, <2>3, <3>1, Denial DEF Verified
  <2> QED
    BY <1>5, <2>2, <2>3 DEF IssueDelegation
<1> QED
  BY <1>2, <1>4, <1>5

\* The gateway and the services behind it check what the broker has signed.
LEMMA ServiceStep ==
  ASSUME TypeOK, IInv, NEW r \in Requests,
         \/ RouteRequest(r) \/ ServeInventory(r) \/ AcceptMessage(r)
         \/ ServePurchase(r)
  PROVE  TypeOK' /\ IInv'
<1> DEFINE t == Tokens(r).delegation
<1>0. /\ requests[r].pc \in {"route", "serve"} /\ r \notin DOMAIN orders
      /\ UNCHANGED <<orders, key, now>>
  BY NotYet DEF RouteRequest, ServeInventory, AcceptMessage, ServePurchase
<1>1. /\ Holds(r, "delegation") /\ t.aud = Audience(r) /\ t.scope = Scope(r)
      /\ t.act # <<>> /\ Head(t.act) = Agent(r)
  BY <1>0 DEF IInv, RequestInv, TokensInv, Delegated
<1>2. ASSUME NEW s \in Services, NEW v \in Verified(s, t),
             ~ Good(v.held, t, Audience(r)), Deny(r, s, v.held)
      PROVE  TypeOK' /\ IInv'
  <2>1. "delegation" \in Holders
    BY DEF Holders
  <2> QED
    BY <1>0, <1>1, <1>2, <2>1, Denial DEF Verified
<1>3. ASSUME NEW pc \in {"serve", "item", "create", "read"}, Goto(r, pc),
             pc = "serve" => requests[r].pc = "route",
             pc = "read" => Kind[r] # "ask"
      PROVE  TypeOK' /\ IInv'
  <2>1. pc \in PCs \ Ends
    BY DEF PCs, Ends
  <2> QED
    BY <1>0, <1>3, <2>1, Onwards DEF Asking, Delegating, Delegated, Ends,
       OnlyOrderOf, SameOrder
<1>4. CASE RouteRequest(r)
  <2>1. requests[r].pc = "route"
    BY <1>4 DEF RouteRequest
  <2>2. \E p \in GatewayRoutes : /\ p.actor = Head(t.act)
                                 /\ p.target = Audience(r)
                                 /\ p.scope = t.scope
    <3> DEFINE subject == [aud |-> Agent(r), scope |-> SubjectScope(r)]
    <3>1. subject.aud = Agent(r) /\ subject.scope = SubjectScope(r)
      OBVIOUS
    <3> HIDE DEF subject
    <3> QED
      BY <1>1, <3>1, LegAllowed
  <2>3. PICK v \in Verified("agent-gateway", t) :
          IF Good(v.held, t, Audience(r))
          THEN Goto(r, "serve") ELSE Deny(r, "agent-gateway", v.held)
    BY <1>1, <1>4, <2>2 DEF RouteRequest
  <2> QED
    BY <1>2, <1>3, <2>1, <2>3 DEF Services
<1>5. CASE ServeInventory(r)
  <2>1. requests[r].hop = "inventory"
    BY <1>5 DEF ServeInventory
  <2>2. Agent(r) = "inventory-agent" /\ Scope(r) = "inventory.read"
    BY <2>1 DEF Agent, Scope
  <2>3. PICK v \in Verified("zoho-inventory-mcp", t) :
          IF Good(v.held, t, Audience(r))
          THEN Goto(r, "item") ELSE Deny(r, "zoho-inventory-mcp", v.held)
    BY <1>1, <1>5, <2>2 DEF ServeInventory, Served
  <2> QED
    BY <1>2, <1>3, <2>3 DEF Services
<1>6. CASE AcceptMessage(r)
  <2>1. requests[r].hop = "a2a"
    BY <1>6 DEF AcceptMessage
  <2>2. /\ Audience(r) = "procurement-agent"
        /\ Scope(r) = IF Kind[r] = "ask" THEN "purchase.request" ELSE "purchase.status"
    BY <2>1 DEF Audience, Scope
  <2>3. PICK v \in Verified("procurement-agent", t) :
          IF Good(v.held, t, Audience(r))
          THEN Begin(r, "connector") ELSE Deny(r, "procurement-agent", v.held)
    BY <1>1, <1>6, <2>2 DEF AcceptMessage
  <2>4. CASE Begin(r, "connector")
    BY <1>0, <1>1, <2>2, <2>4, Beginning DEF Hops, Ends
  <2> QED
    BY <1>2, <2>3, <2>4 DEF Services
<1>7. CASE ServePurchase(r)
  <2>1. requests[r].hop = "connector"
    BY <1>7 DEF ServePurchase
  <2>2. /\ Agent(r) = "procurement-agent"
        /\ Scope(r) = IF Kind[r] = "ask" THEN "purchaseorder.create"
                                         ELSE "purchaseorder.read"
    BY <2>1 DEF Agent, Scope
  <2>3. PICK v \in Verified("zoho-procurement-mcp", t) :
          IF Good(v.held, t, Audience(r))
          THEN Goto(r, IF Kind[r] = "ask" THEN "create" ELSE "read")
          ELSE Deny(r, "zoho-procurement-mcp", v.held)
    BY <1>1, <1>7, <2>2 DEF ServePurchase, Served
  <2> QED
    BY <1>2, <1>3, <2>3 DEF Services
<1> QED
  BY <1>4, <1>5, <1>6, <1>7

\* Zoho: the stock that is read, the order that is created, submitted, read.
LEMMA ZohoStep ==
  ASSUME TypeOK, IInv, NEW r \in Requests,
         \/ ReadItem(r) \/ ReadOrder(r)
         \/ \E late \in BOOLEAN : CreateOrder(r, late) \/ SubmitOrder(r, late)
  PROVE  TypeOK' /\ IInv'
<1>1. CASE ReadItem(r)
  <2>1. requests[r].pc = "item" /\ UNCHANGED <<orders, key, now>>
        /\ r \notin DOMAIN orders
    BY <1>1, NotYet DEF ReadItem
  <2>2. CASE Short
    BY <1>1, <2>1, <2>2, Beginning DEF ReadItem, Hops, Ends
  <2>3. CASE ~ Short
    BY <1>1, <2>1, <2>3, Ending DEF ReadItem, OnlyOrderOf, SameOrder
  <2> QED
    BY <2>2, <2>3
<1>2. CASE ReadOrder(r)
  <2>1. requests[r].pc = "read" /\ UNCHANGED <<orders, key, now>>
    BY <1>2 DEF ReadOrder
  <2>2. Kind[r] # "ask"
    BY <2>1 DEF IInv, RequestInv, OutcomeInv
  <2> QED
    BY <1>2, <2>1, <2>2, Ending DEF ReadOrder, OnlyOrderOf, SameOrder
<1>3. ASSUME NEW late \in BOOLEAN, CreateOrder(r, late)
      PROVE  TypeOK' /\ IInv'
  <2>1. /\ requests[r].pc = "create" /\ UNCHANGED <<key, now>>
        /\ r \in DOMAIN orders' /\ OnlyOrderOf(r)
    BY <1>3 DEF CreateOrder, OnlyOrderOf, SameOrder
  <2>2. CASE Goto(r, "failed")
    BY <2>1, <2>2, Ending
  <2>3. CASE Goto(r, "submit")
    <3>1. "submit" \in PCs \ Ends
      BY DEF PCs, Ends
    <3> QED
      BY <2>1, <2>3, <3>1, Onwards DEF Asking, Delegating, Delegated, Ends
  <2> QED
    BY <1>3, <2>2, <2>3 DEF CreateOrder
<1>4. ASSUME NEW late \in BOOLEAN, SubmitOrder(r, late)
      PROVE  TypeOK' /\ IInv'
  <2>1. /\ requests[r].pc = "submit" /\ UNCHANGED <<key, now>>
        /\ orders' = [orders EXCEPT ![r] = "pending_approval"]
    BY <1>4 DEF SubmitOrder
  <2>2. r \in DOMAIN orders
    BY <2>1 DEF IInv, RequestInv, OutcomeInv
  <2>3. /\ r \in DOMAIN orders' /\ orders'[r] = "pending_approval"
        /\ OnlyOrderOf(r)
    BY <2>1, <2>2 DEF OnlyOrderOf, SameOrder
  <2>4. Goto(r, "failed") \/ Goto(r, "answered")
    BY <1>4 DEF SubmitOrder
  <2> QED
    BY <2>1, <2>3, <2>4, Ending
<1> QED
  BY <1>1, <1>2, <1>3, <1>4

-----------------------------------------------------------------------------
(* The invariant, and what follows from it. *)

\* No request has been made.
LEMMA InvInit == Init => TypeOK /\ IInv
<1> SUFFICES ASSUME Init PROVE TypeOK /\ IInv
  OBVIOUS
<1>1. NoTokens \in [Holders -> Token \cup {None}]
  BY DEF NoTokens
<1>2. \A r \in Requests : /\ requests[r] \in Request
                          /\ requests[r].pc = "start"
                          /\ requests[r].hop = "inventory"
  BY <1>1 DEF Init, Request, PCs, Hops
<1>3. requests = [r \in Requests |-> requests[r]]
  BY DEF Init
<1>4. TypeOK
  <2>1. key \in Int /\ now \in Int
    BY DEF Init
  <2> QED
    BY <1>2, <1>3, <2>1 DEF TypeOK
<1>5. DOMAIN orders = {}
  BY DEF Init
<1>6. IInv
  BY <1>2, <1>5 DEF IInv, RequestInv, TokensInv, OutcomeInv, Delegating, Delegated
<1> QED
  BY <1>4, <1>6

\* Every step, and every stutter, keeps the types and the invariant.
LEMMA InvNext == TypeOK /\ IInv /\ [Next]_vars => (TypeOK /\ IInv)'
<1> SUFFICES ASSUME TypeOK, IInv, [Next]_vars PROVE TypeOK' /\ IInv'
  OBVIOUS
<1>1. ASSUME Onward, UNCHANGED <<requests, orders>>
      PROVE  TypeOK' /\ IInv'
  <2>1. TypeOK'
    BY <1>1 DEF TypeOK, Onward
  <2>2. \A r \in Requests : RequestInv(r)'
    BY <1>1, RequestStays DEF IInv
  <2> QED
    BY <2>1, <2>2 DEF IInv
<1>2. CASE UNCHANGED vars \/ RestartBroker \/ Tick
  BY <1>1, <1>2 DEF vars, RestartBroker, Tick, Onward, TypeOK
<1>3. ASSUME NEW r \in Requests, Unavailable(r)
      PROVE  TypeOK' /\ IInv'
  BY <1>3, Ending DEF Unavailable, OnlyOrderOf, SameOrder
<1>4. ASSUME NEW r \in Requests, Serve(r)
      PROVE  TypeOK' /\ IInv'
  BY <1>4, CredentialStep, RegistryStep, ExchangeStep, ServiceStep, ZohoStep DEF Serve
<1> QED
  BY <1>2, <1>3, <1>4, UserStep DEF Next

\* The strengthening that carries everything below: at every statement a request
\* has the tokens that the next check wants.
THEOREM Inductive == Spec => [](TypeOK /\ IInv)
  BY InvInit, InvNext, PTL DEF Spec

\* When the policies agree with the agents, a refusal is for an old key, an old
\* token or for want of the key, and only the services whose threads share a copy
\* of it can hold a stale one against a request (decode_token and its callers).
THEOREM RefusalsHaveACause == Spec => []RefusedOnlyForCause
<1>1. IInv => RefusedOnlyForCause
  <2> SUFFICES ASSUME IInv, NEW r \in Requests, requests[r].pc = "refused",
                      requests[r].refusal \notin NoKey
               PROVE  \E t \in Carried(r) : t.key < key \/ t.exp <= now
    BY DEF RefusedOnlyForCause
  <2>1. PICK h \in Holders : /\ Tokens(r)[h] \in Token
                             /\ \/ Tokens(r)[h].key < key
                                \/ Tokens(r)[h].exp <= now
    BY DEF IInv, RequestInv, OutcomeInv, Cause, BadToken
  <2>2. Tokens(r)[h] \in Carried(r)
    BY <2>1, NoneAssumption DEF Carried, Tokens
  <2> QED
    BY <2>1, <2>2
<1> QED
  BY <1>1, Inductive, PTL

\* All the checks come before the order (procurement_mcp_app.py).
THEOREM RefusedBeforeOrdering == Spec => []RefusalOrdersNothing
<1>1. IInv => RefusalOrdersNothing
  BY DEF IInv, RequestInv, OutcomeInv, RefusalOrdersNothing
<1> QED
  BY <1>1, Inductive, PTL

\* The answer that approval is pending follows the submission (agent_a_app.py,
\* agent_b_app.py, procurement_mcp_app.py).
THEOREM PendingWhenAnswered == Spec => []AnsweredIsPending
<1>1. IInv => AnsweredIsPending
  BY DEF IInv, RequestInv, OutcomeInv, AnsweredIsPending
<1> QED
  BY <1>1, Inductive, PTL
=============================================================================
