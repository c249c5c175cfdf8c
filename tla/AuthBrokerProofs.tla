--------------------------- MODULE AuthBrokerProofs ---------------------------
(***************************************************************************)
(* Proofs that the tokens the broker signs form narrowing chains, for      *)
(* every configuration that PolicyAssumption and SeparateAudiences admit,  *)
(* and of the one chain that leads to an order under config/policies.json. *)
(***************************************************************************)
EXTENDS AuthBrokerProperties, DemoPolicies, SequenceTheorems, TLAPS

\* An actor put in front of a chain (_extend_actor_chain).
LEMMA PutFirst ==
  ASSUME NEW S, NEW a \in S, NEW s \in Seq(S)
  PROVE  /\ <<a>> \o s \in Seq(S)
         /\ <<a>> \o s # <<>>
         /\ Head(<<a>> \o s) = a
         /\ Tail(<<a>> \o s) = s
         /\ \A i \in DOMAIN (<<a>> \o s) :
              (<<a>> \o s)[i] = a \/ \E j \in DOMAIN s : (<<a>> \o s)[i] = s[j]
<1> DEFINE t == <<a>> \o s
<1>1. /\ <<a>> \in Seq(S) /\ Len(<<a>>) = 1 /\ <<a>>[1] = a
      /\ Len(s) \in Nat
  BY LenProperties
<1>2. /\ t \in Seq(S)
      /\ Len(t) = 1 + Len(s)
      /\ \A i \in 1 .. 1 + Len(s) : t[i] = IF i <= 1 THEN <<a>>[i] ELSE s[i - 1]
  BY <1>1, ConcatProperties
<1>3. t # <<>>
  BY <1>1, <1>2, EmptySeq
<1>4. t[1] = a /\ \A i \in 1 .. Len(s) : t[i + 1] = s[i]
  BY <1>1, <1>2
<1>5. Head(t) = a
  BY <1>2, <1>4
<1>6. Tail(t) = s
  <2>1. /\ Tail(t) \in Seq(S)
        /\ Len(Tail(t)) = Len(t) - 1
        /\ \A i \in 1 .. Len(Tail(t)) : Tail(t)[i] = t[i + 1]
    BY <1>2, <1>3, HeadTailProperties
  <2>2. Len(Tail(t)) = Len(s)
    BY <1>1, <1>2, <2>1
  <2>3. \A i \in 1 .. Len(Tail(t)) : Tail(t)[i] = s[i]
    BY <1>4, <2>1, <2>2
  <2> QED
    BY <2>1, <2>2, <2>3, SeqEqual
<1>7. ASSUME NEW i \in DOMAIN t
      PROVE  t[i] = a \/ \E j \in DOMAIN s : t[i] = s[j]
  <2>1. i \in 1 .. 1 + Len(s) /\ DOMAIN s = 1 .. Len(s)
    BY <1>2, LenProperties
  <2>2. CASE i = 1
    BY <1>4, <2>2
  <2>3. CASE i # 1
    <3>1. i - 1 \in 1 .. Len(s) /\ i = (i - 1) + 1
      BY <1>1, <2>1, <2>3
    <3> QED
      BY <1>4, <2>1, <3>1
  <2> QED
    BY <2>2, <2>3
<1> QED
  BY <1>2, <1>3, <1>5, <1>6, <1>7

\* The expiry of a delegation: what was asked, or what remains (sign).
LEMMA SmallerIsLess ==
  ASSUME NEW m \in Int, NEW n \in Int
  PROVE  Smaller(m, n) \in Int /\ Smaller(m, n) <= m /\ Smaller(m, n) <= n
BY DEF Smaller

\* Tokens are never taken back, so a request that is well formed stays so.
LEMMA RequestsStay ==
  ASSUME tokens \subseteq tokens'
  PROVE  Request \subseteq Request'
BY DEF Request, Clock

\* What is known of a request for a delegation when it is served.
LEMMA Evidence ==
  ASSUME TypeOK, IInv, NEW c \in Clients,
         inflight[c] # None, inflight[c].kind = Delegated
  PROVE  /\ inflight[c] \in Request
         /\ inflight[c].subjectToken \in tokens
         /\ inflight[c].subjectToken \in Token
         /\ inflight[c].subjectToken.key = key
         /\ Delegated \in MayMint[c]
         /\ Actor(c, inflight[c].actorToken) \in Names
         /\ MayExtend(Actor(c, inflight[c].actorToken),
                      inflight[c].subjectToken, inflight[c].aud, inflight[c].scopes)
         /\ \/ DelegationActor[c] = Actor(c, inflight[c].actorToken)
            \/ \E a \in tokens : /\ a.kind = "agent_credential"
                                 /\ a.aud = "sts"
                                 /\ a.sub = Actor(c, inflight[c].actorToken)
<1> DEFINE q == inflight[c]
<1>1. q \in Request
  BY DEF TypeOK
<1>2. RequestOK(c, q)
  BY DEF IInv, InFlightInv
<1>3. /\ q.subjectToken \in tokens /\ q.subjectToken.key = key
      /\ Delegated \in MayMint[c]
      /\ Identified(c, q.actorToken)
      /\ MayExtend(Actor(c, q.actorToken), q.subjectToken, q.aud, q.scopes)
  BY <1>2 DEF RequestOK
<1>4. q.subjectToken \in Token
  BY <1>3 DEF TypeOK
<1>5. CASE DelegationActor[c] # None
  <2>1. Actor(c, q.actorToken) = DelegationActor[c]
    BY <1>5 DEF Actor
  <2>2. DelegationActor[c] \in Names
    BY <1>5, PolicyAssumption
  <2> QED
    BY <1>1, <1>3, <1>4, <2>1, <2>2
<1>6. CASE DelegationActor[c] = None
  <2>1. /\ q.actorToken # None
        /\ q.actorToken.aud = "sts" /\ q.actorToken.kind = "agent_credential"
    BY <1>3, <1>6 DEF Identified
  <2>2. q.actorToken \in tokens
    BY <1>1, <2>1 DEF Request
  <2>3. q.actorToken.sub \in Names
    BY <2>2 DEF TypeOK, Token
  <2>4. Actor(c, q.actorToken) = q.actorToken.sub
    BY <1>6 DEF Actor
  <2> QED
    BY <1>1, <1>3, <1>4, <2>1, <2>2, <2>3, <2>4
<1> QED
  BY <1>5, <1>6

\* The token that serves it (sign, auth_broker_app.py:378-417).
LEMMA NewDelegation ==
  ASSUME TypeOK, IInv, NEW c \in Clients,
         inflight[c] # None, inflight[c].kind = Delegated,
         NEW t, t = DelegatedToken(c, inflight[c]),
         NEW p, p = inflight[c].subjectToken
  PROVE  /\ t \in Token /\ t.kind = Delegated
         /\ t.act # <<>>
         /\ \E r \in TokenExchange : ExtendsBy(t, p, r)
         /\ \A i \in DOMAIN t.act : \/ t.act[i] = Actor(c, inflight[c].actorToken)
                                    \/ \E j \in DOMAIN p.act : t.act[i] = p.act[j]
<1> DEFINE q == inflight[c]
           a == Actor(c, q.actorToken)
<1>1. /\ q \in Request /\ p \in Token /\ p.key = key
      /\ a \in Names /\ MayExtend(a, p, q.aud, q.scopes)
  BY Evidence
<1>2. /\ q.at \in Clock /\ q.lifetime \in Int
      /\ q.aud \in Audiences /\ q.scopes \subseteq Scopes
      /\ p.sub \in Names /\ p.exp \in Int /\ p.act \in Seq(Names)
      /\ q.at \in Int
  BY <1>1 DEF Request, Token, Clock
<1>3. /\ t.kind = Delegated /\ t.sub = p.sub /\ t.aud = q.aud
      /\ t.scopes = q.scopes /\ t.key = key
      /\ t.exp = q.at + Smaller(q.lifetime, p.exp - q.at)
      /\ t.act = <<a>> \o p.act
  BY DEF DelegatedToken
<1>4. t.exp \in Int /\ t.exp <= p.exp
  <2> DEFINE rest == p.exp - q.at
             given == Smaller(q.lifetime, rest)
  <2>1. rest \in Int /\ q.at + rest = p.exp
    BY <1>2
  <2>2. given \in Int /\ given <= rest
    <3> HIDE DEF rest
    <3> QED
      BY <1>2, <2>1, SmallerIsLess
  <2>3. t.exp = q.at + given
    BY <1>3
  <2> HIDE DEF given, rest
  <2> QED
    BY <1>2, <2>1, <2>2, <2>3
<1>5. /\ t.act \in Seq(Names) /\ t.act # <<>>
      /\ Head(t.act) = a /\ Tail(t.act) = p.act
      /\ \A i \in DOMAIN t.act : \/ t.act[i] = a
                                 \/ \E j \in DOMAIN p.act : t.act[i] = p.act[j]
  <2> DEFINE chain == p.act
             longer == <<a>> \o chain
  <2>1. a \in Names /\ chain \in Seq(Names)
    BY <1>1, <1>2
  <2>2. longer = t.act
    BY <1>3
  <2>3. /\ longer \in Seq(Names) /\ longer # <<>>
        /\ Head(longer) = a /\ Tail(longer) = chain
        /\ \A i \in DOMAIN longer : \/ longer[i] = a
                                    \/ \E j \in DOMAIN chain : longer[i] = chain[j]
    <3> HIDE DEF a, chain
    <3> QED
      BY <2>1, PutFirst
  <2> HIDE DEF longer
  <2> QED
    BY <2>2, <2>3
<1>6. t \in Token
  <2>1. t.kind \in Kinds /\ t.key \in 0 .. MaxKey
    BY <1>3 DEF Kinds, TypeOK
  <2>2. t = [kind |-> t.kind, sub |-> p.sub, aud |-> q.aud, scopes |-> q.scopes,
             iat |-> q.at, exp |-> t.exp, act |-> t.act, key |-> t.key]
    BY DEF DelegatedToken
  <2>3. t.exp \in Int /\ t.act \in Seq(Names)
    BY <1>4, <1>5
  <2> QED
    BY <1>2, <2>1, <2>2, <2>3 DEF Token
<1>7. PICK r \in TokenExchange : /\ r.actor = a
                                 /\ r.subjectAudience = p.aud
                                 /\ r.subjectScope \in p.scopes
                                 /\ r.targetAudience = q.aud
                                 /\ q.scopes = {r.outputScope}
  BY <1>1 DEF MayExtend
<1>8. ExtendsBy(t, p, r)
  BY <1>1, <1>3, <1>4, <1>5, <1>7 DEF ExtendsBy
<1> QED
  BY <1>3, <1>5, <1>6, <1>8

\* A token that starts a chain (sign, auth_broker_app.py:386-415).
LEMMA NewOrigin ==
  ASSUME TypeOK, IInv, NEW c \in Clients,
         inflight[c] # None, inflight[c].kind \in Origins,
         NEW t, t = OriginToken(inflight[c])
  PROVE  /\ t \in Token /\ t.kind \in Origins /\ t.kind # Delegated
         /\ t.act = <<>>
         /\ t.kind = "agent_credential" => CredentialAudience(t.aud)
<1> DEFINE q == inflight[c]
<1>1. q \in Request /\ RequestOK(c, q)
  BY DEF TypeOK, IInv, InFlightInv
<1>2. /\ q.at \in Clock /\ q.at \in Int /\ q.lifetime \in Int
      /\ q.aud \in Audiences /\ q.scopes \subseteq Scopes
  BY <1>1 DEF Request, Clock
<1>3. q.subject \in Names
  BY <1>1 DEF RequestOK
<1>4. q.kind = "agent_credential" => CredentialAudience(q.aud)
  BY <1>1 DEF RequestOK
<1>5. q.kind \in Kinds /\ q.kind # Delegated /\ <<>> \in Seq(Names) /\ key \in 0 .. MaxKey
  BY DEF Kinds, Origins, Delegated, TypeOK
<1>6. t \in Token
  <2>1. q.at + q.lifetime \in Int
    BY <1>2
  <2> QED
    BY <1>2, <1>3, <1>5, <2>1 DEF OriginToken, Token
<1> QED
  BY <1>4, <1>5, <1>6 DEF OriginToken

\* Both kinds of invariant hold at the start.
LEMMA InitOK == Init => TypeOK /\ IInv
<1> SUFFICES ASSUME Init
             PROVE  TypeOK /\ IInv
  OBVIOUS
<1>1. TypeOK
  BY PolicyAssumption DEF Init, TypeOK, Clock
<1>2. InFlightInv
  BY DEF Init, InFlightInv
<1>3. OriginsInv /\ DelegationIsGranted /\ NeverOutlives /\ ActorsAuthenticated
  BY DEF Init, OriginsInv, DelegationIsGranted, NeverOutlives, ActorsAuthenticated
<1> QED
  BY <1>1, <1>2, <1>3 DEF IInv

\* What the invariant says of tokens survives a step that signs nothing.
LEMMA NothingSigned ==
  ASSUME OriginsInv, DelegationIsGranted, NeverOutlives, ActorsAuthenticated,
         UNCHANGED tokens
  PROVE  OriginsInv' /\ DelegationIsGranted' /\ NeverOutlives' /\ ActorsAuthenticated'
<1>1. OriginsInv'
  BY DEF OriginsInv
<1>2. DelegationIsGranted'
  BY DEF DelegationIsGranted
<1>3. NeverOutlives'
  BY DEF NeverOutlives
<1>4. ActorsAuthenticated'
  BY DEF ActorsAuthenticated
<1> QED
  BY <1>1, <1>2, <1>3, <1>4

\* The other requests are as they were when one has been answered.
LEMMA Answered ==
  ASSUME TypeOK, InFlightInv, NEW c \in Clients, UNCHANGED <<key, now>>,
         tokens \subseteq tokens', tokens' \subseteq Token,
         inflight' = [inflight EXCEPT ![c] = None]
  PROVE  TypeOK' /\ InFlightInv'
<1>1. Request \subseteq Request'
  BY RequestsStay
<1>2. \A d \in Clients : inflight'[d] = IF d = c THEN None ELSE inflight[d]
  BY DEF TypeOK
<1>3. inflight' \in [Clients -> Request' \cup {None}]
  BY <1>1 DEF TypeOK
<1>4. Token' = Token
  BY DEF Token
<1>5. TypeOK'
  BY <1>3, <1>4 DEF TypeOK
<1>6. ASSUME NEW d \in Clients, inflight'[d] # None
      PROVE  RequestOK(d, inflight[d])'
  <2>1. d # c /\ inflight'[d] = inflight[d] /\ inflight[d] # None
    BY <1>2, <1>6
  <2>2. RequestOK(d, inflight[d])
    BY <2>1 DEF InFlightInv
  <2> QED
    BY <2>1, <2>2 DEF RequestOK, Identified
<1>7. InFlightInv'
  BY <1>6 DEF InFlightInv
<1> QED
  BY <1>5, <1>7

\* A new request does not disturb the others.
LEMMA Received ==
  ASSUME TypeOK, InFlightInv, NEW c \in Clients, UNCHANGED <<tokens, key, now>>,
         NEW q \in Request, RequestOK(c, q),
         inflight' = [inflight EXCEPT ![c] = q]
  PROVE  TypeOK' /\ InFlightInv'
<1>1. \A d \in Clients : inflight'[d] = IF d = c THEN q ELSE inflight[d]
  BY DEF TypeOK
<1>2. Request' = Request /\ Token' = Token
  BY DEF Request, Token
<1>3. TypeOK'
  BY <1>2 DEF TypeOK
<1>4. ASSUME NEW d \in Clients, inflight'[d] # None
      PROVE  RequestOK(d, inflight[d])'
  <2>1. RequestOK(d, inflight'[d])
    BY <1>1, <1>4 DEF InFlightInv
  <2> QED
    BY <2>1 DEF RequestOK, Identified
<1>5. InFlightInv'
  BY <1>4 DEF InFlightInv
<1> QED
  BY <1>3, <1>5
\* A request for a sign-in or a credential (_authorize_mint).
LEMMA RequestOriginStep ==
  ASSUME TypeOK, IInv, NEW c \in Clients, RequestOrigin(c)
  PROVE  TypeOK' /\ IInv'
<1>1. PICK kind \in Origins, aud \in Audiences, scopes \in Asked,
           lifetime \in Lifetimes, subject \in Names :
        /\ Mintable(c, kind, aud, scopes, lifetime)
        /\ inflight' = [inflight EXCEPT ![c] =
             [at |-> now, kind |-> kind, aud |-> aud, scopes |-> scopes,
              lifetime |-> lifetime, subject |-> subject,
              subjectToken |-> None, actorToken |-> None]]
  BY DEF RequestOrigin
<1> DEFINE q == [at |-> now, kind |-> kind, aud |-> aud, scopes |-> scopes,
                 lifetime |-> lifetime, subject |-> subject,
                 subjectToken |-> None, actorToken |-> None]
<1>2. UNCHANGED <<tokens, key, now>>
  BY DEF RequestOrigin
<1>3. q \in Request
  <2>1. /\ now \in Clock /\ kind \in Kinds /\ scopes \in SUBSET Scopes
        /\ lifetime \in Int
    BY PolicyAssumption DEF TypeOK, Kinds
  <2> QED
    BY <2>1 DEF Request
<1>4. kind = "agent_credential" => CredentialAudience(aud)
  BY <1>1 DEF Mintable, CredentialAudience
<1>5. RequestOK(c, q)
  BY <1>4 DEF RequestOK, Origins, Delegated
<1>6. TypeOK' /\ InFlightInv'
  <2> HIDE DEF q
  <2> QED
    BY <1>1, <1>2, <1>3, <1>5, Received DEF IInv, q
<1> QED
  BY <1>2, <1>6, NothingSigned DEF IInv

\* A request to extend a token (_derive_delegation, _authorize_delegation).
LEMMA RequestDelegationStep ==
  ASSUME TypeOK, IInv, NEW c \in Clients, RequestDelegation(c)
  PROVE  TypeOK' /\ IInv'
<1>1. PICK aud \in Audiences, scopes \in Asked, lifetime \in Lifetimes,
           parent \in tokens, actorToken \in tokens \cup {None} :
        /\ Mintable(c, Delegated, aud, scopes, lifetime)
        /\ parent.key = key
        /\ Identified(c, actorToken)
        /\ MayExtend(Actor(c, actorToken), parent, aud, scopes)
        /\ inflight' = [inflight EXCEPT ![c] =
             [at |-> now, kind |-> Delegated, aud |-> aud,
              scopes |-> scopes, lifetime |-> lifetime, subject |-> None,
              subjectToken |-> parent, actorToken |-> actorToken]]
  BY DEF RequestDelegation
<1> DEFINE q == [at |-> now, kind |-> Delegated, aud |-> aud,
                 scopes |-> scopes, lifetime |-> lifetime, subject |-> None,
                 subjectToken |-> parent, actorToken |-> actorToken]
<1>2. UNCHANGED <<tokens, key, now>>
  BY DEF RequestDelegation
<1>3. q \in Request
  <2>1. /\ now \in Clock /\ Delegated \in Kinds /\ scopes \in SUBSET Scopes
        /\ lifetime \in Int
    BY PolicyAssumption DEF TypeOK, Kinds
  <2> QED
    BY <2>1 DEF Request
<1>4. Delegated \in MayMint[c]
  BY <1>1 DEF Mintable
<1>5. RequestOK(c, q)
  BY <1>1, <1>4 DEF RequestOK, Origins, Delegated
<1>6. TypeOK' /\ InFlightInv'
  <2> HIDE DEF q
  <2> QED
    BY <1>1, <1>2, <1>3, <1>5, Received DEF IInv, q
<1> QED
  BY <1>2, <1>6, NothingSigned DEF IInv

\* The broker signs a sign-in or a credential.
LEMMA SignOriginStep ==
  ASSUME TypeOK, IInv, NEW c \in Clients, SignOrigin(c)
  PROVE  TypeOK' /\ IInv'
<1> DEFINE t == OriginToken(inflight[c])
<1>1. /\ inflight[c] # None /\ inflight[c].kind \in Origins
      /\ tokens' = tokens \cup {t}
      /\ inflight' = [inflight EXCEPT ![c] = None]
      /\ UNCHANGED <<key, now>>
  BY DEF SignOrigin
<1>2. /\ t \in Token /\ t.kind # Delegated /\ t.act = <<>>
      /\ t.kind = "agent_credential" => CredentialAudience(t.aud)
  BY <1>1, NewOrigin
<1> HIDE DEF t
<1>3. TypeOK' /\ InFlightInv'
  BY <1>1, <1>2, Answered DEF IInv, TypeOK
<1>4. OriginsInv'
  BY <1>1, <1>2 DEF IInv, OriginsInv
<1>5. DelegationIsGranted'
  BY <1>1, <1>2 DEF IInv, DelegationIsGranted
<1>6. NeverOutlives'
  BY <1>1, <1>2 DEF IInv, NeverOutlives
<1>7. ActorsAuthenticated'
  <2>1. DOMAIN t.act = {}
    BY <1>2
  <2> QED
    BY <1>1, <2>1 DEF IInv, ActorsAuthenticated
<1> QED
  BY <1>3, <1>4, <1>5, <1>6, <1>7 DEF IInv

\* The token that is extended comes from a sign-in that lasts at least as long:
\* nothing extends a credential.
LEMMA FromSignIn ==
  ASSUME TypeOK, IInv, NEW p \in tokens, NEW r \in TokenExchange,
         r.subjectAudience = p.aud
  PROVE  \E u \in tokens : /\ u.kind = "user_access_token"
                           /\ u.sub = p.sub
                           /\ p.exp <= u.exp
                           /\ u.key = p.key
<1>1. p.kind # "agent_credential"
  BY SeparateAudiences DEF IInv, OriginsInv, CredentialAudience
<1>2. p \in Token
  BY DEF TypeOK
<1>3. p.kind = Delegated \/ p.kind = "user_access_token"
  BY <1>1, <1>2 DEF Token, Kinds, Origins
<1>4. CASE p.kind = Delegated
  BY <1>4 DEF IInv, NeverOutlives
<1>5. CASE p.kind = "user_access_token"
  <2>1. p.exp <= p.exp
    BY <1>2 DEF Token
  <2> QED
    BY <1>5, <2>1
<1> QED
  BY <1>3, <1>4, <1>5
\* The broker signs a delegation, or refuses because its evidence has expired.
LEMMA SignDelegatedStep ==
  ASSUME TypeOK, IInv, NEW c \in Clients, SignDelegated(c)
  PROVE  TypeOK' /\ IInv'
<1> DEFINE q == inflight[c]
           a == Actor(c, q.actorToken)
<1>1. /\ q # None /\ q.kind = Delegated
      /\ tokens' = tokens \cup {DelegatedToken(c, q)} \/ tokens' = tokens
      /\ inflight' = [inflight EXCEPT ![c] = None]
      /\ UNCHANGED <<key, now>>
  BY DEF SignDelegated
<1>2. CASE tokens' = tokens
  <2>1. TypeOK' /\ InFlightInv'
    BY <1>1, <1>2, Answered DEF IInv, TypeOK
  <2> QED
    BY <1>2, <2>1, NothingSigned DEF IInv
<1>3. CASE tokens' = tokens \cup {DelegatedToken(c, q)}
  <2>1. PICK t : t = DelegatedToken(c, q)
    OBVIOUS
  <2>2. PICK p : p = q.subjectToken
    OBVIOUS
  <2>3. /\ t \in Token /\ t.kind = Delegated /\ t.act # <<>>
        /\ \E r \in TokenExchange : ExtendsBy(t, p, r)
        /\ \A i \in DOMAIN t.act : \/ t.act[i] = a
                                   \/ \E j \in DOMAIN p.act : t.act[i] = p.act[j]
    BY <1>1, <2>1, <2>2, NewDelegation
  <2>4. PICK r \in TokenExchange : ExtendsBy(t, p, r)
    BY <2>3
  <2>5. /\ p \in tokens /\ p \in Token /\ Delegated \in MayMint[c]
        /\ \/ DelegationActor[c] = a
           \/ \E b \in tokens : /\ b.kind = "agent_credential"
                                /\ b.aud = "sts" /\ b.sub = a
    BY <1>1, <2>2, Evidence
  <2> HIDE DEF a, q
  <2>6. tokens' = tokens \cup {t}
    BY <1>3, <2>1
  <2>7. TypeOK' /\ InFlightInv'
    BY <1>1, <2>3, <2>6, Answered DEF IInv, TypeOK
  <2>8. OriginsInv'
    BY <2>3, <2>6 DEF IInv, OriginsInv, Origins, Delegated
  <2>9. DelegationIsGranted'
    <3>1. \E s \in tokens', x \in TokenExchange : ExtendsBy(t, s, x)
      BY <2>4, <2>5, <2>6
    <3> QED
      BY <2>3, <2>6, <3>1 DEF IInv, DelegationIsGranted
  <2>10. NeverOutlives'
    <3>1. PICK u \in tokens : /\ u.kind = "user_access_token"
                              /\ u.sub = p.sub
                              /\ p.exp <= u.exp
                              /\ u.key = p.key
      BY <2>4, <2>5, FromSignIn DEF ExtendsBy
    <3>2. t.exp <= p.exp /\ t.sub = p.sub /\ t.key = p.key
      BY <2>4 DEF ExtendsBy
    <3>3. t.exp \in Int /\ p.exp \in Int /\ u.exp \in Int
      BY <2>3, <2>5, <3>1 DEF TypeOK, Token
    <3>4. t.exp <= u.exp
      BY <3>1, <3>2, <3>3
    <3> QED
      BY <2>6, <3>1, <3>2, <3>4 DEF IInv, NeverOutlives
  <2>11. ActorsAuthenticated'
    <3> DEFINE Known(x, T) ==
          \/ \E d \in Clients : /\ Delegated \in MayMint[d]
                                /\ DelegationActor[d] = x
          \/ \E b \in T : /\ b.kind = "agent_credential"
                          /\ b.aud = "sts" /\ b.sub = x
    <3>1. Known(a, tokens)
      BY <2>5
    <3>2. \A s \in tokens : \A i \in DOMAIN s.act : Known(s.act[i], tokens)
      BY DEF IInv, ActorsAuthenticated
    <3>3. \A i \in DOMAIN t.act : Known(t.act[i], tokens)
      BY <2>3, <2>5, <3>1, <3>2
    <3>4. \A x : Known(x, tokens) => Known(x, tokens')
      BY <2>6
    <3>5. \A s \in tokens' : \A i \in DOMAIN s.act : Known(s.act[i], tokens')
      <4> HIDE DEF Known
      <4> QED
        BY <2>6, <3>2, <3>3, <3>4
    <3> QED
      BY <3>5 DEF ActorsAuthenticated
  <2> QED
    BY <2>7, <2>8, <2>9, <2>10, <2>11 DEF IInv
<1> QED
  BY <1>1, <1>2, <1>3

\* A new process serves nothing yet.
LEMMA RestartStep ==
  ASSUME TypeOK, IInv, Restart
  PROVE  TypeOK' /\ IInv'
<1>1. /\ key' \in {key, key + 1} /\ key' <= MaxKey
      /\ inflight' = [c \in Clients |-> None]
      /\ UNCHANGED <<tokens, now>>
  BY DEF Restart
<1>2. key' \in 0 .. MaxKey
  BY <1>1, PolicyAssumption DEF TypeOK
<1>3. TypeOK'
  BY <1>1, <1>2 DEF TypeOK, Token
<1>4. InFlightInv'
  BY <1>1 DEF InFlightInv
<1> QED
  BY <1>1, <1>3, <1>4, NothingSigned DEF IInv

\* Nothing in the invariant names the time.
LEMMA TickStep ==
  ASSUME TypeOK, IInv, Tick
  PROVE  TypeOK' /\ IInv'
<1>1. now < MaxTime /\ now' = now + 1 /\ UNCHANGED <<tokens, inflight, key>>
  BY DEF Tick
<1>2. now' \in Clock
  BY <1>1, PolicyAssumption DEF TypeOK, Clock
<1>3. Request' = Request /\ Token' = Token
  BY <1>1 DEF Request, Token
<1>4. TypeOK'
  BY <1>1, <1>2, <1>3 DEF TypeOK
<1>5. InFlightInv'
  BY <1>1 DEF IInv, InFlightInv, RequestOK, Identified
<1> QED
  BY <1>1, <1>4, <1>5, NothingSigned DEF IInv

\* The actions, one by one.
LEMMA NextCases ==
  ASSUME [Next]_vars
  PROVE  \/ \E c \in Clients : \/ RequestOrigin(c) \/ RequestDelegation(c)
                               \/ SignOrigin(c) \/ SignDelegated(c)
         \/ Restart \/ Tick \/ UNCHANGED vars
BY DEF Next

\* The invariant is inductive.
THEOREM Inductive == Spec => [](TypeOK /\ IInv)
<1>1. TypeOK /\ IInv /\ [Next]_vars => (TypeOK /\ IInv)'
  <2> SUFFICES ASSUME TypeOK, IInv, [Next]_vars
               PROVE  TypeOK' /\ IInv'
    OBVIOUS
  <2>1. ASSUME NEW c \in Clients, RequestOrigin(c)
        PROVE  TypeOK' /\ IInv'
    BY <2>1, RequestOriginStep
  <2>2. ASSUME NEW c \in Clients, RequestDelegation(c)
        PROVE  TypeOK' /\ IInv'
    BY <2>2, RequestDelegationStep
  <2>3. ASSUME NEW c \in Clients, SignOrigin(c)
        PROVE  TypeOK' /\ IInv'
    BY <2>3, SignOriginStep
  <2>4. ASSUME NEW c \in Clients, SignDelegated(c)
        PROVE  TypeOK' /\ IInv'
    BY <2>4, SignDelegatedStep
  <2>5. CASE Restart
    BY <2>5, RestartStep
  <2>6. CASE Tick
    BY <2>6, TickStep
  <2>7. CASE UNCHANGED vars
    <3>1. UNCHANGED <<tokens, inflight, key, now>>
      BY <2>7 DEF vars
    <3>2. Request' = Request /\ Token' = Token
      BY <3>1 DEF Request, Token
    <3>3. TypeOK'
      BY <3>1, <3>2 DEF TypeOK
    <3>4. InFlightInv'
      BY <3>1 DEF IInv, InFlightInv, RequestOK, Identified
    <3> QED
      BY <3>1, <3>3, <3>4, NothingSigned DEF IInv
  <2> QED
    BY <2>1, <2>2, <2>3, <2>4, <2>5, <2>6, <2>7, NextCases
<1> QED
  BY InitOK, <1>1, PTL DEF Spec

\* Type correctness.
THEOREM TypeCorrect == Spec => []TypeOK
BY Inductive, PTL

\* Every delegation rests on a token that policy lets its latest actor extend.
THEOREM Grounded == Spec => []DelegationIsGranted
<1>1. IInv => DelegationIsGranted
  BY DEF IInv
<1> QED
  BY <1>1, Inductive, PTL

\* No delegation outlives the sign-in its chain started from.
THEOREM SignInBoundsLifetime == Spec => []NeverOutlives
<1>1. IInv => NeverOutlives
  BY DEF IInv
<1> QED
  BY <1>1, Inductive, PTL

\* Every actor in a chain authenticated to the broker.
THEOREM NoNamedActors == Spec => []ActorsAuthenticated
<1>1. IInv => ActorsAuthenticated
  BY DEF IInv
<1> QED
  BY <1>1, Inductive, PTL

\* What the broker signs is a chain of grants that only narrow (module Grant).
THEOREM Refinement == Spec => OnlyNarrows
<1>1. Init => Grants!Init
  BY DEF Init, Grants!Init, Granted
<1>2. TypeOK /\ IInv /\ [Next]_vars => [Grants!Next]_Granted
  <2> SUFFICES ASSUME TypeOK, IInv, [Next]_vars
               PROVE  Grants!Next \/ UNCHANGED Granted
    OBVIOUS
  <2>1. CASE UNCHANGED tokens
    BY <2>1 DEF Granted
  <2>2. ASSUME NEW c \in Clients, SignOrigin(c)
        PROVE  Grants!Start
    <3>1. PICK t : t = OriginToken(inflight[c])
      OBVIOUS
    <3>2. tokens' = tokens \cup {t} /\ t.act = <<>>
      BY <2>2, <3>1, NewOrigin DEF SignOrigin
    <3>3. Granted' = Granted \cup {AsGrant(t)} /\ AsGrant(t).actors = <<>>
      BY <3>2 DEF Granted, AsGrant
    <3> QED
      BY <3>3 DEF Grants!Start
  <2>3. ASSUME NEW c \in Clients, SignDelegated(c), tokens' # tokens
        PROVE  Grants!Extend
    <3>1. PICK t : t = DelegatedToken(c, inflight[c])
      OBVIOUS
    <3>2. PICK p : p = inflight[c].subjectToken
      OBVIOUS
    <3>3. /\ inflight[c] # None /\ inflight[c].kind = Delegated
          /\ tokens' = tokens \cup {t}
      BY <2>3, <3>1 DEF SignDelegated
    <3>4. /\ p \in tokens /\ t.act # <<>>
          /\ \E r \in TokenExchange : ExtendsBy(t, p, r)
      BY <3>1, <3>2, <3>3, Evidence, NewDelegation
    <3>5. Granted' = Granted \cup {AsGrant(t)} /\ AsGrant(p) \in Granted
      BY <3>3, <3>4 DEF Granted
    <3>6. /\ AsGrant(t).sub = AsGrant(p).sub
          /\ AsGrant(t).actors # <<>>
          /\ Tail(AsGrant(t).actors) = AsGrant(p).actors
          /\ AsGrant(t).until <= AsGrant(p).until
      BY <3>4 DEF AsGrant, ExtendsBy
    <3> QED
      BY <3>5, <3>6 DEF Grants!Extend
  <2>4. ASSUME NEW c \in Clients, RequestOrigin(c) \/ RequestDelegation(c)
        PROVE  UNCHANGED tokens
    BY <2>4 DEF RequestOrigin, RequestDelegation
  <2>5. Restart \/ Tick \/ UNCHANGED vars => UNCHANGED tokens
    BY DEF Restart, Tick, vars
  <2> QED
    BY <2>1, <2>2, <2>3, <2>4, <2>5, NextCases DEF Grants!Next
<1> QED
  BY <1>1, <1>2, Inductive, PTL DEF Spec, OnlyNarrows, Grants!Spec

-----------------------------------------------------------------------------
(* Under config/policies.json, for any clients and any bounds.               *)

\* The rules are those of the file, all or some of them.
Configured == TokenExchange \subseteq TheExchanges /\ TokenMinting \subseteq TheMintings

OriginScopes == {"assistant.inventory", "registry.read", "token.exchange"}

\* Nobody is given authority over purchases without extending a token.
StartScopesInv ==
  /\ \A t \in tokens : t.kind \in Origins => t.scopes \subseteq OriginScopes
  /\ \A c \in Clients :
       inflight[c] # None /\ inflight[c].kind \in Origins =>
         inflight[c].scopes \subseteq OriginScopes

\* The minting rules for sign-ins and credentials (policies.json, token_minting).
LEMMA MintedScopes ==
  ASSUME Configured, NEW c \in Clients, NEW kind \in Origins, NEW aud, NEW scopes,
         NEW lifetime, Mintable(c, kind, aud, scopes, lifetime)
  PROVE  scopes \subseteq OriginScopes
<1>1. PICK r \in TheMintings : r.kind = kind /\ scopes \subseteq r.scopes
  BY DEF Configured, Mintable
<1>2. r.kind \in {"user_access_token", "agent_credential"}
  BY <1>1 DEF Origins
<1>3. r.scopes \subseteq OriginScopes
  BY <1>2 DEF TheMintings, Minting, OriginScopes
<1> QED
  BY <1>1, <1>3

\* A delegation has a scope that a rule gives.
LEMMA StartScopesNext ==
  ASSUME TypeOK, Configured, StartScopesInv, [Next]_vars
  PROVE  StartScopesInv'
<1>1. ASSUME NEW c \in Clients, RequestOrigin(c) PROVE StartScopesInv'
  <2>1. PICK kind \in Origins, aud \in Audiences, scopes \in Asked,
             lifetime \in Lifetimes :
          /\ Mintable(c, kind, aud, scopes, lifetime)
          /\ \E q : /\ q.scopes = scopes
                   /\ inflight' = [inflight EXCEPT ![c] = q]
          /\ UNCHANGED tokens
    BY <1>1 DEF RequestOrigin
  <2>2. scopes \subseteq OriginScopes
    BY <2>1, MintedScopes
  <2>3. PICK q : q.scopes = scopes /\ inflight' = [inflight EXCEPT ![c] = q]
    BY <2>1
  <2> QED
    BY <2>1, <2>2, <2>3 DEF StartScopesInv, TypeOK
<1>2. ASSUME NEW c \in Clients, RequestDelegation(c) PROVE StartScopesInv'
  <2>1. PICK q : /\ q.kind = Delegated
                 /\ inflight' = [inflight EXCEPT ![c] = q]
                 /\ UNCHANGED tokens
    BY <1>2 DEF RequestDelegation
  <2> QED
    BY <2>1 DEF StartScopesInv, TypeOK, Origins, Delegated
<1>3. ASSUME NEW c \in Clients, SignOrigin(c) PROVE StartScopesInv'
  <2>1. PICK t : /\ t.scopes = inflight[c].scopes
                 /\ tokens' = tokens \cup {t}
    BY <1>3 DEF SignOrigin, OriginToken
  <2>2. /\ inflight[c] # None /\ inflight[c].kind \in Origins
        /\ inflight' = [inflight EXCEPT ![c] = None]
    BY <1>3 DEF SignOrigin
  <2> QED
    BY <2>1, <2>2 DEF StartScopesInv, TypeOK
<1>4. ASSUME NEW c \in Clients, SignDelegated(c) PROVE StartScopesInv'
  <2>1. PICK t : t.kind = Delegated /\ tokens' \subseteq tokens \cup {t}
    BY <1>4 DEF SignDelegated, DelegatedToken
  <2>2. inflight' = [inflight EXCEPT ![c] = None]
    BY <1>4 DEF SignDelegated
  <2> QED
    BY <2>1, <2>2 DEF StartScopesInv, TypeOK, Origins, Delegated
<1>5. CASE Restart
  BY <1>5 DEF Restart, StartScopesInv
<1>6. CASE Tick \/ UNCHANGED vars
  BY <1>6 DEF Tick, vars, StartScopesInv
<1> QED
  BY <1>1, <1>2, <1>3, <1>4, <1>5, <1>6, NextCases

\* A chain is its latest actor and the rest.
LEMMA Chain ==
  ASSUME NEW S, NEW s \in Seq(S), s # <<>>
  PROVE  /\ Tail(s) = <<>> => s = <<Head(s)>>
         /\ \A b : Tail(s) = <<b>> => s = <<Head(s), b>>
<1>1. PICK rest : rest = Tail(s)
  OBVIOUS
<1>2. /\ rest \in Seq(S) /\ Len(s) \in Nat /\ s[1] = Head(s)
      /\ Len(s) = Len(rest) + 1
      /\ \A i \in 1 .. Len(rest) : rest[i] = s[i + 1]
  BY <1>1, HeadTailProperties, LenProperties, EmptySeq
<1>3. CASE rest = <<>>
  <2>1. Len(rest) = 0
    BY <1>3, EmptySeq
  <2>2. Len(s) = 1
    BY <1>2, <2>1
  <2>3. PICK h : h = Head(s)
    OBVIOUS
  <2>4. h \in S /\ s[1] = h
    BY <1>2, <2>2, <2>3, ElementOfSeq
  <2>5. <<h>> \in Seq(S) /\ Len(<<h>>) = 1 /\ <<h>>[1] = h
    BY <2>4
  <2>6. \A i \in 1 .. 1 : <<h>>[i] = s[i]
    BY <2>4, <2>5
  <2>7. s = <<h>>
    BY <2>2, <2>5, <2>6, SeqEqual
  <2>8. \A b : <<b>> # rest
    BY <1>3
  <2> QED
    BY <1>1, <2>3, <2>7, <2>8
<1>4. ASSUME NEW b, rest = <<b>> PROVE s = <<Head(s), b>>
  <2>1. Len(rest) = 1 /\ rest[1] = b
    BY <1>4
  <2>2. Len(s) = 2 /\ s[2] = b
    BY <1>2, <2>1
  <2>3. PICK h : h = Head(s)
    OBVIOUS
  <2>4. b \in S /\ h \in S
    BY <1>2, <2>1, <2>2, <2>3
  <2>5. /\ <<h, b>> \in Seq(S) /\ Len(<<h, b>>) = 2
        /\ \A i \in 1 .. 2 : <<h, b>>[i] = s[i]
    BY <1>2, <2>2, <2>3, <2>4
  <2> QED
    BY <2>2, <2>3, <2>5, SeqEqual
<1>5. rest # <<>> => (rest = <<>> => s = <<Head(s)>>)
  OBVIOUS
<1>6. \A b : rest = <<b>> => s = <<Head(s), b>>
  BY <1>4
<1> QED
  BY <1>1, <1>3, <1>5, <1>6

\* The two steps to an order: the sign-in is extended for purchase.request by the
\* inventory agent, and that token by the procurement agent.
LEMMA ChainOfOrder ==
  ASSUME TypeOK, IInv, Configured, StartScopesInv
  PROVE  PurchaseChain
<1> DEFINE ExtendedFrom(t, p, r) ==
             /\ t.act # <<>> /\ p \in tokens /\ r \in TheExchanges
             /\ ExtendsBy(t, p, r)
<1>1. ASSUME NEW t \in tokens, ~ (t.scopes \subseteq OriginScopes)
      PROVE  \E p, r : ExtendedFrom(t, p, r)
  <2>1. t.kind = Delegated
    BY <1>1 DEF StartScopesInv, TypeOK, Token, Kinds
  <2> QED
    BY <2>1 DEF IInv, DelegationIsGranted, Configured
<1>2. ASSUME NEW t \in tokens, "purchase.request" \in t.scopes
      PROVE  t.act = <<"inventory-agent">>
  <2>1. PICK p, r : ExtendedFrom(t, p, r)
    BY <1>1, <1>2 DEF OriginScopes
  <2>2. r.outputScope = "purchase.request"
    BY <1>2, <2>1 DEF ExtendsBy
  <2>3. r.actor = "inventory-agent" /\ r.subjectScope = "assistant.inventory"
    BY <2>1, <2>2 DEF TheExchanges, Exchange
  <2>4. p \in tokens /\ "assistant.inventory" \in p.scopes
    BY <2>1, <2>3 DEF ExtendsBy
  <2>5. p.kind # Delegated
    <3>1. SUFFICES ASSUME p.kind = Delegated PROVE FALSE
      OBVIOUS
    <3>2. PICK s \in TheExchanges : p.scopes = {s.outputScope}
      BY <2>4, <3>1 DEF IInv, DelegationIsGranted, ExtendsBy, Configured
    <3>3. s.outputScope = "assistant.inventory"
      BY <2>4, <3>2
    <3> QED
      BY <3>3 DEF TheExchanges, Exchange
  <2>6. p.act = <<>>
    BY <2>4, <2>5 DEF TypeOK, Token, Kinds, IInv, OriginsInv
  <2>7. /\ t.act \in Seq(Names) /\ t.act # <<>>
        /\ Head(t.act) = "inventory-agent" /\ Tail(t.act) = <<>>
    BY <2>1, <2>3, <2>6 DEF ExtendsBy, TypeOK, Token
  <2> QED
    BY <2>7, Chain
<1>3. ASSUME NEW t \in tokens, "purchaseorder.create" \in t.scopes
      PROVE  t.act = <<"procurement-agent", "inventory-agent">>
  <2>1. PICK p, r : ExtendedFrom(t, p, r)
    BY <1>1, <1>3 DEF OriginScopes
  <2>2. r.outputScope = "purchaseorder.create"
    BY <1>3, <2>1 DEF ExtendsBy
  <2>3. r.actor = "procurement-agent" /\ r.subjectScope = "purchase.request"
    BY <2>1, <2>2 DEF TheExchanges, Exchange
  <2>4. p.act = <<"inventory-agent">>
    BY <1>2, <2>1, <2>3 DEF ExtendsBy
  <2>5. /\ t.act \in Seq(Names) /\ t.act # <<>>
        /\ Head(t.act) = "procurement-agent" /\ Tail(t.act) = <<"inventory-agent">>
    BY <2>1, <2>3, <2>4 DEF ExtendsBy, TypeOK, Token
  <2> QED
    BY <2>5, Chain
<1> QED
  BY <1>3 DEF PurchaseChain

\* Whoever asks in whatever order, only the procurement agent acting for the
\* inventory agent gets a token that creates orders (policies.json).
THEOREM OrdersByChainOnly ==
  ASSUME Configured
  PROVE  Spec => []PurchaseChain
<1>1. Init => StartScopesInv
  BY DEF Init, StartScopesInv
<1>2. TypeOK /\ StartScopesInv /\ [Next]_vars => StartScopesInv'
  BY StartScopesNext
<1>3. TypeOK /\ IInv /\ StartScopesInv => PurchaseChain
  BY ChainOfOrder
<1> QED
  BY <1>1, <1>2, <1>3, Inductive, PTL DEF Spec
=============================================================================
