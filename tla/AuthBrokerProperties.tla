------------------------- MODULE AuthBrokerProperties -------------------------
(***************************************************************************)
(* What the tokens the broker has signed say about each other.             *)
(***************************************************************************)
EXTENDS AuthBroker

\* No rule lets anybody extend a token for an audience that agent credentials
\* are minted for (policies.json).
ASSUME SeparateAudiences ==
  \A r \in TokenExchange, m \in TokenMinting :
    m.kind = "agent_credential" => r.subjectAudience \notin m.audiences

\* t was obtained by extending p under a rule of the delegation policy.
ExtendsBy(t, p, r) ==
  /\ r.actor = Head(t.act)
  /\ r.subjectAudience = p.aud /\ r.subjectScope \in p.scopes
  /\ r.targetAudience = t.aud /\ t.scopes = {r.outputScope}
  /\ Tail(t.act) = p.act
  /\ t.sub = p.sub
  /\ t.exp <= p.exp
  /\ t.key = p.key

\* Every delegation rests on evidence: another token, signed with the same key,
\* that a policy rule lets the latest actor extend in this way, with the same
\* subject and the rest of the actor chain (sign, auth_broker_app.py:361-384).
DelegationIsGranted ==
  \A t \in tokens :
    t.kind = Delegated =>
      /\ t.act # <<>>
      /\ \E p \in tokens, r \in TokenExchange : ExtendsBy(t, p, r)

\* A delegation never outlives the sign-in its chain started from, however
\* often it is extended and whatever the clock does between the reading of the
\* time and the signature (auth_broker_app.py:379-384).
NeverOutlives ==
  \A t \in tokens :
    t.kind = Delegated =>
      \E u \in tokens : /\ u.kind = "user_access_token"
                        /\ u.sub = t.sub
                        /\ t.exp <= u.exp
                        /\ u.key = t.key

\* Nobody appears in an actor chain on a caller's word: an actor is what a
\* client is bound to, or the subject of an agent credential the broker signed
\* (_derive_delegation, auth_broker_app.py:235-248).
ActorsAuthenticated ==
  \A t \in tokens :
    \A i \in DOMAIN t.act :
      \/ \E c \in Clients : /\ Delegated \in MayMint[c]
                            /\ DelegationActor[c] = t.act[i]
      \/ \E a \in tokens : /\ a.kind = "agent_credential"
                           /\ a.aud = "sts"
                           /\ a.sub = t.act[i]

\* Under the configured policies a token that can create purchase orders is the
\* procurement agent acting for the inventory agent (policies.json).
PurchaseChain ==
  \A t \in tokens :
    "purchaseorder.create" \in t.scopes =>
      t.act = <<"procurement-agent", "inventory-agent">>

\* The tokens, seen as grants.
AsGrant(t) == [sub |-> t.sub, actors |-> t.act, until |-> t.exp]
Granted == {AsGrant(t) : t \in tokens}
Grants == INSTANCE Grant WITH grants <- Granted

\* Whatever the policy, chains only narrow.
OnlyNarrows == Grants!Spec

-----------------------------------------------------------------------------
(* The inductive invariant: what holds of a request in flight, and which    *)
(* tokens can start a chain.                                                *)

CredentialAudience(aud) ==
  \E m \in TokenMinting : m.kind = "agent_credential" /\ aud \in m.audiences

RequestOK(c, q) ==
  /\ q.kind \in Origins => q.subject \in Names
  /\ q.kind = "agent_credential" => CredentialAudience(q.aud)
  /\ q.kind = Delegated =>
       /\ q.subjectToken \in tokens
       /\ q.subjectToken.key = key
       /\ Delegated \in MayMint[c]
       /\ Identified(c, q.actorToken)
       /\ MayExtend(Actor(c, q.actorToken), q.subjectToken, q.aud, q.scopes)

InFlightInv == \A c \in Clients : inflight[c] # None => RequestOK(c, inflight[c])

OriginsInv ==
  \A t \in tokens : /\ t.kind \in Origins => t.act = <<>>
                    /\ t.kind = "agent_credential" => CredentialAudience(t.aud)

IInv == /\ InFlightInv
        /\ OriginsInv
        /\ DelegationIsGranted
        /\ NeverOutlives
        /\ ActorsAuthenticated
=============================================================================
