------------------------------ MODULE AuthBroker ------------------------------
(***************************************************************************)
(* The auth broker (governance_demo/auth_broker_app.py), the one component *)
(* that signs.  A token that exists may be presented by anybody: nothing   *)
(* here says who holds it.  What a caller is allowed is the configuration  *)
(* (config/broker_clients.json, config/policies.json), a parameter.        *)
(*                                                                         *)
(* sign() reads the clock first and verifies the evidence later, so a      *)
(* request is in flight between the two.  Apart from the expiry of its     *)
(* evidence, nothing that decides over a request changes while it is in    *)
(* flight; a request that is refused for any other reason is left out, for *)
(* it changes nothing.                                                     *)
(*                                                                         *)
(* `act`, nested in the code, is a sequence, the latest actor first.  Any  *)
(* two restarts with a new key have different keys.                        *)
(***************************************************************************)
EXTENDS Integers, Sequences, FiniteSets

CONSTANTS Names,        \* people and agents
          Audiences, Scopes,
          Clients,      \* the entries of broker_clients.json
          DelegationActor, MayPresentActor, MayMint,
          TokenExchange, TokenMinting,    \* the rules of policies.json
          Asked,        \* the sets of scopes that requests name
          Lifetimes,    \* the lifetimes that requests name
          MaxTime, MaxTokens, MaxKey,     \* bounds
          None

Origins == {"user_access_token", "agent_credential"}
Delegated == "delegated_access_token"
Kinds == Origins \cup {Delegated}

ExchangeRule == [actor : Names, subjectAudience : Audiences,
                 subjectScope : Scopes, targetAudience : Audiences,
                 outputScope : Scopes]
MintingRule == [minter : Clients, kind : Kinds, audiences : SUBSET Audiences,
                scopes : SUBSET Scopes, maxLifetime : Int]

ASSUME PolicyAssumption ==
  /\ DelegationActor \in [Clients -> Names \cup {None}]
  /\ MayPresentActor \subseteq Clients
  /\ MayMint \in [Clients -> SUBSET Kinds]
  /\ TokenExchange \subseteq ExchangeRule
  /\ TokenMinting \subseteq MintingRule
  /\ Asked \subseteq SUBSET Scopes
  /\ Lifetimes \subseteq Int
  /\ MaxTime \in Nat /\ MaxTokens \in Nat /\ MaxKey \in Nat
  /\ None \notin Names

VARIABLES tokens,    \* every token ever signed
          inflight,  \* the request of each client that is being served
          key,       \* the signing key of the running process
          now

vars == <<tokens, inflight, key, now>>

Clock == 0 .. MaxTime

Token == [kind : Kinds, sub : Names, aud : Audiences, scopes : SUBSET Scopes,
          iat : Clock, exp : Int, act : Seq(Names), key : 0 .. MaxKey]

Request == [at : Clock, kind : Kinds, aud : Audiences, scopes : SUBSET Scopes,
            lifetime : Int, subject : Names \cup {None},
            subjectToken : tokens \cup {None}, actorToken : tokens \cup {None}]

TypeOK == /\ tokens \subseteq Token
          /\ inflight \in [Clients -> Request \cup {None}]
          /\ key \in 0 .. MaxKey
          /\ now \in Clock

Init == /\ tokens = {}
        /\ inflight = [c \in Clients |-> None]
        /\ key = 0
        /\ now = 0

-----------------------------------------------------------------------------
(* The policies. *)

\* Mutant of Identified: any token of this broker identifies the actor.
AnyTokenIdentifies(c, actorToken) ==
  IF DelegationActor[c] # None
    THEN actorToken = None
    ELSE c \in MayPresentActor /\ actorToken # None /\ actorToken.key = key

\* _derive_delegation: who acts, known from the caller's own identity or from
\* the agent credential it presents.
Identified(c, actorToken) ==
  IF DelegationActor[c] # None
    THEN actorToken = None
    ELSE /\ c \in MayPresentActor
         /\ actorToken # None
         /\ actorToken.key = key
         /\ actorToken.aud = "sts"
         /\ actorToken.kind = "agent_credential"

Actor(c, actorToken) ==
  IF DelegationActor[c] # None THEN DelegationActor[c] ELSE actorToken.sub

\* Mutant of MayExtend: the audience of the subject token is not looked at.
AnyAudience(actor, parent, aud, scopes) ==
  \E r \in TokenExchange : /\ r.actor = actor
                           /\ r.targetAudience = aud
                           /\ scopes = {r.outputScope}

MayExtend(actor, parent, aud, scopes) ==
  \E r \in TokenExchange : /\ r.actor = actor
                           /\ r.subjectAudience = parent.aud
                           /\ r.subjectScope \in parent.scopes
                           /\ r.targetAudience = aud
                           /\ scopes = {r.outputScope}

Mintable(c, kind, aud, scopes, lifetime) ==
  /\ kind \in MayMint[c]
  /\ \E r \in TokenMinting : /\ r.minter = c
                             /\ r.kind = kind
                             /\ aud \in r.audiences
                             /\ scopes # {} /\ scopes \subseteq r.scopes
                             /\ lifetime <= r.maxLifetime

-----------------------------------------------------------------------------
(* sign *)

MayReceive(c) ==
  /\ inflight[c] = None
  /\ Cardinality(tokens) + Cardinality({d \in Clients : inflight[d] # None})
       < MaxTokens

RequestOrigin(c) ==
  /\ MayReceive(c)
  /\ \E kind \in Origins, aud \in Audiences, scopes \in Asked,
        lifetime \in Lifetimes, subject \in Names :
       /\ Mintable(c, kind, aud, scopes, lifetime)
       /\ inflight' = [inflight EXCEPT ![c] =
            [at |-> now, kind |-> kind, aud |-> aud, scopes |-> scopes,
             lifetime |-> lifetime, subject |-> subject,
             subjectToken |-> None, actorToken |-> None]]
  /\ UNCHANGED <<tokens, key, now>>

RequestDelegation(c) ==
  /\ MayReceive(c)
  /\ \E aud \in Audiences, scopes \in Asked, lifetime \in Lifetimes :
       /\ Mintable(c, Delegated, aud, scopes, lifetime)
       /\ \E parent \in tokens, actorToken \in tokens \cup {None} :
            /\ parent.key = key
            /\ Identified(c, actorToken)
            /\ MayExtend(Actor(c, actorToken), parent, aud, scopes)
            /\ inflight' = [inflight EXCEPT ![c] =
                 [at |-> now, kind |-> Delegated, aud |-> aud,
                  scopes |-> scopes, lifetime |-> lifetime, subject |-> None,
                  subjectToken |-> parent, actorToken |-> actorToken]]
  /\ UNCHANGED <<tokens, key, now>>

Smaller(m, n) == IF m <= n THEN m ELSE n

OriginToken(q) ==
  [kind |-> q.kind, sub |-> q.subject, aud |-> q.aud, scopes |-> q.scopes,
   iat |-> q.at, exp |-> q.at + q.lifetime, act |-> <<>>, key |-> key]

\* Mutant of DelegatedToken: what remains is counted to a first reading of the
\* clock, the expiry from a second.
TwoReadings(c, q) ==
  [kind |-> q.kind, sub |-> q.subjectToken.sub, aud |-> q.aud,
   scopes |-> q.scopes, iat |-> now,
   exp |-> now + Smaller(q.lifetime, q.subjectToken.exp - q.at),
   act |-> <<Actor(c, q.actorToken)>> \o q.subjectToken.act, key |-> key]

\* Mutant of DelegatedToken: the subject is read from the request.
RequestedSubject(c, q) ==
  [kind |-> q.kind, sub |-> q.subject, aud |-> q.aud, scopes |-> q.scopes,
   iat |-> q.at, exp |-> q.at + Smaller(q.lifetime, q.subjectToken.exp - q.at),
   act |-> <<Actor(c, q.actorToken)>> \o q.subjectToken.act, key |-> key]

\* Mutant of DelegatedToken: the chain starts over.
LastActorOnly(c, q) ==
  [kind |-> q.kind, sub |-> q.subjectToken.sub, aud |-> q.aud,
   scopes |-> q.scopes, iat |-> q.at,
   exp |-> q.at + Smaller(q.lifetime, q.subjectToken.exp - q.at),
   act |-> <<Actor(c, q.actorToken)>>, key |-> key]

DelegatedToken(c, q) ==
  [kind |-> q.kind, sub |-> q.subjectToken.sub, aud |-> q.aud,
   scopes |-> q.scopes, iat |-> q.at,
   exp |-> q.at + Smaller(q.lifetime, q.subjectToken.exp - q.at),
   act |-> <<Actor(c, q.actorToken)>> \o q.subjectToken.act, key |-> key]

Fresh(t) == now < t.exp

SignOrigin(c) ==
  /\ inflight[c] # None
  /\ inflight[c].kind \in Origins
  /\ tokens' = tokens \cup {OriginToken(inflight[c])}
  /\ inflight' = [inflight EXCEPT ![c] = None]
  /\ UNCHANGED <<key, now>>

SignDelegated(c) ==
  /\ inflight[c] # None
  /\ inflight[c].kind = Delegated
  /\ LET q == inflight[c]
     IN IF Fresh(q.subjectToken) /\ (q.actorToken # None => Fresh(q.actorToken))
          THEN tokens' = tokens \cup {DelegatedToken(c, q)}
          ELSE UNCHANGED tokens
  /\ inflight' = [inflight EXCEPT ![c] = None]
  /\ UNCHANGED <<key, now>>

-----------------------------------------------------------------------------

\* The software key dies with the process; a KMS key version may be the same.
Restart ==
  /\ key' \in {key, key + 1} /\ key' <= MaxKey
  /\ inflight' = [c \in Clients |-> None]
  /\ UNCHANGED <<tokens, now>>

Tick == /\ now < MaxTime
        /\ now' = now + 1
        /\ UNCHANGED <<tokens, inflight, key>>

Next == \/ \E c \in Clients : \/ RequestOrigin(c) \/ RequestDelegation(c)
                              \/ SignOrigin(c) \/ SignDelegated(c)
        \/ Restart
        \/ Tick

Spec == Init /\ [][Next]_vars
=============================================================================
