---------------------------- MODULE OperatorScripts ----------------------------
(***************************************************************************)
(* The scripts by which operators set up the deployment: iam_binding.py     *)
(* ("iam"), setup_kms_signing.py ("kms"), setup_zoho_secrets.py ("secrets") *)
(* and seed_demo_data.py --apply ("seed"), and the deployment of the agents *)
(* with the key version that was printed.                                  *)
(*                                                                         *)
(* A script is a sequence of lookups and writes in Google Cloud or Zoho,    *)
(* with nothing held from one to the next.  Operators run scripts next to   *)
(* each other and again after a failure.  A write may fail, or its answer   *)
(* may be lost, or it is carried out after the script has given up.         *)
(*                                                                         *)
(* Agents are updated in place (deploy_agents.sh), so that a display name   *)
(* stands for its principal; a policy is reduced to the members of one role *)
(* on its resource, and its etag.  (setup_kms_signing.py edits two roles,   *)
(* the signers' in the same way; here it is the verifiers'.)                *)
(***************************************************************************)
EXTENDS Integers, Sequences, FiniteSets, SequencesExt

CONSTANTS
  Operators,
  Agents,         \* the deployments that verify delegations (VERIFIER_AGENTS)
  SECRETS,        \* the secrets, in the order of the script
  SECRET_AGENTS,  \* secret |-> the agents that may read it
  Environments,   \* what operators have in their environment: secret |-> value
  TARGET_STOCK,
  MaxRuns,        \* bound: script runs
  None

Secrets == ToSet(SECRETS)

ASSUME ScriptsAssumption ==
  /\ SECRETS \in Seq(Secrets) \ {<<>>} /\ Secrets \cap {"engine", "key"} = {}
  /\ SECRET_AGENTS \in [Secrets -> SUBSET Agents]
  /\ TARGET_STOCK \in Nat /\ MaxRuns \in Nat

\* What a script may be waiting for.
Values == {"old"} \cup {environment[s] : environment \in Environments, s \in Secrets}
Writes ==
  [what : {"key", "key version", "vendor", "item"}, resource : {"key", None}]
    \cup [what : {"secret"}, resource : Secrets]
    \cup [what : {"version"}, resource : Secrets, value : Values]
    \cup [what : {"policy"}, resource : {"engine", "key"} \cup Secrets,
           before : SUBSET Agents, members : SUBSET Agents, etag : Nat]
    \cup [what : {"adjust"}, resource : Nat, by : Int]

ASSUME NoneAssumption == None \notin Writes

VARIABLES
  policies,    \* resource |-> its policy
  secrets,     \* secret |-> the values of its versions
  keyVersions, \* how many versions the signing key has; 0: no key
  zoho,        \* how many demo vendors, and the stock of every demo item
  deployed,    \* agent |-> the key version it was deployed with
  exported,    \* the key version last printed, 0: none
  operators,
  late,        \* writes that are carried out after their script has given up
  runs,
  mishaps      \* what has happened to runs of the last two scripts (history)

world == <<policies, secrets, keyVersions, zoho>>
vars == <<policies, secrets, keyVersions, zoho, deployed, exported, operators, late,
          runs, mishaps>>

Resources == {"engine", "key"} \cup Secrets

\* input: what the script was started with; known: agent_principals; todo: the
\* secrets left; current, item: the stock and the item to adjust; write: the
\* call under way, after which the script goes on at pc.
Idle == [pc |-> "idle", script |-> None, input |-> None, known |-> {}, todo |-> <<>>,
         current |-> 0, item |-> 0, write |-> None]

Running(o) == operators[o].pc \notin {"idle", "done"}
At(o, pc) == operators[o].pc = pc /\ operators[o].write = None

\* Nothing is set up, or all is but for the demo data, by an earlier revision of
\* the secrets script, which granted every secret to every agent.
Init ==
  /\ \E old \in BOOLEAN :
       /\ secrets = [s \in IF old THEN Secrets ELSE {} |-> <<"old">>]
       /\ policies = [r \in Resources |->
            [etag |-> 0, members |-> IF old /\ r # "engine" THEN Agents ELSE {}]]
       /\ keyVersions = IF old THEN 1 ELSE 0
       /\ deployed = [a \in IF old THEN Agents ELSE {} |-> 1]
  /\ zoho = [vendors |-> 0, items |-> <<>>]
  /\ exported = 0
  /\ operators = [o \in Operators |-> Idle]
  /\ late = {}
  /\ runs = 0
  /\ mishaps = {}

Note(script, what) ==
  mishaps' = mishaps \cup IF script \in {"secrets", "seed"} THEN {<<script, what>>} ELSE {}

-----------------------------------------------------------------------------
(* Writes *)

Write(what, resource) == [what |-> what, resource |-> resource]

\* Mutant of Refused: the policy is sent without its etag.
WithoutEtag(w) ==
  \/ w.what = "secret" /\ w.resource \in DOMAIN secrets
  \/ w.what = "key" /\ keyVersions > 0

\* The etag of a policy has changed; a secret or a key exists already.
Refused(w) ==
  \/ w.what = "policy" /\ w.etag # policies[w.resource].etag
  \/ w.what = "secret" /\ w.resource \in DOMAIN secrets
  \/ w.what = "key" /\ keyVersions > 0

Perform(w) ==
  /\ policies' =
       IF w.what = "policy"
       THEN [policies EXCEPT ![w.resource] = [etag |-> @.etag + 1, members |-> w.members]]
       ELSE policies
  /\ secrets' =
       CASE w.what = "secret" -> [s \in DOMAIN secrets \cup {w.resource} |->
                                    IF s = w.resource THEN <<>> ELSE secrets[s]]
         [] w.what = "version" -> [secrets EXCEPT ![w.resource] = Append(@, w.value)]
         [] OTHER -> secrets
  /\ keyVersions' = keyVersions + IF w.what \in {"key", "key version"} THEN 1 ELSE 0
  /\ zoho' =
       CASE w.what = "vendor" -> [zoho EXCEPT !.vendors = @ + 1]
         [] w.what = "item"   -> [zoho EXCEPT !.items = Append(@, 0)]
         [] w.what = "adjust" -> [zoho EXCEPT !.items[w.resource] = @ + w.by]
         [] OTHER -> zoho

Fail(o) == operators' = [operators EXCEPT ![o] = Idle]

\* The write is carried out, or refused; if the answer arrives the script goes
\* on (with the item it has created).
Call(o, answered) ==
  LET w == operators[o].write
  IN  /\ w # None
      /\ IF Refused(w) \/ ~answered
         THEN Fail(o)
         ELSE operators' = [operators EXCEPT
                ![o].write = None,
                ![o].item = IF w.what = "item" THEN Len(zoho.items) + 1 ELSE @]
      /\ IF Refused(w) THEN UNCHANGED world ELSE Perform(w)
      /\ UNCHANGED <<deployed, exported, late, runs, mishaps>>

\* A script stops anywhere; its call fails, or is still on its way.
GiveUp(o, onItsWay) ==
  /\ Running(o)
  /\ onItsWay => operators[o].write # None
  /\ late' = late \cup IF onItsWay THEN {<<runs, operators[o].write>>} ELSE {}
  /\ IF onItsWay THEN Note(operators[o].script, "late") ELSE UNCHANGED mishaps
  /\ Fail(o)
  /\ UNCHANGED <<world, deployed, exported, runs>>

Land(w) ==
  /\ w \in late
  /\ late' = late \ {w}
  /\ IF Refused(w[2]) THEN UNCHANGED world ELSE Perform(w[2])
  /\ UNCHANGED <<deployed, exported, operators, runs, mishaps>>

\* The script goes on at pc, after the write if there is one.
Go(o, pc, w) == operators' = [operators EXCEPT ![o].pc = pc, ![o].write = w]
Reads == UNCHANGED <<world, deployed, exported, late, runs, mishaps>>

-----------------------------------------------------------------------------
(* The scripts *)

FirstStep == [iam |-> "policy", kms |-> "key", secrets |-> "principals",
              seed |-> "vendor"]
Inputs == [iam     |-> [member : Agents, revoke : BOOLEAN],
           kms     |-> [rotate : BOOLEAN],
           secrets |-> Environments,
           seed    |-> {None}]

Start(o, script, input) ==
  /\ ~Running(o)
  /\ runs < MaxRuns
  /\ runs' = runs + 1
  /\ operators' = [operators EXCEPT
       ![o] = [Idle EXCEPT !.pc = FirstStep[script], !.script = script,
                           !.input = input]]
  /\ IF \E p \in Operators : Running(p) /\ operators[p].script = script
     THEN Note(script, "overlap") ELSE UNCHANGED mishaps
  /\ UNCHANGED <<world, deployed, exported, late>>

\* kms: the key is created, or gets another version.
FindKey(o) ==
  /\ At(o, "key")
  /\ Go(o, "principals",
        IF keyVersions = 0 THEN Write("key", "key")
        ELSE IF operators[o].input.rotate THEN Write("key version", "key") ELSE None)
  /\ Reads

\* kms, secrets: agent_principals
ListAgents(o) ==
  /\ At(o, "principals")
  /\ LET known == DOMAIN deployed
         pc == IF operators[o].script = "secrets" THEN "secret"
               ELSE IF known = {} THEN "done" ELSE "policy"
     IN  operators' = [operators EXCEPT
           ![o].known = known, ![o].pc = pc,
           ![o].todo = IF pc = "secret" THEN SECRETS ELSE <<>>]
  /\ Reads

NextSecret(o) ==
  LET rest == Tail(operators[o].todo)
  IN  operators' = [operators EXCEPT
        ![o].todo = rest, ![o].pc = IF rest = <<>> THEN "done" ELSE "secret"]

Secret(o) == Head(operators[o].todo)
Value(o) == operators[o].input[Secret(o)]

SkipSecret(o) ==
  /\ At(o, "secret")
  /\ Value(o) = None
  /\ NextSecret(o)
  /\ Reads

FindSecret(o) ==
  /\ At(o, "secret")
  /\ Value(o) # None
  /\ Go(o, "value", IF Secret(o) \in DOMAIN secrets THEN None
                    ELSE Write("secret", Secret(o)))
  /\ Reads

AddVersion(o) == [what |-> "version", resource |-> Secret(o), value |-> Value(o)]
Granting(o) == IF operators[o].known = {} THEN "next" ELSE "policy"

\* Mutant of ReadSecret: a version is added whatever the latest one is.
AlwaysAdd(o) ==
  /\ At(o, "value")
  /\ Go(o, Granting(o), AddVersion(o))
  /\ Reads

ReadSecret(o) ==
  /\ At(o, "value")
  /\ LET versions == secrets[Secret(o)]
     IN  Go(o, Granting(o),
            IF versions # <<>> /\ Last(versions) = Value(o) THEN None ELSE AddVersion(o))
  /\ Reads

\* The latest version cannot be read: this is taken for a change.
ReadSecretFails(o) ==
  /\ At(o, "value")
  /\ secrets[Secret(o)] # <<>>
  /\ Go(o, Granting(o), AddVersion(o))
  /\ Note("secrets", "unread")
  /\ UNCHANGED <<world, deployed, exported, late, runs>>

Resource(o) ==
  CASE operators[o].script = "iam" -> "engine"
    [] operators[o].script = "kms" -> "key"
    [] operators[o].script = "secrets" -> Secret(o)

\* Mutant of Edited: nothing is revoked.
OnlyAdds(o, members) ==
  LET this == operators[o]
  IN  CASE this.script = "iam" -> IF this.input.revoke THEN members \ {this.input.member}
                                  ELSE members \cup {this.input.member}
        [] this.script = "kms" -> members \cup this.known
        [] this.script = "secrets" -> members \cup (this.known \cap SECRET_AGENTS[Secret(o)])

\* What the script makes of a policy.
Edited(o, members) ==
  LET this == operators[o]
  IN  CASE this.script = "iam" -> IF this.input.revoke THEN members \ {this.input.member}
                                  ELSE members \cup {this.input.member}
        [] this.script = "kms" -> members \cup this.known
        [] this.script = "secrets" -> (members \ this.known)
                                        \cup (this.known \cap SECRET_AGENTS[Secret(o)])

\* before: the members when they were read (history).
WritePolicy(resource, before, members, etag) ==
  [what |-> "policy", resource |-> resource, before |-> before, members |-> members,
   etag |-> etag]

EditPolicy(o) ==
  /\ At(o, "policy")
  /\ LET policy == policies[Resource(o)]
         new == Edited(o, policy.members)
     IN  Go(o, "next", IF new = policy.members THEN None
                       ELSE WritePolicy(Resource(o), policy.members, new, policy.etag))
  /\ Reads

\* kms prints the latest version of the key, and the operator exports it.
Continue(o) ==
  /\ At(o, "next")
  /\ IF operators[o].script = "secrets" THEN NextSecret(o) ELSE Go(o, "done", None)
  /\ exported' = IF operators[o].script = "kms" THEN keyVersions ELSE exported
  /\ UNCHANGED <<world, deployed, late, runs, mishaps>>

FindVendor(o) ==
  /\ At(o, "vendor")
  /\ Go(o, "item", IF zoho.vendors = 0 THEN Write("vendor", None) ELSE None)
  /\ Reads

\* The first item with the SKU, and its stock; a new one has none.
FindItem(o) ==
  /\ At(o, "item")
  /\ LET found == zoho.items # <<>>
     IN  operators' = [operators EXCEPT
           ![o].pc = "stock",
           ![o].item = IF found THEN 1 ELSE 0,
           ![o].current = IF found THEN zoho.items[1] ELSE 0,
           ![o].write = IF found THEN None ELSE Write("item", None)]
  /\ Reads

\* Mutant of AdjustStock: the stock is added to.
AddStock(o) ==
  /\ At(o, "stock")
  /\ Go(o, "verify",
        [what |-> "adjust", resource |-> operators[o].item, by |-> TARGET_STOCK])
  /\ Reads

\* target - current, if that adds stock
AdjustStock(o) ==
  /\ At(o, "stock")
  /\ LET delta == TARGET_STOCK - operators[o].current
     IN  Go(o, "verify",
            IF delta <= 0 THEN None
            ELSE [what |-> "adjust", resource |-> operators[o].item, by |-> delta])
  /\ Reads

VerifySeed(o) ==
  /\ At(o, "verify")
  /\ Go(o, "done", None)
  /\ Reads

\* deploy_agents.sh, deploy_a2a.py: an agent verifies with the key version it is
\* deployed with, and caches its public half for ever (_public_key); that is the
\* first version (deploy_to_gcp.sh) or the one that was printed.
Deploy(a, version) ==
  /\ keyVersions > 0 /\ version > 0
  /\ deployed' = [b \in DOMAIN deployed \cup {a} |-> IF b = a THEN version ELSE deployed[b]]
  /\ UNCHANGED <<world, exported, operators, late, runs, mishaps>>

Step(o) ==
  \/ FindKey(o) \/ ListAgents(o)
  \/ SkipSecret(o) \/ FindSecret(o) \/ ReadSecret(o) \/ ReadSecretFails(o)
  \/ EditPolicy(o) \/ Continue(o)
  \/ FindVendor(o) \/ FindItem(o) \/ AdjustStock(o) \/ VerifySeed(o)

Next ==
  \/ \E o \in Operators :
       \/ \E script \in DOMAIN FirstStep : \E input \in Inputs[script] : Start(o, script, input)
       \/ Step(o)
       \/ \E answered \in BOOLEAN : Call(o, answered)
       \/ \E onItsWay \in BOOLEAN : GiveUp(o, onItsWay)
  \/ \E w \in late : Land(w)
  \/ \E a \in Agents, version \in {1, exported} : Deploy(a, version)

Spec == Init /\ [][Next]_vars
=============================================================================
