------------------------- MODULE OperatorScriptsProofs -------------------------
(***************************************************************************)
(* Proofs about OperatorScripts, for any operators, agents, secrets,       *)
(* environments, target and bound on the runs.                             *)
(***************************************************************************)
EXTENDS OperatorScriptsProperties, TLAPS

Scripts == {"iam", "kms", "secrets", "seed"}

\* Where a run of a script may be, and what it may be waiting for there.
Places ==
  ({"iam"} \X {"policy", "next", "done"})
    \cup ({"kms"} \X {"key", "principals", "policy", "next", "done"})
    \cup ({"secrets"} \X {"principals", "secret", "value", "policy", "next", "done"})
    \cup ({"seed"} \X {"vendor", "item", "stock", "verify", "done"})
Awaited ==
  ({"iam", "kms", "secrets"} \X {"next"} \X {"policy"})
    \cup {<<"kms", "principals", "key">>, <<"kms", "principals", "key version">>,
          <<"secrets", "value", "secret">>, <<"secrets", "policy", "version">>,
          <<"secrets", "next", "version">>, <<"seed", "item", "vendor">>,
          <<"seed", "stock", "item">>, <<"seed", "verify", "adjust">>}

RunType(this) ==
  /\ DOMAIN this = DOMAIN Idle
  /\ this.known \in SUBSET Agents /\ this.todo \in Seq(Secrets)
  /\ this.current \in Int /\ this.item \in Nat /\ this.write \in Writes \cup {None}
  /\ this.pc # "idle" => <<this.script, this.pc>> \in Places
  /\ this.write # None =>
       this.pc # "idle" /\ <<this.script, this.pc, this.write.what>> \in Awaited
  /\ this.pc # "idle" /\ this.script = "iam" => this.input.member \in Agents
  /\ this.pc # "idle" /\ this.script = "secrets" =>
       /\ this.input \in Environments
       /\ this.pc \in {"secret", "value", "policy", "next"} => this.todo # <<>>
       /\ this.pc = "done" => this.todo = <<>>

WorldType ==
  /\ policies \in [Resources -> [etag : Nat, members : SUBSET Agents]]
  /\ zoho \in [vendors : Nat, items : Seq(Int)]
  /\ \A s \in DOMAIN secrets : s \in Secrets /\ secrets[s] \in Seq(Values)

TypeInv ==
  /\ WorldType
  /\ DOMAIN deployed \subseteq Agents
  /\ DOMAIN operators = Operators
  /\ \A o \in Operators : RunType(operators[o])
  /\ \A l \in late : l[2] \in Writes

InFlight == {operators[o].write : o \in Operators} \cup {l[2] : l \in late}

\* Nobody knows a later etag than the current one; who knows the current one knows
\* the members, and gives them what they are entitled to on a secret.
PolicyWrite(w) ==
  LET policy == policies[w.resource]
  IN  /\ w.etag <= policy.etag
      /\ w.etag = policy.etag => w.before = policy.members
      /\ w.resource \in Secrets =>
           \E known \in SUBSET Agents :
             w.members = (w.before \ known) \cup (known \cap SECRET_AGENTS[w.resource])

PoliciesInv == \A w \in InFlight : w # None /\ w.what = "policy" => PolicyWrite(w)

Entitled(s, members, known) == members \cap known = SECRET_AGENTS[s] \cap known

Granted(o, s) ==
  operators[o].input[s] # None => Entitled(s, policies[s].members, operators[o].known)

\* The secrets that a run is through with are granted as they should be; the one
\* it is at will be, when the write under way is carried out.
GrantsOf(o) ==
  LET this == operators[o]
      first == Head(this.todo)
  IN  this.script = "secrets" /\ this.pc \in {"secret", "value", "policy", "next", "done"} =>
        /\ \A s \in Secrets \ ToSet(this.todo) : Granted(o, s)
        /\ this.pc = "next" /\ this.write = None => Granted(o, first)
        /\ this.pc = "next" /\ this.write # None =>
             \/ this.write.what = "policy" /\ this.write.resource = first
                  /\ Entitled(first, this.write.members, this.known)
             \/ this.write.what = "version" /\ this.known = {}

GrantsInv == \A o \in Operators : GrantsOf(o)

Calm(script) == \A m \in mishaps : m[1] # script

Runs(o, script) == Running(o) /\ operators[o].script = script

\* Runs of the script have not overlapped, nor has any of its writes been late.
OneByOne(script, writes) ==
  /\ \A o, p \in Operators : Runs(o, script) /\ Runs(p, script) => o = p
  /\ \A l \in late : l[2].what \notin writes

VersionsInv ==
  Calm("secrets") =>
    /\ OneByOne("secrets", {"secret", "version"})
    /\ \A s \in DOMAIN secrets :
         \A i \in 1 .. Len(secrets[s]) - 1 : secrets[s][i] # secrets[s][i + 1]
    /\ \A o \in Operators :
         LET w == operators[o].write
         IN  w # None /\ w.what = "version" /\ w.resource \in DOMAIN secrets =>
               LET versions == secrets[w.resource]
               IN  versions = <<>> \/ versions[Len(versions)] # w.value

\* What a run of the seed knows of the vendors and the items.
Seeding(this) ==
  CASE this.pc = "vendor" -> TRUE
    [] this.pc = "item" -> IF this.write = None THEN zoho.vendors = 1 ELSE zoho.vendors = 0
    [] this.pc = "stock" ->
         /\ zoho.vendors = 1
         /\ IF this.write = None THEN this.item = 1 /\ zoho.items = <<this.current>>
            ELSE this.current = 0 /\ zoho.items = <<>>
    [] this.pc = "verify" ->
         /\ zoho.vendors = 1 /\ Len(zoho.items) = 1
         /\ IF this.write = None THEN zoho.items[1] = TARGET_STOCK
            ELSE this.write.resource = 1 /\ this.write.by > 0
                   /\ zoho.items[1] + this.write.by = TARGET_STOCK
    [] this.pc = "done" -> zoho.vendors = 1 /\ zoho.items = <<TARGET_STOCK>>
    [] OTHER -> TRUE

SeedInv ==
  Calm("seed") =>
    /\ OneByOne("seed", {"vendor", "item", "adjust"})
    /\ zoho.vendors \in {0, 1} /\ Len(zoho.items) \in {0, 1}
    /\ zoho.items # <<>> => zoho.items[1] <= TARGET_STOCK
    /\ \A o \in Operators : operators[o].script = "seed" => Seeding(operators[o])

-----------------------------------------------------------------------------
(* Types *)

\* The fields of a run, and of a write by its kind.
LEMMA IdleFields == DOMAIN Idle = {"pc", "script", "input", "known", "todo", "current",
                                   "item", "write"}
  BY DEF Idle

LEMMA WriteKinds ==
  ASSUME NEW w \in Writes
  PROVE  /\ w.what \in {"key", "key version", "vendor", "item", "secret", "version",
                        "policy", "adjust"}
         /\ w.what = "secret" => w.resource \in Secrets
         /\ w.what = "version" => w.resource \in Secrets /\ w.value \in Values
         /\ w.what = "policy" =>
              /\ w.resource \in Resources /\ w.before \in SUBSET Agents
              /\ w.members \in SUBSET Agents /\ w.etag \in Nat
         /\ w.what = "adjust" => w.resource \in Nat /\ w.by \in Int
  BY DEF Writes, Resources

LEMMA TheWrites ==
  /\ \A what \in {"key", "key version"} : Write(what, "key") \in Writes
  /\ \A what \in {"vendor", "item"} : Write(what, None) \in Writes
  /\ \A s \in Secrets : Write("secret", s) \in Writes
  /\ \A s \in Secrets, v \in Values :
       [what |-> "version", resource |-> s, value |-> v] \in Writes
  /\ \A i \in Nat, by \in Int : [what |-> "adjust", resource |-> i, by |-> by] \in Writes
  /\ \A r \in Resources, before, members \in SUBSET Agents, etag \in Nat :
       WritePolicy(r, before, members, etag) \in Writes
  BY DEF Writes, Write, WritePolicy, Resources

\* A write leaves the world well typed.
LEMMA PerformType ==
  ASSUME WorldType, NEW w \in Writes, Perform(w)
  PROVE  WorldType'
<1>1. policies' \in [Resources -> [etag : Nat, members : SUBSET Agents]]
  <2>1. CASE w.what = "policy"
    <3>1. policies' = [policies EXCEPT ![w.resource] = [etag |-> @.etag + 1,
                                                        members |-> w.members]]
      BY <2>1 DEF Perform
    <3>2. w.resource \in Resources /\ w.members \in SUBSET Agents
      BY <2>1, WriteKinds
    <3> QED BY <3>1, <3>2 DEF WorldType
  <2>2. CASE w.what # "policy"
    BY <2>2 DEF WorldType, Perform
  <2> QED BY <2>1, <2>2
<1>2. zoho' \in [vendors : Nat, items : Seq(Int)]
  <2>1. CASE w.what = "adjust"
    <3>1. zoho.items \in Seq(Int) /\ zoho.vendors \in Nat
      BY DEF WorldType
    <3>2. zoho' = [zoho EXCEPT !.items[w.resource] = @ + w.by]
      BY <2>1 DEF Perform
    <3>3. [zoho.items EXCEPT ![w.resource] = @ + w.by] \in Seq(Int)
      <4>1. w.by \in Int
        BY <2>1, WriteKinds
      <4>2. CASE w.resource \in DOMAIN zoho.items
        <5>1. zoho.items[w.resource] + w.by \in Int
          BY <3>1, <4>1, <4>2
        <5> QED BY <3>1, <4>2, <5>1
      <4>3. CASE w.resource \notin DOMAIN zoho.items
        <5>1. [zoho.items EXCEPT ![w.resource] = @ + w.by] = zoho.items
          BY <3>1, <4>3
        <5> QED BY <3>1, <5>1
      <4> QED BY <4>2, <4>3
    <3> QED BY <3>1, <3>2, <3>3 DEF WorldType
  <2>2. CASE w.what = "item"
    <3>1. Append(zoho.items, 0) \in Seq(Int)
      BY DEF WorldType
    <3> QED BY <2>2, <3>1 DEF WorldType, Perform
  <2>3. CASE w.what \notin {"adjust", "item"}
    <3>1. CASE w.what = "vendor"
      BY <3>1 DEF WorldType, Perform
    <3>2. CASE w.what # "vendor"
      <4>1. zoho' = zoho
        BY <2>3, <3>2 DEF Perform
      <4> QED BY <4>1 DEF WorldType
    <3> QED BY <3>1, <3>2
  <2> QED BY <2>1, <2>2, <2>3
<1>3. \A s \in DOMAIN secrets' : s \in Secrets /\ secrets'[s] \in Seq(Values)
  <2>1. CASE w.what = "secret"
    <3>1. secrets' = [s \in DOMAIN secrets \cup {w.resource} |->
                        IF s = w.resource THEN <<>> ELSE secrets[s]]
      BY <2>1 DEF Perform
    <3>2. w.resource \in Secrets
      BY <2>1, WriteKinds
    <3> QED BY <3>1, <3>2 DEF WorldType
  <2>2. CASE w.what = "version"
    <3>1. secrets' = [secrets EXCEPT ![w.resource] = Append(@, w.value)]
      BY <2>2 DEF Perform
    <3>2. w.value \in Values
      BY <2>2, WriteKinds
    <3> QED BY <3>1, <3>2 DEF WorldType
  <2>3. CASE w.what \notin {"secret", "version"}
    BY <2>3 DEF WorldType, Perform
  <2> QED BY <2>1, <2>2, <2>3
<1> QED BY <1>1, <1>2, <1>3 DEF WorldType

Unmoved == UNCHANGED <<policies, secrets, zoho, deployed, late>>

\* A step of one run keeps the types if the run stays well typed.
LEMMA OneRunType ==
  ASSUME TypeInv, NEW o \in Operators, NEW this, RunType(this), Unmoved,
         DOMAIN operators' = Operators, operators'[o] = this,
         \A p \in Operators \ {o} : operators'[p] = operators[p]
  PROVE  TypeInv'
<1>1. RunType(operators[o])'
  BY DEF RunType
<1>2. \A p \in Operators \ {o} : RunType(operators[p])'
  BY DEF TypeInv, RunType
<1> QED BY <1>1, <1>2 DEF TypeInv, WorldType, Unmoved

\* So it is when a script goes on.
LEMMA GoType ==
  ASSUME TypeInv, NEW o \in Operators, NEW pc, NEW w \in Writes \cup {None}, Unmoved,
         Go(o, pc, w), operators[o].pc # "idle", pc # "idle",
         <<operators[o].script, pc>> \in Places,
         w # None => <<operators[o].script, pc, w.what>> \in Awaited,
         operators[o].script = "secrets" =>
           /\ pc \in {"secret", "value", "policy", "next"} => operators[o].todo # <<>>
           /\ pc = "done" => operators[o].todo = <<>>
  PROVE  TypeInv'
<1>1. RunType(operators[o])
  BY DEF TypeInv
<1>2. PICK this : this = [operators[o] EXCEPT !.pc = pc, !.write = w]
  OBVIOUS
<1>3. /\ DOMAIN this = DOMAIN operators[o] /\ this.pc = pc /\ this.write = w
      /\ this.script = operators[o].script /\ this.input = operators[o].input
      /\ this.known = operators[o].known /\ this.todo = operators[o].todo
      /\ this.current = operators[o].current /\ this.item = operators[o].item
  BY <1>1, <1>2, IdleFields DEF RunType
<1>4. RunType(this)
  BY <1>1, <1>3 DEF RunType
<1>5. /\ DOMAIN operators' = Operators /\ operators'[o] = this
      /\ \A p \in Operators \ {o} : operators'[p] = operators[p]
  BY <1>1, <1>2, IdleFields DEF TypeInv, RunType, Go
<1> QED BY <1>4, <1>5, OneRunType

LEMMA InitType == Init => TypeInv
<1> SUFFICES ASSUME Init PROVE TypeInv
  OBVIOUS
<1>1. PICK old \in BOOLEAN :
        /\ secrets = [s \in IF old THEN Secrets ELSE {} |-> <<"old">>]
        /\ policies = [r \in Resources |->
             [etag |-> 0, members |-> IF old /\ r # "engine" THEN Agents ELSE {}]]
        /\ deployed = [a \in IF old THEN Agents ELSE {} |-> 1]
  BY DEF Init
<1>2. RunType(Idle)
  BY DEF RunType, Idle
<1>3. \A r \in Resources :
        [etag |-> 0, members |-> IF old /\ r # "engine" THEN Agents ELSE {}]
          \in [etag : Nat, members : SUBSET Agents]
  OBVIOUS
<1>4. policies \in [Resources -> [etag : Nat, members : SUBSET Agents]]
  BY <1>1, <1>3
<1>5. <<"old">> \in Seq(Values)
  BY DEF Values
<1>6. \A s \in DOMAIN secrets : s \in Secrets /\ secrets[s] \in Seq(Values)
  BY <1>1, <1>5
<1>7. zoho \in [vendors : Nat, items : Seq(Int)]
  BY DEF Init
<1>8. DOMAIN deployed \subseteq Agents
  BY <1>1
<1> QED BY <1>2, <1>4, <1>6, <1>7, <1>8 DEF Init, TypeInv, WorldType

LEMMA FailType ==
  ASSUME TypeInv, NEW o \in Operators, Fail(o)
  PROVE  /\ DOMAIN operators' = Operators
         /\ operators'[o] = Idle
         /\ \A p \in Operators : RunType(operators[p])'
<1>1. RunType(Idle)
  BY DEF RunType, Idle
<1>2. /\ DOMAIN operators' = Operators /\ operators'[o] = Idle
      /\ \A p \in Operators \ {o} : operators'[p] = operators[p]
  BY DEF Fail, TypeInv
<1> QED BY <1>1, <1>2 DEF TypeInv, RunType

LEMMA StartType ==
  ASSUME TypeInv, NEW o \in Operators, NEW script \in DOMAIN FirstStep,
         NEW input \in Inputs[script], Start(o, script, input)
  PROVE  TypeInv'
<1>1. PICK this : this = [Idle EXCEPT !.pc = FirstStep[script], !.script = script,
                                      !.input = input]
  OBVIOUS
<1>2. /\ DOMAIN this = DOMAIN Idle /\ this.pc = FirstStep[script]
      /\ this.script = script /\ this.input = input /\ this.known = {}
      /\ this.todo = <<>> /\ this.current = 0 /\ this.item = 0 /\ this.write = None
  BY <1>1 DEF Idle
<1>3. script \in Scripts
  BY DEF FirstStep, Scripts
<1>4. <<script, FirstStep[script]>> \in Places /\ FirstStep[script] # "idle"
      /\ (script = "secrets" => FirstStep[script] = "principals")
  BY DEF FirstStep, Places
<1>5. script = "iam" => input.member \in Agents
  BY DEF Inputs
<1>6. script = "secrets" => input \in Environments
  BY DEF Inputs
<1>7. RunType(this)
  BY <1>2, <1>3, <1>4, <1>5, <1>6 DEF RunType
<1>8. /\ DOMAIN operators' = Operators /\ operators'[o] = this
      /\ \A p \in Operators \ {o} : operators'[p] = operators[p]
  BY <1>1 DEF TypeInv, Start
<1>9. Unmoved
  BY DEF Start, Unmoved, world
<1> QED BY <1>7, <1>8, <1>9, OneRunType

\* Which script a run at a place is of.
LEMMA WhoIsAt ==
  ASSUME TypeInv, NEW o \in Operators, NEW pc, At(o, pc), pc \notin {"idle"}
  PROVE  /\ operators[o].pc = pc /\ operators[o].write = None
         /\ <<operators[o].script, pc>> \in Places
         /\ RunType(operators[o])
         /\ pc = "key" => operators[o].script = "kms"
         /\ pc = "principals" => operators[o].script \in {"kms", "secrets"}
         /\ pc \in {"secret", "value"} => operators[o].script = "secrets"
         /\ pc \in {"policy", "next"} => operators[o].script \in {"iam", "kms", "secrets"}
         /\ pc \in {"vendor", "item", "stock", "verify"} => operators[o].script = "seed"
         /\ operators[o].script = "secrets" /\ pc \in {"secret", "value", "policy", "next"} =>
              /\ operators[o].todo # <<>> /\ operators[o].todo \in Seq(Secrets)
              /\ Secret(o) \in Secrets /\ Value(o) \in Values
<1>1. RunType(operators[o]) /\ operators[o].pc = pc /\ operators[o].write = None
  BY DEF TypeInv, At
<1>2. <<operators[o].script, pc>> \in Places
  BY <1>1 DEF RunType
<1>3. ASSUME operators[o].script = "secrets", pc \in {"secret", "value", "policy", "next"}
      PROVE  /\ operators[o].todo # <<>> /\ operators[o].todo \in Seq(Secrets)
             /\ Secret(o) \in Secrets /\ Value(o) \in Values
  <2>1. /\ operators[o].todo # <<>> /\ operators[o].todo \in Seq(Secrets)
        /\ operators[o].input \in Environments
    BY <1>1, <1>3 DEF RunType
  <2>2. Secret(o) \in Secrets
    BY <2>1 DEF Secret
  <2> QED BY <2>1, <2>2 DEF Value, Values
<1> QED BY <1>1, <1>2, <1>3 DEF Places

LEMMA FindKeyType ==
  ASSUME TypeInv, NEW o \in Operators, FindKey(o)
  PROVE  TypeInv'
<1>1. PICK w : w = IF keyVersions = 0 THEN Write("key", "key")
                   ELSE IF operators[o].input.rotate THEN Write("key version", "key")
                   ELSE None
  OBVIOUS
<1>2. w \in Writes \cup {None}
  BY <1>1, TheWrites
<1>3. w # None => w.what \in {"key", "key version"}
  BY <1>1 DEF Write
<1>4. operators[o].script = "kms" /\ operators[o].pc = "key"
  BY WhoIsAt DEF FindKey
<1>5. Go(o, "principals", w) /\ Unmoved
  BY <1>1 DEF FindKey, Reads, world, Unmoved
<1> QED BY <1>2, <1>3, <1>4, <1>5, GoType DEF Places, Awaited

LEMMA ListAgentsType ==
  ASSUME TypeInv, NEW o \in Operators, ListAgents(o)
  PROVE  TypeInv'
<1>1. PICK pc : pc = IF operators[o].script = "secrets" THEN "secret"
                     ELSE IF DOMAIN deployed = {} THEN "done" ELSE "policy"
  OBVIOUS
<1>2. PICK todo : todo = IF pc = "secret" THEN SECRETS ELSE <<>>
  OBVIOUS
<1>3. PICK this : this = [operators[o] EXCEPT !.known = DOMAIN deployed, !.pc = pc,
                                              !.todo = todo]
  OBVIOUS
<1>4. /\ RunType(operators[o]) /\ operators[o].pc = "principals"
      /\ operators[o].write = None /\ operators[o].script \in {"kms", "secrets"}
  BY WhoIsAt DEF ListAgents
<1>5. /\ DOMAIN this = DOMAIN operators[o] /\ this.pc = pc /\ this.write = None
      /\ this.script = operators[o].script /\ this.input = operators[o].input
      /\ this.known = DOMAIN deployed /\ this.todo = todo
      /\ this.current = operators[o].current /\ this.item = operators[o].item
  BY <1>3, <1>4, IdleFields DEF RunType
<1>6. todo \in Seq(Secrets) /\ (operators[o].script = "secrets" => todo # <<>>)
  BY <1>1, <1>2, ScriptsAssumption
<1>7. <<operators[o].script, pc>> \in Places /\ pc # "idle"
      /\ (operators[o].script = "secrets" => pc = "secret")
  BY <1>1, <1>4 DEF Places
<1>8. RunType(this)
  BY <1>4, <1>5, <1>6, <1>7 DEF RunType, TypeInv
<1>9. /\ DOMAIN operators' = Operators /\ operators'[o] = this
      /\ \A p \in Operators \ {o} : operators'[p] = operators[p]
  BY <1>1, <1>2, <1>3, <1>4, IdleFields DEF TypeInv, RunType, ListAgents
<1>10. Unmoved
  BY DEF ListAgents, Reads, world, Unmoved
<1> QED BY <1>8, <1>9, <1>10, OneRunType

\* NextSecret: the run goes on with what is left, or is done.
LEMMA NextSecretType ==
  ASSUME TypeInv, NEW o \in Operators, NextSecret(o), Unmoved,
         operators[o].script = "secrets", operators[o].pc \in {"secret", "next"},
         operators[o].write = None
  PROVE  TypeInv'
<1>1. RunType(operators[o])
  BY DEF TypeInv
<1>2. PICK rest : rest = Tail(operators[o].todo)
  OBVIOUS
<1>3. PICK pc : pc = IF rest = <<>> THEN "done" ELSE "secret"
  OBVIOUS
<1>4. PICK this : this = [operators[o] EXCEPT !.todo = rest, !.pc = pc]
  OBVIOUS
<1>5. /\ DOMAIN this = DOMAIN operators[o] /\ this.pc = pc /\ this.write = None
      /\ this.script = operators[o].script /\ this.input = operators[o].input
      /\ this.known = operators[o].known /\ this.todo = rest
      /\ this.current = operators[o].current /\ this.item = operators[o].item
  BY <1>1, <1>4, IdleFields DEF RunType
<1>6. rest \in Seq(Secrets)
  BY <1>1, <1>2 DEF RunType
<1>7. <<operators[o].script, pc>> \in Places
  BY <1>3 DEF Places
<1>8. RunType(this)
  BY <1>1, <1>3, <1>5, <1>6, <1>7 DEF RunType
<1>9. /\ DOMAIN operators' = Operators /\ operators'[o] = this
      /\ \A p \in Operators \ {o} : operators'[p] = operators[p]
  BY <1>1, <1>2, <1>3, <1>4, IdleFields DEF TypeInv, RunType, NextSecret
<1> QED BY <1>8, <1>9, OneRunType

LEMMA FindSecretType ==
  ASSUME TypeInv, NEW o \in Operators, FindSecret(o)
  PROVE  TypeInv'
<1>1. PICK w : w = IF Secret(o) \in DOMAIN secrets THEN None ELSE Write("secret", Secret(o))
  OBVIOUS
<1>2. /\ operators[o].script = "secrets" /\ operators[o].pc = "secret"
      /\ Secret(o) \in Secrets /\ operators[o].todo # <<>>
  BY WhoIsAt DEF FindSecret
<1>3. w \in Writes \cup {None} /\ (w # None => w.what = "secret")
  BY <1>1, <1>2, TheWrites DEF Write
<1>4. Go(o, "value", w) /\ Unmoved
  BY <1>1 DEF FindSecret, Reads, world, Unmoved
<1> QED BY <1>2, <1>3, <1>4, GoType DEF Places, Awaited

\* ReadSecret and ReadSecretFails: a version may be added.
LEMMA AddingType ==
  ASSUME TypeInv, NEW o \in Operators, At(o, "value"),
         NEW w \in {None, AddVersion(o)}, Go(o, Granting(o), w), Unmoved
  PROVE  TypeInv'
<1>1. /\ operators[o].script = "secrets" /\ operators[o].pc = "value"
      /\ Secret(o) \in Secrets /\ Value(o) \in Values /\ operators[o].todo # <<>>
  BY WhoIsAt
<1>2. AddVersion(o) \in Writes /\ AddVersion(o).what = "version"
  BY <1>1, TheWrites DEF AddVersion
<1>3. Granting(o) \in {"next", "policy"}
  BY DEF Granting
<1> QED BY <1>1, <1>2, <1>3, GoType DEF Places, Awaited

LEMMA EditPolicyType ==
  ASSUME TypeInv, NEW o \in Operators, EditPolicy(o)
  PROVE  TypeInv'
<1>1. PICK policy : policy = policies[Resource(o)]
  OBVIOUS
<1>2. PICK new : new = Edited(o, policy.members)
  OBVIOUS
<1>3. PICK w : w = IF new = policy.members THEN None
                   ELSE WritePolicy(Resource(o), policy.members, new, policy.etag)
  OBVIOUS
<1>4. /\ RunType(operators[o])
      /\ operators[o].script \in {"iam", "kms", "secrets"} /\ operators[o].pc = "policy"
      /\ (operators[o].script = "secrets" =>
            Secret(o) \in Secrets /\ operators[o].todo # <<>>)
  BY WhoIsAt DEF EditPolicy
<1>5. Resource(o) \in Resources
  BY <1>4 DEF Resource, Resources
<1>6. policy.members \in SUBSET Agents /\ policy.etag \in Nat
  BY <1>1, <1>5 DEF TypeInv, WorldType
<1>7. new \in SUBSET Agents
  BY <1>2, <1>4, <1>6 DEF Edited, RunType
<1>8. w \in Writes \cup {None} /\ (w # None => w.what = "policy")
  BY <1>3, <1>5, <1>6, <1>7, TheWrites DEF WritePolicy
<1>9. Go(o, "next", w) /\ Unmoved
  BY <1>1, <1>2, <1>3 DEF EditPolicy, Reads, world, Unmoved
<1> QED BY <1>4, <1>8, <1>9, GoType DEF Places, Awaited

LEMMA ContinueType ==
  ASSUME TypeInv, NEW o \in Operators, Continue(o)
  PROVE  TypeInv'
<1>1. operators[o].pc = "next" /\ operators[o].write = None
      /\ operators[o].script \in {"iam", "kms", "secrets"}
  BY WhoIsAt DEF Continue
<1>2. Unmoved
  BY DEF Continue, world, Unmoved
<1>3. CASE operators[o].script = "secrets"
  BY <1>1, <1>2, <1>3, NextSecretType DEF Continue
<1>4. CASE operators[o].script # "secrets"
  <2>1. Go(o, "done", None)
    BY <1>4 DEF Continue
  <2>2. <<operators[o].script, "done">> \in Places
    BY <1>1 DEF Places
  <2> QED BY <1>1, <1>2, <1>4, <2>1, <2>2, GoType
<1> QED BY <1>3, <1>4

LEMMA SeedType ==
  ASSUME TypeInv, NEW o \in Operators, FindVendor(o) \/ AdjustStock(o) \/ VerifySeed(o)
  PROVE  TypeInv'
<1>1. CASE FindVendor(o)
  <2>1. operators[o].script = "seed" /\ operators[o].pc = "vendor"
    BY <1>1, WhoIsAt DEF FindVendor
  <2>2. PICK w : w = IF zoho.vendors = 0 THEN Write("vendor", None) ELSE None
    OBVIOUS
  <2>3. w \in Writes \cup {None} /\ (w # None => w.what = "vendor")
    BY <2>2, TheWrites DEF Write
  <2>4. Go(o, "item", w) /\ Unmoved
    BY <1>1, <2>2 DEF FindVendor, Reads, world, Unmoved
  <2> QED BY <2>1, <2>3, <2>4, GoType DEF Places, Awaited
<1>2. CASE AdjustStock(o)
  <2>1. /\ operators[o].script = "seed" /\ operators[o].pc = "stock"
        /\ RunType(operators[o])
    BY <1>2, WhoIsAt DEF AdjustStock
  <2>2. PICK by : by = TARGET_STOCK - operators[o].current
    OBVIOUS
  <2>3. by \in Int /\ operators[o].item \in Nat
    BY <2>1, <2>2, ScriptsAssumption DEF RunType
  <2>4. PICK w : w = IF by <= 0 THEN None
                     ELSE [what |-> "adjust", resource |-> operators[o].item, by |-> by]
    OBVIOUS
  <2>5. w \in Writes \cup {None} /\ (w # None => w.what = "adjust")
    BY <2>3, <2>4, TheWrites
  <2>6. Go(o, "verify", w) /\ Unmoved
    BY <1>2, <2>2, <2>4 DEF AdjustStock, Reads, world, Unmoved
  <2> QED BY <2>1, <2>5, <2>6, GoType DEF Places, Awaited
<1>3. CASE VerifySeed(o)
  <2>1. operators[o].script = "seed" /\ operators[o].pc = "verify"
    BY <1>3, WhoIsAt DEF VerifySeed
  <2>2. Go(o, "done", None) /\ Unmoved
    BY <1>3 DEF VerifySeed, Reads, world, Unmoved
  <2> QED BY <2>1, <2>2, GoType DEF Places, Awaited
<1> QED BY <1>1, <1>2, <1>3

LEMMA FindItemType ==
  ASSUME TypeInv, NEW o \in Operators, FindItem(o)
  PROVE  TypeInv'
<1>1. PICK found : found = (zoho.items # <<>>)
  OBVIOUS
<1>2. PICK i : i = IF zoho.items # <<>> THEN 1 ELSE 0
  OBVIOUS
<1>3. PICK n : n = IF zoho.items # <<>> THEN zoho.items[1] ELSE 0
  OBVIOUS
<1>4. PICK w : w = IF zoho.items # <<>> THEN None ELSE Write("item", None)
  OBVIOUS
<1>5. PICK this : this = [operators[o] EXCEPT !.pc = "stock", !.item = i, !.current = n,
                                              !.write = w]
  OBVIOUS
<1>6. /\ RunType(operators[o]) /\ operators[o].pc = "item" /\ operators[o].script = "seed"
  BY WhoIsAt DEF FindItem
<1>7. /\ DOMAIN this = DOMAIN operators[o] /\ this.pc = "stock" /\ this.write = w
      /\ this.script = operators[o].script /\ this.input = operators[o].input
      /\ this.known = operators[o].known /\ this.todo = operators[o].todo
      /\ this.current = n /\ this.item = i
  BY <1>5, <1>6, IdleFields DEF RunType
<1>8. zoho.items \in Seq(Int)
  BY DEF TypeInv, WorldType
<1>9. n \in Int /\ i \in Nat
  BY <1>2, <1>3, <1>8
<1>10. w \in Writes \cup {None} /\ (w # None => w.what = "item")
  BY <1>4, TheWrites DEF Write
<1>11. RunType(this)
  BY <1>6, <1>7, <1>9, <1>10 DEF RunType, Places, Awaited
<1>12. /\ DOMAIN operators' = Operators /\ operators'[o] = this
       /\ \A p \in Operators \ {o} : operators'[p] = operators[p]
  BY <1>2, <1>3, <1>4, <1>5, <1>6, IdleFields DEF TypeInv, RunType, FindItem
<1>13. Unmoved
  BY DEF FindItem, Reads, world, Unmoved
<1> QED BY <1>11, <1>12, <1>13, OneRunType

\* What a call that was answered makes of its run.
LEMMA Answered ==
  ASSUME TypeInv, NEW o \in Operators, NEW answered \in BOOLEAN, Call(o, answered),
         ~ Refused(operators[o].write), answered
  PROVE  /\ operators[o].write \in Writes
         /\ DOMAIN operators' = Operators
         /\ \A p \in Operators \ {o} : operators'[p] = operators[p]
         /\ DOMAIN operators'[o] = DOMAIN Idle
         /\ operators'[o].pc = operators[o].pc /\ operators'[o].write = None
         /\ operators'[o].script = operators[o].script
         /\ operators'[o].input = operators[o].input
         /\ operators'[o].known = operators[o].known
         /\ operators'[o].todo = operators[o].todo
         /\ operators'[o].current = operators[o].current
         /\ operators'[o].item = IF operators[o].write.what = "item"
                                 THEN Len(zoho.items) + 1 ELSE operators[o].item
<1>1. RunType(operators[o]) /\ operators[o].write # None
  BY DEF TypeInv, Call
<1>2. PICK i : i = IF operators[o].write.what = "item" THEN Len(zoho.items) + 1
                   ELSE operators[o].item
  OBVIOUS
<1>3. operators' = [operators EXCEPT ![o].write = None, ![o].item = i]
  BY <1>2 DEF Call
<1> QED BY <1>1, <1>2, <1>3, IdleFields DEF TypeInv, RunType

LEMMA CallType ==
  ASSUME TypeInv, NEW o \in Operators, NEW answered \in BOOLEAN, Call(o, answered)
  PROVE  TypeInv'
<1>1. operators[o].write \in Writes
  BY DEF Call, TypeInv, RunType
<1>2. WorldType'
  <2>1. CASE Refused(operators[o].write)
    BY <2>1 DEF Call, world, TypeInv, WorldType
  <2>2. CASE ~ Refused(operators[o].write)
    BY <1>1, <2>2, PerformType DEF Call, TypeInv
  <2> QED BY <2>1, <2>2
<1>3. DOMAIN operators' = Operators /\ \A p \in Operators : RunType(operators[p])'
  <2>1. CASE Refused(operators[o].write) \/ ~ answered
    BY <2>1, FailType DEF Call
  <2>2. CASE ~ Refused(operators[o].write) /\ answered
    <3>0. /\ \A p \in Operators \ {o} : operators'[p] = operators[p]
          /\ operators'[o].item = IF operators[o].write.what = "item"
                                  THEN Len(zoho.items) + 1 ELSE operators[o].item
      BY <2>2, Answered
    <3>1. \A p \in Operators \ {o} : RunType(operators[p])'
      BY <3>0 DEF TypeInv, RunType
    <3>2. RunType(operators[o]) /\ zoho.items \in Seq(Int)
      BY DEF TypeInv, WorldType
    <3>3. operators'[o].item \in Nat
      BY <3>0, <3>2 DEF RunType
    <3>4. RunType(operators[o])'
      BY <2>2, <3>2, <3>3, Answered DEF RunType
    <3> QED BY <2>2, <3>1, <3>4, Answered
  <2> QED BY <2>1, <2>2
<1> QED BY <1>2, <1>3 DEF Call, TypeInv

LEMMA GiveUpType ==
  ASSUME TypeInv, NEW o \in Operators, NEW onItsWay \in BOOLEAN, GiveUp(o, onItsWay)
  PROVE  TypeInv'
<1>1. \A l \in late' : l[2] \in Writes
  <2>1. onItsWay => operators[o].write \in Writes
    BY DEF GiveUp, TypeInv, RunType
  <2> QED BY <2>1 DEF GiveUp, TypeInv
<1>2. WorldType' /\ deployed' = deployed
  BY DEF GiveUp, TypeInv, WorldType, world
<1>3. DOMAIN operators' = Operators /\ \A p \in Operators : RunType(operators[p])'
  BY FailType DEF GiveUp
<1> QED BY <1>1, <1>2, <1>3 DEF TypeInv

LEMMA LandType ==
  ASSUME TypeInv, NEW l \in late, Land(l)
  PROVE  TypeInv'
<1>1. WorldType'
  <2>1. CASE Refused(l[2])
    BY <2>1 DEF Land, world, TypeInv, WorldType
  <2>2. CASE ~ Refused(l[2])
    BY <2>2, PerformType DEF Land, TypeInv
  <2> QED BY <2>1, <2>2
<1>2. \A p \in Operators : RunType(operators[p])'
  BY DEF Land, TypeInv, RunType
<1> QED BY <1>1, <1>2 DEF Land, TypeInv

LEMMA DeployType ==
  ASSUME TypeInv, NEW a \in Agents, NEW version, Deploy(a, version)
  PROVE  TypeInv'
<1>1. DOMAIN deployed' \subseteq Agents
  BY DEF Deploy, TypeInv
<1>2. \A p \in Operators : RunType(operators[p])'
  BY DEF Deploy, TypeInv, RunType
<1> QED BY <1>1, <1>2 DEF Deploy, TypeInv, WorldType, world

\* One action at a time, every step keeps the types.
LEMMA TypeStep ==
  ASSUME TypeInv, [Next]_vars
  PROVE  TypeInv'
<1>1. ASSUME NEW o \in Operators, Step(o)
      PROVE  TypeInv'
  <2>1. CASE SkipSecret(o)
    <3>1. operators[o].script = "secrets" /\ operators[o].pc = "secret"
          /\ operators[o].write = None
      BY <2>1, WhoIsAt DEF SkipSecret
    <3>2. NextSecret(o) /\ Unmoved
      BY <2>1 DEF SkipSecret, Reads, world, Unmoved
    <3> QED BY <3>1, <3>2, NextSecretType
  <2>2. CASE ReadSecret(o)
    <3>1. Unmoved /\ At(o, "value")
      BY <2>2 DEF ReadSecret, Reads, world, Unmoved
    <3>2. \E w \in {None, AddVersion(o)} : Go(o, Granting(o), w)
      BY <2>2 DEF ReadSecret
    <3> QED BY <3>1, <3>2, AddingType
  <2>3. CASE ReadSecretFails(o)
    <3>1. Unmoved /\ At(o, "value") /\ Go(o, Granting(o), AddVersion(o))
      BY <2>3 DEF ReadSecretFails, world, Unmoved
    <3> QED BY <3>1, AddingType
  <2> QED BY <1>1, <2>1, <2>2, <2>3, FindKeyType, ListAgentsType, FindSecretType,
            EditPolicyType, ContinueType, SeedType, FindItemType DEF Step
<1>2. CASE UNCHANGED vars
  BY <1>2 DEF vars, TypeInv, WorldType, RunType
<1> QED BY <1>1, <1>2, StartType, CallType, GiveUpType, LandType, DeployType DEF Next

-----------------------------------------------------------------------------
(* Policies *)

\* A write that is carried out is under way in a run, or late.
Performed(w) == w \in InFlight /\ w \in Writes /\ ~ Refused(w) /\ Perform(w)

LEMMA FlightTypes ==
  ASSUME TypeInv, NEW w \in InFlight, w # None
  PROVE  w \in Writes
  BY DEF TypeInv, InFlight, RunType

LEMMA PolicyChange ==
  ASSUME TypeInv, PoliciesInv, NEW w, Performed(w), NEW r \in Resources
  PROVE  \/ policies'[r] = policies[r]
         \/ /\ w.what = "policy" /\ w.resource = r /\ w # None
            /\ PolicyWrite(w) /\ w.etag = policies[r].etag /\ w.before = policies[r].members
            /\ policies'[r].etag = policies[r].etag + 1
            /\ policies'[r].members = w.members
<1>1. CASE w.what = "policy" /\ w.resource = r
  <2>1. policies' = [policies EXCEPT ![r] = [etag |-> @.etag + 1, members |-> w.members]]
    BY <1>1 DEF Performed, Perform
  <2>2. policies'[r] = [etag |-> policies[r].etag + 1, members |-> w.members]
    BY <2>1 DEF TypeInv, WorldType
  <2>3. w.etag = policies[r].etag /\ w # None /\ PolicyWrite(w)
    BY <1>1, NoneAssumption DEF Performed, Refused, PoliciesInv
  <2>4. w.before = policies[r].members
    BY <1>1, <2>3 DEF PolicyWrite
  <2> QED BY <1>1, <2>2, <2>3, <2>4
<1>2. CASE w.what = "policy" /\ w.resource # r
  BY <1>2 DEF Performed, Perform
<1>3. CASE w.what # "policy"
  BY <1>3 DEF Performed, Perform
<1> QED BY <1>1, <1>2, <1>3

\* A write under way stays what it is when another one is carried out.
LEMMA PolicyWriteStays ==
  ASSUME TypeInv, PoliciesInv, NEW w \in InFlight, w # None, w.what = "policy",
         policies' = policies \/ \E v : Performed(v)
  PROVE  PolicyWrite(w)'
<1>1. PolicyWrite(w) /\ w.resource \in Resources /\ w.etag \in Nat
  BY FlightTypes, WriteKinds DEF PoliciesInv
<1>2. CASE policies'[w.resource] = policies[w.resource]
  BY <1>1, <1>2 DEF PolicyWrite
<1>3. ASSUME NEW v, Performed(v), policies'[w.resource] # policies[w.resource]
      PROVE  PolicyWrite(w)'
  <2>1. policies'[w.resource].etag = policies[w.resource].etag + 1
    BY <1>1, <1>3, PolicyChange
  <2>2. policies[w.resource].etag \in Nat
    BY <1>1 DEF TypeInv, WorldType
  <2>3. w.etag < policies'[w.resource].etag
    BY <1>1, <2>1, <2>2 DEF PolicyWrite
  <2> QED BY <1>1, <2>1, <2>2, <2>3 DEF PolicyWrite
<1> QED BY <1>2, <1>3

\* Whatever is carried out, agents that a run has granted what they are entitled
\* to keep exactly that.
LEMMA EntitledStays ==
  ASSUME TypeInv, PoliciesInv, policies' = policies \/ \E v : Performed(v),
         NEW s \in Secrets, NEW known, Entitled(s, policies[s].members, known)
  PROVE  Entitled(s, policies'[s].members, known)
<1>1. CASE policies'[s] = policies[s]
  BY <1>1
<1>2. ASSUME NEW v, Performed(v), policies'[s] # policies[s]
      PROVE  Entitled(s, policies'[s].members, known)
  <2>1. s \in Resources
    BY DEF Resources
  <2>2. /\ v.resource = s /\ PolicyWrite(v) /\ v.before = policies[s].members
        /\ policies'[s].members = v.members
    BY <1>2, <2>1, PolicyChange
  <2>3. PICK others \in SUBSET Agents :
          v.members = (v.before \ others) \cup (others \cap SECRET_AGENTS[s])
    BY <2>2 DEF PolicyWrite
  <2> QED BY <2>2, <2>3 DEF Entitled
<1> QED BY <1>1, <1>2

\* What is under way after a step in which a script goes on, or stops.
LEMMA GoFlight ==
  ASSUME TypeInv, NEW o \in Operators, NEW pc, NEW w, Go(o, pc, w), late' = late
  PROVE  InFlight' \subseteq InFlight \cup {w}
<1>1. \A p \in Operators : operators'[p].write \in InFlight \cup {w}
  BY IdleFields DEF TypeInv, RunType, Go, InFlight
<1> QED BY <1>1 DEF InFlight

LEMMA FailFlight ==
  ASSUME TypeInv, NEW o \in Operators, Fail(o), late' \subseteq late \cup {<<runs, operators[o].write>>}
  PROVE  InFlight' \subseteq InFlight \cup {None}
<1>1. \A p \in Operators : operators'[p].write \in InFlight \cup {None}
  BY DEF TypeInv, Fail, Idle, InFlight
<1>2. \A l \in late' : l[2] \in InFlight
  BY DEF InFlight
<1> QED BY <1>1, <1>2 DEF InFlight

\* Every step either leaves the world alone, or carries out one write; the only
\* new policy among the writes under way is the one that EditPolicy has made.
LEMMA WorldStep ==
  ASSUME TypeInv, [Next]_vars
  PROVE  UNCHANGED world \/ \E v : Performed(v)
<1>1. ASSUME NEW o \in Operators, NEW answered \in BOOLEAN, Call(o, answered)
      PROVE  UNCHANGED world \/ \E v : Performed(v)
  <2>1. operators[o].write \in InFlight /\ operators[o].write \in Writes
    BY <1>1 DEF InFlight, Call, TypeInv, RunType
  <2> QED BY <1>1, <2>1 DEF Call, Performed
<1>2. ASSUME NEW l \in late, Land(l)
      PROVE  UNCHANGED world \/ \E v : Performed(v)
  <2>1. l[2] \in InFlight /\ l[2] \in Writes
    BY DEF InFlight, TypeInv
  <2> QED BY <1>2, <2>1 DEF Land, Performed
<1>3. ASSUME NEW o \in Operators, Step(o)
      PROVE  UNCHANGED world
  BY <1>3 DEF Step, FindKey, ListAgents, SkipSecret, FindSecret, ReadSecret,
     ReadSecretFails, EditPolicy, Continue, FindVendor, FindItem, AdjustStock, VerifySeed,
     Reads
<1>4. CASE UNCHANGED vars
  BY <1>4 DEF vars, world
<1> QED BY <1>1, <1>2, <1>3, <1>4 DEF Next, Start, GiveUp, Deploy

LEMMA CallFlight ==
  ASSUME TypeInv, NEW o \in Operators, NEW answered \in BOOLEAN, Call(o, answered)
  PROVE  InFlight' \subseteq InFlight \cup {None}
<1>1. late' = late
  BY DEF Call
<1>2. CASE Refused(operators[o].write) \/ ~ answered
  BY <1>1, <1>2, FailFlight DEF Call
<1>3. CASE ~ Refused(operators[o].write) /\ answered
  <2>1. /\ \A p \in Operators \ {o} : operators'[p] = operators[p]
        /\ operators'[o].write = None
    BY <1>3, Answered
  <2> QED BY <1>1, <2>1 DEF InFlight
<1> QED BY <1>2, <1>3

LEMMA EditedPolicy ==
  ASSUME TypeInv, NEW o \in Operators, EditPolicy(o)
  PROVE  \E w : /\ Go(o, "next", w)
                /\ w # None => w.what = "policy" /\ PolicyWrite(w)
                /\ operators[o].script = "secrets" =>
                     IF w = None
                     THEN Entitled(Secret(o), policies[Secret(o)].members, operators[o].known)
                     ELSE /\ w.resource = Secret(o)
                          /\ Entitled(Secret(o), w.members, operators[o].known)
<1>1. PICK policy : policy = policies[Resource(o)]
  OBVIOUS
<1>2. PICK new : new = Edited(o, policy.members)
  OBVIOUS
<1>3. PICK w : w = IF new = policy.members THEN None
                   ELSE WritePolicy(Resource(o), policy.members, new, policy.etag)
  OBVIOUS
<1>4. Go(o, "next", w)
  BY <1>1, <1>2, <1>3 DEF EditPolicy
<1>5. /\ operators[o].script \in {"iam", "kms", "secrets"} /\ RunType(operators[o])
      /\ (operators[o].script = "secrets" => Secret(o) \in Secrets)
  BY WhoIsAt DEF EditPolicy
<1>6. Resource(o) \in Resources
  BY <1>5 DEF Resource, Resources
<1>7. policy.etag \in Nat /\ policy.members \in SUBSET Agents
  BY <1>1, <1>6 DEF TypeInv, WorldType
<1>8. operators[o].script = "secrets" =>
        /\ Resource(o) = Secret(o)
        /\ new = (policy.members \ operators[o].known)
                   \cup (operators[o].known \cap SECRET_AGENTS[Secret(o)])
        /\ operators[o].known \in SUBSET Agents
  BY <1>2, <1>5 DEF Resource, Edited, RunType
<1>9. Resource(o) \in Secrets => operators[o].script = "secrets"
  BY <1>5, ScriptsAssumption DEF Resource
<1>10. operators[o].script = "secrets" => Entitled(Secret(o), new, operators[o].known)
  BY <1>8 DEF Entitled
<1>11. CASE new = policy.members
  BY <1>1, <1>3, <1>4, <1>8, <1>10, <1>11
<1>12. CASE new # policy.members
  <2>1. /\ w.what = "policy" /\ w.resource = Resource(o) /\ w.before = policy.members
        /\ w.members = new /\ w.etag = policy.etag /\ w # None
    <3>1. w = WritePolicy(Resource(o), policy.members, new, policy.etag)
      BY <1>3, <1>12
    <3>2. new \in SUBSET Agents
      <4>1. /\ operators[o].known \in SUBSET Agents /\ operators[o].pc = "policy"
            /\ (operators[o].script = "iam" => operators[o].input.member \in Agents)
        BY <1>5 DEF RunType, EditPolicy, At
      <4> QED BY <1>2, <1>5, <1>7, <4>1 DEF Edited
    <3>3. w \in Writes
      BY <1>6, <1>7, <3>1, <3>2, TheWrites
    <3> QED BY <3>1, <3>3, NoneAssumption DEF WritePolicy
  <2>2. PolicyWrite(w)
    BY <1>1, <1>7, <1>8, <1>9, <2>1 DEF PolicyWrite
  <2> QED BY <1>4, <1>8, <1>10, <2>1, <2>2
<1> QED BY <1>11, <1>12

LEMMA InitPolicies == Init => PoliciesInv /\ GrantsInv
<1> SUFFICES ASSUME Init PROVE PoliciesInv /\ GrantsInv
  OBVIOUS
<1>1. \A o \in Operators : operators[o].write = None /\ operators[o].pc = "idle"
  BY DEF Init, Idle
<1>2. late = {}
  BY DEF Init
<1> QED BY <1>1, <1>2 DEF PoliciesInv, InFlight, GrantsInv, GrantsOf

\* What is under way after a step was so before it, or is not a policy, or is one
\* that nobody else knows better.
LEMMA NewWrites ==
  ASSUME TypeInv, [Next]_vars, NEW w \in InFlight'
  PROVE  w \in InFlight \/ w = None \/ w.what # "policy"
           \/ (UNCHANGED world /\ PolicyWrite(w))
<1>1. ASSUME NEW o \in Operators, Step(o)
      PROVE  w \in InFlight \/ w = None \/ w.what # "policy"
               \/ (UNCHANGED world /\ PolicyWrite(w))
  <2>1. CASE FindKey(o)
    <3>1. PICK x : x = IF keyVersions = 0 THEN Write("key", "key")
                       ELSE IF operators[o].input.rotate THEN Write("key version", "key")
                       ELSE None
      OBVIOUS
    <3>2. x = None \/ x.what # "policy"
      BY <3>1 DEF Write
    <3>3. Go(o, "principals", x) /\ late' = late
      BY <2>1, <3>1 DEF FindKey, Reads
    <3> QED BY <3>2, <3>3, GoFlight
  <2>2. CASE ListAgents(o)
    <3>1. \A p \in Operators : operators'[p].write = operators[p].write
      BY <2>2, IdleFields DEF ListAgents, TypeInv, RunType
    <3> QED BY <2>2, <3>1 DEF InFlight, ListAgents, Reads
  <2>3. CASE NextSecret(o) /\ late' = late
    <3>1. \A p \in Operators : operators'[p].write = operators[p].write
      BY <2>3, IdleFields DEF NextSecret, TypeInv, RunType
    <3> QED BY <2>3, <3>1 DEF InFlight
  <2>4. CASE FindSecret(o)
    <3>1. PICK x : x = IF Secret(o) \in DOMAIN secrets THEN None
                       ELSE Write("secret", Secret(o))
      OBVIOUS
    <3>2. x = None \/ x.what # "policy"
      BY <3>1 DEF Write
    <3>3. Go(o, "value", x) /\ late' = late
      BY <2>4, <3>1 DEF FindSecret, Reads
    <3> QED BY <3>2, <3>3, GoFlight
  <2>5. CASE ReadSecret(o) \/ ReadSecretFails(o)
    <3>1. PICK x \in {None, AddVersion(o)} : Go(o, Granting(o), x) /\ late' = late
      BY <2>5 DEF ReadSecret, ReadSecretFails, Reads
    <3>2. x = None \/ x.what # "policy"
      BY DEF AddVersion
    <3> QED BY <3>1, <3>2, GoFlight
  <2>6. CASE EditPolicy(o)
    <3>1. PICK x : Go(o, "next", x) /\ (x # None => PolicyWrite(x))
      BY <2>6, EditedPolicy
    <3>2. late' = late /\ UNCHANGED world
      BY <2>6 DEF EditPolicy, Reads
    <3> QED BY <3>1, <3>2, GoFlight
  <2>7. CASE Go(o, "done", None) /\ late' = late
    BY <2>7, GoFlight
  <2>8. CASE FindVendor(o)
    <3>1. PICK x : x = IF zoho.vendors = 0 THEN Write("vendor", None) ELSE None
      OBVIOUS
    <3>2. x = None \/ x.what # "policy"
      BY <3>1 DEF Write
    <3>3. Go(o, "item", x) /\ late' = late
      BY <2>8, <3>1 DEF FindVendor, Reads
    <3> QED BY <3>2, <3>3, GoFlight
  <2>9. CASE FindItem(o)
    <3>1. PICK x : x = IF zoho.items # <<>> THEN None ELSE Write("item", None)
      OBVIOUS
    <3>2. x = None \/ x.what # "policy"
      BY <3>1 DEF Write
    <3>3. \A p \in Operators : operators'[p].write \in {operators[p].write, x}
      BY <2>9, <3>1, IdleFields DEF FindItem, TypeInv, RunType
    <3>4. late' = late
      BY <2>9 DEF FindItem, Reads
    <3> QED BY <3>2, <3>3, <3>4 DEF InFlight
  <2>10. CASE AdjustStock(o)
    <3>1. PICK x : x = IF TARGET_STOCK - operators[o].current <= 0 THEN None
                       ELSE [what |-> "adjust", resource |-> operators[o].item,
                             by |-> TARGET_STOCK - operators[o].current]
      OBVIOUS
    <3>2. x = None \/ x.what # "policy"
      BY <3>1
    <3>3. Go(o, "verify", x) /\ late' = late
      BY <2>10, <3>1 DEF AdjustStock, Reads
    <3> QED BY <3>2, <3>3, GoFlight
  <2> QED BY <1>1, <2>1, <2>2, <2>3, <2>4, <2>5, <2>6, <2>7, <2>8, <2>9, <2>10
          DEF Step, SkipSecret, Continue, VerifySeed, Reads
<1>2. ASSUME NEW o \in Operators, NEW script \in DOMAIN FirstStep,
             NEW input \in Inputs[script], Start(o, script, input)
      PROVE  w \in InFlight \cup {None}
  <2>1. \A p \in Operators : operators'[p].write \in {operators[p].write, None}
    BY <1>2 DEF Start, Idle, TypeInv
  <2> QED BY <1>2, <2>1 DEF InFlight, Start
<1>3. ASSUME NEW o \in Operators, NEW onItsWay \in BOOLEAN, GiveUp(o, onItsWay)
      PROVE  w \in InFlight \cup {None}
  BY <1>3, FailFlight DEF GiveUp
<1>4. ASSUME NEW l \in late, Land(l)
      PROVE  w \in InFlight
  BY <1>4 DEF Land, InFlight
<1>5. ASSUME NEW a \in Agents, NEW version, Deploy(a, version)
      PROVE  w \in InFlight
  BY <1>5 DEF Deploy, InFlight
<1>6. CASE UNCHANGED vars
  BY <1>6 DEF vars, InFlight
<1> QED BY <1>1, <1>2, <1>3, <1>4, <1>5, <1>6, CallFlight DEF Next

LEMMA PoliciesStep ==
  ASSUME TypeInv, PoliciesInv, [Next]_vars
  PROVE  PoliciesInv'
<1> SUFFICES ASSUME NEW w \in InFlight', w # None, w.what = "policy"
             PROVE  PolicyWrite(w)'
  BY DEF PoliciesInv
<1>1. CASE w \in InFlight
  <2>1. policies' = policies \/ \E v : Performed(v)
    BY WorldStep DEF world
  <2> QED BY <1>1, <2>1, PolicyWriteStays
<1>2. CASE UNCHANGED world /\ PolicyWrite(w)
  BY <1>2 DEF PolicyWrite, world
<1> QED BY <1>1, <1>2, NewWrites

\* A step of one run leaves what all others have granted.
LEMMA GrantsOfOthers ==
  ASSUME TypeInv, PoliciesInv, policies' = policies \/ \E v : Performed(v),
         NEW p \in Operators, GrantsOf(p), operators'[p] = operators[p]
  PROVE  GrantsOf(p)'
<1> SUFFICES ASSUME operators[p].script = "secrets",
                    operators[p].pc \in {"secret", "value", "policy", "next", "done"}
             PROVE  GrantsOf(p)'
  BY DEF GrantsOf
<1>1. \A s \in Secrets : Granted(p, s) => Granted(p, s)'
  BY EntitledStays DEF Granted
<1>2. operators[p].pc = "next" => Head(operators[p].todo) \in Secrets
  <2>1. RunType(operators[p])
    BY DEF TypeInv
  <2>2. operators[p].pc = "next" =>
          operators[p].todo # <<>> /\ operators[p].todo \in Seq(Secrets)
    BY <2>1 DEF RunType
  <2> QED BY <2>2
<1> QED BY <1>1, <1>2 DEF GrantsOf

\* What is left of a sequence is without its first element at most.
LEMMA TailSet ==
  ASSUME NEW S, NEW s \in Seq(S), s # <<>>
  PROVE  ToSet(s) \subseteq ToSet(Tail(s)) \cup {Head(s)}
<1> SUFFICES ASSUME NEW i \in DOMAIN s PROVE s[i] \in ToSet(Tail(s)) \cup {Head(s)}
  BY DEF ToSet
<1>1. CASE i = 1
  BY <1>1
<1>2. CASE i # 1
  <2>1. i - 1 \in DOMAIN Tail(s) /\ Tail(s)[i - 1] = s[i]
    BY <1>2
  <2> QED BY <2>1 DEF ToSet
<1> QED BY <1>1, <1>2

\* A run that goes on, or stops, without having dealt with another secret.
LEMMA GrantsOfGo ==
  ASSUME TypeInv, NEW o \in Operators, NEW pc, NEW w, Go(o, pc, w), policies' = policies
  PROVE  /\ \A p \in Operators \ {o} : operators'[p] = operators[p]
         /\ operators'[o].pc = pc /\ operators'[o].write = w
         /\ operators'[o].script = operators[o].script
         /\ operators'[o].input = operators[o].input
         /\ operators'[o].known = operators[o].known
         /\ operators'[o].todo = operators[o].todo
         /\ operators'[o].current = operators[o].current
         /\ operators'[o].item = operators[o].item
  BY IdleFields DEF TypeInv, RunType, Go

LEMMA NextSecretMoves ==
  ASSUME TypeInv, NEW o \in Operators, NextSecret(o)
  PROVE  /\ \A p \in Operators \ {o} : operators'[p] = operators[p]
         /\ operators'[o].pc = IF Tail(operators[o].todo) = <<>> THEN "done" ELSE "secret"
         /\ operators'[o].write = operators[o].write
         /\ operators'[o].script = operators[o].script
         /\ operators'[o].input = operators[o].input
         /\ operators'[o].known = operators[o].known
         /\ operators'[o].todo = Tail(operators[o].todo)
<1>1. PICK pc : pc = IF Tail(operators[o].todo) = <<>> THEN "done" ELSE "secret"
  OBVIOUS
<1>2. operators' = [operators EXCEPT ![o].todo = Tail(operators[o].todo), ![o].pc = pc]
  BY <1>1 DEF NextSecret
<1> QED BY <1>1, <1>2, IdleFields DEF TypeInv, RunType

\* A run that is through with a secret has granted one more.
LEMMA GrantsNext ==
  ASSUME TypeInv, GrantsInv, NEW o \in Operators, NextSecret(o), policies' = policies,
         operators[o].script = "secrets", operators[o].pc \in {"secret", "next"},
         operators[o].write = None, Granted(o, Secret(o))
  PROVE  GrantsOf(o)'
<1>1. operators[o].todo \in Seq(Secrets) /\ operators[o].todo # <<>>
  BY DEF TypeInv, RunType
<1>2. \A s \in Secrets \ ToSet(operators[o].todo) : Granted(o, s)
  BY DEF GrantsInv, GrantsOf
<1>3. \A s \in Secrets \ ToSet(Tail(operators[o].todo)) : Granted(o, s)
  BY <1>1, <1>2, TailSet DEF Secret
<1>4. \A s \in Secrets : Granted(o, s) => Granted(o, s)'
  BY NextSecretMoves DEF Granted
<1>5. operators'[o].todo = Tail(operators[o].todo) /\ operators'[o].pc \in {"done", "secret"}
  BY NextSecretMoves
<1> QED BY <1>3, <1>4, <1>5 DEF GrantsOf

\* One action at a time: what the run that moves has granted.
LEMMA GrantsOfMover ==
  ASSUME TypeInv, PoliciesInv, GrantsInv, NEW o \in Operators, Step(o)
  PROVE  /\ \A p \in Operators \ {o} : operators'[p] = operators[p]
         /\ GrantsOf(o)'
<1>1. CASE FindKey(o)
  <2>1. PICK x : Go(o, "principals", x)
    BY <1>1 DEF FindKey
  <2>2. policies' = policies
    BY <1>1 DEF FindKey, Reads, world
  <2>3. /\ \A p \in Operators \ {o} : operators'[p] = operators[p]
        /\ operators'[o].pc = "principals"
    BY <2>1, <2>2, GrantsOfGo
  <2> QED BY <2>3 DEF GrantsOf
<1>2. CASE ListAgents(o)
  <2>1. \A p \in Operators \ {o} : operators'[p] = operators[p]
    BY <1>2 DEF ListAgents, TypeInv
  <2>2. /\ operators'[o].script = operators[o].script
        /\ (operators[o].script = "secrets" =>
              operators'[o].pc = "secret" /\ operators'[o].todo = SECRETS)
    BY <1>2, IdleFields DEF ListAgents, TypeInv, RunType
  <2>3. Secrets \ ToSet(SECRETS) = {}
    BY DEF Secrets
  <2> QED BY <2>1, <2>2, <2>3 DEF GrantsOf
<1>3. CASE SkipSecret(o)
  <2>1. operators[o].script = "secrets" /\ operators[o].pc = "secret"
        /\ operators[o].write = None
    BY <1>3, WhoIsAt DEF SkipSecret
  <2>2. Granted(o, Secret(o))
    BY <1>3 DEF SkipSecret, Granted, Value
  <2>3. NextSecret(o) /\ policies' = policies
    BY <1>3 DEF SkipSecret, Reads, world
  <2> QED BY <2>1, <2>2, <2>3, GrantsNext, NextSecretMoves
<1>4. CASE FindSecret(o)
  <2>1. operators[o].script = "secrets" /\ operators[o].pc = "secret"
    BY <1>4, WhoIsAt DEF FindSecret
  <2>2. PICK x : Go(o, "value", x) /\ policies' = policies
    BY <1>4 DEF FindSecret, Reads, world
  <2>3. \A s \in Secrets \ ToSet(operators[o].todo) : Granted(o, s)
    BY <2>1 DEF GrantsInv, GrantsOf
  <2> QED BY <2>2, <2>3, GrantsOfGo DEF GrantsOf, Granted
<1>5. CASE ReadSecret(o) \/ ReadSecretFails(o)
  <2>1. operators[o].script = "secrets" /\ operators[o].pc = "value"
        /\ RunType(operators[o])
    BY <1>5, WhoIsAt DEF ReadSecret, ReadSecretFails
  <2>2. PICK x \in {None, AddVersion(o)} : Go(o, Granting(o), x) /\ policies' = policies
    BY <1>5 DEF ReadSecret, ReadSecretFails, Reads, world
  <2>3. \A s \in Secrets \ ToSet(operators[o].todo) : Granted(o, s)
    BY <2>1 DEF GrantsInv, GrantsOf
  <2>4. AddVersion(o).what = "version"
    BY DEF AddVersion
  <2>5. CASE operators[o].known = {}
    <3>1. \A s : Granted(o, s)'
      BY <2>2, <2>5, GrantsOfGo DEF Granted, Entitled
    <3> QED BY <2>2, <2>4, <2>5, <3>1, GrantsOfGo DEF GrantsOf
  <2>6. CASE operators[o].known # {}
    <3>1. Granting(o) = "policy"
      BY <2>6 DEF Granting
    <3> QED BY <2>2, <2>3, <3>1, GrantsOfGo DEF GrantsOf, Granted
  <2> QED BY <2>5, <2>6
<1>6. CASE EditPolicy(o)
  <2>1. PICK x : /\ Go(o, "next", x)
                 /\ x # None => x.what = "policy" /\ PolicyWrite(x)
                 /\ operators[o].script = "secrets" =>
                      IF x = None
                      THEN Entitled(Secret(o), policies[Secret(o)].members,
                                    operators[o].known)
                      ELSE /\ x.resource = Secret(o)
                           /\ Entitled(Secret(o), x.members, operators[o].known)
    BY <1>6, EditedPolicy
  <2>2. policies' = policies /\ operators[o].pc = "policy"
    BY <1>6 DEF EditPolicy, Reads, world, At
  <2>3. operators[o].script = "secrets" =>
          \A s \in Secrets \ ToSet(operators[o].todo) : Granted(o, s)
    BY <2>2 DEF GrantsInv, GrantsOf
  <2> QED BY <2>1, <2>2, <2>3, GrantsOfGo DEF GrantsOf, Granted, Secret
<1>7. CASE Continue(o)
  <2>1. operators[o].pc = "next" /\ operators[o].write = None
    BY <1>7 DEF Continue, At
  <2>2. policies' = policies
    BY <1>7 DEF Continue, world
  <2>3. CASE operators[o].script = "secrets"
    <3>1. Granted(o, Secret(o))
      BY <2>1, <2>3 DEF GrantsInv, GrantsOf, Secret
    <3> QED BY <1>7, <2>1, <2>2, <2>3, <3>1, GrantsNext, NextSecretMoves DEF Continue
  <2>4. CASE operators[o].script # "secrets"
    <3>1. Go(o, "done", None)
      BY <1>7, <2>4 DEF Continue
    <3> QED BY <2>2, <2>4, <3>1, GrantsOfGo DEF GrantsOf
  <2> QED BY <2>3, <2>4
<1>8. CASE FindVendor(o) \/ AdjustStock(o) \/ VerifySeed(o)
  <2>1. operators[o].script = "seed"
    BY <1>8, WhoIsAt DEF FindVendor, AdjustStock, VerifySeed
  <2>2. PICK pc, x : Go(o, pc, x)
    BY <1>8 DEF FindVendor, AdjustStock, VerifySeed
  <2>3. policies' = policies
    BY <1>8 DEF FindVendor, AdjustStock, VerifySeed, Reads, world
  <2> QED BY <2>1, <2>2, <2>3, GrantsOfGo DEF GrantsOf
<1>9. CASE FindItem(o)
  <2>1. operators[o].script = "seed"
    BY <1>9, WhoIsAt DEF FindItem
  <2>2. /\ operators'[o].script = operators[o].script
        /\ \A p \in Operators \ {o} : operators'[p] = operators[p]
    BY <1>9, IdleFields DEF FindItem, TypeInv, RunType
  <2> QED BY <2>1, <2>2 DEF GrantsOf
<1> QED BY <1>1, <1>2, <1>3, <1>4, <1>5, <1>6, <1>7, <1>8, <1>9 DEF Step

LEMMA GrantsStep ==
  ASSUME TypeInv, PoliciesInv, GrantsInv, [Next]_vars
  PROVE  GrantsInv'
<1> SUFFICES ASSUME NEW q \in Operators PROVE GrantsOf(q)'
  BY DEF GrantsInv
<1>0. (policies' = policies \/ \E v : Performed(v)) /\ GrantsOf(q)
  BY WorldStep DEF world, GrantsInv
<1>1. CASE operators'[q] = operators[q]
  BY <1>0, <1>1, GrantsOfOthers
<1>2. ASSUME NEW o \in Operators, Step(o)
      PROVE  GrantsOf(q)'
  BY <1>0, <1>1, <1>2, GrantsOfMover
<1>3. ASSUME NEW o \in Operators, NEW script \in DOMAIN FirstStep,
             NEW input \in Inputs[script], Start(o, script, input)
      PROVE  GrantsOf(q)'
  <2>1. CASE q = o
    <3>1. /\ operators'[o].pc = FirstStep[script]
          /\ operators'[o].script = script
      BY <1>3 DEF Start, Idle, TypeInv
    <3>2. script = "secrets" => FirstStep[script] = "principals"
      BY DEF FirstStep
    <3> QED BY <2>1, <3>1, <3>2 DEF GrantsOf
  <2>2. CASE q # o
    <3>1. operators'[q] = operators[q]
      BY <1>3, <2>2 DEF Start, TypeInv
    <3> QED BY <1>1, <3>1
  <2> QED BY <2>1, <2>2
<1>4. ASSUME NEW o \in Operators, Fail(o)
      PROVE  GrantsOf(q)'
  <2>1. operators'[q] = operators[q] \/ operators'[q].pc = "idle"
    BY <1>4 DEF Fail, Idle, TypeInv
  <2> QED BY <1>1, <2>1 DEF GrantsOf
<1>5. ASSUME NEW o \in Operators, NEW answered \in BOOLEAN, Call(o, answered)
      PROVE  GrantsOf(q)'
  <2>1. CASE Refused(operators[o].write) \/ ~ answered
    BY <1>4, <1>5, <2>1 DEF Call
  <2>2. CASE ~ Refused(operators[o].write) /\ answered
    <3>1. /\ \A p \in Operators \ {o} : operators'[p] = operators[p]
          /\ operators'[o].pc = operators[o].pc /\ operators'[o].write = None
          /\ operators'[o].script = operators[o].script
          /\ operators'[o].input = operators[o].input
          /\ operators'[o].known = operators[o].known
          /\ operators'[o].todo = operators[o].todo
      BY <1>5, <2>2, Answered
    <3>2. CASE q # o
      BY <1>1, <3>1, <3>2
    <3>3. CASE q = o
      <4> SUFFICES ASSUME operators[o].script = "secrets",
                          operators[o].pc \in {"secret", "value", "policy", "next", "done"}
                   PROVE  GrantsOf(o)'
        BY <3>1, <3>3 DEF GrantsOf
      <4>1. \A s \in Secrets \ ToSet(operators[o].todo) : Granted(o, s)'
        <5>1. \A s \in Secrets : Granted(o, s) => Granted(o, s)'
          BY <1>0, <3>1, EntitledStays DEF Granted
        <5> QED BY <1>0, <3>3, <5>1 DEF GrantsOf
      <4>2. ASSUME operators[o].pc = "next"
            PROVE  Granted(o, Head(operators[o].todo))'
        <5>1. PICK w : w = operators[o].write
          OBVIOUS
        <5>2. PICK s : s = Head(operators[o].todo)
          OBVIOUS
        <5>3. w # None /\ Performed(w)
          BY <1>5, <2>2, <5>1, Answered DEF Call, Performed, InFlight
        <5>4. \/ w.what = "policy" /\ w.resource = s /\ Entitled(s, w.members, operators[o].known)
              \/ w.what = "version" /\ operators[o].known = {}
          BY <1>0, <3>3, <4>2, <5>1, <5>2, <5>3 DEF GrantsOf
        <5>5. CASE operators[o].known = {}
          BY <3>1, <5>5 DEF Granted, Entitled
        <5>6. CASE w.what = "policy" /\ w.resource = s
                     /\ Entitled(s, w.members, operators[o].known)
          <6>1. policies' = [policies EXCEPT ![s] = [etag |-> @.etag + 1, members |-> w.members]]
            BY <5>3, <5>6 DEF Performed, Perform
          <6>2. s \in Resources
            BY <5>3, <5>6, WriteKinds DEF Performed
          <6>3. policies'[s].members = w.members
            BY <6>1, <6>2 DEF TypeInv, WorldType
          <6> QED BY <3>1, <5>2, <5>6, <6>3 DEF Granted
        <5> QED BY <5>4, <5>5, <5>6
      <4> QED BY <3>1, <4>1, <4>2 DEF GrantsOf
    <3> QED BY <3>2, <3>3
  <2> QED BY <2>1, <2>2
<1>6. CASE operators' = operators
  BY <1>1, <1>6
<1> QED BY <1>2, <1>3, <1>4, <1>5, <1>6 DEF Next, GiveUp, Land, Deploy, vars

-----------------------------------------------------------------------------
(* What follows for the policies *)

PolicyInvariants == TypeInv /\ PoliciesInv /\ GrantsInv

\* The policies that are granted, and those under way, are what the scripts that
\* make them know of them (iam_binding.py:100, setup_zoho_secrets.py:156-167).
THEOREM PoliciesAreKnown == Spec => []PolicyInvariants
<1>1. Init => PolicyInvariants
  BY InitType, InitPolicies DEF PolicyInvariants
<1>2. PolicyInvariants /\ [Next]_vars => PolicyInvariants'
  BY TypeStep, PoliciesStep, GrantsStep DEF PolicyInvariants
<1> QED BY <1>1, <1>2, PTL DEF Spec

LEMMA NothingClobberedStep ==
  ASSUME TypeInv, PoliciesInv, [Next]_vars, NEW r \in Resources,
         policies'[r].members # policies[r].members
  PROVE  \E w \in {operators[o].write : o \in Operators} \cup {l[2] : l \in late} :
           /\ w # None
           /\ w.what = "policy" /\ w.resource = r
           /\ w.before = policies[r].members /\ w.members = policies'[r].members
<1>1. PICK w : Performed(w)
  BY WorldStep DEF world
<1>2. w \in InFlight
  BY <1>1 DEF Performed
<1>3. /\ w # None /\ w.what = "policy" /\ w.resource = r
      /\ w.before = policies[r].members /\ w.members = policies'[r].members
  BY <1>1, PolicyChange
<1> QED BY <1>2, <1>3 DEF InFlight

\* No write undoes what others have written to a policy since it was read
\* (iam_binding.py:100): NothingClobbered.
THEOREM NoWriteClobbers == Spec => NothingClobbered
<1>1. PolicyInvariants /\ [Next]_vars =>
        [\A r \in Resources :
           policies'[r].members # policies[r].members =>
             \E w \in {operators[o].write : o \in Operators} \cup {l[2] : l \in late} :
               /\ w # None
               /\ w.what = "policy" /\ w.resource = r
               /\ w.before = policies[r].members /\ w.members = policies'[r].members]_vars
  BY NothingClobberedStep DEF PolicyInvariants
<1> QED BY <1>1, PoliciesAreKnown, PTL DEF Spec, NothingClobbered

\* A run of the secrets script that has ended well leaves the agents it found with
\* what they are entitled to, whatever else is run (setup_zoho_secrets.py:156-167).
THEOREM GrantsAreLeast == Spec => []LeastPrivilege
<1>1. PolicyInvariants => LeastPrivilege
  <2> SUFFICES ASSUME PolicyInvariants, NEW o \in Operators, operators[o].pc = "done",
                      operators[o].script = "secrets", NEW s \in Secrets,
                      operators[o].input[s] # None
               PROVE  policies[s].members \cap operators[o].known
                        = SECRET_AGENTS[s] \cap operators[o].known
    BY DEF LeastPrivilege
  <2>1. operators[o].todo = <<>>
    BY DEF PolicyInvariants, TypeInv, RunType
  <2>2. s \notin ToSet(operators[o].todo)
    BY <2>1 DEF ToSet
  <2>3. Granted(o, s)
    BY <2>2 DEF PolicyInvariants, GrantsInv, GrantsOf
  <2> QED BY <2>3 DEF Granted, Entitled
<1> QED BY <1>1, PoliciesAreKnown, PTL

-----------------------------------------------------------------------------
(* Runs that do not overlap *)

\* A step of a run: the others do not move, it stays a run of its script, and
\* was not waiting for anything.
LEMMA StepMoves ==
  ASSUME TypeInv, NEW o \in Operators, Step(o)
  PROVE  /\ \A p \in Operators \ {o} : operators'[p] = operators[p]
         /\ operators'[o].script = operators[o].script
         /\ Running(o) /\ operators[o].write = None /\ late' = late /\ UNCHANGED world
<1>1. Running(o) /\ operators[o].write = None
  BY DEF Step, FindKey, ListAgents, SkipSecret, FindSecret, ReadSecret, ReadSecretFails,
     EditPolicy, Continue, FindVendor, FindItem, AdjustStock, VerifySeed, At, Running
<1>2. late' = late /\ UNCHANGED world
  BY DEF Step, FindKey, ListAgents, SkipSecret, FindSecret, ReadSecret, ReadSecretFails,
     EditPolicy, Continue, FindVendor, FindItem, AdjustStock, VerifySeed, Reads
<1>3. CASE ListAgents(o)
  BY <1>1, <1>2, <1>3, IdleFields DEF ListAgents, TypeInv, RunType
<1>4. CASE FindItem(o)
  BY <1>1, <1>2, <1>4, IdleFields DEF FindItem, TypeInv, RunType
<1>5. CASE NextSecret(o)
  BY <1>1, <1>2, <1>5, NextSecretMoves
<1>6. ASSUME NEW pc, NEW w, Go(o, pc, w)
      PROVE  /\ \A p \in Operators \ {o} : operators'[p] = operators[p]
             /\ operators'[o].script = operators[o].script
  BY <1>2, <1>6, GrantsOfGo DEF world
<1>7. ReadSecret(o) \/ ReadSecretFails(o) => \E w : Go(o, Granting(o), w)
  BY DEF ReadSecret, ReadSecretFails
<1> QED BY <1>1, <1>2, <1>3, <1>4, <1>5, <1>6, <1>7
        DEF Step, FindKey, SkipSecret, FindSecret, EditPolicy, Continue, FindVendor,
            AdjustStock, VerifySeed

LEMMA MishapsGrow ==
  ASSUME [Next]_vars
  PROVE  mishaps \subseteq mishaps'
<1>1. ASSUME NEW o \in Operators, Step(o)
      PROVE  mishaps \subseteq mishaps'
  BY <1>1 DEF Step, FindKey, ListAgents, SkipSecret, FindSecret, ReadSecret,
     ReadSecretFails, EditPolicy, Continue, FindVendor, FindItem, AdjustStock, VerifySeed,
     Reads, Note
<1> QED BY <1>1 DEF Next, Start, GiveUp, Note, Call, Land, Deploy, vars

\* A script that is calm after a step was so before it.
LEMMA CalmBefore ==
  ASSUME [Next]_vars, NEW script, Calm(script)'
  PROVE  Calm(script)
  BY MishapsGrow DEF Calm

LEMMA FailMoves ==
  ASSUME TypeInv, NEW o \in Operators, Fail(o)
  PROVE  /\ \A p \in Operators \ {o} : operators'[p] = operators[p]
         /\ operators'[o] = Idle
  BY DEF TypeInv, Fail

LEMMA StartMoves ==
  ASSUME TypeInv, NEW o \in Operators, NEW script \in DOMAIN FirstStep,
         NEW input \in Inputs[script], Start(o, script, input)
  PROVE  /\ \A p \in Operators \ {o} : operators'[p] = operators[p]
         /\ operators'[o].script = script /\ operators'[o].pc = FirstStep[script]
         /\ operators'[o].write = None
         /\ FirstStep[script] \in {"policy", "key", "principals", "vendor"}
         /\ (script = "seed" => FirstStep[script] = "vendor")
  BY DEF Start, Idle, TypeInv, FirstStep

\* While a script is calm, a run of it is the only one and none of its writes is
\* late.
LEMMA OneByOneStep ==
  ASSUME TypeInv, [Next]_vars, NEW script \in {"secrets", "seed"}, NEW writes,
         \A s, pc, what : <<s, pc, what>> \in Awaited /\ what \in writes => s = script,
         OneByOne(script, writes), Calm(script)'
  PROVE  OneByOne(script, writes)'
<1>1. CASE /\ \A q \in Operators : Runs(q, script)' => Runs(q, script)
           /\ late' \subseteq late
  BY <1>1 DEF OneByOne
<1>2. ASSUME NEW o \in Operators, Step(o)
      PROVE  OneByOne(script, writes)'
  <2>1. \A q \in Operators : Runs(q, script)' => Runs(q, script)
    BY <1>2, StepMoves DEF Runs, Running
  <2> QED BY <1>1, <1>2, <2>1, StepMoves
<1>3. ASSUME NEW o \in Operators, NEW other \in DOMAIN FirstStep,
             NEW input \in Inputs[other], Start(o, other, input)
      PROVE  OneByOne(script, writes)'
  <2>1. late' = late
    BY <1>3 DEF Start
  <2>2. \A q \in Operators : Runs(q, script)' => (q = o /\ other = script) \/ Runs(q, script)
    BY <1>3, StartMoves DEF Runs, Running
  <2>3. ASSUME other = script, NEW p \in Operators, Runs(p, script)
        PROVE  FALSE
    <3>1. mishaps' = mishaps \cup {<<script, "overlap">>}
      BY <1>3, <2>3 DEF Start, Note, Runs
    <3>2. <<script, "overlap">>[1] = script
      OBVIOUS
    <3> QED BY <3>1, <3>2 DEF Calm
  <2> QED BY <2>1, <2>2, <2>3 DEF OneByOne
<1>4. ASSUME NEW o \in Operators, Fail(o), NEW q \in Operators, Runs(q, script)'
      PROVE  Runs(q, script)
  BY <1>4, FailMoves DEF Runs, Running, Idle
<1>5. ASSUME NEW o \in Operators, NEW answered \in BOOLEAN, Call(o, answered)
      PROVE  OneByOne(script, writes)'
  <2>1. late' = late
    BY <1>5 DEF Call
  <2>2. CASE Refused(operators[o].write) \/ ~ answered
    BY <1>1, <1>4, <1>5, <2>1, <2>2 DEF Call
  <2>3. CASE ~ Refused(operators[o].write) /\ answered
    <3>1. /\ \A p \in Operators \ {o} : operators'[p] = operators[p]
          /\ operators'[o].pc = operators[o].pc
          /\ operators'[o].script = operators[o].script
      BY <1>5, <2>3, Answered
    <3>2. \A q \in Operators : Runs(q, script)' => Runs(q, script)
      BY <3>1 DEF Runs, Running
    <3> QED BY <1>1, <2>1, <3>2
  <2> QED BY <2>2, <2>3
<1>6. ASSUME NEW o \in Operators, NEW onItsWay \in BOOLEAN, GiveUp(o, onItsWay)
      PROVE  OneByOne(script, writes)'
  <2>1. CASE onItsWay
    <3>1. operators[o].script # script
      <4>1. mishaps' = mishaps \cup IF operators[o].script \in {"secrets", "seed"}
                                    THEN {<<operators[o].script, "late">>} ELSE {}
        BY <1>6, <2>1 DEF GiveUp, Note
      <4>2. SUFFICES ASSUME operators[o].script = script PROVE FALSE
        OBVIOUS
      <4>3. <<script, "late">> \in mishaps' /\ <<script, "late">>[1] = script
        BY <4>1, <4>2
      <4> QED BY <4>3 DEF Calm
    <3>2. operators[o].write.what \notin writes
      <4>1. RunType(operators[o]) /\ operators[o].write # None
        BY <1>6, <2>1 DEF GiveUp, TypeInv
      <4>2. <<operators[o].script, operators[o].pc, operators[o].write.what>> \in Awaited
        BY <4>1 DEF RunType
      <4> QED BY <3>1, <4>2
    <3>3. late' = late \cup {<<runs, operators[o].write>>}
      BY <1>6, <2>1 DEF GiveUp
    <3>4. \A l \in late' : l[2].what \notin writes
      BY <3>2, <3>3 DEF OneByOne
    <3> QED BY <1>4, <1>6, <3>4 DEF GiveUp, OneByOne
  <2>2. CASE ~ onItsWay
    BY <1>1, <1>4, <1>6, <2>2 DEF GiveUp
  <2> QED BY <2>1, <2>2
<1>7. CASE operators' = operators /\ late' \subseteq late
  BY <1>1, <1>7 DEF Runs, Running
<1> QED BY <1>2, <1>3, <1>5, <1>6, <1>7 DEF Next, Land, Deploy, vars

-----------------------------------------------------------------------------
(* Versions of secrets *)

AllDiffer(versions) ==
  \A i \in 1 .. Len(versions) - 1 : versions[i] # versions[i + 1]

\* The version that is about to be added to a secret is not the one it has.
IsNew(w) ==
  w # None /\ w.what = "version" /\ w.resource \in DOMAIN secrets =>
    LET versions == secrets[w.resource]
    IN  versions = <<>> \/ versions[Len(versions)] # w.value

LEMMA VersionsParts ==
  VersionsInv <=>
    (Calm("secrets") =>
       /\ OneByOne("secrets", {"secret", "version"})
       /\ \A s \in DOMAIN secrets : AllDiffer(secrets[s])
       /\ \A o \in Operators : IsNew(operators[o].write))
  BY DEF VersionsInv, AllDiffer, IsNew

LEMMA AppendDiffers ==
  ASSUME NEW S, NEW versions \in Seq(S), NEW v, AllDiffer(versions),
         versions = <<>> \/ versions[Len(versions)] # v
  PROVE  AllDiffer(Append(versions, v))
<1> SUFFICES ASSUME NEW i \in 1 .. Len(Append(versions, v)) - 1
             PROVE  Append(versions, v)[i] # Append(versions, v)[i + 1]
  BY DEF AllDiffer
<1>1. Len(versions) \in Nat /\ Len(Append(versions, v)) = Len(versions) + 1
  OBVIOUS
<1>2. i \in 1 .. Len(versions)
  BY <1>1
<1>3. CASE i = Len(versions)
  BY <1>1, <1>2, <1>3
<1>4. CASE i # Len(versions)
  <2>1. i \in 1 .. Len(versions) - 1
    BY <1>1, <1>2, <1>4
  <2>2. versions[i] # versions[i + 1]
    BY <2>1 DEF AllDiffer
  <2> QED BY <1>1, <1>2, <2>1, <2>2
<1> QED BY <1>3, <1>4

LEMMA InitVersions == Init => VersionsInv
<1> SUFFICES ASSUME Init PROVE VersionsInv
  OBVIOUS
<1>1. \A o \in Operators : operators[o].write = None /\ ~ Running(o)
  BY DEF Init, Idle, Running
<1>2. OneByOne("secrets", {"secret", "version"})
  BY <1>1 DEF Init, OneByOne, Runs
<1>3. \A s \in DOMAIN secrets : AllDiffer(secrets[s])
  <2>1. \A s \in DOMAIN secrets : secrets[s] = <<"old">>
    BY DEF Init
  <2>2. AllDiffer(<<"old">>)
    BY DEF AllDiffer
  <2> QED BY <2>1, <2>2
<1> QED BY <1>1, <1>2, <1>3, VersionsParts DEF IsNew

\* Only ReadSecret makes a version, and only a new one.
LEMMA StepVersions ==
  ASSUME TypeInv, NEW o \in Operators, Step(o), Calm("secrets")'
  PROVE  IsNew(operators'[o].write)
<1>1. ASSUME NEW pc, NEW w, Go(o, pc, w), w # None => w.what # "version"
      PROVE  IsNew(operators'[o].write)
  <2>1. operators'[o].write = w
    BY <1>1, StepMoves, GrantsOfGo DEF world
  <2> QED BY <1>1, <2>1 DEF IsNew
<1>2. CASE FindKey(o)
  <2>1. PICK x : x = IF keyVersions = 0 THEN Write("key", "key")
                     ELSE IF operators[o].input.rotate THEN Write("key version", "key")
                     ELSE None
    OBVIOUS
  <2>2. x # None => x.what # "version"
    BY <2>1 DEF Write
  <2>3. Go(o, "principals", x)
    BY <1>2, <2>1 DEF FindKey
  <2> QED BY <1>1, <2>2, <2>3
<1>3. CASE ListAgents(o)
  <2>1. operators'[o].write = operators[o].write
    BY <1>3, IdleFields DEF ListAgents, TypeInv, RunType
  <2> QED BY <2>1, StepMoves DEF IsNew
<1>4. CASE NextSecret(o)
  <2>1. operators'[o].write = operators[o].write
    BY <1>4, NextSecretMoves
  <2> QED BY <2>1, StepMoves DEF IsNew
<1>5. CASE FindSecret(o)
  <2>1. PICK x : x = IF Secret(o) \in DOMAIN secrets THEN None
                     ELSE Write("secret", Secret(o))
    OBVIOUS
  <2>2. x # None => x.what # "version"
    BY <2>1 DEF Write
  <2>3. Go(o, "value", x)
    BY <1>5, <2>1 DEF FindSecret
  <2> QED BY <1>1, <2>2, <2>3
<1>6. CASE ReadSecret(o)
  <2>1. PICK v : v = secrets[Secret(o)]
    OBVIOUS
  <2>2. PICK x : x = IF v # <<>> /\ Last(v) = Value(o) THEN None ELSE AddVersion(o)
    OBVIOUS
  <2>3. Go(o, Granting(o), x)
    BY <1>6, <2>1, <2>2 DEF ReadSecret
  <2>4. operators'[o].write = x
    BY <2>3, StepMoves, GrantsOfGo DEF world
  <2>5. CASE x = None
    BY <2>4, <2>5 DEF IsNew
  <2>6. CASE x # None
    <3>1. x = AddVersion(o) /\ (v = <<>> \/ Last(v) # Value(o))
      BY <2>2, <2>6
    <3>2. x.resource = Secret(o) /\ x.value = Value(o)
      BY <3>1 DEF AddVersion
    <3> QED BY <2>1, <2>4, <3>1, <3>2 DEF IsNew, Last
  <2> QED BY <2>5, <2>6
<1>7. CASE ReadSecretFails(o)
  <2>1. mishaps' = mishaps \cup {<<"secrets", "unread">>}
    BY <1>7 DEF ReadSecretFails, Note
  <2>2. <<"secrets", "unread">>[1] = "secrets"
    OBVIOUS
  <2> QED BY <2>1, <2>2 DEF Calm
<1>8. CASE EditPolicy(o)
  <2>1. PICK x : Go(o, "next", x) /\ (x # None => x.what = "policy")
    BY <1>8, EditedPolicy
  <2> QED BY <1>1, <2>1
<1>9. CASE Go(o, "done", None)
  BY <1>1, <1>9
<1>10. CASE FindVendor(o)
  <2>1. PICK x : x = IF zoho.vendors = 0 THEN Write("vendor", None) ELSE None
    OBVIOUS
  <2>2. x # None => x.what # "version"
    BY <2>1 DEF Write
  <2>3. Go(o, "item", x)
    BY <1>10, <2>1 DEF FindVendor
  <2> QED BY <1>1, <2>2, <2>3
<1>11. CASE FindItem(o)
  <2>1. PICK x : x = IF zoho.items # <<>> THEN None ELSE Write("item", None)
    OBVIOUS
  <2>2. x # None => x.what # "version"
    BY <2>1 DEF Write
  <2>3. operators'[o].write = x
    BY <1>11, <2>1, IdleFields DEF FindItem, TypeInv, RunType
  <2> QED BY <2>2, <2>3 DEF IsNew
<1>12. CASE AdjustStock(o)
  <2>1. PICK x : x = IF TARGET_STOCK - operators[o].current <= 0 THEN None
                     ELSE [what |-> "adjust", resource |-> operators[o].item,
                           by |-> TARGET_STOCK - operators[o].current]
    OBVIOUS
  <2>2. x # None => x.what # "version"
    BY <2>1
  <2>3. Go(o, "verify", x)
    BY <1>12, <2>1 DEF AdjustStock
  <2> QED BY <1>1, <2>2, <2>3
<1> QED BY <1>2, <1>3, <1>4, <1>5, <1>6, <1>7, <1>8, <1>9, <1>10, <1>11, <1>12
        DEF Step, SkipSecret, Continue, VerifySeed

\* A write that is carried out while the script is calm is of the one run, which
\* waits for nothing afterwards.
LEMMA TheOneRun ==
  ASSUME TypeInv, [Next]_vars, NEW script, NEW writes, OneByOne(script, writes),
         \A s, pc, what : <<s, pc, what>> \in Awaited /\ what \in writes => s = script
  PROVE  \/ UNCHANGED world
         \/ \E v : v.what \notin writes /\ Performed(v)
         \/ \E o \in Operators, answered \in BOOLEAN :
              /\ Call(o, answered) /\ Performed(operators[o].write) /\ Runs(o, script)
              /\ operators[o].write.what \in writes
              /\ operators'[o].write = None
              /\ \A p \in Operators \ {o} :
                   operators'[p] = operators[p] /\ ~ Runs(p, script)
<1>1. ASSUME NEW o \in Operators, NEW answered \in BOOLEAN, Call(o, answered),
             ~ Refused(operators[o].write), operators[o].write.what \in writes
      PROVE  /\ Performed(operators[o].write) /\ Runs(o, script)
             /\ operators'[o].write = None
             /\ \A p \in Operators \ {o} : operators'[p] = operators[p] /\ ~ Runs(p, script)
  <2>1. RunType(operators[o]) /\ operators[o].write # None
    BY <1>1 DEF Call, TypeInv
  <2>2. <<operators[o].script, operators[o].pc, operators[o].write.what>> \in Awaited
    BY <2>1 DEF RunType
  <2>3. operators[o].pc # "idle" /\ operators[o].pc # "done"
    BY <2>1, <2>2 DEF RunType, Awaited
  <2>4. Runs(o, script)
    BY <1>1, <2>2, <2>3 DEF Runs, Running
  <2>5. Performed(operators[o].write)
    BY <1>1, <2>1 DEF Performed, InFlight, RunType, Call
  <2>6. operators'[o].write = None
          /\ \A p \in Operators \ {o} : operators'[p] = operators[p]
    <3>1. CASE answered
      BY <1>1, <3>1, Answered
    <3>2. CASE ~ answered
      BY <1>1, <3>2, FailMoves DEF Call, Idle
    <3> QED BY <3>1, <3>2
  <2> QED BY <2>4, <2>5, <2>6 DEF OneByOne
<1>2. ASSUME NEW o \in Operators, NEW answered \in BOOLEAN, Call(o, answered),
             ~ Refused(operators[o].write), operators[o].write.what \notin writes
      PROVE  \E v : v.what \notin writes /\ Performed(v)
  <2>1. operators[o].write \in InFlight /\ operators[o].write \in Writes
    BY <1>2 DEF InFlight, Call, TypeInv, RunType
  <2> QED BY <1>2, <2>1 DEF Call, Performed
<1>3. ASSUME NEW o \in Operators, NEW answered \in BOOLEAN, Call(o, answered),
             Refused(operators[o].write)
      PROVE  UNCHANGED world
  BY <1>3 DEF Call
<1>4. ASSUME NEW l \in late, Land(l)
      PROVE  UNCHANGED world \/ \E v : v.what \notin writes /\ Performed(v)
  <2>1. l[2] \in InFlight /\ l[2] \in Writes /\ l[2].what \notin writes
    BY DEF InFlight, TypeInv, OneByOne
  <2> QED BY <1>4, <2>1 DEF Land, Performed
<1>5. ASSUME NEW o \in Operators, Step(o)
      PROVE  UNCHANGED world
  BY <1>5, StepMoves
<1>6. CASE UNCHANGED vars
  BY <1>6 DEF vars, world
<1> QED BY <1>1, <1>2, <1>3, <1>4, <1>5, <1>6 DEF Next, Start, GiveUp, Deploy

\* What a run waits for after a step, unless it took the step itself, is what it
\* waited for, or nothing.
LEMMA OtherWrites ==
  ASSUME TypeInv, [Next]_vars, NEW q \in Operators, ~ Step(q)
  PROVE  operators'[q].write \in {operators[q].write, None}
<1>1. ASSUME NEW o \in Operators, Step(o)
      PROVE  operators'[q].write \in {operators[q].write, None}
  BY <1>1, StepMoves
<1>2. ASSUME NEW o \in Operators, NEW script \in DOMAIN FirstStep,
             NEW input \in Inputs[script], Start(o, script, input)
      PROVE  operators'[q].write \in {operators[q].write, None}
  BY <1>2, StartMoves
<1>3. ASSUME NEW o \in Operators, Fail(o)
      PROVE  operators'[q].write \in {operators[q].write, None}
  BY <1>3, FailMoves DEF Idle
<1>4. ASSUME NEW o \in Operators, NEW answered \in BOOLEAN, Call(o, answered)
      PROVE  operators'[q].write \in {operators[q].write, None}
  <2>1. CASE Refused(operators[o].write) \/ ~ answered
    BY <1>3, <1>4, <2>1 DEF Call
  <2>2. CASE ~ Refused(operators[o].write) /\ answered
    BY <1>4, <2>2, Answered
  <2> QED BY <2>1, <2>2
<1> QED BY <1>1, <1>2, <1>3, <1>4 DEF Next, GiveUp, Land, Deploy, vars

LEMMA VersionsStep ==
  ASSUME TypeInv, VersionsInv, [Next]_vars
  PROVE  VersionsInv'
<1> SUFFICES ASSUME Calm("secrets")'
             PROVE  /\ OneByOne("secrets", {"secret", "version"})'
                    /\ (\A s \in DOMAIN secrets : AllDiffer(secrets[s]))'
                    /\ (\A o \in Operators : IsNew(operators[o].write))'
  BY DEF VersionsInv, AllDiffer, IsNew
<1>1. /\ OneByOne("secrets", {"secret", "version"})
      /\ \A s \in DOMAIN secrets : AllDiffer(secrets[s])
      /\ \A o \in Operators : IsNew(operators[o].write)
  BY CalmBefore, VersionsParts
<1>2. \A s, pc, what :
        <<s, pc, what>> \in Awaited /\ what \in {"secret", "version"} => s = "secrets"
  BY DEF Awaited
<1>3. OneByOne("secrets", {"secret", "version"})'
  BY <1>1, <1>2, OneByOneStep
<1>4. ASSUME secrets' = secrets
      PROVE  /\ (\A s \in DOMAIN secrets : AllDiffer(secrets[s]))'
             /\ (\A o \in Operators : IsNew(operators[o].write))'
  <2>1. (\A s \in DOMAIN secrets : AllDiffer(secrets[s]))'
    BY <1>1, <1>4 DEF AllDiffer
  <2>2. ASSUME NEW q \in Operators
        PROVE  IsNew(operators'[q].write)
    <3>1. CASE Step(q)
      BY <3>1, StepVersions
    <3>2. CASE ~ Step(q)
      BY <1>1, <3>2, OtherWrites DEF IsNew
    <3> QED BY <3>1, <3>2
  <2>3. ASSUME NEW q \in Operators
        PROVE  IsNew(operators[q].write)'
    BY <1>4, <2>2 DEF IsNew
  <2> QED BY <2>1, <2>3
<1>5. ASSUME NEW v, v.what \notin {"secret", "version"}, Performed(v)
      PROVE  secrets' = secrets
  BY <1>5 DEF Performed, Perform
<1>6. ASSUME NEW o \in Operators, Performed(operators[o].write), Runs(o, "secrets"),
             operators[o].write.what \in {"secret", "version"},
             operators'[o].write = None,
             \A p \in Operators \ {o} :
               operators'[p] = operators[p] /\ ~ Runs(p, "secrets")
      PROVE  /\ (\A s \in DOMAIN secrets : AllDiffer(secrets[s]))'
             /\ (\A p \in Operators : IsNew(operators[p].write))'
  <2>1. ASSUME NEW p \in Operators, operators'[p].write # None
        PROVE  operators'[p].write.what # "version"
    <3>1. p # o /\ operators'[p] = operators[p] /\ ~ Runs(p, "secrets")
      BY <1>6, <2>1
    <3>2. operators[p].write # None /\ RunType(operators[p])
      BY <2>1, <3>1 DEF TypeInv
    <3>3. <<operators[p].script, operators[p].pc, operators[p].write.what>> \in Awaited
      BY <3>2 DEF RunType
    <3>4. operators[p].write.what = "version" => Runs(p, "secrets")
      BY <3>3 DEF Awaited, Runs, Running
    <3> QED BY <3>1, <3>4
  <2>2. \A p \in Operators : IsNew(operators[p].write)'
    BY <2>1 DEF IsNew
  <2>3. PICK w : w = operators[o].write
    OBVIOUS
  <2>4. Performed(w) /\ IsNew(w) /\ w \in Writes /\ w # None
    BY <1>1, <1>6, <2>3, NoneAssumption DEF Performed
  <2>5. CASE w.what = "secret"
    <3>1. secrets' = [s \in DOMAIN secrets \cup {w.resource} |->
                        IF s = w.resource THEN <<>> ELSE secrets[s]]
      BY <2>4, <2>5 DEF Performed, Perform
    <3>2. AllDiffer(<<>>)
      BY DEF AllDiffer
    <3>3. \A s \in DOMAIN secrets' : AllDiffer(secrets'[s])
      BY <1>1, <3>1, <3>2
    <3> QED BY <2>2, <3>3 DEF AllDiffer
  <2>6. CASE w.what = "version"
    <3>1. secrets' = [secrets EXCEPT ![w.resource] = Append(@, w.value)]
      BY <2>4, <2>6 DEF Performed, Perform
    <3>2. w.resource \in DOMAIN secrets =>
            AllDiffer(Append(secrets[w.resource], w.value))
      BY <1>1, <2>4, <2>6, AppendDiffers DEF IsNew, TypeInv, WorldType
    <3>3. \A s \in DOMAIN secrets' : AllDiffer(secrets'[s])
      BY <1>1, <3>1, <3>2
    <3> QED BY <2>2, <3>3 DEF AllDiffer
  <2> QED BY <1>6, <2>3, <2>5, <2>6
<1>7. CASE UNCHANGED world
  BY <1>3, <1>4, <1>7 DEF world
<1>8. CASE \E v : v.what \notin {"secret", "version"} /\ Performed(v)
  BY <1>3, <1>4, <1>5, <1>8
<1>9. CASE \E o \in Operators, answered \in BOOLEAN :
             /\ Call(o, answered) /\ Performed(operators[o].write) /\ Runs(o, "secrets")
             /\ operators[o].write.what \in {"secret", "version"}
             /\ operators'[o].write = None
             /\ \A p \in Operators \ {o} :
                  operators'[p] = operators[p] /\ ~ Runs(p, "secrets")
  BY <1>3, <1>6, <1>9
<1> QED BY <1>1, <1>2, <1>7, <1>8, <1>9, TheOneRun

\* A secret gets a version only for a change, unless runs overlap, are late or
\* cannot read (setup_zoho_secrets.py:135-139).
THEOREM VersionsAreChanges == Spec => []OneVersionPerChange
<1>1. Init => TypeInv /\ VersionsInv
  BY InitType, InitVersions
<1>2. (TypeInv /\ VersionsInv) /\ [Next]_vars => (TypeInv /\ VersionsInv)'
  BY TypeStep, VersionsStep
<1>3. VersionsInv => OneVersionPerChange
  BY DEF VersionsInv, OneVersionPerChange, Calm
<1> QED BY <1>1, <1>2, <1>3, PTL DEF Spec

-----------------------------------------------------------------------------
(* The seed *)

SeedWrites == {"vendor", "item", "adjust"}

\* What there is of the demo data.
Seeds ==
  /\ zoho.vendors \in {0, 1} /\ Len(zoho.items) \in {0, 1}
  /\ zoho.items # <<>> => zoho.items[1] <= TARGET_STOCK

SeedingInv == \A o \in Operators : operators[o].script = "seed" => Seeding(operators[o])

LEMMA SeedParts ==
  SeedInv <=> (Calm("seed") => OneByOne("seed", SeedWrites) /\ Seeds /\ SeedingInv)
  BY DEF SeedInv, SeedWrites, Seeds, SeedingInv

LEMMA InitSeed == Init => SeedInv
<1> SUFFICES ASSUME Init PROVE SeedInv
  OBVIOUS
<1>1. \A o \in Operators : operators[o].pc = "idle"
  BY DEF Init, Idle
<1>2. OneByOne("seed", SeedWrites)
  BY <1>1 DEF Init, OneByOne, Runs, Running
<1>3. Seeds
  BY DEF Init, Seeds
<1>4. SeedingInv
  BY <1>1 DEF SeedingInv, Seeding
<1> QED BY <1>2, <1>3, <1>4, SeedParts

\* A sequence of one is its element.
LEMMA Singleton ==
  ASSUME NEW S, NEW s \in Seq(S), Len(s) = 1
  PROVE  s = <<s[1]>>
  OBVIOUS

\* What a step of the seed makes of what its run knows.
LEMMA SeedingOfMover ==
  ASSUME TypeInv, NEW o \in Operators, Step(o), operators[o].script = "seed",
         Seeds, Seeding(operators[o])
  PROVE  Seeding(operators[o])'
<1>1. RunType(operators[o]) /\ operators[o].write = None /\ zoho' = zoho
  BY StepMoves DEF TypeInv, world
<1>2. operators[o].pc \in {"vendor", "item", "stock", "verify"}
  BY <1>1, StepMoves DEF RunType, Places, Running
<1>3. zoho.items \in Seq(Int)
  BY DEF TypeInv, WorldType
<1>4. FindVendor(o) \/ FindItem(o) \/ AdjustStock(o) \/ VerifySeed(o)
  BY <1>2 DEF Step, FindKey, ListAgents, SkipSecret, FindSecret, ReadSecret,
     ReadSecretFails, EditPolicy, Continue, At
<1>5. CASE FindVendor(o)
  <2>1. PICK x : x = IF zoho.vendors = 0 THEN Write("vendor", None) ELSE None
    OBVIOUS
  <2>2. Go(o, "item", x)
    BY <1>5, <2>1 DEF FindVendor
  <2>3. operators'[o].pc = "item" /\ operators'[o].write = x
    BY <2>2, StepMoves, GrantsOfGo DEF world
  <2>4. zoho.vendors = 0 => x # None
    BY <2>1, TheWrites, NoneAssumption
  <2> QED BY <1>1, <2>1, <2>3, <2>4 DEF Seeding, Seeds
<1>6. CASE FindItem(o)
  <2>1. PICK x : x = IF zoho.items # <<>> THEN None ELSE Write("item", None)
    OBVIOUS
  <2>2. /\ operators'[o].pc = "stock" /\ operators'[o].write = x
        /\ operators'[o].item = IF zoho.items # <<>> THEN 1 ELSE 0
        /\ operators'[o].current = IF zoho.items # <<>> THEN zoho.items[1] ELSE 0
    BY <1>1, <1>6, <2>1, IdleFields DEF FindItem, RunType, TypeInv
  <2>3. zoho.vendors = 1
    BY <1>1, <1>6 DEF FindItem, At, Seeding
  <2>4. zoho.items = <<>> => x # None
    BY <2>1, TheWrites, NoneAssumption
  <2>5. zoho.items # <<>> => zoho.items = <<zoho.items[1]>>
    BY <1>3, Singleton DEF Seeds
  <2> QED BY <1>1, <2>1, <2>2, <2>3, <2>4, <2>5 DEF Seeding
<1>7. CASE AdjustStock(o)
  <2>1. PICK by : by = TARGET_STOCK - operators[o].current
    OBVIOUS
  <2>2. PICK x : x = IF by <= 0 THEN None
                     ELSE [what |-> "adjust", resource |-> operators[o].item, by |-> by]
    OBVIOUS
  <2>3. Go(o, "verify", x)
    BY <1>7, <2>1, <2>2 DEF AdjustStock
  <2>4. operators'[o].pc = "verify" /\ operators'[o].write = x
    BY <2>3, StepMoves, GrantsOfGo DEF world
  <2>5. /\ zoho.vendors = 1 /\ operators[o].item = 1
        /\ zoho.items = <<operators[o].current>>
    BY <1>1, <1>7 DEF AdjustStock, At, Seeding
  <2>6. /\ Len(zoho.items) = 1 /\ zoho.items[1] = operators[o].current
        /\ zoho.items[1] <= TARGET_STOCK /\ operators[o].current \in Int
    BY <1>1, <2>5 DEF Seeds, RunType
  <2>7. by \in Int /\ TARGET_STOCK \in Nat
    BY <2>1, <2>6, ScriptsAssumption
  <2>8. CASE by <= 0
    <3>1. x = None /\ zoho.items[1] = TARGET_STOCK
      BY <2>1, <2>2, <2>6, <2>7, <2>8
    <3> QED BY <1>1, <2>4, <2>5, <2>6, <3>1 DEF Seeding
  <2>9. CASE ~ (by <= 0)
    <3>1. x = [what |-> "adjust", resource |-> 1, by |-> by]
      BY <2>2, <2>5, <2>9
    <3>2. x # None
      BY <2>7, <3>1, TheWrites, NoneAssumption
    <3>3. x.resource = 1 /\ x.by > 0 /\ zoho.items[1] + x.by = TARGET_STOCK
      BY <2>1, <2>6, <2>7, <2>9, <3>1
    <3> QED BY <1>1, <2>4, <2>5, <2>6, <3>2, <3>3 DEF Seeding
  <2> QED BY <2>8, <2>9
<1>8. CASE VerifySeed(o)
  <2>1. Go(o, "done", None)
    BY <1>8 DEF VerifySeed
  <2>2. operators'[o].pc = "done"
    BY <2>1, StepMoves, GrantsOfGo DEF world
  <2>3. zoho.vendors = 1 /\ Len(zoho.items) = 1 /\ zoho.items[1] = TARGET_STOCK
    BY <1>1, <1>8 DEF VerifySeed, At, Seeding
  <2>4. zoho.items = <<TARGET_STOCK>>
    BY <1>3, <2>3, Singleton
  <2> QED BY <1>1, <2>2, <2>3, <2>4 DEF Seeding
<1> QED BY <1>4, <1>5, <1>6, <1>7, <1>8

\* A write of the seed that is carried out: what there is then, and that it was
\* not all there before.
LEMMA SeedPerformed ==
  ASSUME TypeInv, NEW o \in Operators, Seeds, operators[o].script = "seed",
         Seeding(operators[o]), operators[o].write # None,
         operators[o].write.what \in SeedWrites, Perform(operators[o].write)
  PROVE  /\ Seeds'
         /\ ~ (zoho.vendors = 1 /\ zoho.items = <<TARGET_STOCK>>)
         /\ operators[o].write.what = "vendor" =>
              operators[o].pc = "item" /\ zoho'.vendors = 1
         /\ operators[o].write.what = "item" =>
              /\ operators[o].pc = "stock" /\ zoho'.vendors = 1 /\ zoho'.items = <<0>>
              /\ operators[o].current = 0 /\ Len(zoho.items) = 0
         /\ operators[o].write.what = "adjust" =>
              /\ operators[o].pc = "verify" /\ zoho'.vendors = 1 /\ Len(zoho'.items) = 1
              /\ zoho'.items[1] = TARGET_STOCK
<1>1. PICK w : w = operators[o].write
  OBVIOUS
<1>2. RunType(operators[o]) /\ w \in Writes
  BY <1>1 DEF TypeInv, RunType
<1>3. zoho.items \in Seq(Int) /\ zoho \in [vendors : Nat, items : Seq(Int)]
      /\ TARGET_STOCK \in Nat
  BY ScriptsAssumption DEF TypeInv, WorldType
<1>4. <<operators[o].script, operators[o].pc, w.what>> \in Awaited
  BY <1>1, <1>2 DEF RunType
<1>5. CASE w.what = "vendor"
  <2>1. operators[o].pc = "item"
    BY <1>4, <1>5 DEF Awaited
  <2>2. zoho.vendors = 0
    BY <2>1 DEF Seeding
  <2>3. zoho' = [zoho EXCEPT !.vendors = @ + 1]
    BY <1>1, <1>5 DEF Perform
  <2>4. zoho'.vendors = 1 /\ zoho'.items = zoho.items
    BY <1>3, <2>2, <2>3
  <2> QED BY <1>1, <1>5, <2>1, <2>2, <2>4 DEF Seeds
<1>6. CASE w.what = "item"
  <2>1. operators[o].pc = "stock"
    BY <1>4, <1>6 DEF Awaited
  <2>2. zoho.vendors = 1 /\ zoho.items = <<>> /\ operators[o].current = 0
    BY <2>1 DEF Seeding
  <2>3. zoho' = [zoho EXCEPT !.items = Append(@, 0)]
    BY <1>1, <1>6 DEF Perform
  <2>4. zoho'.vendors = 1 /\ zoho'.items = <<0>>
    BY <1>3, <2>2, <2>3
  <2>5. zoho.items # <<TARGET_STOCK>> /\ Len(zoho.items) = 0
    BY <2>2
  <2> QED BY <1>1, <1>3, <1>6, <2>1, <2>2, <2>4, <2>5 DEF Seeds
<1>7. CASE w.what = "adjust"
  <2>1. operators[o].pc = "verify"
    BY <1>4, <1>7 DEF Awaited
  <2>2. /\ zoho.vendors = 1 /\ Len(zoho.items) = 1 /\ w.resource = 1 /\ w.by > 0
        /\ zoho.items[1] + w.by = TARGET_STOCK
    BY <1>1, <2>1 DEF Seeding
  <2>3. zoho' = [zoho EXCEPT !.items[w.resource] = @ + w.by]
    BY <1>1, <1>7 DEF Perform
  <2>4. /\ zoho'.vendors = 1 /\ zoho'.items = [zoho.items EXCEPT ![1] = @ + w.by]
    BY <1>3, <2>2, <2>3
  <2>5. Len(zoho'.items) = 1 /\ zoho'.items[1] = TARGET_STOCK
    BY <1>3, <2>2, <2>4
  <2>6. zoho.items # <<TARGET_STOCK>>
    <3>1. w.by \in Int /\ zoho.items[1] \in Int
      <4>1. w.by \in Int
        BY <1>2, <1>7, WriteKinds
      <4> QED BY <1>3, <2>2, <4>1
    <3>2. zoho.items[1] # TARGET_STOCK
      BY <1>3, <2>2, <3>1
    <3> QED BY <3>2
  <2> QED BY <1>1, <1>3, <1>7, <2>1, <2>4, <2>5, <2>6 DEF Seeds
<1> QED BY <1>1, <1>5, <1>6, <1>7 DEF SeedWrites

LEMMA SeedStep ==
  ASSUME TypeInv, SeedInv, [Next]_vars
  PROVE  SeedInv'
<1> SUFFICES ASSUME Calm("seed")'
             PROVE  OneByOne("seed", SeedWrites)' /\ Seeds' /\ SeedingInv'
  BY DEF SeedInv, SeedWrites, Seeds, SeedingInv
<1>1. OneByOne("seed", SeedWrites) /\ Seeds /\ SeedingInv
  BY CalmBefore, SeedParts
<1>2. \A s, pc, what : <<s, pc, what>> \in Awaited /\ what \in SeedWrites => s = "seed"
  BY DEF Awaited, SeedWrites
<1>3. OneByOne("seed", SeedWrites)'
  BY <1>1, <1>2, OneByOneStep
<1>4. ASSUME zoho' = zoho, NEW q \in Operators, operators'[q] = operators[q],
             operators[q].script = "seed"
      PROVE  Seeding(operators[q])'
  BY <1>1, <1>4 DEF SeedingInv, Seeding
<1>5. ASSUME NEW q \in Operators, operators'[q].pc \in {"idle", "vendor"}
      PROVE  Seeding(operators[q])'
  BY <1>5 DEF Seeding
<1>6. ASSUME NEW o \in Operators, Step(o)
      PROVE  SeedingInv'
  <2>1. zoho' = zoho
    BY <1>6, StepMoves DEF world
  <2>2. operators[o].script = "seed" => Seeding(operators[o])'
    BY <1>1, <1>6, SeedingOfMover DEF SeedingInv
  <2>3. /\ \A p \in Operators \ {o} : operators'[p] = operators[p]
        /\ operators'[o].script = operators[o].script
    BY <1>6, StepMoves
  <2> QED BY <1>4, <2>1, <2>2, <2>3 DEF SeedingInv
<1>7. ASSUME NEW o \in Operators, NEW script \in DOMAIN FirstStep,
             NEW input \in Inputs[script], Start(o, script, input)
      PROVE  SeedingInv'
  <2>1. zoho' = zoho
    BY <1>7 DEF Start, world
  <2>2. /\ \A p \in Operators \ {o} : operators'[p] = operators[p]
        /\ operators'[o].script = "seed" => operators'[o].pc = "vendor"
    BY <1>7, StartMoves
  <2> QED BY <1>4, <1>5, <2>1, <2>2 DEF SeedingInv
<1>8. ASSUME NEW o \in Operators, Fail(o), zoho' = zoho
      PROVE  SeedingInv'
  <2>1. /\ \A p \in Operators \ {o} : operators'[p] = operators[p]
        /\ operators'[o].pc = "idle"
    BY <1>8, FailMoves DEF Idle
  <2> QED BY <1>4, <1>5, <1>8, <2>1 DEF SeedingInv
<1>9. ASSUME zoho' = zoho, NEW o \in Operators, NEW answered \in BOOLEAN,
             Call(o, answered), operators[o].write.what \notin SeedWrites
      PROVE  SeedingInv'
  <2>1. CASE Refused(operators[o].write) \/ ~ answered
    BY <1>8, <1>9, <2>1 DEF Call
  <2>2. CASE ~ Refused(operators[o].write) /\ answered
    <3>1. /\ \A p \in Operators \ {o} : operators'[p] = operators[p]
          /\ operators'[o].script = operators[o].script
      BY <1>9, <2>2, Answered
    <3>2. operators[o].script # "seed"
      <4>1. RunType(operators[o]) /\ operators[o].write # None
        BY <1>9 DEF TypeInv, Call
      <4>2. <<operators[o].script, operators[o].pc, operators[o].write.what>> \in Awaited
        BY <4>1 DEF RunType
      <4> QED BY <1>9, <4>2 DEF Awaited, SeedWrites
    <3> QED BY <1>4, <1>9, <3>1, <3>2 DEF SeedingInv
  <2> QED BY <2>1, <2>2
<1>10. ASSUME NEW o \in Operators, NEW answered \in BOOLEAN, Call(o, answered),
              Performed(operators[o].write), Runs(o, "seed"),
              operators[o].write.what \in SeedWrites, operators'[o].write = None,
              \A p \in Operators \ {o} :
                operators'[p] = operators[p] /\ ~ Runs(p, "seed")
       PROVE  Seeds' /\ SeedingInv'
  <2>1. /\ operators[o].script = "seed" /\ Seeding(operators[o])
        /\ operators[o].write # None /\ Perform(operators[o].write)
    BY <1>1, <1>10 DEF Runs, SeedingInv, Performed, Call
  <2>2. Seeds' /\ ~ (zoho.vendors = 1 /\ zoho.items = <<TARGET_STOCK>>)
    BY <1>1, <1>10, <2>1, SeedPerformed
  <2>3. ASSUME NEW p \in Operators \ {o}, operators'[p].script = "seed"
        PROVE  Seeding(operators[p])'
    <3>1. operators[p].script = "seed" /\ operators'[p] = operators[p]
      BY <1>10, <2>3
    <3>2. operators[p].pc \in {"idle", "done"}
      BY <1>10, <3>1 DEF Runs, Running
    <3>3. operators[p].pc # "done"
      BY <1>1, <2>2, <3>1 DEF SeedingInv, Seeding
    <3> QED BY <1>5, <3>1, <3>2, <3>3
  <2>4. Seeding(operators[o])'
    <3>1. CASE ~ answered
      BY <1>5, <1>10, <3>1, FailMoves DEF Call, Idle
    <3>2. CASE answered
      <4>1. ~ Refused(operators[o].write)
        BY <1>10 DEF Performed
      <4>2. /\ operators'[o].pc = operators[o].pc /\ operators'[o].write = None
            /\ operators'[o].current = operators[o].current
            /\ operators'[o].item = IF operators[o].write.what = "item"
                                    THEN Len(zoho.items) + 1 ELSE operators[o].item
        BY <1>10, <3>2, <4>1, Answered
      <4>3. CASE operators[o].write.what = "vendor"
        <5>1. operators[o].pc = "item" /\ zoho'.vendors = 1
          BY <1>1, <1>10, <2>1, <4>3, SeedPerformed
        <5> QED BY <4>2, <5>1 DEF Seeding
      <4>4. CASE operators[o].write.what = "item"
        <5>1. /\ operators[o].pc = "stock" /\ zoho'.vendors = 1 /\ zoho'.items = <<0>>
              /\ operators[o].current = 0 /\ Len(zoho.items) = 0
          BY <1>1, <1>10, <2>1, <4>4, SeedPerformed
        <5> QED BY <4>2, <4>4, <5>1 DEF Seeding
      <4>5. CASE operators[o].write.what = "adjust"
        <5>1. /\ operators[o].pc = "verify" /\ zoho'.vendors = 1 /\ Len(zoho'.items) = 1
              /\ zoho'.items[1] = TARGET_STOCK
          BY <1>1, <1>10, <2>1, <4>5, SeedPerformed
        <5> QED BY <4>2, <5>1 DEF Seeding
      <4> QED BY <1>10, <4>3, <4>4, <4>5 DEF SeedWrites
    <3> QED BY <3>1, <3>2
  <2> QED BY <2>2, <2>3, <2>4 DEF SeedingInv
<1>11. ASSUME zoho' = zoho
       PROVE  Seeds' /\ SeedingInv'
  <2>1. Seeds'
    BY <1>1, <1>11 DEF Seeds
  <2>2. CASE operators' = operators
    BY <1>4, <1>11, <2>1, <2>2 DEF SeedingInv
  <2>3. ASSUME NEW o \in Operators, NEW answered \in BOOLEAN, Call(o, answered),
               operators[o].write.what \in SeedWrites
        PROVE  SeedingInv'
    <3>1. RunType(operators[o]) /\ operators[o].write # None
      BY <2>3 DEF TypeInv, Call
    <3>2. <<operators[o].script, operators[o].pc, operators[o].write.what>> \in Awaited
      BY <3>1 DEF RunType
    <3>3. Runs(o, "seed")
      BY <1>2, <2>3, <3>2 DEF Runs, Running, Awaited
    <3>4. CASE Refused(operators[o].write) \/ ~ answered
      BY <1>8, <1>11, <2>3, <3>4 DEF Call
    <3>5. CASE ~ Refused(operators[o].write) /\ answered
      <4>1. Performed(operators[o].write)
        BY <2>3, <3>1, <3>5 DEF Performed, InFlight, RunType, Call
      <4>2. /\ operators'[o].write = None
            /\ \A p \in Operators \ {o} : operators'[p] = operators[p]
        BY <2>3, <3>5, Answered
      <4> QED BY <1>1, <1>10, <2>3, <3>3, <4>1, <4>2 DEF OneByOne
    <3> QED BY <3>4, <3>5
  <2> QED BY <1>6, <1>7, <1>8, <1>9, <1>11, <2>1, <2>2, <2>3
          DEF Next, GiveUp, Land, Deploy, vars
<1>12. ASSUME NEW v, v.what \notin SeedWrites, Performed(v)
       PROVE  zoho' = zoho
  BY <1>12 DEF Performed, Perform, SeedWrites
<1>13. CASE UNCHANGED world
  BY <1>3, <1>11, <1>13 DEF world
<1>14. CASE \E v : v.what \notin SeedWrites /\ Performed(v)
  BY <1>3, <1>11, <1>12, <1>14
<1>15. CASE \E o \in Operators, answered \in BOOLEAN :
              /\ Call(o, answered) /\ Performed(operators[o].write) /\ Runs(o, "seed")
              /\ operators[o].write.what \in SeedWrites /\ operators'[o].write = None
              /\ \A p \in Operators \ {o} :
                   operators'[p] = operators[p] /\ ~ Runs(p, "seed")
  BY <1>3, <1>10, <1>15
<1> QED BY <1>1, <1>2, <1>13, <1>14, <1>15, TheOneRun

\* Re-running the seed is safe after a failure anywhere, as long as its runs do not
\* overlap and none of their calls is late (seed_demo_data.py:10, 197-217).
THEOREM SeedIsIdempotent == Spec => []SeededOnce
<1>1. Init => TypeInv /\ SeedInv
  BY InitType, InitSeed
<1>2. (TypeInv /\ SeedInv) /\ [Next]_vars => (TypeInv /\ SeedInv)'
  BY TypeStep, SeedStep
<1>3. TypeInv /\ SeedInv => SeededOnce
  <2> SUFFICES ASSUME TypeInv, Seeds, SeedingInv
               PROVE  SeededOnce
    BY SeedParts DEF SeededOnce, Calm
  <2>1. zoho.items \in Seq(Int)
    BY DEF TypeInv, WorldType
  <2>2. \A i \in DOMAIN zoho.items : i = 1
    BY <2>1 DEF Seeds
  <2>3. \A o \in Operators :
          operators[o].pc = "done" /\ operators[o].script = "seed" =>
            zoho.vendors = 1 /\ zoho.items = <<TARGET_STOCK>>
    BY DEF SeedingInv, Seeding
  <2>4. zoho.vendors <= 1 /\ Len(zoho.items) <= 1
    <3>1. \A n \in {0, 1} : n <= 1
      OBVIOUS
    <3> QED BY <3>1 DEF Seeds
  <2>5. \A i \in DOMAIN zoho.items : zoho.items[i] <= TARGET_STOCK
    <3> SUFFICES ASSUME NEW i \in DOMAIN zoho.items PROVE zoho.items[i] <= TARGET_STOCK
      OBVIOUS
    <3>1. i = 1 /\ zoho.items # <<>>
      BY <2>2
    <3> QED BY <3>1 DEF Seeds
  <2> QED BY <2>3, <2>4, <2>5 DEF SeededOnce
<1> QED BY <1>1, <1>2, <1>3, PTL DEF Spec
=============================================================================
