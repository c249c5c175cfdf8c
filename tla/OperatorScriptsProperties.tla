----------------------- MODULE OperatorScriptsProperties -----------------------
(***************************************************************************)
(* What operators may rely on when they run the scripts next to each other  *)
(* and again.                                                              *)
(***************************************************************************)
EXTENDS OperatorScripts

\* A policy is replaced as a whole, but no write undoes what others have
\* written since it was read, however runs overlap and however late a write is
\* (iam_binding.py:100; the other scripts send the etag back as well).
NothingClobbered ==
  [][\A r \in Resources :
       policies'[r].members # policies[r].members =>
         \E w \in {operators[o].write : o \in Operators} \cup {l[2] : l \in late} :
           /\ w # None
           /\ w.what = "policy" /\ w.resource = r
           /\ w.before = policies[r].members /\ w.members = policies'[r].members]_vars

\* Once a run of the secrets script has ended well, the deployed agents it found
\* can read the secrets it had a value for if and only if they are entitled to,
\* whatever they were granted before and whatever runs after or next to it
\* (setup_zoho_secrets.py:156-167).
LeastPrivilege ==
  \A o \in Operators :
    operators[o].pc = "done" /\ operators[o].script = "secrets" =>
      \A s \in Secrets :
        operators[o].input[s] # None =>
          policies[s].members \cap operators[o].known
            = SECRET_AGENTS[s] \cap operators[o].known

\* "Only add a version when the value actually changed" (setup_zoho_secrets.py:135)
\* holds across failed runs and runs of different operators, unless they overlap,
\* are late, or fail to read the latest version (setup_zoho_secrets.py:139).
OneVersionPerChange ==
  \A s \in DOMAIN secrets :
    (\A m \in mishaps : m[1] # "secrets") =>
      \A i \in 1 .. Len(secrets[s]) - 1 : secrets[s][i] # secrets[s][i + 1]

\* Re-running the seed is safe after a failure anywhere, an answer that was lost
\* included: there is never a second vendor or item nor more stock than the
\* target, and a run that ends well leaves exactly that. Not so if two runs
\* overlap or a call of a run that has given up is carried out after the next
\* one has looked (seed_demo_data.py:10, 197-217).
SeededOnce ==
  (\A m \in mishaps : m[1] # "seed") =>
    /\ zoho.vendors <= 1
    /\ Len(zoho.items) <= 1
    /\ \A i \in DOMAIN zoho.items : zoho.items[i] <= TARGET_STOCK
    /\ \A o \in Operators :
         operators[o].pc = "done" /\ operators[o].script = "seed" =>
           zoho.vendors = 1 /\ zoho.items = <<TARGET_STOCK>>

\* "Rotation is additive ... No redeployment, and no window where two agents hold
\* different keys" (cloud/DEPLOYED_AGENTS.md:261-263): all agents verify with the
\* same key.  They do not: the key version is set when an agent is deployed.
AgentsHoldOneKey == \A a, b \in DOMAIN deployed : deployed[a] = deployed[b]
=============================================================================
