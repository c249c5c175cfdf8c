# A2A governance: verification project

This directory holds TLA+ models of the governed purchasing system in this
repository, the TLC configurations that check them on small instances, and
theorems about them that TLAPS checks for every instance.

Paths below are relative to the repository root.

## 1. The system

A person asks an inventory agent about stock. When stock is short, a purchase is
proposed, a human decides on it, and an order is created in Zoho. Two
implementations of this share one idea (nobody writes to Zoho without a chain of
verifiable delegations or a recorded human decision):

* the **purchasing UI** (`src/inventory_ui`): a FastAPI process with a SQLite
  database that reads stock, drafts a purchase, waits for a human and submits;
* the **agents** (`src/governance_demo` locally, `cloud/` deployed): an inventory
  agent that delegates to a procurement agent over A2A, with tokens minted by an
  auth broker, checked at a gateway and at the MCP servers in front of Zoho.

### 1.1 Inventory

| Component | State | Operations | Talks to | Hard behaviour | Correct when |
|---|---|---|---|---|---|
| Purchasing UI (`app.py`, `executor.py`, `store.py`, `models.py`) | tables `runs`, `drafts`, `approvals`, `submissions`; request threads; background threads | `start_check`, `process_run`, `approve`, `reject`, `internal_process`, `submit_approved_draft` | SQLite, Zoho through `governance.create_draft` | concurrent decisions, repeated clicks, redelivered tasks, restarts, a create whose answer never comes, failing local writes, expiring approvals | one decision per draft, one order per draft, an order only after its owner's approval, reports that are true, every decision carried out |
| Auth broker (`auth_broker_app.py`, `signing.py`) | the signing key (per process, or in KMS), nothing else | `sign`, `jwks` | identity provider and agents (callers), verifiers | authority that composes along a chain of tokens, clock, key replaced on restart | a token never says more than the evidence behind it: subject, actors, scope, expiry |
| Identity provider (`idp_app.py`) | none (client registry and policies are files) | `login`, `oauth_token` | auth broker | two components evaluating one policy on different evidence | an actor token is used only by the agent it names |
| Token verification (`security.py`, `cloud/*/governance.py`) | cached verification key | `decode_token`, `_fetch_verification_key` | auth broker `jwks` | stale cached key after rotation | a valid token is accepted, a token of a replaced key is not |
| Gateway and registry (`gateway_app.py`, `registry_app.py`) | none | `route`, `agents` | agents, MCP servers | the decision rests on the token alone | only an allowed actor with the required scope gets through |
| Local agents and MCP servers (`agent_a_app.py`, `agent_b_app.py`, `inventory_mcp_app.py`, `procurement_mcp_app.py`) | none | `ask`, `order_status`, `a2a`, `mcp` | gateway, identity provider, Zoho emulator | several hops, each of which may fail after the previous took effect | an order is drafted under the asking user's delegation |
| Zoho emulator (`zoho_app.py`) | `PURCHASE_ORDERS`, `IDEMPOTENCY`, `ACCESS_TOKENS`, `SESSIONS` in memory | `create`, `submit`, `review`, `approve`, `get`, `oauth_token`, `ui_login` | procurement MCP server, a human reviewer | endpoints run on a thread pool over unlocked dictionaries; approval binds to a hash | one order per idempotency key, an approval for exactly what was reviewed |
| A2A write path (`cloud/inventory_agent/agent.py`, `cloud/procurement_a2a/executor.py`, `cloud/*/governance.py`, `cloud/*/zoho_mcp.py`) | none of its own: Zoho's orders and what the agents cache | `request_reorder`, `execute`, `create_draft`, `operation_id`, `reorder_plan` | auth broker, Zoho MCP | retries after a lost response, an operation id computed from changing stock | one order per operation, a reorder never ordered twice |
| Sessions of the UI (`auth.py`) | `_sessions` in memory | `issue_session`, `current_user`, `require_approver`, `require_same_origin` | purchasing UI | lost on restart | only an approver of the owning subject decides |
| Views and reports (`security_plane.py`, `telemetry.py`, `audit.py`, static page) | an audit file | read-only | all | none | (output only) |
| Deployment and seeding (`cloud/*.py`, `cloud/*.sh`, `scripts/`) | IAM policies, secrets, KMS key versions, Zoho demo data, the key version in each agent's environment | `iam_binding.py`, `setup_kms_signing.py`, `setup_zoho_secrets.py`, `seed_demo_data.py`, `deploy_agents.sh` | Google Cloud, Zoho | read, edit and write back without a lock; runs next to each other, runs again after a failure | least privilege, nothing of others undone, running again is harmless |

### 1.2 How the parts interact

```
 browser --> purchasing UI --SQLite--> runs/drafts/approvals/submissions
                 |  thread per request, thread per run
                 +--> governance.create_draft --> Zoho (list, create, submit)

 user --> identity provider --sign--> auth broker --jwks--> every verifier
            |                              ^
            v                              | sign (deployed agents)
     inventory agent --gateway--> procurement agent --gateway--> MCP --> Zoho
```

Calls are synchronous; nothing is queued except the UI's background threads.
Shared state between concurrent activities is SQLite in the UI, module level
dictionaries in the emulator, cached keys in the verifiers, and Zoho itself.

## 2. Plan

Order of work, most important behaviour first.

| | Modules | Of | State |
|---|---|---|---|
| 1 | `PurchasingStore`, `PurchasingUI`, `ApprovedPurchase`, `PurchasingProperties`, `PurchasingInductive`, `PurchasingProofs` | the purchasing UI, the only part that turns a human decision into money spent | checked, proved (section 3) |
| 2 | `AuthBroker`, `Grant`, `AuthBrokerProperties`, `AuthBrokerProofs` | the one component that signs, for any configuration | checked, proved (4) |
| 3 | `ReorderPlan`, `ReorderRounds`, `ReorderRoundsProofs`, `A2AReorder`, `A2AReorderProperties`, `A2AReorderProofs` | the reorder rule and the A2A path that acts on it | checked, proved (5) |
| 4 | `ZohoEmulator`, `OrderLedger`, `ZohoEmulatorProperties`, `ZohoEmulatorProofs` | the emulator's handlers on a thread pool, with the procurement MCP as caller | checked, proved (6) |
| 5 | `VerificationKeys`, `VerificationKeysProofs` | the verifiers' copies of the broker's key | checked, proved (7) |
| 6 | `GovernedRequest`, `GovernedRequestProperties`, `GovernedRequestProofs` | one request through all services of the local demo | checked, proved (8) |
| 7 | `OperatorScripts`, `OperatorScriptsProperties`, `OperatorScriptsProofs` | the scripts that set up the deployment | checked, proved (9) |

`DemoPolicies` is `config/policies.json` and `config/client_registry.json`; the MC
modules of 2 and 6 extend it, so both check the files that are in the repository.
An `MC` module per component gives the small sets and the symmetry.

Every safety property that a passing run checks is proved, for every value of the
constants or under premises that the theorem names.

Every run asks a question of its own, on the smallest instance in which the
interesting case happens (two actors, one or two objects, a clock of two or three
ticks).

## 3. The purchasing UI

### 3.1 Modules

| Module | Models |
|---|---|
| `PurchasingStore` | `store.py`: the four tables and each statement or `BEGIN IMMEDIATE` block as one operator, hence one atomic step |
| `PurchasingUI` | `app.py`, `executor.py`, `governance.create_draft`: request threads, workers, Zoho and the network between |
| `ApprovedPurchase` | the promise: one decision, one order at most and only after approval, true reports |
| `PurchasingProperties` | what the runs check, and the refinement mapping to `ApprovedPurchase` |
| `PurchasingInductive` | the inductive invariant |
| `PurchasingProofs` | the theorems |
| `MCPurchasing` | symmetry for TLC |

A request thread is a record whose `pc` names the statement it executes next.
Between two statements anything may happen: another request, a worker, the clock,
a crash. The correspondence:

| pc | code |
|---|---|
| `create_run`, `dispatch` | `start_check`, after `active_run_for` found nothing; `_dispatch` |
| `mistrust` | `_load_for_decision`, the integrity check failed, before `transition_draft` |
| `record`, `decide` | `approve`/`reject`: before `record_approval`, before `transition_draft` |
| `recheck` | `approve`: before the expiry check and the transition to SUBMITTING |
| `claim`, `lookup`, `create`, `await_create`, `submit`, `finish`, `reconcile` | `submit_approved_draft` and `create_draft`, one per call that reads or writes outside the thread |
| `place`, `give_up`, `close` | `approve`: the last transition, the error handler, `set_run_state` |

A worker is one execution of `process_run`: `read_run`, `read_stock`, then one of
`unresolved`, `sufficient`, `shortage`, then `publish`. `spawned` tells a thread
of `_run_task` (whose handler marks the run FAILED) from `/internal/process`
(which has no handler).

`wire` holds create requests Zoho has not received. `CreateReturns` lets the
caller see a failure whether or not the request arrives later, which is what a
timeout is. `Faults` chooses which faults the environment has: a crash of the
process (threads and workers vanish; tables, wire and orders stay), redelivery of
a task, a SQLite statement that raises, and an edit of a stored payload behind
the program's back (the case `_load_for_decision` guards against).

Abstractions. A hash is the content it hashes. The draft version is always 1 in
the code and is left out. Ids are drawn from `Runs` and `Drafts`, so they do not
collide, and neither do reference numbers, which the code derives from a uuid: a
draft is its own reference number (an edited payload keeps it). Reads of a row
and the check of what was read are one step when nothing else the model can see
lies between; otherwise the value read is kept in the thread (`saw`, `content`).
Sessions are the set `Subjects` with `Approvers` among them.

### 3.2 Runs

| Run | Instance | Question |
|---|---|---|
| `ui_decisions` | one draft, two request threads, one worker, every fault | can two clicks, a crash, a lost create, a failing database make two orders, an unapproved one, or a report of an order that Zoho does not have? No; a draft reported FAILED may have its order, see the table below. It also checks that the system implements `ApprovedPurchase`. |
| `ui_runs` | one run, two drafts, two users, two workers, no faults, fairness | do a run and its drafts agree, is a recorded decision carried out, does a run leave DRAFTING? Yes, without faults. |

One run is expected to fail: `ui_restart_strands` checks `PendingIsDecidable`, after
"a pending approval [must] survive a server restart" (`auth.py:49`). A crash between
the two transactions of `approve` uses up the only decision of the draft.

More sentences of the repository fail on the instances below (one approver,
`TTL = 1`, two threads,
`MaxTime = 0`, one worker, where nothing else is said); their properties
are defined in `PurchasingProperties`, and no run lists them.

| Property | The sentence | Instance and what happens |
|---|---|---|
| `OneActiveRun` | "one active run" (`store.py:138`, `app.py:111`) | two runs, two threads, no faults: two clicks both find none and both insert |
| `OneOrderPerRun` | redelivery resolves to one winner (`store.py:11`) | two drafts, two workers, `Faults = {"redelivery"}`: two deliveries pass the DRAFTING check, draft twice, and both drafts are ordered |
| `CompleteIsFinal` | transitions are `BEGIN IMMEDIATE` (`store.py:11`) | one run, no faults: `set_run_state` is unconditional; a late worker reopens a completed run |
| `SubmittedWhileFresh` | expiry is re-checked at submission (`executor.py:281`) | `MaxTime = 1`: the approval expires after `approve` looked |
| `OrderedAsApproved` | the hash is re-checked at submission (`executor.py:283`) | two contents, `Faults = {"edit"}`: the row is read again and sent without comparing |
| `FailedHasNoOrder` | an unknown outcome is SUBMISSION_UNKNOWN (`models.py:6`) | `Faults = {"store"}`: the order exists, the local write fails, the draft is reported FAILED |

Bounds. One draft is enough for the questions of `ui_decisions` because no
statement of `approve` touches two drafts; the proofs confirm it for any number.
Two threads are the least that race. `TTL = 1`, `MaxTime = 1` lets an approval be
fresh or expired. `Runs` and `Drafts` bound how many rows are ever inserted.
`Threads` and `Workers` bound what is served at once: the web server's pool, and
the executions of `process_run` that coexist (`Dispatch` waits for a free one).

Fairness. `FairSpec` gives weak fairness to each request thread and each worker:
threads of a live process are scheduled. Nothing forces a click, an arrival at
Zoho, the clock, or a redelivery. Liveness is checked without faults because with
a crash it is false, which `ui_restart_strands` shows.

### 3.3 Proofs

`PurchasingProofs` proves, for any sets of runs, drafts, users, threads, workers,
any time bound and any set of faults (the last one for those it names):

| Theorem | States |
|---|---|
| `TypeCorrect` | `Spec => []TypeOK` |
| `Inductive` | `Spec => [](TypeOK /\ IInv)` |
| `NoDoubleOrder` | `Spec => []OneOrderPerDraft` |
| `OneWinner` | `Spec => []OneDecision` |
| `NothingUnapproved` | `Spec => []OrderIsApproved` |
| `TruthfulReport` | `Spec => []ReportIsTrue` |
| `CreatesOnce` | `Spec => NoBlindRetry` |
| `UIKeepsPromise` | `Spec => KeepsPromise`, that is, the UI implements `ApprovedPurchase` |
| `RunsMatchDrafts` | `Faults \subseteq {"crash", "edit"}` gives `Spec => []RunMatchesItsDrafts` |

Assumptions: `TimeAssumption` (the time to live and the bound of the clock are
naturals), `ActorAssumption` (approvers are subjects, faults are the four
named) and `NoneAssumption` (`None` is no id). Nothing is assumed finite.

The premise of `RunsMatchDrafts` cannot be weaker: a task that is delivered twice
drafts twice, and a statement of the store that raises after a draft was inserted
leaves the run FAILED with a live draft. A crash does no harm, because a run moves
and its draft is inserted in one order only.

Why an invariant is needed. None of the properties is inductive: that a draft is
ordered once depends on who may still send a request. `IInv` says it in six parts.
`RowsInv`: a live draft belongs to a live run. `ThreadsInv`: what a thread at a
given statement has established (its draft is live, its user owns it and may
approve, its verdict is an approval once it submits). `DecisionsInv`: the unique
index gives one decision per draft, so at most one thread *holds* a draft after
`record_approval`. `OrdersInv`: everything on the wire or at Zoho belongs to an
approved draft, no draft has two of either, and the holder has sent nothing before
`await_create`. `ClaimsInv`: the submission row is CLAIMED while the holder may
still send. `ReportInv`: the holder moves to PLACED only past an order, REJECTED
rests on a rejection. The proof has one lemma per group of conjuncts and one step
per action; most actions touch few variables, and the lemmas `GotoFields` and
`OthersStay` say once what a move of a `pc` leaves alone.

The refinement reads the abstract state off the tables (`MappingInv`): the verdict
of the one decision, the orders Zoho holds, and what the state of the draft
reports. Each action decides, orders, reports, or stutters. `RunsMatchDrafts` adds
what a worker has done before its next statement to `IInv`.

Only model-checked: liveness (out of the prover's reach).

Not modelled here: the activity log, the read-only endpoints, the parsing of an
agent's answer in `read_inventory` (its outcome is a choice of three), the
arithmetic of the draft (`build_draft` either yields a draft or raises), CSRF and
session handling, which answer before any state changes.

## 4. The auth broker

### 4.1 Modules

| Module | Models |
|---|---|
| `AuthBroker` | `auth_broker_app.py` (`sign` and the policies it applies), the key of `signing.py` |
| `Grant` | a delegation chain in the abstract: it starts empty, grows by one actor at a time, keeps its subject and never lasts longer |
| `AuthBrokerProperties` | the properties, the mapping from tokens to grants, the inductive invariant |
| `AuthBrokerProofs` | the theorems |
| `MCAuthBroker`, `DemoPolicies` | the repository's `broker_clients.json` and `policies.json` |

`tokens` is every token ever signed. Tokens are bearer tokens, so a request may
present any of them: the model does not say who holds what, and what is shown
holds whoever does. A token of another key is refused, so only tokens the broker
signed matter.

`sign` is two steps. `RequestOrigin` and `RequestDelegation` are a request that
arrives: the clock is read, the policies are evaluated. `SignOrigin` and
`SignDelegated` verify that the evidence has not expired, build the claims from
the time read *before*, and sign. The policies are evaluated in the first step
though the code evaluates them between the two; they read only the request and
files, so it makes no difference when. A request that is refused for a reason
other than expiry changes nothing and is left out. `Restart` is a new process: it
forgets requests in flight, and its key is another one (the software key is
generated at start) or the same (a KMS key version is what it was).

| Definition | Code |
|---|---|
| `Identified`, `Actor` | `_derive_delegation`: the client's own `delegation_actor`, or the subject of an agent credential for `sts` |
| `MayExtend` | `_authorize_delegation` over `token_exchange` |
| `Mintable` | `_authorize_mint` over `may_mint` and `token_minting` |
| `OriginToken`, `DelegatedToken` | the claims built in `sign`; `act` is a sequence, the latest actor first |
| `Fresh` | what PyJWT checks of `exp` |

### 4.2 Runs

| Run | Instance | Question |
|---|---|---|
| `broker` | three clients: one bound to an actor (`inventory-agent-principal`), one bound to an actor but without the right to mint (`procurement-agent-adk-principal`), one that presents credentials of agents (`identity-broker`); four tokens, a clock of two values, one change of key; 366,040 states | is every delegation backed by a token with the same subject that a rule lets its actor extend, is every actor authenticated, who can create orders? It also checks that the broker implements `Grant`. |

Bounds. Four tokens are a whole chain (sign-in, inventory agent, procurement agent)
and a credential. Procurement Agent's own client is left out, so that its
credential is what it acts by, and a chain mixes both kinds of callers. The unit of
time is 150 s: the 300 s of a delegation (`MaxToken`, two units) can exceed what is
left of its parent after one tick. `Asked` holds the sets of scopes that a request
names: each scope alone, and the two pairs a rule allows together. `MaxTokens` also
counts requests in flight, so a run never signs more. Symmetry is not used: names
occur in policies.

There is no liveness here: the broker answers synchronously and owes nobody a
token. `Deadlock` cannot occur, since `Restart` with the same key is always
possible.

### 4.3 Proofs

`AuthBrokerProofs` proves, for any names, audiences, scopes, clients and policies,
any lifetimes (also negative ones, which `SignRequest` admits) and any bounds:

| Theorem | States |
|---|---|
| `TypeCorrect` | `Spec => []TypeOK` |
| `Inductive` | `Spec => [](TypeOK /\ IInv)` |
| `Grounded` | `Spec => []DelegationIsGranted` |
| `SignInBoundsLifetime` | `Spec => []NeverOutlives` |
| `NoNamedActors` | `Spec => []ActorsAuthenticated` |
| `Refinement` | `Spec => OnlyNarrows`, that is, the broker implements `Grant` |
| `OrdersByChainOnly` | `Configured` gives `Spec => []PurchaseChain` |

`Configured` says that the rules are those of `config/policies.json`, or some of
them; clients, lifetimes and bounds stay arbitrary. `PurchaseChain` follows from
`DelegationIsGranted` and from the scopes that sign-ins and credentials are minted
with (`StartScopesInv`), by following the chain of a token back rule by rule.

Assumptions: `PolicyAssumption` (the configuration has the shape the code reads)
and `SeparateAudiences` (no exchange rule starts from an audience that agent
credentials are minted for), which `policies.json` satisfies and TLC evaluates in
the run. `SeparateAudiences` is needed by `NeverOutlives` only: without it an
agent could extend its own credential, and a chain would start at an agent and not
at a sign-in.

`IInv` adds to the three properties what is known of a request between its two
steps (`InFlightInv`: its subject token was signed with the present key, its actor
is identified, a rule admits it) and where chains begin (`OriginsInv`). The step
that signs is proved in four lemmas: `PutFirst` (what putting an actor in front of
a chain does), `Evidence`, `NewDelegation` and `FromSignIn`.

## 5. Reordering over A2A

### 5.1 Modules

| Module | Models |
|---|---|
| `ReorderPlan` | `available_stock`, `incoming_quantity`, `reorder_plan` (`cloud/*/governance.py`) |
| `ReorderRounds` | a buyer who reads the item, then its orders, places the order and decides again, while goods arrive; its properties |
| `ReorderRoundsProofs` | sums over finite sets, the plan, the rounds |
| `A2AReorder` | sessions of Inventory Agent (`agent.py`), users of `a2a_send.py`, instances of Procurement Agent (`executor.py`, `create_draft`), Zoho |
| `A2AReorderProperties` | the properties |
| `A2AReorderProofs` | the theorems about the A2A path |
| `MCReorderRounds`, `MCA2AReorder` | small items, policies and order books |

`ReorderPlan` counts in fractions of a unit (`Unit` of them to one), so that `int()`
is something: `Whole`. A field Zoho does not supply is `None`. A SKU's policy is
`None` when there is no entry. Orders are a sequence of orders with sequences of
lines, and `OpenLines` are the places of the lines that are still to come, so that
the loop of `incoming_quantity` is a sum over a finite set.

What makes the inbound quantity unknown is a read that fails (`None` for the orders)
and a line of the item without a quantity, and nothing else (`Readable`). An order
that the list names without an id is skipped (`governance.py:349`), one whose detail
comes back without its content has no lines (361, `zoho_mcp.py:197`), and a list
under neither of the two keys is empty (`zoho_mcp.py:192`): all three are orders
that come out `Empty`. The docstring says otherwise (337: "Nothing here treats an
unreadable order as an empty one").

In `ReorderRounds` the buyer's `ReadItem` and `Decide` are two remote reads
(`agent.py:48` and 62), and goods arrive before, between and after them. `item` and
`orders` are Zoho's own records; the replies may lose orders, lack a quantity or
fail (`Replies`, `CannotRead`), and `get_item` may come back empty, so that the
record of the list is used, which has no limits (`Records`). The list of orders and
the orders themselves are read in one step, and the module says why this loses
nothing. `uncounted` is history: what came in since the item was read, and what the
replies left out. `RecordsAssumption` gives the shape of the records;
`BooksAssumption` says that in Zoho itself every line has a quantity. What a reply
does say is taken to be right.

`A2AReorder` is about one item and composes `ReorderPlan` by INSTANCE: `PlanFor`
hands it the stock somebody read and the orders as they are now. The human is a
constant (`human_token` signs everybody in as `demo-user`), so the operation id
tells requests apart by quantity alone, as in the code.

| Action | Code |
|---|---|
| `CheckItem`, `CheckOrders` | `check_stock`: the item is read first, its orders later |
| `Ask`, `Send`, `CallerGivesUp`, `Done` | `request_reorder_from_procurement_agent`, a retry of it, its `timeout=180`, and a person going on to something else |
| `Accept`, `ReadItem`, `ReadOrders`, `Exchange` | `execute` up to `create_draft` |
| `Lookup`, `Create`, `CreateGivenUp`, `Submit` | `create_draft`, one step per call to Zoho; `timeout=60` of `zoho_mcp.call` |
| `CarryOut`, `Refuse`, `Sell`, `Receive`, `Cancel` | Zoho (external) |

Reading an item record, and reading all orders of the item, is one step each; the
code makes several calls for either. A reply is whole here or the call fails. `execute` makes blocking calls in an `async
def`, so an instance runs one request to its end before the next: an element of
`Executors` is an instance. `Failures` names the calls that may fail in a run,
`Timeouts` says whether a call may be given up while it is under way; a create
that was given up stays in `writes` until Zoho carries it out or refuses it.
`before` in a session only records what had landed when the request was made, and
`late` in an order that nobody waited for its create any more.

Left out: tokens (section 4; here they are valid, and the exchange may be denied),
`get_status` and `approve` of `execute`, the other tools of the agent, and the
HTTP statuses, which change nothing.

### 5.2 Runs

| Run | Instance | Question |
|---|---|---|
| `reorder_plan` | items with and without stock field, level, minimum and maximum; books of up to two orders (draft, open, closed, cancelled; lines part received and part cancelled, and of another item); any order lost from the replies, any quantity blank, any read failing; goods arriving between any two reads | is the target reached (`BroughtToTarget`); is what is ordered beyond the shortfall accounted for (`OrdersOnlyTheShortfall`); does an order settle the matter (`Settles`); are goods counted once (`ArrivalMovesGoods`)? |
| `a2a_sells` | one session, three requests of two attempts, sales and cancellations, every call may fail | is a business request one order; do available and inbound stay within the target? |
| `a2a_timeouts` | a session and a user of `a2a_send.py`, one instance, calls given up while under way, fairness | is a success an order of the quantity asked for; what can repeat a reference; does every request end? |

More sentences of the code fail on the instances below (one attempt or two, no
failing call); their properties are defined, and no run lists them there.

| Property | The sentence (`cloud/procurement_a2a/governance.py`) | Instance and what happens |
|---|---|---|
| `OneOrderPerReference` | identical requests collapse into one order (485) | two sessions, two instances: both look up before either creates |
| `OneOrderPerReference` | "a retry after a lost response finds the original" (521) | one session with `Timeouts = TRUE`: the create is given up, the retry looks up before it arrives |
| `SuccessIsSubmitted` | create it "and submit it for human approval" (516) | one lost response: the retry finds the order and reports success for a draft nobody submitted |
| `OrderedWithinTarget` | no second order for what is inbound (323) | two sessions, one sale between their checks: two orders for one shortfall |
| `OrderedWithinTarget` | the quantity brings stock up to the target (438) | one session, a sale and a receipt: goods arrive between the two reads, counted in neither |
| `NewRequestIsOrdered` | a new order has another quantity (487) | two requests, receipts and two sales: success, with the order that had landed |

Together they say: the reference makes a retry safe when the lookup comes after
whatever the first attempt did. With one instance only a create that was given up
while under way can repeat a reference (`OnlyLateOrdersRepeat`); with two, any two
requests handled at once can, since nothing in Zoho makes a reference unique.
`OrdersOnlyTheShortfall` and `Settles` name the two ways in which a lone buyer orders
too much: goods that come in between the read of the item and the reads of its
orders, which are in neither figure, and orders that the replies leave out, which
the docstring at 337 excludes and the code does not. Nothing else that is unknown
counts as zero. `BroughtToTarget` needs neither excuse, since both only make the
order larger; it allows for what `int()` drops, which is less than one unit; with
`Unit = 1` it is the sentence "brings available + already-inbound up to
target_stock" (438) itself.

Bounds. The item is reordered below 2 and up to 3, so an order is 2 or 3 units and
one sale tells two requests apart. Two attempts are a retry; two requests are a
request and a later one.

Fairness (`a2a_timeouts`): every instance keeps executing, and Zoho answers or
refuses each create. Both follow from the code's own timeouts: each call ends
within 60 s. Nobody is obliged to ask, to retry or to sell.

`CHECK_DEADLOCK FALSE`: the number of requests, attempts and orders is bounded.

### 5.3 Proofs

`ReorderRoundsProofs`, for any item records, policies, orders and fractions:

| Theorem | States |
|---|---|
| `RoundsHold` | `Spec => []RoundsInv` |
| `ExcessIsAccountedFor` | `Spec => []OrdersOnlyTheShortfall` |
| `OrdersReachTheTarget` | `Spec => []BroughtToTarget` |
| `OneOrderIsEnough` | `Unit = 1` gives `Spec => []Settles` |
| `ArrivalsAreCountedOnce` | `Spec => ArrivalMovesGoods` |

Assumptions: `UnitAssumption`, `RecordsAssumption` (amounts are integers or unknown,
and `None` is neither an amount nor a record) and `BooksAssumption` (Zoho knows the
quantities of its own lines). Amounts may be negative, minimums absurd, and
deliveries larger than the order.

Sums come first. `SumFunctionOnSet` of the library takes away one chosen element
after another, which `SumStep` proves it does; that any element may be taken
(`SumRemove`) and that only the values on the set matter (`SumEqual`) follow by
looking at a smallest set of which they fail, since strict inclusion is well-founded
on finite sets. `PlacingAdds` and `ReceivingTakes` say what an order and a delivery
do to what is inbound, `NeededPlan` what a plan that orders rests on, and `ToldCount`
that what the replies tell and what they lose add up to what is inbound.

The invariant follows the buyer from one read to the next. `SeenInv`: while an item
record is in hand, it is Zoho's but for what has come in since, which is `uncounted`.
`PlanInv`: the order that a plan asks for makes up at least the real shortfall, and
at most that plus `uncounted`, or the minimum. `FilledInv`: from the first order on, if the
supplier sets no limit, available and inbound together stay within one unit of the
target, since arrivals move goods and nothing takes them. `Settles` follows when
nothing is uncounted, and needs whole quantities: with fractions `int()` leaves a
rest, and the minimum quantity orders again for it.

`A2AReorderProofs`, for any sessions, instances, quantities, failures and events:

| Theorem | States |
|---|---|
| `RequestsHold` | `Spec => []RequestInv` |
| `AskedIsOrdered` | `Spec => []AnsweredWithWhatWasAsked` |
| `LookupPreventsRepeats` | `OneInstance` gives `Spec => []OnlyLateOrdersRepeat` |
| `RequestIsOneOrder` | `~ Timeouts` and `OneInstance \/ OneSession` give `Spec => []OneOrderPerReference` |
| `AdviceStaysWithinTarget` | `Records`, `Modest` and `AdviceOnly` give `Spec => []OrderedWithinTarget` |

`RequestInv`: a message carries the quantity and the operation id of the request it
is an attempt of, and so does all that an instance looks up, writes, orders and
answers. For the next two, a message is acted upon once (`DeliveryInv`), what an
instance is about to create was not there when it looked (`LookedUpInv`), which
stays true because nobody else creates (`OneAtATime`); without given-up calls every
write is awaited (`AwaitedInv`), and one session keeps at most one instance busy
(`SessionInv`). The premises are the least that will do: the table in 5.2 has the
instance on which each fails.

`AdviceStaysWithinTarget` joins the plan to the path that acts on it. Its premises:
Zoho and the configuration supply records of amounts (`Records`); the supplier has no
minimum above one unit and the stock begins within the target (`Modest`); one session
asks, for what was advised or for no quantity of its own, no call is given up while
it is under way, and no goods are received (`AdviceOnly`). A minimum above the
shortfall is ordered in full, as the code means it; for the other premises 5.2 has
the instance on which the property fails. Instances, sales, cancellations, refusals,
lost responses and retries are any.

`A2AReorder` knows its orders and the sum of them, `ReorderPlan` an order book and
what of it is outstanding. `InboundIsIncoming` says the two are the same number,
`NewOrderAdds` and `StatusAddsNothing` how a step changes it; they instantiate
`ReorderRoundsProofs` (`R`) with the one item. `AdviceFits` says that an advice
computed from a stock no lower than today's has room under the target. `WithinInv`
carries that along: what a request, a message or an instance is about to order has
room, or is already there for the lookup to find (`Fits`). It stays true because
selling, submitting and cancelling add nothing (`NothingAdded`) and because a create
is carried out only for the one request of the one session (`WriteFits`,
`OneRequest`), whose retries then find it.

Only model-checked: `EveryRequestEnds` (liveness).

## 6. The Zoho emulator

### 6.1 Modules

| Module | Models |
|---|---|
| `ZohoEmulator` | `zoho_app.py`, the tool of `procurement_mcp_app.py` that creates and submits, and the humans who approve |
| `OrderLedger` | the promise: one order for a key, which goes from absent over draft and pending to approved, or is lost with all others |
| `ZohoEmulatorProperties` | the properties and the mapping to `OrderLedger` |
| `ZohoEmulatorProofs` | the inductive invariant and the theorems |

The handlers are plain functions, which FastAPI runs on a thread pool: each access
to a dictionary is a step. An entry of `PURCHASE_ORDERS` refers to a dictionary,
which a handler keeps in its hands while another changes it or replaces the entry;
so `orders` holds the dictionaries and `PURCHASE_ORDERS` their indices.

| pc of a call | code |
|---|---|
| `token` | `oauth_token` |
| `create` | `create_purchase_order` not taken up yet: `RefuseCreate`, `Replay`, `CheckCreate` |
| `number`, `insert`, `remember` | lines 150, 151-164, 165-168 |
| `submit`, `submitted`, `pending` | `submit_purchase_order`: lines 177-181, 182, 183-185 |

`humans` review a page (an order number and the hash it shows), may keep it open
over anything, and approve it: `CheckApproval` and the two writes of lines 247 and
248. `waiting` says whether the client of a call (20 s) still waits; the handler
goes on when it does not. `Restart` loses everything the emulator has in memory.

Abstractions. The MCP names an order by a key and puts the key's digits in the
reference, which is hashed: a key stands for the content and for the hash. The
number of an order stands for its id, which is computed from it. Handlers that
only read are left out. Tokens live an hour, longer than a call. `overlaps` is
history: whether a request was taken up while another was handled, and whether
two creates with one key were.

### 6.2 Run

`zoho_emulator` (two calls, two keys, two browser sessions of the approver, a
restart; 141,714 states) asks what holds whatever overlaps, and what holds only
for requests that do not:

* always: an order is approved on a page that showed this very order
  (`ApprovedAsReviewed`); what has been submitted is no draft at any moment
  (`PendingIsNoDraft`); a key never names a number without an order (`TypeOK`);
* unless two creates with one key overlap: one order per key (`OneOrderPerKey`).
  They can: the MCP gives up after 20 s, and a retry with the same key finds the
  first create still running;
* unless two requests overlap: a call submits the order it created
  (`AnsweredWithItsOrder`), and the emulator implements the ledger
  (`ImplementsLedger`). When they overlap, the number of an order, which is the
  number of orders before it, is given out twice, one order disappears from the
  table, and both callers submit the other one; a concurrent submit can set an
  approved order back to pending.

Two calls and two keys let both overlaps happen; two sessions let two approvals
race; one restart gives a number out again to another order while a page showing
the first is open. There is no liveness: the handlers are synchronous and end.
`CHECK_DEADLOCK FALSE`: a call is made once.

A retry with the same key comes from a caller that repeats its request id. Inventory
Agent draws a fresh one for each `/ask` (`agent_a_app.py:84`), so the idempotency of
the emulator does not make two asks one order, unlike what
`TROUBLESHOOTING.md:11-13` suggests.

### 6.3 Proofs

For any calls, keys, humans and number of restarts (`NoneAssumption`: `None` is no
key; `RestartsAssumption`: the bound is a natural; nothing is assumed finite):

| Theorem | States |
|---|---|
| `Inductive` | `Spec => []IInv` |
| `TypeCorrect` | `Spec => []TypeOK` |
| `OnlyReviewedApproved` | `Spec => []ApprovedAsReviewed` |
| `NoSecondSubmit` | `Spec => []PendingIsNoDraft` |
| `Idempotent` | `Spec => []OneOrderPerKey` |
| `OwnOrder` | `Spec => []AnsweredWithItsOrder` |
| `Refinement` | `Spec => ImplementsLedger` |

`IInv` says what makes each property inductive. `TableInv`: the table is finite
(its size is a number), and the order a handler is about to name by a key is in
it. `ApprovalInv`: the dictionary a human's approval holds has the hash of the
page. `StatusInv`: between the two writes of a submit or an approval the order is
no draft. `KeyInv` (while no two creates with one key have overlapped): a key that
is not stored has no order, or one whose handler is about to store it. `SerialInv`
(while no requests have overlapped): one handler runs, every order has the number
of its place, every key names its own order, and a call that goes to submit with a
valid token names the order of its key. The last survives a restart because the
restart invalidates the token.

The proof first says, action by action, what becomes of a call, of a human and of
a dictionary (`CallMoves`, `HumanMoves` and the lemmas on rewritten orders), and
then keeps each part of `IInv` with one step per action. The refinement shows that
each step leaves every key where it stands or moves one as the ledger does.
The whole is in reach of the prover, so nothing about the emulator is only
model-checked.

## 7. Copies of the verification key

### 7.1 Module

`VerificationKeys` models `decode_token` and `_fetch_verification_key`
(`security.py`), one step per access to the shared dictionary and to the broker:

| pc | code |
|---|---|
| `lookup` | the first test of `_verification_key` |
| `fetch`, `store`, `reread` | `GET /jwks`, the assignment, and the lookup that returns it |
| `check` | `_decode` with the key in hand: `Accept`, `Refresh` (a signature that does not fit, for the first time), `Refuse` |

A service with `async` handlers verifies on one thread, since the fetch is a
blocking call; the identity provider and the registry have plain handlers, and
several threads that share the copy. `Stop` and `Start` are the broker, whose
software key dies with it. A token is the number of its key, and valid otherwise.
A verification that could not fetch the key has `failed`: it says nothing of the
token, though most handlers answer 401 in this case too, which section 8 models.

### 7.2 Run

`verification_keys` (a gateway with one thread, an identity provider with two, two
restarts; 585,070 states): on one thread no token of the broker's present key is
refused (`RefusesOnlyOldTokens`) and the copy never goes back (`NeverGoesBack`); on
any number of threads, a service that keeps being shown tokens of the latest key
ends up with that key for good (`HealsAfterRotation`). On two threads the first two
are not true, and `Alone` in them says so: an answer fetched before a restart may be
stored after a newer one, and `reread` returns what another thread has stored.

Fairness: a verification that began goes on (an HTTP call with a timeout), and a
broker that is down is started again, which the operator does. Nobody need present
a token; that they do is the premise of `HealsAfterRotation`.

### 7.3 Proofs

`VerificationKeysProofs`, for any services, threads and number of restarts
(`ServicesAssumption`: every thread belongs to a service):

| Theorem | States |
|---|---|
| `Inductive` | `Spec => []IInv` |
| `TypeCorrect` | `Spec => []TypeOK` |
| `NoFreshTokenRefused` | `Spec => []RefusesOnlyOldTokens` |
| `CopiesOnlyGetNewer` | `Spec => NeverGoesBack` |

`IInv`: nothing anybody holds is newer than the broker's key (`NothingNewer`), and
for a thread alone in its service an answer about to be stored is no older than the
copy it replaces, and one fetched for a second attempt no older than the token,
which had been signed before (`ThreadInv`). Liveness is only model-checked.

## 8. A request through the local demo

### 8.1 Modules

`GovernedRequest` takes one user request, `POST /ask` or `GET /orders`, through the
seven services: three hops (Inventory Agent to the inventory MCP, to Procurement
Agent, and from there to the procurement MCP), and for each hop a credential, an
exchange, a signature, the gateway and the service behind it.

| Action | Code |
|---|---|
| `SignIn`, `Accept` | `login`; `ask`, `order_status` of `agent_a_app.py` |
| `Discover`, `AgentCredential` | `oauth_token` (client_credentials) and `sign` |
| `ReadRegistry` | `agents` of `registry_app.py` |
| `CheckExchange`, `SignDelegation`, `IssueDelegation` | `oauth_token` (token exchange): verified and evaluated by the identity provider, again by the broker, and the result verified |
| `RouteRequest` | `route` of `gateway_app.py` |
| `ServeInventory`, `AcceptMessage`, `ServePurchase` | the checks of `inventory_mcp_app.py`, `agent_b_app.py`, `procurement_mcp_app.py` |
| `ReadItem`, `CreateOrder`, `SubmitOrder`, `ReadOrder` | the calls to Zoho |

Every service has its own copy of the broker's key. `Decoding` is the set of keys
that `decode_token` may end up with, and of those it may leave in the copy: a copy
that does not fit is fetched once more, the broker may give nothing (`Answers`), and
at the services with plain handlers (`Pooled`: the identity provider and the
registry) another thread may have stored an answer of any age in between (`Others`;
section 7 looks inside). Whatever `decode_token` raises, a fetch that failed
included, ends the request as refused: the handlers answer 401 in either case, and
the identity provider 500 for the delegation it has just been given (`Deny`).
`refusal` is history: which service it was, and the key it had in hand.

`Unavailable` is a service that is down or too slow for a caller that would do the
next step; `late` is an answer that comes after its caller, at Zoho or further up,
has given up while what it had started went on.

The policies are parameters; the run has the repository's (`DemoPolicies`).
`PoliciesAgree` says what the files owe the agents: each of the five delegations
that the agents ask for (`Legs`) may be exchanged, minted and routed. TLC evaluates
it on the files.

### 8.2 Run

`governed_request`: one user asks, another reads an order; a broker restart, a
clock in which a delegation (300 s, one tick) and a sign-in (900 s, two ticks here)
expire at any point of the way; 489,491 states. A request made the way the agents
make it is refused only because one of its tokens has expired, its key is lost, or
for want of the key (`RefusedOnlyForCause`): the service asked the broker and got
nothing or, at the identity provider and the registry, read back an older answer
that another thread had stored (`NoKey`). So the exchange rules, minting rules,
allowed audiences, gateway routes and the checks in the tools, which are in five
places, agree; and at the five services with one thread a stale copy is never to
blame, since a key that does not fit is fetched again. What
is refused has ordered nothing (`RefusalOrdersNothing`). Who is told that approval
is pending finds an order that is (`AnsweredIsPending`). Every request that was
taken up ends (`EveryRequestEnds`).

Two requests suffice to let one service refresh its copy between two checks of the
other request. Fairness: handlers that run go on (all calls have timeouts).
`CHECK_DEADLOCK FALSE`: every user makes one request.

### 8.3 Proofs

`GovernedRequestProofs`, for any number of requests, any lifetimes and bounds, and
any policies that agree with the agents (`PoliciesAgree`; `BoundsAssumption` and
`NoneAssumption` give types):

| Theorem | States |
|---|---|
| `Inductive` | `Spec => [](TypeOK /\ IInv)` |
| `RefusalsHaveACause` | `Spec => []RefusedOnlyForCause` |
| `RefusedBeforeOrdering` | `Spec => []RefusalOrdersNothing` |
| `PendingWhenAnswered` | `Spec => []AnsweredIsPending` |

`IInv` says of each request which tokens it carries at the statement it is at, for
which audience and scope, and that the latest actor is the agent that acts
(`TokensInv`); and that a refusal has its cause, that an order is created after the
last check, and that the answer follows the submission (`OutcomeInv`). `TurnedAway`
is where the causes come from: whatever `Decoding` may return, a token meant for the
service that it turns away has expired, has lost its key, or the service has not come
by the key (`NoKey`); `Denial` carries that into the invariant. A cause stays one,
since neither the clock nor the keys go back (`KeysOnward`). The proof
goes through the statements of the seven services in order. It shows that it is
enough for the five files to agree leg by leg; that they do is what the run checks.
Liveness (`EveryRequestEnds`) is only model-checked.

## 9. The scripts of the operators

### 9.1 Modules

`OperatorScripts` models the four scripts that change shared state by reading it
and writing it back, and the deployment of agents:

| Script | Actions |
|---|---|
| `iam_binding.py` | `EditPolicy` |
| `setup_kms_signing.py` | `FindKey`, `ListAgents`, `EditPolicy`, `Continue` (prints the latest version) |
| `setup_zoho_secrets.py` | `ListAgents`, `SkipSecret`, `FindSecret`, `ReadSecret`, `ReadSecretFails`, `EditPolicy`, `Continue` |
| `seed_demo_data.py --apply` | `FindVendor`, `FindItem`, `AdjustStock`, `VerifySeed` |
| `deploy_agents.sh`, `deploy_a2a.py` | `Deploy` |

`write` is a call under way. `Call` carries it out or has it refused (a policy
whose etag has changed; a secret or a key that exists), and the answer may be lost;
`GiveUp` stops a script anywhere, its call not made or still on its way (`late`,
`Land`). Operators run scripts next to each other and again.

Abstractions. A policy is the members of one role on the resource, and its etag.
`setup_kms_signing.py` edits two roles of the key in one write, each by adding the
entitled; the model keeps the verifiers'. An agent's display name stands for its principal, because
agents are updated in place. The key ring is created with the key. Two secrets stand
for all: one that both agents may read and one that only the writer may. `mishaps`
is history, like `overlaps`.

### 9.2 Runs

`operator_scripts` (two operators, three runs of any script, from nothing
or from a deployment of an earlier revision; 2,023,796 states): a run of the secrets script that ended well leaves
exactly the entitled agents as readers, whatever an earlier revision granted
(`LeastPrivilege`); no write of a policy undoes another (`NothingClobbered`);
consecutive versions of a secret differ unless runs overlap, a call is late, or the
latest version could not be read (`OneVersionPerChange`); seeding is repeatable
after any failure but an adjustment that lands after the next run has looked
(`SeededOnce`), a case `seed_demo_data.py:10` ("re-running is safe") does not
mention. Three runs are a failed run, a repetition and somebody else's.

`keys_deployed` is expected to fail: `AgentsHoldOneKey`, after
`cloud/DEPLOYED_AGENTS.md:261-263` ("no window where two agents hold different
keys"). An agent gets its key version with its environment and caches the public
half for ever.

There is no liveness: scripts end when their calls do. `CHECK_DEADLOCK FALSE`: the
runs are bounded.

### 9.3 Proofs

`OperatorScriptsProofs`, for any operators, agents, secrets, environments, target
and number of runs:

| Theorem | States |
|---|---|
| `PoliciesAreKnown` | `Spec => []PolicyInvariants` |
| `NoWriteClobbers` | `Spec => NothingClobbered` |
| `GrantsAreLeast` | `Spec => []LeastPrivilege` |
| `VersionsAreChanges` | `Spec => []OneVersionPerChange` |
| `SeedIsIdempotent` | `Spec => []SeededOnce` |

Assumptions: `ScriptsAssumption` (the script has at least one secret, none of them
has the name of the engine or the key) and `NoneAssumption` (`None` is no write).

Each property needs an invariant about the writes under way, including those whose
script has died. `PoliciesInv`: nobody holds a later etag than the policy's, and who
holds the current one knows the members. `GrantsInv`: the secrets that a run is
through with are granted as they should be, and the one it is at will be when its
write is carried out; a concurrent run keeps that, since both know the same
entitlements. `VersionsInv` and `SeedInv` (as long as none of the excused mishaps
has happened): one run of the script at a time, no write of it that is late, and
what the run has seen is still so.

Noticed while modelling, and not made into runs: `setup_kms_signing.py` prints no
`KMS_SIGNING_KEY` on a first run without agents, though `DEPLOYED_AGENTS.md:57`
exports it from there; `setup_zoho_secrets.py:159` removes only members it knows,
so a retired agent keeps its grant (which is why `LeastPrivilege` speaks of the
agents found); `deploy_auth_broker.sh:97` always signs with `cryptoKeyVersions/1`.

## 10. Not modelled

* **Views and reports** (`security_plane.py`, `telemetry.py`, `audit.py`, the static
  page): they read and report, and no other component depends on them.
* **UI sessions**: the role and ownership checks are guards of `PurchasingUI`;
  cookies, expiry and the origin check answer before any state changes.
* **The rest of the deployment** (`verify_cloud.py`, `registry_principals.py`,
  `deploy_to_gcp.sh`, `run_demo.py`): they upload artefacts, print, or assert on a
  running system; `registry_principals.py --write-clients` rewrites one file by
  itself.
* **The first Procurement Agent** (`cloud/procurement_agent`): it copies
  `governance.py` and is refused at its first token, since its client may not mint.
  The copies of `governance.py` and `zoho_mcp.py` are modelled once.
* **Out of the prover's reach**: liveness under fairness, and with it
  `DecisionCarriedOut`, `DraftingEnds`, `EveryRequestEnds`, `HealsAfterRotation`.
* **Needing no proof**: the two properties that are expected to fail; TLC refutes
  them.
