----------------------------- MODULE ZohoEmulator -----------------------------
(***************************************************************************)
(* The Zoho emulator (zoho_app.py), the Procurement MCP tool that creates   *)
(* and submits purchase orders through it (procurement_mcp_app.py), and the *)
(* humans who review and approve them.                                      *)
(*                                                                         *)
(* The emulator's handlers are plain functions, which FastAPI runs on a     *)
(* thread pool: every read or write of its dictionaries is a step here.     *)
(* A handler goes on when its client has given up (20 s), and a restart     *)
(* loses everything, since all of it is kept in memory.                     *)
(*                                                                         *)
(* The MCP names every order by an idempotency key, the first digits of     *)
(* which are in the order's reference: a key stands for the content of the  *)
(* order too, and so for the hash of that content.                          *)
(***************************************************************************)
EXTENDS Integers, Sequences, FiniteSets, Functions, SequencesExt

CONSTANTS
  Calls,        \* calls of create_purchase_order_draft
  Keys,         \* idempotency keys
  Humans,       \* browser sessions of the approver
  MaxRestarts,  \* bound: restarts of the emulator
  None

ASSUME NoneAssumption == None \notin Keys
ASSUME RestartsAssumption == MaxRestarts \in Nat

VARIABLES
  orders,          \* the order dictionaries built, oldest first
  PURCHASE_ORDERS, \* purchase order id |-> index in orders
  IDEMPOTENCY,     \* key |-> purchase order id
  ACCESS_TOKENS,   \* the calls whose access token the emulator knows
  SESSIONS,        \* the humans whose session the emulator knows
  calls,
  humans,
  restarts,
  overlaps         \* what has overlapped since the start (history)

memory == <<orders, PURCHASE_ORDERS, IDEMPOTENCY>>
access == <<ACCESS_TOKENS, SESSIONS>>
vars == <<orders, PURCHASE_ORDERS, IDEMPOTENCY, ACCESS_TOKENS, SESSIONS, calls,
          humans, restarts, overlaps>>

Statuses == {"draft", "submitted", "approved"}
ApprovalStatuses == {"not_submitted", "pending_approval", "approved"}

\* approvedWith: the hash of the page its last approval was given on.
Order == [key : Keys, status : Statuses, approval_status : ApprovalStatuses,
          approvedWith : Keys \cup {None}]

\* Where the handlers of POST purchaseorders, .../submit and .../approve stand;
\* at the other places of a call its next request has not been taken up.
Creating == {"number", "insert", "remember"}
Submitting == {"submitted", "pending"}
CallPCs == {"idle", "token", "create", "submit", "done", "failed"}
             \cup Creating \cup Submitting
Approving == {"status", "final"}

\* id: the order the handler works on or the call has been answered with;
\* order: the dictionary the handler holds.
Call == [pc : CallPCs, key : Keys \cup {None}, waiting : BOOLEAN, id : Nat, order : Nat]
IdleCall == [pc |-> "idle", key |-> None, waiting |-> TRUE, id |-> 0, order |-> 0]

\* reviewed: the pages the human has seen, each an order id and the hash shown.
Human == [pc : {"idle"} \cup Approving, reviewed : SUBSET (Nat \X Keys),
          order : Nat, hash : Keys \cup {None}]
IdleHuman == [pc |-> "idle", reviewed |-> {}, order |-> 0, hash |-> None]

Init ==
  /\ orders = <<>>
  /\ PURCHASE_ORDERS = <<>>
  /\ IDEMPOTENCY = <<>>
  /\ ACCESS_TOKENS = {}
  /\ SESSIONS = {}
  /\ calls = [c \in Calls |-> IdleCall]
  /\ humans = [h \in Humans |-> IdleHuman]
  /\ restarts = 0
  /\ overlaps = {}

Put(f, x, y) == [z \in DOMAIN f \cup {x} |-> IF z = x THEN y ELSE f[z]]

Find(id) == orders[PURCHASE_ORDERS[id]]

\* A request is taken up: what it overlaps with is noted.
Handled == {c \in Calls : calls[c].pc \in Creating \cup Submitting}
HandlersRun == Handled # {} \/ \E h \in Humans : humans[h].pc \in Approving
CreatingWith(k) == \E c \in Calls : calls[c].pc \in Creating /\ calls[c].key = k
Note(sameKey) ==
  overlaps' = overlaps \cup (IF HandlersRun THEN {"handlers"} ELSE {})
                       \cup (IF sameKey THEN {"key"} ELSE {})

\* A handler answers: the call goes on if its client still waits.
End(pc) == [IdleCall EXCEPT !.pc = pc]
After(c, state) == IF calls[c].waiting THEN state ELSE End("failed")
Answer(c, state) == calls' = [calls EXCEPT ![c] = After(c, state)]
At(c, pc) == [calls[c] EXCEPT !.pc = pc]
Fail(c) == calls' = [calls EXCEPT ![c] = End("failed")]

\* The tool is called, and asks for an access token.
CallTool(c, k) ==
  /\ calls[c].pc = "idle"
  /\ calls' = [calls EXCEPT ![c].pc = "token", ![c].key = k]
  /\ UNCHANGED <<memory, access, humans, restarts, overlaps>>

OauthToken(c) ==
  /\ calls[c].pc = "token"
  /\ ACCESS_TOKENS' = ACCESS_TOKENS \cup {c}
  /\ Answer(c, At(c, "create"))
  /\ UNCHANGED <<memory, SESSIONS, humans, restarts, overlaps>>

\* The client of a call gives up; its request is still carried out.
GiveUp(c) ==
  /\ calls[c].pc \in {"token", "create", "submit"} \cup Creating \cup Submitting
  /\ calls[c].waiting
  /\ calls' = [calls EXCEPT ![c].waiting = FALSE]
  /\ UNCHANGED <<memory, access, humans, restarts, overlaps>>

\* create_purchase_order refuses the token, the vendor, or a line of the order.
RefuseCreate(c) ==
  /\ calls[c].pc = "create"
  /\ calls[c].key \in DOMAIN IDEMPOTENCY => c \notin ACCESS_TOKENS
  /\ Fail(c)
  /\ UNCHANGED <<memory, access, humans, restarts, overlaps>>

Replay(c) ==
  /\ calls[c].pc = "create"
  /\ c \in ACCESS_TOKENS
  /\ calls[c].key \in DOMAIN IDEMPOTENCY
  /\ Answer(c, [At(c, "submit") EXCEPT !.id = IDEMPOTENCY[calls[c].key]])
  /\ Note(FALSE)
  /\ UNCHANGED <<memory, access, humans, restarts>>

CheckCreate(c) ==
  /\ calls[c].pc = "create"
  /\ c \in ACCESS_TOKENS
  /\ calls[c].key \notin DOMAIN IDEMPOTENCY
  /\ calls' = [calls EXCEPT ![c].pc = "number"]
  /\ Note(CreatingWith(calls[c].key))
  /\ UNCHANGED <<memory, access, humans, restarts>>

\* Mutant of NumberOrder: the key is stored with the number, before the order.
RememberFirst(c) ==
  /\ calls[c].pc = "number"
  /\ calls' = [calls EXCEPT ![c].pc = "insert",
                            ![c].id = Cardinality(DOMAIN PURCHASE_ORDERS) + 1]
  /\ IDEMPOTENCY' = Put(IDEMPOTENCY, calls[c].key,
                        Cardinality(DOMAIN PURCHASE_ORDERS) + 1)
  /\ UNCHANGED <<orders, PURCHASE_ORDERS, access, humans, restarts, overlaps>>

NumberOrder(c) ==
  /\ calls[c].pc = "number"
  /\ calls' = [calls EXCEPT ![c].pc = "insert",
                            ![c].id = Cardinality(DOMAIN PURCHASE_ORDERS) + 1]
  /\ UNCHANGED <<memory, access, humans, restarts, overlaps>>

InsertOrder(c) ==
  /\ calls[c].pc = "insert"
  /\ orders' = Append(orders, [key |-> calls[c].key, status |-> "draft",
                               approval_status |-> "not_submitted",
                               approvedWith |-> None])
  /\ PURCHASE_ORDERS' = Put(PURCHASE_ORDERS, calls[c].id, Len(orders) + 1)
  /\ calls' = [calls EXCEPT ![c].pc = "remember"]
  /\ UNCHANGED <<IDEMPOTENCY, access, humans, restarts, overlaps>>

\* Mutant of RememberKey: the key is not stored.
ForgetKey(c) ==
  /\ calls[c].pc = "remember"
  /\ Answer(c, At(c, "submit"))
  /\ UNCHANGED <<memory, access, humans, restarts, overlaps>>

RememberKey(c) ==
  /\ calls[c].pc = "remember"
  /\ IDEMPOTENCY' = Put(IDEMPOTENCY, calls[c].key, calls[c].id)
  /\ Answer(c, At(c, "submit"))
  /\ UNCHANGED <<orders, PURCHASE_ORDERS, access, humans, restarts, overlaps>>

\* Mutant of CheckSubmit: the access token is not checked.
SubmitAnonymously(c) ==
  /\ calls[c].pc = "submit"
  /\ calls[c].id \in DOMAIN PURCHASE_ORDERS
  /\ IF Find(calls[c].id).status = "draft"
     THEN calls' = [calls EXCEPT ![c].pc = "submitted",
                                 ![c].order = PURCHASE_ORDERS[calls[c].id]]
     ELSE Answer(c, End("done"))
  /\ Note(FALSE)
  /\ UNCHANGED <<memory, access, humans, restarts>>

\* Mutant of CheckSubmit: an order that is no draft is submitted again.
SubmitAgain(c) ==
  /\ calls[c].pc = "submit"
  /\ c \in ACCESS_TOKENS
  /\ calls[c].id \in DOMAIN PURCHASE_ORDERS
  /\ calls' = [calls EXCEPT ![c].pc = "submitted",
                            ![c].order = PURCHASE_ORDERS[calls[c].id]]
  /\ Note(FALSE)
  /\ UNCHANGED <<memory, access, humans, restarts>>

\* submit_purchase_order finds the order, and leaves it alone unless a draft.
CheckSubmit(c) ==
  /\ calls[c].pc = "submit"
  /\ c \in ACCESS_TOKENS
  /\ calls[c].id \in DOMAIN PURCHASE_ORDERS
  /\ IF Find(calls[c].id).status = "draft"
     THEN calls' = [calls EXCEPT ![c].pc = "submitted",
                                 ![c].order = PURCHASE_ORDERS[calls[c].id]]
     ELSE Answer(c, End("done"))
  /\ Note(FALSE)
  /\ UNCHANGED <<memory, access, humans, restarts>>

RefuseSubmit(c) ==
  /\ calls[c].pc = "submit"
  /\ ~(c \in ACCESS_TOKENS /\ calls[c].id \in DOMAIN PURCHASE_ORDERS)
  /\ Fail(c)
  /\ UNCHANGED <<memory, access, humans, restarts, overlaps>>

\* Mutant of MarkSubmitted: approval is asked for first.
MarkPendingFirst(c) ==
  /\ calls[c].pc = "submitted"
  /\ orders' = [orders EXCEPT ![calls[c].order].approval_status = "pending_approval"]
  /\ calls' = [calls EXCEPT ![c].pc = "pending"]
  /\ UNCHANGED <<PURCHASE_ORDERS, IDEMPOTENCY, access, humans, restarts, overlaps>>

MarkSubmitted(c) ==
  /\ calls[c].pc = "submitted"
  /\ orders' = [orders EXCEPT ![calls[c].order].status = "submitted"]
  /\ calls' = [calls EXCEPT ![c].pc = "pending"]
  /\ UNCHANGED <<PURCHASE_ORDERS, IDEMPOTENCY, access, humans, restarts, overlaps>>

MarkPending(c) ==
  /\ calls[c].pc = "pending"
  /\ orders' = [orders EXCEPT ![calls[c].order].approval_status = "pending_approval"]
  /\ Answer(c, End("done"))
  /\ UNCHANGED <<PURCHASE_ORDERS, IDEMPOTENCY, access, humans, restarts, overlaps>>

Login(h) ==
  /\ humans[h].pc = "idle"
  /\ SESSIONS' = SESSIONS \cup {h}
  /\ UNCHANGED <<memory, ACCESS_TOKENS, calls, humans, restarts, overlaps>>

SessionExpires(h) ==
  /\ h \in SESSIONS
  /\ SESSIONS' = SESSIONS \ {h}
  /\ UNCHANGED <<memory, ACCESS_TOKENS, calls, humans, restarts, overlaps>>

\* review_purchase_order shows an order with its hash.
Review(h, id) ==
  /\ humans[h].pc = "idle"
  /\ h \in SESSIONS
  /\ id \in DOMAIN PURCHASE_ORDERS
  /\ humans' = [humans EXCEPT ![h].reviewed = @ \cup {<<id, Find(id).key>>}]
  /\ UNCHANGED <<memory, access, calls, restarts, overlaps>>

\* Mutant of CheckApproval: the hash of the page is not compared.
ApproveUnseen(h, id, hash) ==
  /\ humans[h].pc = "idle"
  /\ h \in SESSIONS
  /\ <<id, hash>> \in humans[h].reviewed
  /\ id \in DOMAIN PURCHASE_ORDERS
  /\ Find(id).approval_status = "pending_approval"
  /\ humans' = [humans EXCEPT ![h].pc = "status", ![h].hash = hash,
                              ![h].order = PURCHASE_ORDERS[id]]
  /\ Note(FALSE)
  /\ UNCHANGED <<memory, access, calls, restarts>>

\* approve_purchase_order, for a page the human has reviewed: the session, the
\* approval status and the hash are checked (a refusal changes nothing).
CheckApproval(h, id, hash) ==
  /\ humans[h].pc = "idle"
  /\ h \in SESSIONS
  /\ <<id, hash>> \in humans[h].reviewed
  /\ id \in DOMAIN PURCHASE_ORDERS
  /\ Find(id).approval_status = "pending_approval"
  /\ hash = Find(id).key
  /\ humans' = [humans EXCEPT ![h].pc = "status", ![h].hash = hash,
                              ![h].order = PURCHASE_ORDERS[id]]
  /\ Note(FALSE)
  /\ UNCHANGED <<memory, access, calls, restarts>>

ApproveStatus(h) ==
  /\ humans[h].pc = "status"
  /\ orders' = [orders EXCEPT ![humans[h].order].status = "approved"]
  /\ humans' = [humans EXCEPT ![h].pc = "final"]
  /\ UNCHANGED <<PURCHASE_ORDERS, IDEMPOTENCY, access, calls, restarts, overlaps>>

ApproveFinal(h) ==
  /\ humans[h].pc = "final"
  /\ orders' = [orders EXCEPT ![humans[h].order].approval_status = "approved",
                              ![humans[h].order].approvedWith = humans[h].hash]
  /\ humans' = [humans EXCEPT ![h].pc = "idle", ![h].order = 0, ![h].hash = None]
  /\ UNCHANGED <<PURCHASE_ORDERS, IDEMPOTENCY, access, calls, restarts, overlaps>>

\* The emulator restarts: all it kept is lost and the requests in its handlers
\* fail; requests that are on their way find the new process, and humans keep
\* the pages they have open.
Restart ==
  /\ restarts < MaxRestarts
  /\ restarts' = restarts + 1
  /\ orders' = <<>>
  /\ PURCHASE_ORDERS' = <<>>
  /\ IDEMPOTENCY' = <<>>
  /\ ACCESS_TOKENS' = {}
  /\ SESSIONS' = {}
  /\ calls' = [c \in Calls |->
                 IF c \in Handled THEN End("failed") ELSE calls[c]]
  /\ humans' = [h \in Humans |->
                  [humans[h] EXCEPT !.pc = "idle", !.order = 0, !.hash = None]]
  /\ UNCHANGED overlaps

Serve(c) ==
  \/ OauthToken(c) \/ RefuseCreate(c) \/ Replay(c) \/ CheckCreate(c)
  \/ NumberOrder(c) \/ InsertOrder(c) \/ RememberKey(c)
  \/ CheckSubmit(c) \/ RefuseSubmit(c) \/ MarkSubmitted(c) \/ MarkPending(c)

Next ==
  \/ \E c \in Calls : \/ \E k \in Keys : CallTool(c, k)
                      \/ GiveUp(c) \/ Serve(c)
  \/ \E h \in Humans :
       \/ Login(h) \/ SessionExpires(h)
       \/ \E id \in DOMAIN PURCHASE_ORDERS : Review(h, id)
       \/ \E page \in humans[h].reviewed : CheckApproval(h, page[1], page[2])
       \/ ApproveStatus(h) \/ ApproveFinal(h)
  \/ Restart

Spec == Init /\ [][Next]_vars
=============================================================================
