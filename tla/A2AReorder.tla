------------------------------- MODULE A2AReorder -------------------------------
(***************************************************************************)
(* Reordering one item over A2A: sessions of Inventory Agent check the      *)
(* stock and ask Procurement Agent for a purchase order; its instances      *)
(* (executor.py) look the request up in Zoho and create the order.          *)
(*                                                                         *)
(* Every remote call is a step of its own.  A call to Zoho may be refused, *)
(* carried out with its response lost, or, with Timeouts, given up while it *)
(* is under way and carried out later.  The caller's own call (180 s) is   *)
(* given up in the same way.  One instance runs one request at a time: it   *)
(* makes blocking calls inside `async def execute`.                         *)
(*                                                                         *)
(* A reply is whole or the call fails: what replies may leave out is the    *)
(* subject of ReorderRounds.  The orders of an item are read in one step.   *)
(*                                                                         *)
(* Tokens are the subject of AuthBroker: here a request carries a valid    *)
(* one, and the exchange for the connector may be denied.                  *)
(***************************************************************************)
EXTENDS Integers, Sequences, FiniteSets, FiniteSetsExt

CONSTANTS
  Callers,      \* sessions of Inventory Agent, and
  Direct,       \* those of them that are users of a2a_send.py instead
  Executors,    \* instances of Procurement Agent
  Item,         \* the item record but for its stock, in terms of ReorderPlan
  Policy,       \* its reorder policy
  InitialStock,
  Asked,        \* quantities somebody may ask for, whatever was advised
  Failures,     \* which calls may fail, see Fails
  Timeouts,     \* may a call be given up while it is under way?
  Events,       \* what happens in Zoho meanwhile: "sell", "receive", "cancel"
  MaxAttempts,  \* bound: times one request is sent
  MaxRequests,  \* bound: requests of one session
  MaxSold,      \* bound: units sold
  None

ASSUME ModelAssumption == Timeouts \in BOOLEAN /\ Direct \subseteq Callers

VARIABLES
  stock,      \* actual_available_stock in Zoho
  orders,     \* purchase orders in Zoho, in the order of their creation
  writes,     \* creates on their way to Zoho
  messages,   \* A2A messages on their way to Procurement Agent
  callers,
  executors,
  sold        \* units sold so far (for the bound)

zoho == <<stock, orders, sold>>
vars == <<stock, orders, writes, messages, callers, executors, sold>>

P == INSTANCE ReorderPlan WITH Unit <- 1, None <- None

\* What find_item returns, and the orders in the shape incoming_quantity reads.
ItemWith(available) == [Item EXCEPT !.actual_available_stock = available]

Lines(order) ==
  <<[item_id |-> Item.item_id, quantity |-> order.quantity,
     quantity_received |-> order.received, quantity_cancelled |-> 0]>>

\* Mutant of Book: drafts are not counted.
WithoutDrafts ==
  [i \in DOMAIN orders |->
     [status |-> orders[i].status,
      line_items |-> IF orders[i].status = "draft" THEN <<>> ELSE Lines(orders[i])]]

Book ==
  [i \in DOMAIN orders |-> [status |-> orders[i].status, line_items |-> Lines(orders[i])]]

PlanFor(available) == P!Plan(ItemWith(available), Policy, Book)

\* Landed: nothing more will come of it.
Landed == {i \in DOMAIN orders : orders[i].status \in {"cancelled", "received"}}

\* Mutant of OperationId: the human and the item only.
QuantityLeftOut(subject, sku, quantity) == <<subject, sku, 0>>

OperationId(subject, sku, quantity) == <<subject, sku, quantity>>

Fails(call) == call \in Failures

Idle == [pc |-> "idle", seen |-> 0, quantity |-> 0, attempt |-> 0, request |-> 0,
         before |-> {}, order |-> None]
Free == [pc |-> "free", message |-> None, seen |-> 0, quantity |-> 0,
         order |-> None]

Init ==
  /\ stock = InitialStock
  /\ orders = <<>>
  /\ writes = {}
  /\ messages = {}
  /\ callers = [c \in Callers |-> Idle]
  /\ executors = [e \in Executors |-> Free]
  /\ sold = 0

-----------------------------------------------------------------------------
(* Inventory Agent: check_stock and request_reorder_from_procurement_agent.  *)

CheckItem(c) ==
  /\ c \notin Direct
  /\ callers[c].pc = "idle" /\ callers[c].request < MaxRequests
  /\ callers' = [callers EXCEPT ![c].pc = "read", ![c].seen = stock]
  /\ UNCHANGED <<zoho, writes, messages, executors>>

\* A request is made of what was advised or of what somebody asks for.
Advised(c, quantity) ==
  /\ callers' = [callers EXCEPT ![c].pc = "asked", ![c].quantity = quantity,
                                ![c].attempt = 0,
                                ![c].request = @ + 1, ![c].before = Landed]
  /\ UNCHANGED <<zoho, writes, messages, executors>>

\* The advice is taken, or the session leaves it at that (also when the orders
\* could not be read and the plan is unresolved).
CheckOrders(c) ==
  LET plan == PlanFor(callers[c].seen)
  IN /\ callers[c].pc = "read"
     /\ \/ plan.reorder_needed /\ Advised(c, plan.quantity)
        \/ /\ callers' = [callers EXCEPT ![c].pc = "idle"]
           /\ UNCHANGED <<zoho, writes, messages, executors>>

Ask(c) ==
  /\ callers[c].pc = "idle" /\ callers[c].request < MaxRequests
  /\ \E quantity \in Asked : Advised(c, quantity)

\* The deployed agent signs everybody in as this user.
Human == "demo-user"

\* The messageId (from, request, attempt) is new every time, the operation id
\* is not; a2a_send.py leaves it to the executor.
Message(c) ==
  [from |-> c, request |-> callers[c].request, attempt |-> callers[c].attempt + 1,
   subject |-> Human, quantity |-> callers[c].quantity,
   operation |-> IF c \in Direct THEN None
                 ELSE OperationId(Human, Item.item_id, callers[c].quantity)]

Send(c) ==
  /\ callers[c].pc \in {"asked", "failed"} /\ callers[c].attempt < MaxAttempts
  /\ messages' = messages \cup {Message(c)}
  /\ callers' = [callers EXCEPT ![c].pc = "sent", ![c].attempt = @ + 1]
  /\ UNCHANGED <<zoho, writes, executors>>

\* Does c still wait for the response to this message?
Waiting(c, message) ==
  /\ callers[c].pc = "sent"
  /\ callers[c].request = message.request /\ callers[c].attempt = message.attempt

\* timeout=180, or the connection breaks.
CallerGivesUp(c) ==
  /\ Timeouts
  /\ callers[c].pc = "sent"
  /\ callers' = [callers EXCEPT ![c].pc = "failed"]
  /\ UNCHANGED <<zoho, writes, messages, executors>>

\* The session goes on to something else.
Done(c) ==
  /\ callers[c].pc \in {"answered", "failed"}
  /\ callers' = [callers EXCEPT ![c] = [Idle EXCEPT !.request = callers[c].request]]
  /\ UNCHANGED <<zoho, writes, messages, executors>>

-----------------------------------------------------------------------------
(* Procurement Agent: execute, and create_draft under it.                    *)

Goto(e, pc) == executors' = [executors EXCEPT ![e].pc = pc]

\* What an executor says reaches a caller that still waits for it.
Reply(e, pc, order) ==
  LET message == executors[e].message
      c == message.from
  IN /\ executors' = [executors EXCEPT ![e] = Free]
     /\ callers' = IF Waiting(c, message)
                     THEN [callers EXCEPT ![c].pc = pc, ![c].order = order]
                     ELSE callers

\* Mutant of Failed: the failed request is dropped.
Dropped(e) == executors' = [executors EXCEPT ![e] = Free] /\ UNCHANGED callers

Failed(e) == Reply(e, "failed", None)

NoOrder(e) == Reply(e, "answered", None)

Accept(e) ==
  /\ executors[e].pc = "free"
  /\ \E message \in messages :
       /\ messages' = messages \ {message}
       /\ executors' = [executors EXCEPT ![e] =
            [Free EXCEPT !.pc = "item", !.message = message,
                         !.quantity = message.quantity]]
  /\ UNCHANGED <<zoho, writes, callers>>

\* find_item, vendor_for and the rate; without a quantity the plan decides.
ReadItem(e) ==
  /\ executors[e].pc = "item"
  /\ \/ /\ executors' = [executors EXCEPT ![e].seen = stock,
             ![e].pc = IF executors[e].quantity <= 0 THEN "plan" ELSE "exchange"]
        /\ UNCHANGED callers
     \/ Fails("item") /\ Failed(e)
  /\ UNCHANGED <<zoho, writes, messages>>

ReadOrders(e) ==
  LET plan == PlanFor(executors[e].seen)
  IN /\ executors[e].pc = "plan"
     /\ \/ /\ plan.quantity > 0
           /\ executors' = [executors EXCEPT ![e].pc = "exchange",
                                             ![e].quantity = plan.quantity]
           /\ UNCHANGED callers
        \/ plan.quantity = 0 /\ NoOrder(e)      \* no_action
        \/ Fails("plan") /\ NoOrder(e)           \* unresolved
     /\ UNCHANGED <<zoho, writes, messages>>

\* The token for the connector is obtained and reported; a denial is a reply,
\* any other failure ends the request without one.
Exchange(e) ==
  /\ executors[e].pc = "exchange"
  /\ \/ Goto(e, "lookup") /\ UNCHANGED callers
     \/ Fails("exchange") /\ (NoOrder(e) \/ Failed(e))
  /\ UNCHANGED <<zoho, writes, messages>>

Operation(e) ==
  LET message == executors[e].message
  IN IF message.operation # None THEN message.operation
     ELSE OperationId(message.subject, Item.item_id, executors[e].quantity)

Existing(reference) == {i \in DOMAIN orders : orders[i].reference = reference}

\* Mutant of Lookup: an order that cannot be looked for does not exist.
LookupOrCreate(e) ==
  /\ executors[e].pc = "lookup"
  /\ \/ \E i \in Existing(Operation(e)) : Reply(e, "answered", i)
     \/ Existing(Operation(e)) = {} /\ Goto(e, "create") /\ UNCHANGED callers
     \/ Fails("lookup") /\ Goto(e, "create") /\ UNCHANGED callers
  /\ UNCHANGED <<zoho, writes, messages>>

\* _find_by_reference and what create_draft makes of it.
Lookup(e) ==
  /\ executors[e].pc = "lookup"
  /\ \/ \E i \in Existing(Operation(e)) : Reply(e, "answered", i)
     \/ Existing(Operation(e)) = {} /\ Goto(e, "create") /\ UNCHANGED callers
     \/ Fails("lookup") /\ Failed(e)
  /\ UNCHANGED <<zoho, writes, messages>>

Create(e) ==
  /\ executors[e].pc = "create"
  /\ writes' = writes \cup {[by |-> e, message |-> executors[e].message,
                             reference |-> Operation(e),
                             quantity |-> executors[e].quantity]}
  /\ Goto(e, "creating")
  /\ UNCHANGED <<zoho, messages, callers>>

\* The call (timeout=60) ends before Zoho has carried it out.
CreateGivenUp(e) ==
  /\ Timeouts
  /\ executors[e].pc = "creating"
  /\ Failed(e)
  /\ UNCHANGED <<zoho, writes, messages>>

\* submit_purchase_order; when it fails the order is read back, and only when
\* that fails too is the reply an error.
Submit(e) ==
  LET i == executors[e].order
  IN /\ executors[e].pc = "submit"
     /\ \/ /\ orders[i].status = "draft"
           /\ orders' = [orders EXCEPT ![i].status = "pending_approval"]
        \/ /\ Fails("submit") \/ orders[i].status # "draft"
           /\ UNCHANGED orders
     /\ \/ Reply(e, "answered", i)
        \/ Fails("submit") /\ Failed(e)
     /\ UNCHANGED <<stock, sold, writes, messages>>

-----------------------------------------------------------------------------
(* Zoho: carries out the writes, sells, receives and cancels.                *)

Awaited(w) ==
  executors[w.by].pc = "creating" /\ executors[w.by].message = w.message

\* late is not in Zoho: it records that nobody waited for the create any more.
NewOrder(w) ==
  [reference |-> w.reference, quantity |-> w.quantity, status |-> "draft",
   received |-> 0, late |-> ~ Awaited(w)]

CarryOut(w) ==
  /\ writes' = writes \ {w}
  /\ orders' = Append(orders, NewOrder(w))
  /\ \/ /\ Awaited(w)
        /\ executors' = [executors EXCEPT ![w.by].pc = "submit",
                                          ![w.by].order = Len(orders')]
        /\ UNCHANGED callers
     \/ Awaited(w) /\ Fails("response") /\ Failed(w.by)
     \/ ~ Awaited(w) /\ UNCHANGED <<executors, callers>>
  /\ UNCHANGED <<stock, sold, messages>>

Refuse(w) ==
  /\ Fails("create")
  /\ writes' = writes \ {w}
  /\ IF Awaited(w) THEN Failed(w.by) ELSE UNCHANGED <<executors, callers>>
  /\ UNCHANGED <<zoho, messages>>

Sell ==
  /\ "sell" \in Events /\ stock > 0 /\ sold < MaxSold
  /\ stock' = stock - 1
  /\ sold' = sold + 1
  /\ UNCHANGED <<orders, writes, messages, callers, executors>>

Receive(i) ==
  /\ "receive" \in Events /\ orders[i].status = "pending_approval"
  /\ orders' = [orders EXCEPT ![i].status = "received",
                              ![i].received = orders[i].quantity]
  /\ stock' = stock + orders[i].quantity
  /\ UNCHANGED <<sold, writes, messages, callers, executors>>

Cancel(i) ==
  /\ "cancel" \in Events /\ i \notin Landed
  /\ orders' = [orders EXCEPT ![i].status = "cancelled"]
  /\ UNCHANGED <<stock, sold, writes, messages, callers, executors>>

CallerStep(c) ==
  \/ CheckItem(c) \/ CheckOrders(c) \/ Ask(c) \/ Send(c)
  \/ CallerGivesUp(c) \/ Done(c)

ExecutorStep(e) ==
  \/ Accept(e) \/ ReadItem(e) \/ ReadOrders(e) \/ Exchange(e) \/ Lookup(e)
  \/ Create(e) \/ CreateGivenUp(e) \/ Submit(e)

ZohoStep ==
  \/ \E w \in writes : CarryOut(w) \/ Refuse(w)
  \/ Sell
  \/ \E i \in DOMAIN orders : Receive(i) \/ Cancel(i)

Next ==
  \/ \E c \in Callers : CallerStep(c)
  \/ \E e \in Executors : ExecutorStep(e)
  \/ ZohoStep

Spec == Init /\ [][Next]_vars

\* Instances run and Zoho answers; nobody is obliged to ask, to retry, or to
\* do business in Zoho.
Fairness ==
  /\ \A e \in Executors : WF_vars(ExecutorStep(e))
  /\ WF_vars(\E w \in writes : CarryOut(w) \/ Refuse(w))

FairSpec == Spec /\ Fairness
=============================================================================
