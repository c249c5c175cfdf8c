---------------------------- MODULE A2AReorderProofs ----------------------------
(***************************************************************************)
(* Proofs about A2AReorder, for any sessions, instances, items, policies,  *)
(* quantities, failures and bounds.  A quantity may come out of            *)
(* ReorderPlan, of which only the last part (AdviceStaysWithinTarget) uses *)
(* anything; until then records are typed by their fields, not by values.  *)
(***************************************************************************)
EXTENDS A2AReorderProperties, TLAPS

CallerFields == {"pc", "seen", "quantity", "attempt", "request", "before", "order"}
ExecutorFields == {"pc", "message", "seen", "quantity", "order"}
OrderFields == {"reference", "quantity", "status", "received", "late"}

\* The request that a session has made stands.
Made(c) == callers[c].pc \notin {"idle", "read"}

Busy(e) == executors[e].pc # "free"

\* The messages that somebody may still act upon.
Known ==
  messages \cup {executors[e].message : e \in {f \in Executors : Busy(f)}}
           \cup {w.message : w \in writes}

CallersShape ==
  /\ DOMAIN callers = Callers
  /\ \A c \in Callers : /\ DOMAIN callers[c] = CallerFields
                        /\ callers[c].request \in Nat
                        /\ callers[c].attempt \in Nat
ExecutorsShape ==
  /\ DOMAIN executors = Executors
  /\ \A e \in Executors : DOMAIN executors[e] = ExecutorFields
OrdersShape ==
  /\ \E S : orders \in Seq(S)
  /\ \A i \in DOMAIN orders : DOMAIN orders[i] = OrderFields
WritesShape == \A w \in writes : w.by \in Executors

Shape == CallersShape /\ ExecutorsShape /\ OrdersShape /\ WritesShape

\* A message is of a request that its session has made, and asks for the quantity
\* of that request; the operation id is of that quantity, or the instance's to make.
MessageInv(m) ==
  /\ m.from \in Callers /\ m.request \in Nat /\ m.attempt \in Nat
  /\ m.subject = Human
  /\ m.operation \in {None, OperationId(Human, Item.item_id, m.quantity)}
  /\ m.request <= callers[m.from].request
  /\ m.request = callers[m.from].request /\ Made(m.from) =>
       /\ m.quantity = callers[m.from].quantity
       /\ m.attempt <= callers[m.from].attempt

MessagesInv == \A m \in Known : MessageInv(m)

\* The quantity that was asked for is the one that is looked up and ordered.
InstanceInv(e) ==
  /\ Busy(e) /\ Given(executors[e].message.quantity) =>
       /\ executors[e].quantity = executors[e].message.quantity
       /\ executors[e].pc # "plan"
  /\ executors[e].pc = "submit" =>
       /\ executors[e].order \in DOMAIN orders
       /\ Given(executors[e].message.quantity) =>
            orders[executors[e].order].quantity = executors[e].message.quantity

WriteInv(w) ==
  /\ Given(w.reference[3]) => w.quantity = w.reference[3]
  /\ Given(w.message.quantity) => w.quantity = w.message.quantity

OrderInv(i) ==
  Given(orders[i].reference[3]) => orders[i].quantity = orders[i].reference[3]

AnswerInv(c) ==
  callers[c].pc = "answered" /\ callers[c].order # None =>
    /\ callers[c].order \in DOMAIN orders
    /\ Given(callers[c].quantity) =>
         orders[callers[c].order].quantity = callers[c].quantity

InstancesInv == \A e \in Executors : InstanceInv(e)
WritesInv == \A w \in writes : WriteInv(w)
ReferencesInv == \A i \in DOMAIN orders : OrderInv(i)
AnswersInv == \A c \in Callers : AnswerInv(c)

QuantitiesInv == InstancesInv /\ WritesInv /\ ReferencesInv /\ AnswersInv

\* A message is acted upon once: it is gone when an instance has taken it, and an
\* instance awaits the create that it has sent for the message it works on.
Working == {"item", "plan", "exchange", "lookup", "create"}

TakenOnce ==
  /\ \A w \in writes : w.message \notin messages
  /\ \A e \in Executors : Busy(e) => executors[e].message \notin messages

OwnWrite(w) ==
  w.message = executors[w.by].message =>
    /\ executors[w.by].pc \notin Working
    /\ executors[w.by].pc = "creating" => w.reference = Operation(w.by)

OwnWrites == \A w \in writes : OwnWrite(w)

DeliveryInv == TakenOnce /\ OwnWrites

\* What an instance creates was not there at its lookup and came only late.
LookedUp(e) ==
  executors[e].pc \in {"create", "creating"} =>
    \A i \in DOMAIN orders : orders[i].reference = Operation(e) => orders[i].late

LookedUpInv == \A e \in Executors : LookedUp(e)

\* Without given-up calls every create is awaited, so that no order is late.
Matched ==
  /\ \A w \in writes : Awaited(w)
  /\ \A v, w \in writes : v.by = w.by => v = w

AwaitedInv == Matched /\ \A i \in DOMAIN orders : ~ orders[i].late

OneInstance == \A e, f \in Executors : e = f
OneSession == \A c, d \in Callers : c = d

\* No two instances work at the same time.
OneAtATime == \A e, f \in Executors : Busy(e) /\ Busy(f) => e = f

\* A session that waits for its answer asks for nothing else.
SessionInv ==
  /\ OneAtATime
  /\ \A m, n \in messages : m = n
  /\ messages # {} => \A e \in Executors : ~ Busy(e)
  /\ messages # {} \/ (\E e \in Executors : Busy(e)) =>
       \A c \in Callers : callers[c].pc = "sent"

\* No request is made anew in its place, and none is forgotten.
CallersMove ==
  \A c \in Callers :
    /\ callers'[c].request >= callers[c].request
    /\ callers'[c].request = callers[c].request /\ Made(c)' =>
         /\ Made(c)
         /\ callers'[c].quantity = callers[c].quantity
         /\ callers'[c].attempt >= callers[c].attempt

\* An order keeps its place and what it was created with.
OrdersKept ==
  \A i \in DOMAIN orders :
    /\ i \in DOMAIN orders'
    /\ orders'[i].reference = orders[i].reference
    /\ orders'[i].quantity = orders[i].quantity
    /\ orders'[i].late = orders[i].late

\* What a step of an instance makes of its record: it takes a message,
Takes(e) ==
  /\ ~ Busy(e) /\ UNCHANGED <<callers, orders, writes>>
  /\ \E m \in messages : /\ messages' = messages \ {m}
                         /\ executors'[e].message = m
                         /\ executors'[e].quantity = m.quantity
                         /\ executors'[e].pc = "item"

\* ends the request,
Leaves(e) ==
  /\ Busy(e) /\ UNCHANGED <<messages, writes>>
  /\ executors'[e] = Free
  /\ \E pc \in {"answered", "failed"} : \E order : Reply(e, pc, order)

\* computes the quantity if there is none,
Plans(e) ==
  /\ UNCHANGED writes
  /\ \/ /\ executors[e].pc = "item" /\ executors'[e].pc = "plan"
        /\ ~ Given(executors[e].quantity)
        /\ executors'[e].quantity = executors[e].quantity
        /\ executors'[e].seen = stock
     \/ /\ executors[e].pc = "plan" /\ executors'[e].pc = "exchange"
        /\ executors'[e].quantity = PlanFor(executors[e].seen).quantity
        /\ PlanFor(executors[e].seen).quantity > 0

\* goes on to the lookup or, when that finds nothing, to the create,
Advances(e) ==
  /\ UNCHANGED writes
  /\ executors'[e].quantity = executors[e].quantity
  /\ <<executors[e].pc, executors'[e].pc>> \in
       {<<"item", "exchange">>, <<"exchange", "lookup">>, <<"lookup", "create">>}
  /\ executors[e].pc = "item" => Given(executors[e].quantity)
  /\ executors'[e].pc = "create" => Existing(Operation(e)) = {}

\* or sends the create.
Writes(e) ==
  /\ executors'[e].quantity = executors[e].quantity
  /\ executors[e].pc = "create" /\ executors'[e].pc = "creating"
  /\ writes' = writes \cup {[by |-> e, message |-> executors[e].message,
                             reference |-> Operation(e),
                             quantity |-> executors[e].quantity]}

GoesOn(e) ==
  /\ Busy(e) /\ UNCHANGED <<messages, callers, orders>>
  /\ executors'[e].message = executors[e].message
  /\ Plans(e) \/ Advances(e) \/ Writes(e)

\* A reply leaves the requests as they are.
LEMMA ReplyFacts ==
  ASSUME Shape, NEW e \in Executors, NEW pc, NEW order, Reply(e, pc, order)
  PROVE  /\ CallersShape' /\ ExecutorsShape'
         /\ executors'[e] = Free
         /\ \A f \in Executors : f # e => executors'[f] = executors[f]
         /\ \A c \in Callers :
              /\ callers'[c].request = callers[c].request
              /\ callers'[c].attempt = callers[c].attempt
              /\ callers'[c].quantity = callers[c].quantity
              /\ \/ callers'[c] = callers[c]
                 \/ /\ c = executors[e].message.from
                    /\ Waiting(c, executors[e].message)
                    /\ callers'[c].pc = pc
                    /\ callers'[c].order = order
<1> DEFINE m == executors[e].message
<1>1. /\ executors' = [executors EXCEPT ![e] = Free]
      /\ callers' = IF Waiting(m.from, m)
                      THEN [callers EXCEPT ![m.from].pc = pc, ![m.from].order = order]
                      ELSE callers
  BY DEF Reply
<1>2. /\ ExecutorsShape'
      /\ executors'[e] = Free
      /\ \A f \in Executors : f # e => executors'[f] = executors[f]
  BY <1>1 DEF Shape, ExecutorsShape, Free, ExecutorFields
<1>3. CASE Waiting(m.from, m) /\ m.from \in Callers
  <2> HIDE DEF m
  <2>1. callers' = [callers EXCEPT ![m.from].pc = pc, ![m.from].order = order]
    BY <1>1, <1>3
  <2>2. CallersShape'
    BY <2>1 DEF Shape, CallersShape, CallerFields
  <2>3. \A c \in Callers : c # m.from => callers'[c] = callers[c]
    BY <2>1 DEF Shape, CallersShape
  <2>4. \A c \in Callers :
          /\ callers'[c].request = callers[c].request
          /\ callers'[c].attempt = callers[c].attempt
          /\ callers'[c].quantity = callers[c].quantity
    BY <2>1 DEF Shape, CallersShape, CallerFields
  <2>5. callers'[m.from].pc = pc /\ callers'[m.from].order = order
    BY <2>1, <1>3 DEF Shape, CallersShape, CallerFields
  <2>6. QED
    BY <1>2, <1>3, <2>2, <2>3, <2>4, <2>5 DEF m
<1>4. CASE ~ (Waiting(m.from, m) /\ m.from \in Callers)
  <2> HIDE DEF m
  <2>1. DOMAIN callers' = Callers /\ \A c \in Callers : callers'[c] = callers[c]
    BY <1>1, <1>4 DEF Shape, CallersShape
  <2>2. QED
    BY <1>2, <2>1 DEF Shape, CallersShape
<1>5. QED
  BY <1>3, <1>4

\* The initial states have the shape.
LEMMA InitShape == Init => Shape
<1>1. <<>> \in Seq({})
  OBVIOUS
<1>2. QED
  BY <1>1 DEF Init, Shape, CallersShape, ExecutorsShape, OrdersShape, WritesShape, Idle, Free,
              CallerFields, ExecutorFields

\* A step of a session concerns its own record only.
LEMMA CallerShape ==
  ASSUME Shape, NEW c \in Callers, CallerStep(c)
  PROVE  Shape' /\ CallersMove /\ OrdersKept
<1> USE DEF Shape, CallersShape, CallersMove, OrdersKept, CallerFields, Made
<1>1. ASSUME UNCHANGED <<orders, writes, executors>>, CallersShape', CallersMove
      PROVE  Shape' /\ CallersMove /\ OrdersKept
  BY <1>1 DEF ExecutorsShape, OrdersShape, WritesShape
<1>2. CASE CheckItem(c)
  <2>1. CallersShape' /\ CallersMove
    BY <1>2 DEF CheckItem
  <2>2. QED
    BY <1>1, <1>2, <2>1 DEF CheckItem, zoho
<1>3. ASSUME NEW quantity, Advised(c, quantity)
      PROVE  Shape' /\ CallersMove /\ OrdersKept
  <2>1. CallersShape' /\ CallersMove
    BY <1>3 DEF Advised
  <2>2. QED
    BY <1>1, <1>3, <2>1 DEF Advised, zoho
<1>4. CASE CheckOrders(c)
  <2>1. \/ Advised(c, PlanFor(callers[c].seen).quantity)
        \/ /\ callers[c].pc = "read"
           /\ callers' = [callers EXCEPT ![c].pc = "idle"]
           /\ UNCHANGED <<zoho, writes, messages, executors>>
    BY <1>4 DEF CheckOrders
  <2>2. CASE Advised(c, PlanFor(callers[c].seen).quantity)
    BY <1>3, <2>2
  <2>3. CASE /\ callers' = [callers EXCEPT ![c].pc = "idle"]
             /\ UNCHANGED <<zoho, writes, messages, executors>>
    <3>1. CallersShape' /\ CallersMove
      BY <2>3
    <3>2. QED
      BY <1>1, <2>3, <3>1 DEF zoho
  <2>4. QED
    BY <2>1, <2>2, <2>3
<1>5. CASE Ask(c)
  BY <1>3, <1>5 DEF Ask
<1>6. CASE Send(c)
  <2>1. CallersShape' /\ CallersMove
    BY <1>6 DEF Send
  <2>2. QED
    BY <1>1, <1>6, <2>1 DEF Send, zoho
<1>7. CASE CallerGivesUp(c)
  <2>1. CallersShape' /\ CallersMove
    BY <1>7 DEF CallerGivesUp
  <2>2. QED
    BY <1>1, <1>7, <2>1 DEF CallerGivesUp, zoho
<1>8. CASE Done(c)
  <2>1. CallersShape' /\ CallersMove
    BY <1>8 DEF Done, Idle
  <2>2. QED
    BY <1>1, <1>8, <2>1 DEF Done, zoho
<1>9. QED
  BY <1>2, <1>4, <1>5, <1>6, <1>7, <1>8 DEF CallerStep

\* A reply is no new request.
LEMMA ReplyMoves ==
  ASSUME Shape, NEW e \in Executors, NEW pc, NEW order, Reply(e, pc, order)
  PROVE  CallersMove
BY ReplyFacts DEF CallersMove, Made, Waiting, Shape, CallersShape

\* A step of an instance concerns its own record, the caller it replies to, its
\* own writes, and the status of an order.
LEMMA ExecutorShape ==
  ASSUME Shape, NEW e \in Executors, ExecutorStep(e)
  PROVE  /\ Shape' /\ CallersMove /\ OrdersKept
         /\ \A f \in Executors : f # e => executors'[f] = executors[f]
<1> DEFINE Others == \A f \in Executors : f # e => executors'[f] = executors[f]
<1>1. ASSUME UNCHANGED callers PROVE CallersShape' /\ CallersMove
  BY <1>1 DEF Shape, CallersShape, CallersMove, Made
<1>2. ASSUME UNCHANGED orders PROVE OrdersShape' /\ OrdersKept
  BY <1>2 DEF Shape, OrdersShape, OrdersKept
<1>3. ASSUME UNCHANGED writes PROVE WritesShape'
  BY <1>3 DEF Shape, WritesShape
<1>4. ASSUME NEW pc, NEW order, Reply(e, pc, order), UNCHANGED <<orders, writes>>
      PROVE  Shape' /\ CallersMove /\ OrdersKept /\ Others
  BY <1>2, <1>3, <1>4, ReplyFacts, ReplyMoves DEF Shape
<1>5. ASSUME NEW pc, Goto(e, pc), UNCHANGED callers, UNCHANGED orders
      PROVE  CallersShape' /\ ExecutorsShape' /\ OrdersShape' /\ CallersMove /\ OrdersKept /\ Others
  BY <1>1, <1>2, <1>5 DEF Goto, Shape, ExecutorsShape, ExecutorFields
<1>6. CASE Accept(e)
  <2>1. ExecutorsShape' /\ Others
    BY <1>6 DEF Accept, Shape, ExecutorsShape, ExecutorFields, Free
  <2>2. QED
    BY <1>1, <1>2, <1>3, <1>6, <2>1 DEF Accept, zoho, Shape
<1>7. CASE ReadItem(e)
  <2>1. CASE UNCHANGED callers /\ executors' = [executors EXCEPT ![e].seen = stock,
             ![e].pc = IF executors[e].quantity <= 0 THEN "plan" ELSE "exchange"]
    <3>1. ExecutorsShape' /\ Others
      BY <2>1 DEF Shape, ExecutorsShape, ExecutorFields
    <3>2. QED
      BY <1>1, <1>2, <1>3, <1>7, <2>1, <3>1 DEF ReadItem, zoho, Shape
  <2>2. CASE Failed(e)
    BY <1>4, <1>7, <2>2 DEF ReadItem, Failed, zoho
  <2>3. QED
    BY <1>7, <2>1, <2>2 DEF ReadItem
<1>8. CASE ReadOrders(e)
  <2> DEFINE quantity == PlanFor(executors[e].seen).quantity
  <2>0. \/ UNCHANGED callers /\ executors' = [executors EXCEPT ![e].pc = "exchange",
                                                   ![e].quantity = quantity]
        \/ NoOrder(e)
    BY <1>8 DEF ReadOrders
  <2> HIDE DEF quantity
  <2>1. CASE UNCHANGED callers /\ executors' = [executors EXCEPT ![e].pc = "exchange",
                                                   ![e].quantity = quantity]
    <3>1. ExecutorsShape' /\ Others
      BY <2>1 DEF Shape, ExecutorsShape, ExecutorFields
    <3>2. QED
      BY <1>1, <1>2, <1>3, <1>8, <2>1, <3>1 DEF ReadOrders, zoho, Shape
  <2>2. CASE NoOrder(e)
    BY <1>4, <1>8, <2>2 DEF ReadOrders, NoOrder, zoho
  <2>3. QED
    BY <2>0, <2>1, <2>2
<1>9. CASE Exchange(e)
  <2>1. CASE Goto(e, "lookup") /\ UNCHANGED callers
    BY <1>3, <1>5, <1>9, <2>1 DEF Exchange, zoho, Shape
  <2>2. CASE NoOrder(e) \/ Failed(e)
    BY <1>4, <1>9, <2>2 DEF Exchange, NoOrder, Failed, zoho
  <2>3. QED
    BY <1>9, <2>1, <2>2 DEF Exchange
<1>10. CASE Lookup(e)
  <2>1. CASE Goto(e, "create") /\ UNCHANGED callers
    BY <1>3, <1>5, <1>10, <2>1 DEF Lookup, zoho, Shape
  <2>2. CASE Failed(e) \/ \E i \in Existing(Operation(e)) : Reply(e, "answered", i)
    BY <1>4, <1>10, <2>2 DEF Lookup, Failed, zoho
  <2>3. QED
    BY <1>10, <2>1, <2>2 DEF Lookup
<1>11. CASE Create(e)
  <2>1. WritesShape'
    BY <1>11 DEF Create, Shape, WritesShape
  <2>2. QED
    BY <1>5, <1>11, <2>1 DEF Create, zoho, Shape
<1>12. CASE CreateGivenUp(e)
  BY <1>4, <1>12 DEF CreateGivenUp, Failed, zoho
<1>13. CASE Submit(e)
  <2> DEFINE i == executors[e].order
  <2>1. \E pc, order : Reply(e, pc, order)
    BY <1>13 DEF Submit, Failed
  <2>2. \/ orders' = [orders EXCEPT ![i].status = "pending_approval"]
        \/ UNCHANGED orders
    BY <1>13 DEF Submit
  <2>3. OrdersShape' /\ OrdersKept
    <3> HIDE DEF i
    <3>1. PICK S : orders \in Seq(S)
      BY DEF Shape, OrdersShape
    <3>2. /\ \A j \in DOMAIN orders' : DOMAIN orders'[j] = OrderFields
          /\ OrdersKept
      BY <2>2 DEF Shape, OrdersShape, OrdersKept, OrderFields
    <3>3. orders' \in Seq(S \cup {orders'[i]})
      BY <2>2, <3>1
    <3>4. QED
      BY <3>2, <3>3 DEF OrdersShape
  <2>4. QED
    BY <1>3, <1>13, <2>1, <2>3, ReplyFacts, ReplyMoves DEF Shape, Submit
<1>14. QED
  BY <1>6, <1>7, <1>8, <1>9, <1>10, <1>11, <1>12, <1>13 DEF ExecutorStep

\* A create that is carried out adds one order at the end.
LEMMA CarryOutFacts ==
  ASSUME Shape, NEW w \in writes, CarryOut(w)
  PROVE  /\ OrdersShape' /\ OrdersKept
         /\ Len(orders') \in DOMAIN orders' /\ Len(orders') \notin DOMAIN orders
         /\ DOMAIN orders' = DOMAIN orders \cup {Len(orders')}
         /\ orders'[Len(orders')].reference = w.reference
         /\ orders'[Len(orders')].quantity = w.quantity
         /\ orders'[Len(orders')].late = ~ Awaited(w)
<1> DEFINE new == NewOrder(w)
<1>1. PICK S : orders \in Seq(S)
  BY DEF Shape, OrdersShape
<1>2. orders' = Append(orders, new)
  BY DEF CarryOut
<1>3. /\ DOMAIN new = OrderFields
      /\ new.reference = w.reference /\ new.quantity = w.quantity
      /\ new.late = ~ Awaited(w)
  BY DEF NewOrder, OrderFields
<1> HIDE DEF new
<1>4. /\ orders' \in Seq(S \cup {new})
      /\ Len(orders') = Len(orders) + 1 /\ Len(orders) \in Nat
      /\ DOMAIN orders = 1 .. Len(orders) /\ DOMAIN orders' = 1 .. Len(orders')
      /\ orders'[Len(orders')] = new
      /\ \A i \in DOMAIN orders : orders'[i] = orders[i]
  BY <1>1, <1>2
<1>5. OrdersShape'
  BY <1>3, <1>4 DEF Shape, OrdersShape
<1>6. DOMAIN orders' = DOMAIN orders \cup {Len(orders')} /\ Len(orders') \notin DOMAIN orders
  BY <1>4
<1>7. QED
  BY <1>3, <1>4, <1>5, <1>6 DEF OrdersKept

\* A step of Zoho concerns its orders, a write and the instance that awaits it.
LEMMA ZohoShape ==
  ASSUME Shape, ZohoStep
  PROVE  Shape' /\ CallersMove /\ OrdersKept
<1>1. ASSUME UNCHANGED callers PROVE CallersShape' /\ CallersMove
  BY <1>1 DEF Shape, CallersShape, CallersMove, Made
<1>2. ASSUME UNCHANGED orders PROVE OrdersShape' /\ OrdersKept
  BY <1>2 DEF Shape, OrdersShape, OrdersKept
<1>3. ASSUME writes' \subseteq writes PROVE WritesShape'
  BY <1>3 DEF Shape, WritesShape
<1>4. ASSUME UNCHANGED executors PROVE ExecutorsShape'
  BY <1>4 DEF Shape, ExecutorsShape
<1>5. ASSUME NEW w \in writes, Failed(w.by)
      PROVE  CallersShape' /\ ExecutorsShape' /\ CallersMove
  <2>1. w.by \in Executors
    BY DEF Shape, WritesShape
  <2>2. QED
    BY <1>5, <2>1, ReplyFacts, ReplyMoves DEF Failed
<1>6. ASSUME NEW w \in writes, CarryOut(w) PROVE Shape' /\ CallersMove /\ OrdersKept
  <2>1. OrdersShape' /\ OrdersKept /\ WritesShape'
    BY <1>3, <1>6, CarryOutFacts DEF CarryOut
  <2>2. CASE Awaited(w) /\ UNCHANGED callers
             /\ executors' = [executors EXCEPT ![w.by].pc = "submit",
                                               ![w.by].order = Len(orders')]
    <3>1. ExecutorsShape'
      BY <2>2 DEF Shape, ExecutorsShape, ExecutorFields
    <3>2. QED
      BY <1>1, <2>1, <2>2, <3>1 DEF Shape
  <2>3. CASE Failed(w.by)
    BY <1>5, <2>1, <2>3 DEF Shape
  <2>4. CASE UNCHANGED <<executors, callers>>
    BY <1>1, <1>4, <2>1, <2>4 DEF Shape
  <2>5. QED
    BY <1>6, <2>2, <2>3, <2>4 DEF CarryOut
<1>7. ASSUME NEW w \in writes, Refuse(w) PROVE Shape' /\ CallersMove /\ OrdersKept
  <2>1. OrdersShape' /\ OrdersKept /\ WritesShape'
    BY <1>2, <1>3, <1>7 DEF Refuse, zoho
  <2>2. CASE Failed(w.by)
    BY <1>5, <2>1, <2>2 DEF Shape
  <2>3. CASE UNCHANGED <<executors, callers>>
    BY <1>1, <1>4, <2>1, <2>3 DEF Shape
  <2>4. QED
    BY <1>7, <2>2, <2>3 DEF Refuse
<1>8. CASE Sell
  BY <1>1, <1>2, <1>3, <1>4, <1>8 DEF Sell, Shape
<1>9. ASSUME NEW i \in DOMAIN orders, Receive(i) \/ Cancel(i)
      PROVE  Shape' /\ CallersMove /\ OrdersKept
  <2>1. \/ orders' = [orders EXCEPT ![i].status = "received",
                                    ![i].received = orders[i].quantity]
        \/ orders' = [orders EXCEPT ![i].status = "cancelled"]
    BY <1>9 DEF Receive, Cancel
  <2>2. PICK S : orders \in Seq(S)
    BY DEF Shape, OrdersShape
  <2>3. /\ \A j \in DOMAIN orders' : DOMAIN orders'[j] = OrderFields
        /\ OrdersKept
    BY <2>1 DEF Shape, OrdersShape, OrdersKept, OrderFields
  <2>4. orders' \in Seq(S \cup {orders'[i]})
    BY <2>1, <2>2
  <2>5. OrdersShape'
    BY <2>3, <2>4 DEF OrdersShape
  <2>6. QED
    BY <1>1, <1>3, <1>4, <1>9, <2>3, <2>5 DEF Receive, Cancel, Shape
<1>10. QED
  BY <1>6, <1>7, <1>8, <1>9 DEF ZohoStep

\* Every step keeps the shape, the requests and the orders.
LEMMA ShapeNext ==
  ASSUME Shape, [Next]_vars
  PROVE  Shape' /\ CallersMove /\ OrdersKept
<1>1. CASE UNCHANGED vars
  BY <1>1 DEF vars, Shape, CallersShape, ExecutorsShape, OrdersShape, WritesShape,
              CallersMove, OrdersKept, Made
<1>2. CASE Next
  BY <1>2, CallerShape, ExecutorShape, ZohoShape DEF Next
<1>3. QED
  BY <1>1, <1>2

\* A step of an instance is one of the three kinds.
LEMMA ExecutorEffect ==
  ASSUME Shape, NEW e \in Executors, ExecutorStep(e)
  PROVE  Takes(e) \/ Leaves(e) \/ GoesOn(e)
<1>1. ASSUME NEW pc \in {"answered", "failed"}, NEW order, Reply(e, pc, order), Busy(e),
             UNCHANGED <<messages, writes>>
      PROVE  Leaves(e)
  BY <1>1, ReplyFacts DEF Leaves
<1>2. ASSUME NEW pc, Goto(e, pc)
      PROVE  /\ executors'[e].pc = pc
             /\ executors'[e].message = executors[e].message
             /\ executors'[e].quantity = executors[e].quantity
  BY <1>2 DEF Goto, Shape, ExecutorsShape, ExecutorFields
<1>3. CASE Accept(e)
  <2>1. PICK m \in messages :
          /\ messages' = messages \ {m}
          /\ executors' = [executors EXCEPT ![e] =
               [Free EXCEPT !.pc = "item", !.message = m, !.quantity = m.quantity]]
    BY <1>3 DEF Accept
  <2>2. /\ executors'[e].message = m
        /\ executors'[e].quantity = m.quantity
        /\ executors'[e].pc = "item"
    BY <2>1 DEF Free, Shape, ExecutorsShape
  <2>3. ~ Busy(e) /\ UNCHANGED <<callers, orders, writes>>
    BY <1>3 DEF Accept, Busy, zoho
  <2>4. QED
    BY <2>1, <2>2, <2>3 DEF Takes
<1>4. CASE ReadItem(e)
  <2>1. Busy(e) /\ UNCHANGED <<messages, orders, writes>>
    BY <1>4 DEF ReadItem, Busy, zoho
  <2>2. CASE UNCHANGED callers /\ executors' = [executors EXCEPT ![e].seen = stock,
             ![e].pc = IF executors[e].quantity <= 0 THEN "plan" ELSE "exchange"]
    <3>1. /\ executors'[e].pc = IF executors[e].quantity <= 0 THEN "plan" ELSE "exchange"
          /\ executors'[e].seen = stock
          /\ executors'[e].message = executors[e].message
          /\ executors'[e].quantity = executors[e].quantity
      BY <2>2 DEF Shape, ExecutorsShape, ExecutorFields
    <3>2. executors[e].pc = "item"
      BY <1>4 DEF ReadItem
    <3>3. CASE executors[e].quantity <= 0
      BY <2>1, <2>2, <3>1, <3>2, <3>3 DEF GoesOn, Plans, Given
    <3>4. CASE ~ (executors[e].quantity <= 0)
      BY <2>1, <2>2, <3>1, <3>2, <3>4 DEF GoesOn, Advances, Given
    <3>5. QED
      BY <3>3, <3>4
  <2>3. CASE Failed(e)
    BY <1>1, <2>1, <2>3 DEF Failed
  <2>4. QED
    BY <1>4, <2>2, <2>3 DEF ReadItem
<1>5. CASE ReadOrders(e)
  <2> DEFINE quantity == PlanFor(executors[e].seen).quantity
  <2>0. \/ /\ quantity > 0 /\ UNCHANGED callers
           /\ executors' = [executors EXCEPT ![e].pc = "exchange", ![e].quantity = quantity]
        \/ NoOrder(e)
    BY <1>5 DEF ReadOrders
  <2> HIDE DEF quantity
  <2>1. Busy(e) /\ executors[e].pc = "plan" /\ UNCHANGED <<messages, orders, writes>>
    BY <1>5 DEF ReadOrders, Busy, zoho
  <2>2. CASE /\ quantity > 0 /\ UNCHANGED callers
             /\ executors' = [executors EXCEPT ![e].pc = "exchange", ![e].quantity = quantity]
    <3>1. /\ executors'[e].pc = "exchange"
          /\ executors'[e].message = executors[e].message
          /\ executors'[e].quantity = quantity
      BY <2>2 DEF Shape, ExecutorsShape, ExecutorFields
    <3>2. QED
      BY <2>1, <2>2, <3>1 DEF GoesOn, Plans, quantity
  <2>3. CASE NoOrder(e)
    BY <1>1, <2>1, <2>3 DEF NoOrder
  <2>4. QED
    BY <2>0, <2>2, <2>3
<1>6. CASE Exchange(e)
  <2>1. Busy(e) /\ executors[e].pc = "exchange" /\ UNCHANGED <<messages, orders, writes>>
    BY <1>6 DEF Exchange, Busy, zoho
  <2>2. CASE Goto(e, "lookup") /\ UNCHANGED callers
    BY <1>2, <2>1, <2>2 DEF GoesOn, Advances
  <2>3. CASE NoOrder(e) \/ Failed(e)
    BY <1>1, <2>1, <2>3 DEF NoOrder, Failed
  <2>4. QED
    BY <1>6, <2>2, <2>3 DEF Exchange
<1>7. CASE Lookup(e)
  <2>1. Busy(e) /\ executors[e].pc = "lookup" /\ UNCHANGED <<messages, orders, writes>>
    BY <1>7 DEF Lookup, Busy, zoho
  <2>2. CASE Existing(Operation(e)) = {} /\ Goto(e, "create") /\ UNCHANGED callers
    BY <1>2, <2>1, <2>2 DEF GoesOn, Advances
  <2>3. CASE Failed(e) \/ \E i \in Existing(Operation(e)) : Reply(e, "answered", i)
    BY <1>1, <2>1, <2>3 DEF Failed
  <2>4. QED
    BY <1>7, <2>2, <2>3 DEF Lookup
<1>8. CASE Create(e)
  <2>1. Goto(e, "creating") /\ Busy(e) /\ UNCHANGED <<messages, callers, orders>>
    BY <1>8 DEF Create, Busy, zoho
  <2>2. QED
    BY <1>2, <1>8, <2>1 DEF Create, GoesOn, Writes
<1>9. CASE CreateGivenUp(e)
  BY <1>1, <1>9 DEF CreateGivenUp, Failed, Busy
<1>10. CASE Submit(e)
  BY <1>1, <1>10 DEF Submit, Failed, Busy
<1>11. QED
  BY <1>3, <1>4, <1>5, <1>6, <1>7, <1>8, <1>9, <1>10 DEF ExecutorStep

\* What Zoho's answer makes of the instance that awaits it.
LEMMA AnswerEffect ==
  ASSUME Shape, NEW w \in writes, CarryOut(w) \/ Refuse(w)
  PROVE  /\ w.by \in Executors /\ UNCHANGED messages /\ writes' = writes \ {w}
         /\ \A f \in Executors : f # w.by => executors'[f] = executors[f]
         /\ \/ UNCHANGED <<executors, callers>> /\ ~ Awaited(w)
            \/ /\ Awaited(w) /\ executors'[w.by] = Free
               /\ Failed(w.by)
            \/ /\ Awaited(w) /\ CarryOut(w) /\ UNCHANGED callers
               /\ executors'[w.by].pc = "submit"
               /\ executors'[w.by].order = Len(orders')
               /\ executors'[w.by].message = executors[w.by].message
               /\ executors'[w.by].quantity = executors[w.by].quantity
<1>1. w.by \in Executors /\ UNCHANGED messages /\ writes' = writes \ {w}
  BY DEF Shape, WritesShape, CarryOut, Refuse
<1>2. CASE Awaited(w) /\ Failed(w.by)
  BY <1>1, <1>2, ReplyFacts DEF Failed
<1>3. CASE ~ Awaited(w) /\ UNCHANGED <<executors, callers>>
  BY <1>1, <1>3
<1>4. CASE /\ Awaited(w) /\ CarryOut(w) /\ UNCHANGED callers
           /\ executors' = [executors EXCEPT ![w.by].pc = "submit",
                                             ![w.by].order = Len(orders')]
  <2>1. /\ \A f \in Executors : f # w.by => executors'[f] = executors[f]
        /\ executors'[w.by].pc = "submit"
        /\ executors'[w.by].order = Len(orders')
        /\ executors'[w.by].message = executors[w.by].message
        /\ executors'[w.by].quantity = executors[w.by].quantity
    BY <1>1, <1>4 DEF Shape, ExecutorsShape, ExecutorFields
  <2>2. QED
    BY <1>1, <1>4, <2>1
<1>5. QED
  BY <1>2, <1>3, <1>4 DEF CarryOut, Refuse

\* Only Send makes a message; every other step passes on what there is.
LEMMA KnownNext ==
  ASSUME Shape, [Next]_vars
  PROVE  \/ Known' \subseteq Known
         \/ \E c \in Callers : Send(c) /\ Known' \subseteq Known \cup {Message(c)}
<1>1. ASSUME /\ messages' \subseteq messages
             /\ \A f \in Executors : Busy(f)' => executors'[f].message \in Known
             /\ \A w \in writes' : w.message \in Known
      PROVE  Known' \subseteq Known
  BY <1>1 DEF Known, Busy
<1>2. \A f \in Executors : Busy(f) => executors[f].message \in Known
  BY DEF Known
<1>3. \A w \in writes : w.message \in Known
  BY DEF Known
<1>4. ASSUME UNCHANGED <<messages, writes, executors>> PROVE Known' \subseteq Known
  BY <1>1, <1>2, <1>3, <1>4 DEF Busy
<1>5. ASSUME NEW c \in Callers, CallerStep(c), ~ Send(c) PROVE Known' \subseteq Known
  BY <1>4, <1>5
     DEF CallerStep, CheckItem, CheckOrders, Advised, Ask, CallerGivesUp, Done
<1>6. ASSUME NEW c \in Callers, Send(c) PROVE Known' \subseteq Known \cup {Message(c)}
  BY <1>6 DEF Send, Known, Busy
<1>7. ASSUME NEW e \in Executors, ExecutorStep(e) PROVE Known' \subseteq Known
  <2>1. \A f \in Executors : f # e => executors'[f] = executors[f]
    BY <1>7, ExecutorShape
  <2>2. CASE Takes(e)
    BY <1>1, <1>2, <1>3, <2>1, <2>2 DEF Takes, Known, Busy
  <2>3. CASE Leaves(e)
    <3>1. ~ Busy(e)'
      BY <2>3 DEF Leaves, Busy, Free
    <3>2. QED
      BY <1>1, <1>2, <1>3, <2>1, <2>3, <3>1 DEF Leaves, Busy
  <2>4. CASE GoesOn(e)
    <3>1. \A w \in writes' : w.message \in Known
      BY <1>2, <1>3, <2>4 DEF GoesOn, Plans, Advances, Writes
    <3>2. QED
      BY <1>1, <1>2, <2>1, <2>4, <3>1 DEF GoesOn, Busy
  <2>5. QED
    BY <1>7, <2>2, <2>3, <2>4, ExecutorEffect
<1>8. ASSUME NEW w \in writes, CarryOut(w) \/ Refuse(w) PROVE Known' \subseteq Known
  <2>1. ~ Free.pc # "free"
    BY DEF Free
  <2>2. \A f \in Executors : Busy(f)' => executors'[f].message \in Known
    BY <1>2, <1>8, <2>1, AnswerEffect DEF Busy, Awaited
  <2>3. QED
    BY <1>1, <1>3, <1>8, <2>2, AnswerEffect
<1>9. ASSUME Sell \/ \E i \in DOMAIN orders : Receive(i) \/ Cancel(i)
      PROVE  Known' \subseteq Known
  BY <1>4, <1>9 DEF Sell, Receive, Cancel
<1>10. CASE UNCHANGED vars
  BY <1>4, <1>10 DEF vars
<1>11. CASE Next
  BY <1>5, <1>6, <1>7, <1>8, <1>9, <1>11 DEF Next, ZohoStep
<1>12. QED
  BY <1>10, <1>11

\* What is said of a message stays true while it is under way, and is true of a
\* new one.
LEMMA MessagesNext ==
  ASSUME Shape, MessagesInv, [Next]_vars
  PROVE  MessagesInv'
<1>1. CallersMove /\ CallersShape /\ CallersShape'
  BY ShapeNext DEF Shape
<1>2. ASSUME NEW m \in Known PROVE MessageInv(m)'
  <2>1. MessageInv(m)
    BY DEF MessagesInv
  <2> DEFINE c == m.from
  <2>2. /\ c \in Callers /\ m.request \in Nat /\ m.attempt \in Nat
        /\ callers[c].request \in Nat /\ callers'[c].request \in Nat
        /\ callers[c].attempt \in Nat /\ callers'[c].attempt \in Nat
        /\ callers'[c].request >= callers[c].request
        /\ m.request <= callers[c].request
    BY <1>1, <2>1 DEF MessageInv, CallersMove, CallersShape
  <2>3. ASSUME m.request = callers'[c].request, Made(c)'
        PROVE  m.quantity = callers'[c].quantity /\ m.attempt <= callers'[c].attempt
    <3>1. callers'[c].request = callers[c].request /\ m.request = callers[c].request
      BY <2>2, <2>3
    <3>2. /\ Made(c) /\ callers'[c].quantity = callers[c].quantity
          /\ callers'[c].attempt >= callers[c].attempt
      BY <1>1, <2>2, <2>3, <3>1 DEF CallersMove
    <3>3. m.quantity = callers[c].quantity /\ m.attempt <= callers[c].attempt
      BY <2>1, <3>1, <3>2 DEF MessageInv
    <3>4. QED
      BY <2>2, <3>2, <3>3
  <2>4. m.request <= callers'[c].request
    BY <2>2
  <2>5. QED
    BY <2>1, <2>3, <2>4 DEF MessageInv
<1>3. ASSUME NEW c \in Callers, Send(c), NEW m, m = Message(c) PROVE MessageInv(m)'
  <2>1. /\ m.from = c /\ m.request = callers[c].request
        /\ m.attempt = callers[c].attempt + 1 /\ m.subject = Human
        /\ m.quantity = callers[c].quantity
        /\ m.operation \in {None, OperationId(Human, Item.item_id, m.quantity)}
    BY <1>3 DEF Message
  <2>2. /\ callers'[c].request = callers[c].request
        /\ callers'[c].attempt = callers[c].attempt + 1
        /\ callers'[c].quantity = callers[c].quantity
    BY <1>1, <1>3 DEF Send, CallersShape, CallerFields
  <2>3. callers[c].request \in Nat /\ callers[c].attempt \in Nat
    BY <1>1 DEF CallersShape
  <2>4. QED
    BY <2>1, <2>2, <2>3 DEF MessageInv
<1>4. QED
  BY <1>2, <1>3, KnownNext DEF MessagesInv

\* The reference of an instance is of the quantity it works with.
LEMMA OperationQuantity ==
  ASSUME NEW e \in Executors, Busy(e), MessagesInv, InstanceInv(e)
  PROVE  /\ Given(Operation(e)[3]) => executors[e].quantity = Operation(e)[3]
         /\ Given(executors[e].message.quantity) =>
              Operation(e)[3] = executors[e].message.quantity
<1> DEFINE m == executors[e].message
<1>1. m \in Known
  BY DEF Known
<1>2. Operation(e)[3] \in {m.quantity, executors[e].quantity}
  BY <1>1 DEF MessagesInv, MessageInv, Operation, OperationId
<1>3. QED
  BY <1>2 DEF InstanceInv

\* A step leaves an instance with the quantity of its message.
LEMMA InstancesNext ==
  ASSUME Shape, QuantitiesInv, [Next]_vars
  PROVE  InstancesInv'
<1> SUFFICES ASSUME NEW e \in Executors PROVE InstanceInv(e)'
  BY DEF InstancesInv
<1>1. InstanceInv(e) /\ OrdersKept
  BY ShapeNext DEF QuantitiesInv, InstancesInv
<1>2. ASSUME executors'[e] = executors[e] PROVE InstanceInv(e)'
  BY <1>1, <1>2 DEF InstanceInv, Busy, OrdersKept
<1>3. ASSUME executors'[e] = Free PROVE InstanceInv(e)'
  BY <1>3 DEF InstanceInv, Busy, Free
<1>4. ASSUME ExecutorStep(e) PROVE InstanceInv(e)'
  <2>1. CASE Takes(e)
    BY <2>1 DEF Takes, InstanceInv, Busy
  <2>2. CASE Leaves(e)
    BY <1>3, <2>2 DEF Leaves
  <2>3. CASE GoesOn(e)
    <3>1. CASE Plans(e)
      BY <1>1, <2>3, <3>1 DEF GoesOn, Plans, InstanceInv, Busy
    <3>2. CASE Advances(e)
      BY <1>1, <2>3, <3>2 DEF GoesOn, Advances, InstanceInv, Busy
    <3>3. CASE Writes(e)
      BY <1>1, <2>3, <3>3 DEF GoesOn, Writes, InstanceInv, Busy
    <3>4. QED
      BY <2>3, <3>1, <3>2, <3>3 DEF GoesOn
  <2>4. QED
    BY <1>4, <2>1, <2>2, <2>3, ExecutorEffect
<1>5. ASSUME NEW f \in Executors, f # e, ExecutorStep(f) PROVE InstanceInv(e)'
  BY <1>2, <1>5, ExecutorShape
<1>6. ASSUME NEW w \in writes, CarryOut(w) \/ Refuse(w) PROVE InstanceInv(e)'
  <2>1. CASE w.by # e \/ UNCHANGED executors
    BY <1>2, <1>6, <2>1, AnswerEffect
  <2>2. CASE w.by = e /\ executors'[e] = Free
    BY <1>3, <2>2
  <2>3. CASE /\ w.by = e /\ Awaited(w) /\ CarryOut(w)
             /\ executors'[e].pc = "submit"
             /\ executors'[e].order = Len(orders')
             /\ executors'[e].message = executors[e].message
             /\ executors'[e].quantity = executors[e].quantity
    <3>1. /\ Len(orders') \in DOMAIN orders'
          /\ orders'[Len(orders')].quantity = w.quantity
      BY <2>3, CarryOutFacts
    <3>2. w.message = executors[e].message /\ executors[e].pc = "creating"
      BY <2>3 DEF Awaited
    <3>3. Given(w.message.quantity) => w.quantity = w.message.quantity
      BY DEF QuantitiesInv, WritesInv, WriteInv
    <3>4. QED
      BY <1>1, <2>3, <3>1, <3>2, <3>3 DEF InstanceInv, Busy
  <2>4. QED
    BY <1>6, <2>1, <2>2, <2>3, AnswerEffect
<1>7. CASE UNCHANGED executors
  BY <1>2, <1>7
<1>8. CASE \E c \in Callers : CallerStep(c)
  BY <1>7, <1>8
     DEF CallerStep, CheckItem, CheckOrders, Advised, Ask, Send, CallerGivesUp, Done
<1>9. CASE \E f \in Executors : ExecutorStep(f)
  BY <1>4, <1>5, <1>9
<1>10. CASE ZohoStep
  BY <1>6, <1>7, <1>10 DEF ZohoStep, Sell, Receive, Cancel
<1>11. QED
  BY <1>7, <1>8, <1>9, <1>10 DEF Next, vars

\* A create takes its quantity and reference from the instance.
LEMMA WritesNext ==
  ASSUME Shape, MessagesInv, QuantitiesInv, [Next]_vars
  PROVE  WritesInv'
<1>1. ASSUME writes' \subseteq writes PROVE WritesInv'
  BY <1>1 DEF QuantitiesInv, WritesInv, WriteInv
<1>2. ASSUME NEW e \in Executors, Writes(e) PROVE WritesInv'
  <2>1. Busy(e) /\ InstanceInv(e)
    BY <1>2 DEF Writes, Busy, QuantitiesInv, InstancesInv
  <2>2. /\ Given(Operation(e)[3]) => executors[e].quantity = Operation(e)[3]
        /\ Given(executors[e].message.quantity) =>
             executors[e].quantity = executors[e].message.quantity
    BY <2>1, OperationQuantity DEF InstanceInv
  <2>3. ASSUME NEW w \in writes' PROVE WriteInv(w)
    <3>1. CASE w \in writes
      BY <3>1 DEF QuantitiesInv, WritesInv
    <3>2. CASE w = [by |-> e, message |-> executors[e].message,
                    reference |-> Operation(e), quantity |-> executors[e].quantity]
      BY <2>2, <3>2 DEF WriteInv
    <3>3. QED
      BY <1>2, <3>1, <3>2 DEF Writes
  <2>4. QED
    BY <2>3 DEF WritesInv, WriteInv
<1>3. ASSUME NEW e \in Executors, ExecutorStep(e) PROVE WritesInv'
  BY <1>1, <1>2, <1>3, ExecutorEffect DEF Takes, Leaves, GoesOn, Plans, Advances
<1>4. CASE \E c \in Callers : CallerStep(c)
  BY <1>1, <1>4
     DEF CallerStep, CheckItem, CheckOrders, Advised, Ask, Send, CallerGivesUp, Done
<1>5. CASE ZohoStep
  BY <1>1, <1>5 DEF ZohoStep, CarryOut, Refuse, Sell, Receive, Cancel
<1>6. QED
  BY <1>1, <1>3, <1>4, <1>5 DEF Next, vars

\* Every new order is the one a write asks for.
LEMMA NewOrders ==
  ASSUME Shape, [Next]_vars, NEW i \in DOMAIN orders', i \notin DOMAIN orders
  PROVE  \E w \in writes : CarryOut(w) /\ i = Len(orders')
<1>1. ASSUME UNCHANGED orders PROVE FALSE
  BY <1>1
<1>2. ASSUME NEW k, NEW o, orders' = [orders EXCEPT ![k] = o] PROVE FALSE
  BY <1>2
<1>3. ASSUME NEW e \in Executors, ExecutorStep(e) PROVE FALSE
  <2>1. CASE Submit(e)
    BY <1>1, <1>2, <2>1 DEF Submit
  <2>2. CASE ~ Submit(e)
    BY <1>1, <1>3, <2>2 DEF ExecutorStep, Accept, ReadItem, ReadOrders, Exchange, Lookup,
                            Create, CreateGivenUp, zoho
  <2>3. QED
    BY <2>1, <2>2
<1>4. ASSUME NEW c \in Callers, CallerStep(c) PROVE FALSE
  BY <1>1, <1>4
     DEF CallerStep, CheckItem, CheckOrders, Advised, Ask, Send, CallerGivesUp, Done, zoho
<1>5. CASE ZohoStep
  <2>1. PICK w \in writes : CarryOut(w)
    BY <1>1, <1>2, <1>5 DEF ZohoStep, Refuse, Sell, Receive, Cancel, zoho
  <2>2. QED
    BY <2>1, CarryOutFacts
<1>6. QED
  BY <1>1, <1>3, <1>4, <1>5 DEF Next, vars

\* Orders are of the quantity their reference names.
LEMMA ReferencesNext ==
  ASSUME Shape, QuantitiesInv, [Next]_vars
  PROVE  ReferencesInv'
<1>1. OrdersKept
  BY ShapeNext
<1>2. ASSUME NEW i \in DOMAIN orders', i \notin DOMAIN orders PROVE OrderInv(i)'
  <2>1. PICK w \in writes : CarryOut(w) /\ i = Len(orders')
    BY <1>2, NewOrders
  <2>2. orders'[i].reference = w.reference /\ orders'[i].quantity = w.quantity
    BY <2>1, CarryOutFacts
  <2>3. QED
    BY <2>2 DEF QuantitiesInv, WritesInv, WriteInv, OrderInv
<1>3. ASSUME NEW i \in DOMAIN orders PROVE OrderInv(i)'
  BY <1>1, <1>3 DEF OrdersKept, QuantitiesInv, ReferencesInv, OrderInv
<1>4. QED
  BY <1>2, <1>3 DEF ReferencesInv

\* An answer with an order for the quantity of the message is one for the caller.
LEMMA ReplyAnswers ==
  ASSUME Shape, MessagesInv, QuantitiesInv, OrdersKept,
         NEW e \in Executors, Busy(e), NEW pc, NEW order, Reply(e, pc, order),
         pc = "answered" /\ order # None =>
           /\ order \in DOMAIN orders
           /\ Given(executors[e].message.quantity) =>
                orders[order].quantity = executors[e].message.quantity
  PROVE  AnswersInv'
<1> DEFINE m == executors[e].message
<1> SUFFICES ASSUME NEW c \in Callers PROVE AnswerInv(c)'
  BY DEF AnswersInv
<1>1. AnswerInv(c)
  BY DEF QuantitiesInv, AnswersInv
<1>2. CASE callers'[c] = callers[c]
  BY <1>1, <1>2 DEF AnswerInv, OrdersKept
<1>3. CASE /\ c = m.from /\ Waiting(c, m)
           /\ callers'[c].quantity = callers[c].quantity
           /\ callers'[c].pc = pc /\ callers'[c].order = order
  <2>1. m \in Known
    BY DEF Known
  <2>2. m.quantity = callers[c].quantity
    BY <1>3, <2>1 DEF MessagesInv, MessageInv, Waiting, Made
  <2>3. QED
    BY <1>3, <2>2 DEF AnswerInv, OrdersKept
<1>4. QED
  BY <1>2, <1>3, ReplyFacts

\* What an instance answers is the order it found or the order it created.
LEMMA AnswersNext ==
  ASSUME Shape, MessagesInv, QuantitiesInv, [Next]_vars
  PROVE  AnswersInv'
<1>1. OrdersKept
  BY ShapeNext
<1>2. ASSUME \A c \in Callers : \/ callers'[c] = callers[c]
                                \/ callers'[c].pc # "answered"
      PROVE  AnswersInv'
  BY <1>1, <1>2 DEF QuantitiesInv, AnswersInv, AnswerInv, OrdersKept
<1>3. ASSUME NEW c \in Callers, CallerStep(c) PROVE AnswersInv'
  <2>1. ASSUME NEW quantity, Advised(c, quantity) PROVE AnswersInv'
    <3>1. \A d \in Callers : \/ callers'[d] = callers[d]
                             \/ callers'[d].pc # "answered"
      BY <2>1 DEF Advised, Shape, CallersShape, CallerFields
    <3>2. QED
      BY <1>2, <3>1
  <2>2. CASE CheckItem(c) \/ Send(c) \/ CallerGivesUp(c) \/ Done(c)
    <3>1. \A d \in Callers : \/ callers'[d] = callers[d]
                             \/ callers'[d].pc # "answered"
      BY <2>2 DEF CheckItem, Send, CallerGivesUp, Done, Idle, Shape, CallersShape, CallerFields
    <3>2. QED
      BY <1>2, <3>1
  <2>3. CASE callers' = [callers EXCEPT ![c].pc = "idle"]
    <3>1. \A d \in Callers : \/ callers'[d] = callers[d]
                             \/ callers'[d].pc # "answered"
      BY <2>3 DEF Shape, CallersShape, CallerFields
    <3>2. QED
      BY <1>2, <3>1
  <2>4. QED
    BY <1>3, <2>1, <2>2, <2>3 DEF CallerStep, CheckOrders, Ask
<1>4. ASSUME NEW e \in Executors, Failed(e) PROVE AnswersInv'
  BY <1>2, <1>4, ReplyFacts DEF Failed
<1>5. ASSUME UNCHANGED callers PROVE AnswersInv'
  BY <1>2, <1>5
<1>6. ASSUME NEW e \in Executors, ExecutorStep(e) PROVE AnswersInv'
  <2> DEFINE m == executors[e].message
  <2>1. InstanceInv(e)
    BY DEF QuantitiesInv, InstancesInv
  <2>2. CASE Lookup(e)
    <3>1. Busy(e)
      BY <2>2 DEF Lookup, Busy
    <3>2. ASSUME NEW i \in Existing(Operation(e)), Reply(e, "answered", i) PROVE AnswersInv'
      <4>1. i \in DOMAIN orders /\ orders[i].reference = Operation(e)
        BY <3>2 DEF Existing
      <4>2. Given(m.quantity) => Operation(e)[3] = m.quantity
        BY <2>1, <3>1, OperationQuantity
      <4>3. Given(m.quantity) => orders[i].quantity = m.quantity
        BY <4>1, <4>2 DEF QuantitiesInv, ReferencesInv, OrderInv
      <4>4. QED
        BY <1>1, <3>1, <3>2, <4>1, <4>3, ReplyAnswers
    <3>3. QED
      BY <1>4, <1>5, <2>2, <3>2 DEF Lookup
  <2>3. CASE Submit(e)
    <3>1. Busy(e) /\ executors[e].pc = "submit"
      BY <2>3 DEF Submit, Busy
    <3>2. CASE Reply(e, "answered", executors[e].order)
      BY <1>1, <2>1, <3>1, <3>2, ReplyAnswers DEF InstanceInv
    <3>3. QED
      BY <1>4, <2>3, <3>2 DEF Submit
  <2>4. ASSUME NoOrder(e), Busy(e) PROVE AnswersInv'
    BY <1>1, <2>4, ReplyAnswers DEF NoOrder
  <2>5. CASE ReadOrders(e) \/ Exchange(e)
    BY <1>4, <1>5, <2>4, <2>5 DEF ReadOrders, Exchange, Busy
  <2>6. CASE Accept(e) \/ ReadItem(e) \/ Create(e) \/ CreateGivenUp(e)
    BY <1>4, <1>5, <2>6 DEF Accept, ReadItem, Create, CreateGivenUp
  <2>7. QED
    BY <1>6, <2>2, <2>3, <2>5, <2>6 DEF ExecutorStep
<1>7. ASSUME NEW w \in writes, CarryOut(w) \/ Refuse(w) PROVE AnswersInv'
  BY <1>4, <1>5, <1>7, AnswerEffect
<1>8. CASE ZohoStep
  BY <1>5, <1>7, <1>8 DEF ZohoStep, Sell, Receive, Cancel
<1>9. QED
  BY <1>3, <1>5, <1>6, <1>8 DEF Next, vars

\* The invariant behind the answers: everything of a request that is under way,
\* written, ordered or answered is of one quantity.
RequestInv == Shape /\ MessagesInv /\ QuantitiesInv

THEOREM RequestsHold == Spec => []RequestInv
<1>1. Init => RequestInv
  <2> SUFFICES ASSUME Init PROVE RequestInv
    OBVIOUS
  <2>1. Shape
    BY InitShape
  <2>2. /\ Known = {}
        /\ \A e \in Executors : executors[e].pc = "free"
        /\ \A c \in Callers : callers[c].pc = "idle"
        /\ writes = {} /\ DOMAIN orders = {}
    BY DEF Init, Known, Busy, Idle, Free
  <2>3. QED
    BY <2>1, <2>2 DEF RequestInv, MessagesInv, QuantitiesInv, InstancesInv, WritesInv,
                      ReferencesInv, AnswersInv, InstanceInv, AnswerInv, Busy
<1>2. RequestInv /\ [Next]_vars => RequestInv'
  BY ShapeNext, MessagesNext, InstancesNext, WritesNext, ReferencesNext, AnswersNext
     DEF RequestInv, QuantitiesInv
<1>3. QED
  BY <1>1, <1>2, PTL DEF Spec

\* Success names an order for the quantity that was asked for, however often the
\* request was sent and whichever instance created the order (create_draft).
THEOREM AskedIsOrdered == Spec => []AnsweredWithWhatWasAsked
<1>1. RequestInv => AnsweredWithWhatWasAsked
  BY DEF RequestInv, QuantitiesInv, AnswersInv, AnswerInv, AnsweredWithWhatWasAsked
<1>2. QED
  BY <1>1, RequestsHold, PTL

\* What is sent is new: an earlier message of the request has a smaller attempt.
LEMMA Fresh ==
  ASSUME Shape, MessagesInv, NEW c \in Callers, Send(c)
  PROVE  Message(c) \notin Known
<1>1. /\ Message(c).from = c /\ Message(c).request = callers[c].request
      /\ Message(c).attempt = callers[c].attempt + 1
  BY DEF Message
<1>2. Made(c) /\ callers[c].attempt \in Nat
  BY DEF Send, Made, Shape, CallersShape
<1>3. ASSUME NEW m \in Known, m = Message(c) PROVE FALSE
  <2>1. m.from = c /\ m.request = callers[c].request /\ m.attempt = callers[c].attempt + 1
    BY <1>1, <1>3
  <2>2. m.attempt <= callers[c].attempt
    BY <1>2, <2>1 DEF MessagesInv, MessageInv
  <2>3. QED
    BY <1>2, <2>1, <2>2
<1>4. QED
  BY <1>3

\* The operation of an instance is that of its message and quantity.
LEMMA OperationKept ==
  ASSUME NEW e, executors'[e].message = executors[e].message,
         executors'[e].quantity = executors[e].quantity
  PROVE  Operation(e)' = Operation(e)
BY DEF Operation

\* A message that is taken stays taken, and a create stays its instance's own.
LEMMA DeliveryNext ==
  ASSUME Shape, MessagesInv, DeliveryInv, [Next]_vars
  PROVE  DeliveryInv'
<1>1. ASSUME UNCHANGED <<messages, writes, executors>> PROVE DeliveryInv'
  BY <1>1 DEF DeliveryInv, TakenOnce, OwnWrites, OwnWrite, Busy, Operation
<1>2. ASSUME NEW c \in Callers, CallerStep(c) PROVE DeliveryInv'
  <2>1. CASE Send(c)
    <3>1. /\ messages' = messages \cup {Message(c)} /\ UNCHANGED <<writes, executors>>
          /\ Message(c) \notin Known
      BY <2>1, Fresh DEF Send
    <3>2. TakenOnce'
      BY <3>1 DEF DeliveryInv, TakenOnce, Known, Busy
    <3>3. OwnWrites'
      BY <3>1 DEF DeliveryInv, OwnWrites, OwnWrite, Operation
    <3>4. QED
      BY <3>2, <3>3 DEF DeliveryInv
  <2>2. CASE ~ Send(c)
    BY <1>1, <1>2, <2>2
       DEF CallerStep, CheckItem, CheckOrders, Advised, Ask, CallerGivesUp, Done
  <2>3. QED
    BY <2>1, <2>2
<1>3. ASSUME NEW e \in Executors, ExecutorStep(e) PROVE DeliveryInv'
  <2>1. \A f \in Executors : f # e => executors'[f] = executors[f]
    BY <1>3, ExecutorShape
  <2>2. ASSUME NEW w \in writes, w.by # e PROVE OwnWrite(w)'
    <3>1. executors'[w.by] = executors[w.by]
      BY <2>1, <2>2 DEF Shape, WritesShape
    <3>2. Operation(w.by)' = Operation(w.by)
      BY <3>1, OperationKept
    <3>3. QED
      BY <3>1, <3>2 DEF DeliveryInv, OwnWrites, OwnWrite
  <2>3. CASE Takes(e)
    <3>1. PICK m \in messages : /\ messages' = messages \ {m}
                                /\ executors'[e].message = m
      BY <2>3 DEF Takes
    <3>2. UNCHANGED writes
      BY <2>3 DEF Takes
    <3>3. TakenOnce'
      BY <2>1, <3>1, <3>2 DEF DeliveryInv, TakenOnce, Busy
    <3>4. \A w \in writes : w.by = e => OwnWrite(w)'
      BY <3>1 DEF DeliveryInv, TakenOnce, OwnWrite
    <3>5. QED
      BY <2>2, <3>2, <3>3, <3>4 DEF DeliveryInv, OwnWrites
  <2>4. CASE Leaves(e)
    <3>1. executors'[e].pc = "free" /\ UNCHANGED <<messages, writes>>
      BY <2>4 DEF Leaves, Free
    <3>2. TakenOnce'
      BY <2>1, <3>1 DEF DeliveryInv, TakenOnce, Busy
    <3>3. \A w \in writes : w.by = e => OwnWrite(w)'
      BY <3>1 DEF OwnWrite, Working
    <3>4. QED
      BY <2>2, <3>1, <3>2, <3>3 DEF DeliveryInv, OwnWrites
  <2>5. CASE GoesOn(e)
    <3>1. /\ Busy(e) /\ UNCHANGED messages
          /\ executors'[e].message = executors[e].message
      BY <2>5 DEF GoesOn
    <3>2. CASE Plans(e) \/ Advances(e)
      <4>1. /\ UNCHANGED writes /\ executors[e].pc \in Working
            /\ executors'[e].pc \in Working
        BY <3>2 DEF Plans, Advances, Working
      <4>2. TakenOnce'
        BY <2>1, <3>1, <4>1 DEF DeliveryInv, TakenOnce, Busy
      <4>3. \A w \in writes : w.by = e => OwnWrite(w)'
        BY <3>1, <4>1 DEF DeliveryInv, OwnWrites, OwnWrite
      <4>4. QED
        BY <2>2, <4>1, <4>2, <4>3 DEF DeliveryInv, OwnWrites
    <3>3. CASE Writes(e)
      <4>0. PICK new : new = [by |-> e, message |-> executors[e].message,
                              reference |-> Operation(e), quantity |-> executors[e].quantity]
        OBVIOUS
      <4>1. /\ writes' = writes \cup {new}
            /\ executors[e].pc \in Working /\ executors'[e].pc = "creating"
            /\ new.by = e /\ new.message = executors[e].message
            /\ new.reference = Operation(e)
        BY <3>3, <4>0 DEF Writes, Working
      <4>2. Operation(e)' = Operation(e)
        BY <3>1, <3>3, OperationKept DEF Writes
      <4>3. TakenOnce'
        BY <2>1, <3>1, <4>1 DEF DeliveryInv, TakenOnce, Busy
      <4>4. \A w \in writes : w.by = e => OwnWrite(w)'
        BY <3>1, <4>1 DEF DeliveryInv, OwnWrites, OwnWrite
      <4>5. OwnWrite(new)'
        BY <4>1, <4>2 DEF OwnWrite, Working
      <4>6. QED
        BY <2>2, <4>1, <4>3, <4>4, <4>5 DEF DeliveryInv, OwnWrites
    <3>4. QED
      BY <2>5, <3>2, <3>3 DEF GoesOn
  <2>6. QED
    BY <1>3, <2>3, <2>4, <2>5, ExecutorEffect
<1>4. ASSUME NEW v \in writes, CarryOut(v) \/ Refuse(v) PROVE DeliveryInv'
  <2>1. /\ UNCHANGED messages /\ writes' = writes \ {v}
        /\ \A f \in Executors : f # v.by => executors'[f] = executors[f]
    BY <1>4, AnswerEffect
  <2>2. \/ UNCHANGED executors
        \/ executors'[v.by].pc = "free"
        \/ /\ executors'[v.by].pc = "submit" /\ Busy(v.by)
           /\ executors'[v.by].message = executors[v.by].message
    BY <1>4, AnswerEffect DEF Free, Awaited, Busy
  <2>3. TakenOnce'
    BY <2>1, <2>2 DEF DeliveryInv, TakenOnce, Busy
  <2>4. ASSUME NEW w \in writes PROVE OwnWrite(w)'
    <3>1. CASE executors'[w.by] = executors[w.by]
      BY <3>1 DEF DeliveryInv, OwnWrites, OwnWrite, Operation
    <3>2. CASE executors'[w.by] # executors[w.by]
      <4>1. w.by = v.by /\ executors'[w.by].pc \in {"free", "submit"}
        BY <2>1, <2>2, <3>2 DEF Shape, WritesShape
      <4>2. QED
        BY <4>1 DEF OwnWrite, Working
    <3>3. QED
      BY <3>1, <3>2
  <2>5. QED
    BY <2>1, <2>3, <2>4 DEF DeliveryInv, OwnWrites
<1>5. CASE ZohoStep
  BY <1>1, <1>4, <1>5 DEF ZohoStep, Sell, Receive, Cancel
<1>6. QED
  BY <1>1, <1>2, <1>3, <1>5 DEF Next, vars

\* One instance at a time looks up, and nothing is created behind its back but
\* what nobody waits for.
LEMMA LateNext ==
  ASSUME Shape, DeliveryInv, OneAtATime, LookedUpInv, OnlyLateOrdersRepeat, [Next]_vars
  PROVE  LookedUpInv' /\ OnlyLateOrdersRepeat'
<1>1. OrdersKept
  BY ShapeNext
<1>2. ASSUME NEW i \in DOMAIN orders', i \notin DOMAIN orders
      PROVE  \E w \in writes : /\ CarryOut(w) /\ w.by \in Executors
                               /\ i = Len(orders')
                               /\ orders'[i].reference = w.reference
                               /\ orders'[i].late = ~ Awaited(w)
                               /\ Awaited(w) => w.reference = Operation(w.by)
  <2>1. PICK w \in writes : CarryOut(w) /\ i = Len(orders')
    BY <1>2, NewOrders
  <2>2. Awaited(w) => w.reference = Operation(w.by)
    BY DEF DeliveryInv, OwnWrites, OwnWrite, Awaited
  <2>3. QED
    BY <2>1, <2>2, CarryOutFacts DEF Shape, WritesShape
<1>3. LookedUpInv'
  <2> SUFFICES ASSUME NEW e \in Executors, executors'[e].pc \in {"create", "creating"}
               PROVE  \A i \in DOMAIN orders' :
                        orders'[i].reference = Operation(e)' => orders'[i].late
    BY DEF LookedUpInv, LookedUp
  <2>1. /\ Operation(e)' = Operation(e)
        /\ Busy(e)
        /\ \A i \in DOMAIN orders : orders[i].reference = Operation(e) => orders[i].late
    <3>1. CASE executors'[e] = executors[e]
      BY <3>1 DEF LookedUpInv, LookedUp, Operation, Busy
    <3>2. CASE executors'[e] # executors[e]
      <4>1. CASE ExecutorStep(e)
        <5>1. GoesOn(e)
          BY <4>1, ExecutorEffect DEF Takes, Leaves, Free
        <5>2. Advances(e) \/ Writes(e)
          BY <5>1 DEF GoesOn, Plans
        <5>3. /\ executors'[e].message = executors[e].message
              /\ executors'[e].quantity = executors[e].quantity
              /\ Busy(e)
          BY <5>1, <5>2 DEF GoesOn, Advances, Writes
        <5>4. Operation(e)' = Operation(e)
          BY <5>3, OperationKept
        <5>5. CASE Advances(e)
          BY <5>3, <5>4, <5>5 DEF Advances, Existing
        <5>6. CASE Writes(e)
          BY <5>3, <5>4, <5>6 DEF Writes, LookedUpInv, LookedUp
        <5>7. QED
          BY <5>2, <5>5, <5>6
      <4>2. ASSUME NEW f \in Executors, f # e, ExecutorStep(f) PROVE FALSE
        BY <3>2, <4>2, ExecutorShape
      <4>3. ASSUME NEW w \in writes, CarryOut(w) \/ Refuse(w) PROVE FALSE
        BY <3>2, <4>3, AnswerEffect DEF Free
      <4>4. ~ UNCHANGED executors
        BY <3>2
      <4>5. QED
        BY <4>1, <4>2, <4>3, <4>4
           DEF Next, vars, CallerStep, CheckItem, CheckOrders, Advised, Ask, Send,
               CallerGivesUp, Done, ZohoStep, Sell, Receive, Cancel
    <3>3. QED
      BY <3>1, <3>2
  <2>2. ASSUME NEW i \in DOMAIN orders', i \notin DOMAIN orders PROVE orders'[i].late
    <3>1. PICK w \in writes : /\ CarryOut(w) /\ w.by \in Executors
                              /\ orders'[i].late = ~ Awaited(w)
      BY <1>2, <2>2
    <3>2. ASSUME Awaited(w) PROVE FALSE
      <4>1. w.by = e
        BY <2>1, <3>1, <3>2 DEF OneAtATime, Awaited, Busy
      <4>2. executors'[e].pc \in {"free", "submit"}
        BY <3>1, <3>2, <4>1, AnswerEffect DEF Free
      <4>3. QED
        BY <4>2
    <3>3. QED
      BY <3>1, <3>2
  <2>3. QED
    BY <1>1, <2>1, <2>2 DEF OrdersKept
<1>4. OnlyLateOrdersRepeat'
  <2> SUFFICES ASSUME NEW i \in DOMAIN orders', NEW j \in DOMAIN orders', i # j,
                      orders'[i].reference = orders'[j].reference,
                      ~ orders'[i].late, ~ orders'[j].late
               PROVE  FALSE
    BY DEF OnlyLateOrdersRepeat
  <2>1. ASSUME NEW k \in DOMAIN orders', NEW l \in DOMAIN orders,
               k \notin DOMAIN orders, ~ orders'[k].late, ~ orders'[l].late,
               orders'[k].reference = orders'[l].reference
        PROVE  FALSE
    <3>1. PICK w \in writes : /\ w.by \in Executors /\ Awaited(w)
                              /\ orders'[k].reference = Operation(w.by)
      BY <1>2, <2>1
    <3>2. orders[l].reference = Operation(w.by) /\ ~ orders[l].late
      BY <1>1, <2>1, <3>1 DEF OrdersKept
    <3>3. QED
      BY <3>1, <3>2 DEF LookedUpInv, LookedUp, Awaited
  <2>2. CASE i \in DOMAIN orders /\ j \in DOMAIN orders
    BY <1>1, <2>2 DEF OrdersKept, OnlyLateOrdersRepeat
  <2>3. CASE i \notin DOMAIN orders /\ j \notin DOMAIN orders
    BY <1>2, <2>3
  <2>4. QED
    BY <2>1, <2>2, <2>3
<1>5. QED
  BY <1>3, <1>4

LEMMA InitDelivery == Init => MessagesInv /\ DeliveryInv
BY DEF Init, MessagesInv, DeliveryInv, TakenOnce, OwnWrites, Known, Busy, Free

\* With one instance a reference is ordered twice only if nobody waited for one
\* of the two creates any more (_find_by_reference before every create).
THEOREM LookupPreventsRepeats ==
  ASSUME OneInstance
  PROVE  Spec => []OnlyLateOrdersRepeat
<1> DEFINE Inv == /\ Shape /\ MessagesInv /\ DeliveryInv
                  /\ LookedUpInv /\ OnlyLateOrdersRepeat
<1>1. Init => Inv
  <2> SUFFICES ASSUME Init PROVE Inv
    OBVIOUS
  <2>1. DOMAIN orders = {}
    BY DEF Init
  <2>2. QED
    BY <2>1, InitShape, InitDelivery DEF LookedUpInv, LookedUp, OnlyLateOrdersRepeat
<1>2. Inv /\ [Next]_vars => Inv'
  <2> SUFFICES ASSUME Inv, [Next]_vars PROVE Inv'
    OBVIOUS
  <2>1. OneAtATime
    BY DEF OneInstance, OneAtATime
  <2>2. QED
    BY <2>1, ShapeNext, MessagesNext, DeliveryNext, LateNext
<1>3. Inv => OnlyLateOrdersRepeat
  OBVIOUS
<1>4. QED
  BY <1>1, <1>2, <1>3, PTL DEF Spec

\* Without given-up calls the create that an instance awaits is its only one.
LEMMA AwaitedNext ==
  ASSUME Shape, AwaitedInv, ~ Timeouts, [Next]_vars
  PROVE  AwaitedInv'
<1>1. OrdersKept
  BY ShapeNext
<1>2. ASSUME NEW i \in DOMAIN orders' PROVE ~ orders'[i].late
  <2>1. CASE i \in DOMAIN orders
    BY <1>1, <2>1 DEF OrdersKept, AwaitedInv
  <2>2. CASE i \notin DOMAIN orders
    BY <2>2, NewOrders, CarryOutFacts DEF AwaitedInv, Matched
  <2>3. QED
    BY <2>1, <2>2
<1>3. ASSUME UNCHANGED <<writes, executors>> PROVE Matched'
  BY <1>3 DEF AwaitedInv, Matched, Awaited
<1>4. ASSUME NEW e \in Executors, ExecutorStep(e) PROVE Matched'
  <2>1. \A f \in Executors : f # e => executors'[f] = executors[f]
    BY <1>4, ExecutorShape
  <2>2. \A w \in writes : w.by # e => Awaited(w)'
    BY <2>1 DEF AwaitedInv, Matched, Awaited, Shape, WritesShape
  <2>3. executors[e].pc # "creating"
    BY <1>4 DEF ExecutorStep, Accept, ReadItem, ReadOrders, Exchange, Lookup, Create,
                CreateGivenUp, Submit
  <2>4. \A w \in writes : w.by # e
    BY <2>3 DEF AwaitedInv, Matched, Awaited
  <2>5. CASE UNCHANGED writes
    BY <2>2, <2>4, <2>5 DEF AwaitedInv, Matched
  <2>6. CASE GoesOn(e) /\ Writes(e)
    <3>0. PICK new : new = [by |-> e, message |-> executors[e].message,
                            reference |-> Operation(e), quantity |-> executors[e].quantity]
      OBVIOUS
    <3>1. /\ writes' = writes \cup {new} /\ new.by = e
          /\ new.message = executors'[e].message /\ executors'[e].pc = "creating"
      BY <2>6, <3>0 DEF GoesOn, Writes
    <3>2. Awaited(new)'
      BY <3>1 DEF Awaited
    <3>3. QED
      BY <2>2, <2>4, <3>1, <3>2 DEF AwaitedInv, Matched
  <2>7. QED
    BY <1>4, <2>5, <2>6, ExecutorEffect DEF Takes, Leaves, GoesOn, Plans, Advances
<1>5. ASSUME NEW v \in writes, CarryOut(v) \/ Refuse(v) PROVE Matched'
  <2>1. /\ v.by \in Executors /\ writes' = writes \ {v}
        /\ \A f \in Executors : f # v.by => executors'[f] = executors[f]
    BY <1>5, AnswerEffect
  <2>2. \A w \in writes' : w.by # v.by /\ w \in writes
    BY <2>1 DEF AwaitedInv, Matched
  <2>3. \A w \in writes' : Awaited(w)'
    BY <2>1, <2>2 DEF AwaitedInv, Matched, Awaited, Shape, WritesShape
  <2>4. QED
    BY <2>2, <2>3 DEF AwaitedInv, Matched
<1>6. ASSUME NEW c \in Callers, CallerStep(c) PROVE Matched'
  BY <1>3, <1>6
     DEF CallerStep, CheckItem, CheckOrders, Advised, Ask, Send, CallerGivesUp, Done
<1>7. ASSUME ZohoStep PROVE Matched'
  BY <1>3, <1>5, <1>7 DEF ZohoStep, Sell, Receive, Cancel
<1>8. Matched'
  BY <1>3, <1>4, <1>6, <1>7 DEF Next, vars
<1>9. QED
  BY <1>2, <1>8 DEF AwaitedInv

\* The only session has one message or one busy instance while it waits.
LEMMA SessionNext ==
  ASSUME Shape, SessionInv, OneSession, ~ Timeouts, [Next]_vars
  PROVE  SessionInv'
<1>1. ASSUME UNCHANGED <<messages, executors>>,
             \A c \in Callers : callers[c].pc = "sent" => callers'[c].pc = "sent"
      PROVE  SessionInv'
  BY <1>1 DEF SessionInv, OneAtATime, Busy
<1>2. ASSUME NEW c \in Callers, CallerStep(c) PROVE SessionInv'
  <2>1. CASE Send(c)
    <3>1. /\ messages = {} /\ \A e \in Executors : ~ Busy(e)
      BY <2>1 DEF Send, SessionInv
    <3>2. /\ messages' = {Message(c)} /\ UNCHANGED executors
          /\ callers'[c].pc = "sent"
      BY <2>1, <3>1 DEF Send, Shape, CallersShape, CallerFields
    <3>3. QED
      BY <3>1, <3>2 DEF SessionInv, OneAtATime, Busy, OneSession
  <2>2. CASE ~ Send(c)
    <3>1. callers[c].pc # "sent" /\ UNCHANGED <<messages, executors>>
      BY <1>2, <2>2
         DEF CallerStep, CheckItem, CheckOrders, Advised, Ask, CallerGivesUp, Done
    <3>2. \A d \in Callers : callers[d].pc # "sent"
      BY <3>1 DEF OneSession
    <3>3. QED
      BY <1>1, <3>1, <3>2
  <2>3. QED
    BY <2>1, <2>2
<1>3. ASSUME NEW e \in Executors, Busy(e), UNCHANGED messages,
             \A f \in Executors : f # e => executors'[f] = executors[f],
             \/ executors'[e].pc = "free"
             \/ UNCHANGED callers
      PROVE  SessionInv'
  <2>1. messages = {} /\ \A f \in Executors : Busy(f) => f = e
    BY <1>3 DEF SessionInv, OneAtATime
  <2>2. \A c \in Callers : callers[c].pc = "sent"
    BY <1>3 DEF SessionInv
  <2>3. \A f \in Executors : Busy(f)' => f = e
    BY <1>3, <2>1 DEF Busy
  <2>4. QED
    BY <1>3, <2>1, <2>2, <2>3 DEF SessionInv, OneAtATime, Busy
<1>4. ASSUME NEW e \in Executors, ExecutorStep(e) PROVE SessionInv'
  <2>1. \A f \in Executors : f # e => executors'[f] = executors[f]
    BY <1>4, ExecutorShape
  <2>2. CASE Takes(e)
    <3>1. PICK m \in messages : messages' = messages \ {m}
      BY <2>2 DEF Takes
    <3>2. /\ messages' = {} /\ UNCHANGED callers
          /\ \A f \in Executors : ~ Busy(f)
          /\ \A c \in Callers : callers[c].pc = "sent"
      BY <2>2, <3>1 DEF Takes, SessionInv
    <3>3. \A f \in Executors : Busy(f)' => f = e
      BY <2>1, <3>2 DEF Busy
    <3>4. QED
      BY <3>2, <3>3 DEF SessionInv, OneAtATime
  <2>3. CASE Leaves(e)
    BY <1>3, <2>1, <2>3 DEF Leaves, Free
  <2>4. CASE GoesOn(e)
    BY <1>3, <2>1, <2>4 DEF GoesOn
  <2>5. QED
    BY <1>4, <2>2, <2>3, <2>4, ExecutorEffect
<1>5. ASSUME NEW w \in writes, CarryOut(w) \/ Refuse(w) PROVE SessionInv'
  <2>1. CASE Awaited(w)
    <3>1. Busy(w.by)
      BY <2>1 DEF Awaited, Busy
    <3>2. QED
      BY <1>3, <1>5, <2>1, <3>1, AnswerEffect DEF Free
  <2>2. CASE ~ Awaited(w)
    BY <1>1, <1>5, <2>2, AnswerEffect
  <2>3. QED
    BY <2>1, <2>2
<1>6. CASE ZohoStep
  BY <1>1, <1>5, <1>6 DEF ZohoStep, Sell, Receive, Cancel
<1>7. QED
  BY <1>1, <1>2, <1>4, <1>6 DEF Next, vars

\* What holds as long as no call is given up while it is under way and either one
\* session asks or one instance works.
Alone == OneSession => SessionInv
NoRepeatInv ==
  /\ Shape /\ MessagesInv /\ DeliveryInv /\ AwaitedInv /\ Alone
  /\ LookedUpInv /\ OnlyLateOrdersRepeat

LEMMA NoRepeats ==
  ASSUME ~ Timeouts, OneInstance \/ OneSession
  PROVE  Spec => []NoRepeatInv
<1>1. Init => NoRepeatInv
  <2> SUFFICES ASSUME Init PROVE NoRepeatInv
    OBVIOUS
  <2>1. /\ DOMAIN orders = {} /\ writes = {} /\ messages = {}
        /\ \A e \in Executors : executors[e].pc = "free"
    BY DEF Init, Free
  <2>2. AwaitedInv /\ SessionInv
    BY <2>1 DEF AwaitedInv, Matched, SessionInv, OneAtATime, Busy
  <2>3. LookedUpInv /\ OnlyLateOrdersRepeat
    BY <2>1 DEF LookedUpInv, LookedUp, OnlyLateOrdersRepeat
  <2>4. QED
    BY <2>2, <2>3, InitShape, InitDelivery DEF NoRepeatInv, Alone
<1>2. NoRepeatInv /\ [Next]_vars => NoRepeatInv'
  <2> SUFFICES ASSUME NoRepeatInv, [Next]_vars PROVE NoRepeatInv'
    OBVIOUS
  <2> USE DEF NoRepeatInv, Alone
  <2>1. OneAtATime
    BY DEF OneInstance, OneAtATime, SessionInv
  <2>2. Shape' /\ MessagesInv' /\ DeliveryInv'
    BY ShapeNext, MessagesNext, DeliveryNext
  <2>3. AwaitedInv' /\ LookedUpInv' /\ OnlyLateOrdersRepeat'
    BY <2>1, AwaitedNext, LateNext
  <2>4. Alone'
    BY SessionNext DEF OneSession
  <2>5. QED
    BY <2>2, <2>3, <2>4
<1>3. QED
  BY <1>1, <1>2, PTL DEF Spec

\* A business request is one purchase order, whatever call fails or loses its
\* response (operation_id, create_draft).
THEOREM RequestIsOneOrder ==
  ASSUME ~ Timeouts, OneInstance \/ OneSession
  PROVE  Spec => []OneOrderPerReference
<1>1. NoRepeatInv => OneOrderPerReference
  BY DEF NoRepeatInv, AwaitedInv, OnlyLateOrdersRepeat, OneOrderPerReference
<1>2. QED
  BY <1>1, NoRepeats, PTL

-----------------------------------------------------------------------------
(* Within the target: ReorderRoundsProofs says of the plan what is used here. *)

R == INSTANCE ReorderRoundsProofs WITH
       Unit <- 1, ItemIds <- {Item.item_id},
       Statuses <- {"", "draft", "pending_approval", "cancelled"},
       Items <- {}, Policies <- {}, Books <- {}, MaxRounds <- 0,
       item <- 0, policy <- 0, seen <- 0, plan <- 0, placed <- 0, uncounted <- 0

\* What Zoho and the configuration supply are records of the plan, and None is not.
Records ==
  /\ Item \in R!ItemRecords /\ Policy \in R!Entries
  /\ None \notin Int \cup R!Entries \cup Seq(R!Orders)

LEMMA RAssumptions ==
  ASSUME Records
  PROVE  R!RecordsAssumption /\ R!BooksAssumption /\ R!UnitAssumption
BY DEF Records, R!RecordsAssumption, R!BooksAssumption, R!UnitAssumption

\* ReorderPlan is there twice, as the model uses it and as it is reasoned about.
LEMMA SameSum ==
  ASSUME NEW f, NEW S
  PROVE  SumFunctionOnSet(f, S) = R!SumFunctionOnSet(f, S)
BY DEF SumFunctionOnSet, FoldFunctionOnSet, MapThenFoldSet,
       R!SumFunctionOnSet, R!FoldFunctionOnSet, R!MapThenFoldSet

LEMMA SameIncoming ==
  ASSUME NEW it, NEW os
  PROVE  P!IncomingQuantity(it, os) = R!IncomingQuantity(it, os)
BY DEF P!IncomingQuantity, P!SumOutstanding, P!Readable, P!OpenLines, P!Coming,
       P!LinesFor, P!LineAt, P!NotComing, P!Outstanding, P!AtLeastZero, P!Max,
       P!SumFunction, P!SumFunctionOnSet, P!FoldFunctionOnSet, P!MapThenFoldSet,
       R!IncomingQuantity, R!SumOutstanding, R!Readable, R!OpenLines, R!Coming,
       R!LinesFor, R!LineAt, R!NotComing, R!Outstanding, R!AtLeastZero, R!Max,
       R!SumFunction, R!SumFunctionOnSet, R!FoldFunctionOnSet, R!MapThenFoldSet

LEMMA SameSteps ==
  ASSUME NEW it, NEW pol, NEW a, NEW b, NEW c
  PROVE  /\ P!AvailableStock(it) = R!AvailableStock(it)
         /\ P!MinimumQuantity(it, pol) = R!MinimumQuantity(it, pol)
         /\ P!Wanted(a, b, c) = R!Wanted(a, b, c)
         /\ P!Capped(it, a) = R!Capped(it, a)
         /\ P!Whole(a) = R!Whole(a)
         /\ P!AtLeastZero(a) = R!AtLeastZero(a)
         /\ P!Unresolved = R!Unresolved
<1>1. P!AvailableStock(it) = R!AvailableStock(it)
  BY DEF P!AvailableStock, R!AvailableStock
<1>2. P!MinimumQuantity(it, pol) = R!MinimumQuantity(it, pol)
  BY DEF P!MinimumQuantity, R!MinimumQuantity, P!Given, R!Given
<1>3. P!Wanted(a, b, c) = R!Wanted(a, b, c)
  BY DEF P!Wanted, R!Wanted, P!Max, R!Max
<1>4. P!Capped(it, a) = R!Capped(it, a)
  BY DEF P!Capped, R!Capped, P!Min, R!Min, P!Given, R!Given
<1>5. P!Whole(a) = R!Whole(a) /\ P!Unresolved = R!Unresolved
  BY DEF P!Whole, R!Whole, P!Unresolved, R!Unresolved
<1>6. P!AtLeastZero(a) = R!AtLeastZero(a)
  BY DEF P!AtLeastZero, R!AtLeastZero, P!Max, R!Max
<1>7. QED
  BY <1>1, <1>2, <1>3, <1>4, <1>5, <1>6

LEMMA SamePlan ==
  ASSUME NEW it, NEW pol, NEW os
  PROVE  P!Plan(it, pol, os) = R!Plan(it, pol, os)
<1>1. PICK available : available = P!AvailableStock(it) /\ available = R!AvailableStock(it)
  BY SameSteps
<1>2. PICK incoming : /\ incoming = P!IncomingQuantity(it, os)
                      /\ incoming = R!IncomingQuantity(it, os)
  BY SameIncoming
<1>3. PICK below, gap : /\ below = (available < it.reorder_level)
                        /\ gap = pol.target_stock - (available + incoming)
  OBVIOUS
<1>4. PICK shortfall : shortfall = P!AtLeastZero(gap) /\ shortfall = R!AtLeastZero(gap)
  BY SameSteps
<1>5. PICK minimum : /\ minimum = P!MinimumQuantity(it, pol)
                     /\ minimum = R!MinimumQuantity(it, pol)
  BY SameSteps
<1>6. PICK wanted : /\ wanted = P!Wanted(below, shortfall, minimum)
                    /\ wanted = R!Wanted(below, shortfall, minimum)
  BY SameSteps
<1>7. PICK capped : capped = P!Capped(it, wanted) /\ capped = R!Capped(it, wanted)
  BY SameSteps
<1>8. PICK quantity : quantity = P!Whole(capped) /\ quantity = R!Whole(capped)
  BY SameSteps
<1>9. P!Unresolved = R!Unresolved
  BY SameSteps
<1>10. P!Plan(it, pol, os) =
         IF \/ available = None \/ it.reorder_level = None
            \/ pol = None \/ pol.target_stock = None \/ incoming = None
           THEN R!Unresolved
           ELSE [resolved |-> TRUE, reorder_needed |-> below /\ quantity > 0,
                 quantity |-> quantity]
  BY <1>1, <1>2, <1>3, <1>4, <1>5, <1>6, <1>7, <1>8, <1>9, Zenon DEF P!Plan
<1>11. R!Plan(it, pol, os) =
         IF \/ available = None \/ it.reorder_level = None
            \/ pol = None \/ pol.target_stock = None \/ incoming = None
           THEN R!Unresolved
           ELSE [resolved |-> TRUE, reorder_needed |-> below /\ quantity > 0,
                 quantity |-> quantity]
  BY <1>1, <1>2, <1>3, <1>4, <1>5, <1>6, <1>7, <1>8, Zenon DEF R!Plan
<1>12. QED
  BY <1>10, <1>11

-----------------------------------------------------------------------------
(* What is inbound, and what is ordered, in terms of the plan.               *)

\* The orders are of whole quantities, and nothing has been received of them.
OrderIsOpen(order) ==
  /\ order.status \in {"draft", "pending_approval", "cancelled"}
  /\ order.received = 0 /\ order.quantity \in Nat

OpenOrders == \A i \in DOMAIN orders : OrderIsOpen(orders[i])

Incoming == R!IncomingQuantity(Item, Book)

\* A record of Book.
LEMMA BookEntry ==
  ASSUME Records, NEW order, OrderIsOpen(order),
         NEW entry, entry = [status |-> order.status, line_items |-> Lines(order)]
  PROVE  /\ entry \in R!Orders
         /\ DOMAIN entry.line_items = {1}
         /\ entry.line_items[1].item_id = Item.item_id
         /\ entry.line_items[1].quantity = order.quantity
         /\ R!Outstanding(entry.line_items[1]) = order.quantity
<1>1. PICK line : line = [item_id |-> Item.item_id, quantity |-> order.quantity,
                          quantity_received |-> order.received, quantity_cancelled |-> 0]
  OBVIOUS
<1>2. line \in R!Lines
  BY <1>1 DEF OrderIsOpen, R!Lines, R!Amounts
<1>3. entry = [status |-> order.status, line_items |-> <<line>>]
  BY <1>1 DEF Lines
<1>4. <<line>> \in Seq(R!Lines) /\ DOMAIN <<line>> = {1} /\ <<line>>[1] = line
  BY <1>2
<1>5. entry \in R!Orders
  <2>0. PICK States : States = {"", "draft", "pending_approval", "cancelled"}
    OBVIOUS
  <2>1. PICK status \in States : status = order.status
    BY <2>0 DEF OrderIsOpen
  <2>2. PICK items \in Seq(R!Lines) : items = <<line>>
    BY <1>4
  <2>3. entry = [status |-> status, line_items |-> items]
    BY <1>3, <2>1, <2>2
  <2>4. R!Orders = [status : States, line_items : Seq(R!Lines)]
    BY <2>0 DEF R!Orders
  <2>5. QED
    BY <2>3, <2>4
<1>6. line.quantity # None
  BY <1>1 DEF Records, OrderIsOpen
<1>7. R!Outstanding(line) = order.quantity
  <2>1. line.quantity - line.quantity_received - line.quantity_cancelled = order.quantity
    BY <1>1 DEF OrderIsOpen
  <2>2. R!AtLeastZero(order.quantity) = order.quantity
    BY RAssumptions, R!AtLeastZeroIs DEF OrderIsOpen
  <2>3. QED
    BY <2>1, <2>2 DEF R!Outstanding
<1>8. QED
  BY <1>1, <1>3, <1>4, <1>5, <1>7

LEMMA BookOfOrders ==
  ASSUME Records, NEW n \in Nat, NEW os, DOMAIN os = 1 .. n,
         \A i \in DOMAIN os : OrderIsOpen(os[i]),
         NEW book, book = [i \in DOMAIN os |->
                            [status |-> os[i].status, line_items |-> Lines(os[i])]]
  PROVE  /\ book \in Seq(R!Orders) /\ DOMAIN book = 1 .. n /\ Len(book) = n
         /\ R!Readable(Item, book)
<1>1. DOMAIN book = 1 .. n
  OBVIOUS
<1>2. \A i \in 1 .. n : /\ book[i] \in R!Orders
                        /\ DOMAIN book[i].line_items = {1}
                        /\ book[i].line_items[1].quantity \in Nat
  <2>1. ASSUME NEW i \in 1 .. n
        PROVE  /\ book[i] \in R!Orders
               /\ DOMAIN book[i].line_items = {1}
               /\ book[i].line_items[1].quantity \in Nat
    <3>1. /\ OrderIsOpen(os[i]) /\ os[i].quantity \in Nat
          /\ book[i] = [status |-> os[i].status, line_items |-> Lines(os[i])]
      BY DEF OrderIsOpen
    <3>2. QED
      BY <3>1, BookEntry
  <2>2. QED
    BY <2>1
<1>3. book \in Seq(R!Orders) /\ Len(book) = n
  <2>1. book \in [1 .. n -> R!Orders]
    BY <1>1, <1>2
  <2>2. QED
    BY <2>1
<1>4. R!Readable(Item, book)
  <2>1. book # None
    BY <1>3 DEF Records
  <2>2. ASSUME NEW l \in R!OpenLines(Item, book)
        PROVE  R!LineAt(book, l).quantity # None
    <3>1. l[1] \in DOMAIN book /\ l[2] \in DOMAIN book[l[1]].line_items
      BY <1>3, RAssumptions, R!OpenLineAt
    <3>2. R!LineAt(book, l).quantity \in Nat
      BY <1>1, <1>2, <3>1 DEF R!LineAt
    <3>3. QED
      BY <3>2 DEF Records
  <2>3. QED
    BY <2>1, <2>2 DEF R!Readable
<1>5. QED
  BY <1>1, <1>3, <1>4

LEMMA BookType ==
  ASSUME Records, Shape, OpenOrders
  PROVE  /\ Book \in Seq(R!Orders) /\ DOMAIN Book = DOMAIN orders
         /\ Len(Book) = Len(orders)
         /\ R!Readable(Item, Book) /\ Incoming \in Nat
<1>1. PICK n \in Nat : DOMAIN orders = 1 .. n /\ Len(orders) = n
  BY DEF Shape, OrdersShape
<1>2. PICK book : book = Book
  OBVIOUS
<1>3. /\ book \in Seq(R!Orders) /\ DOMAIN book = 1 .. n /\ Len(book) = n
      /\ R!Readable(Item, book)
  BY <1>1, <1>2, BookOfOrders DEF Book, OpenOrders
<1>4. R!IncomingQuantity(Item, book) \in Nat
  BY <1>3, RAssumptions, R!SumOutstandingIs
<1>5. QED
  BY <1>1, <1>2, <1>3, <1>4 DEF Incoming

LEMMA InboundIsIncoming ==
  ASSUME Records, Shape, OpenOrders
  PROVE  Inbound = Incoming
<1>1. PICK book, open : book = Book /\ open = DOMAIN orders \ Landed
  OBVIOUS
<1>2. /\ book \in Seq(R!Orders) /\ R!Readable(Item, book)
      /\ DOMAIN book = DOMAIN orders
      /\ \A i \in DOMAIN orders :
           book[i] = [status |-> orders[i].status, line_items |-> Lines(orders[i])]
  BY <1>1, BookType DEF Book
<1>3. open = R!Coming(book)
  BY <1>1, <1>2 DEF OpenOrders, OrderIsOpen, Landed, R!Coming, R!NotComing
<1>4. PICK g : g = [i \in open |-> orders[i].quantity]
  OBVIOUS
<1>5. \A k \in R!Coming(book) : /\ DOMAIN book[k].line_items = {1}
                                /\ book[k].line_items[1].item_id = Item.item_id
                                /\ g[k] = R!Outstanding(book[k].line_items[1])
  <2>1. ASSUME NEW k \in open
        PROVE  /\ DOMAIN book[k].line_items = {1}
               /\ book[k].line_items[1].item_id = Item.item_id
               /\ g[k] = R!Outstanding(book[k].line_items[1])
    <3>1. /\ OrderIsOpen(orders[k]) /\ g[k] = orders[k].quantity
          /\ book[k] = [status |-> orders[k].status, line_items |-> Lines(orders[k])]
      BY <1>1, <1>2, <1>4 DEF OpenOrders
    <3>2. QED
      BY <3>1, BookEntry
  <2>2. QED
    BY <1>3, <2>1
<1>6. R!IncomingQuantity(Item, book) = R!SumFunctionOnSet(g, R!Coming(book))
  BY <1>2, <1>5, RAssumptions, R!OneLineEach
<1>7. Inbound = SumFunctionOnSet(g, open)
  BY <1>1, <1>4 DEF Inbound, SumFunction
<1>8. QED
  BY <1>1, <1>3, <1>6, <1>7, SameSum DEF Incoming

LEMMA PlacedAdds ==
  ASSUME Records, NEW book \in Seq(R!Orders), R!Readable(Item, book), NEW q \in Nat,
         NEW new \in Seq(R!Orders), Len(new) = Len(book) + 1,
         new[Len(new)] = R!Placed(Item, q), \A k \in DOMAIN book : new[k] = book[k]
  PROVE  R!IncomingQuantity(Item, new) = R!IncomingQuantity(Item, book) + q
<1>1. Item \in R!ItemRecords
  BY DEF Records
<1>2. QED
  BY <1>1, RAssumptions, R!OneOrderMore

\* A new order is inbound with its whole quantity.
LEMMA NewOrderAdds ==
  ASSUME Records, Shape, OpenOrders, Shape', OpenOrders',
         NEW order, order.status = "draft", OrderIsOpen(order),
         orders' = Append(orders, order)
  PROVE  Incoming' = Incoming + order.quantity
<1>1. PICK book, new, q : book = Book /\ new = Book' /\ q = order.quantity
  OBVIOUS
<1>2. PICK n \in Nat : Len(orders) = n /\ DOMAIN orders = 1 .. n
  BY DEF Shape, OrdersShape
<1>3. /\ DOMAIN orders' = 1 .. n + 1 /\ orders'[n + 1] = order
      /\ \A i \in 1 .. n : orders'[i] = orders[i]
  BY <1>2 DEF Shape, OrdersShape
<1>4. /\ book \in Seq(R!Orders) /\ DOMAIN book = 1 .. n /\ Len(book) = n
      /\ R!Readable(Item, book)
      /\ \A i \in 1 .. n :
           book[i] = [status |-> orders[i].status, line_items |-> Lines(orders[i])]
  BY <1>1, <1>2, BookType DEF Book
<1>5. new = [i \in DOMAIN orders' |->
               [status |-> orders'[i].status, line_items |-> Lines(orders'[i])]]
  BY <1>1 DEF Book, Lines
<1>6. PICK entry : entry = [status |-> order.status, line_items |-> Lines(order)]
  OBVIOUS
<1>7. entry \in R!Orders /\ q \in Nat
  BY <1>1, <1>6, BookEntry DEF OrderIsOpen
<1>8. entry = R!Placed(Item, q)
  <2>1. order.received = 0
    BY DEF OrderIsOpen
  <2>2. Lines(order) = <<[item_id |-> Item.item_id, quantity |-> q,
                          quantity_received |-> 0, quantity_cancelled |-> 0]>>
    BY <1>1, <2>1 DEF Lines
  <2>3. QED
    BY <1>6, <2>2 DEF R!Placed
<1>9. /\ new \in Seq(R!Orders) /\ Len(new) = n + 1
      /\ new[n + 1] = entry /\ \A i \in 1 .. n : new[i] = book[i]
  <2>1. PICK os : os = orders'
    OBVIOUS
  <2>2. /\ DOMAIN os = 1 .. n + 1 /\ os[n + 1] = order
        /\ \A i \in 1 .. n : os[i] = orders[i]
        /\ \A i \in DOMAIN os : OrderIsOpen(os[i])
    BY <1>3, <2>1 DEF OpenOrders, OrderIsOpen
  <2>3. new = [i \in DOMAIN os |-> [status |-> os[i].status, line_items |-> Lines(os[i])]]
    BY <1>5, <2>1
  <2>4. new \in Seq(R!Orders) /\ Len(new) = n + 1
    <3>1. PICK m \in Nat : m = n + 1
      BY <1>2
    <3>2. QED
      BY <2>2, <2>3, <3>1, BookOfOrders
  <2>5. new[n + 1] = entry
    <3>1. n + 1 \in DOMAIN os
      BY <1>2, <2>2
    <3>2. QED
      BY <1>6, <2>2, <2>3, <3>1
  <2>6. ASSUME NEW i \in 1 .. n PROVE new[i] = book[i]
    <3>1. i \in DOMAIN os
      BY <1>2, <2>2
    <3>2. QED
      BY <1>4, <2>2, <2>3, <3>1
  <2>7. QED
    BY <2>4, <2>5, <2>6
<1>10. R!IncomingQuantity(Item, new) = R!IncomingQuantity(Item, book) + q
  BY <1>4, <1>7, <1>8, <1>9, PlacedAdds
<1>11. Incoming' = R!IncomingQuantity(Item, new)
  BY <1>1 DEF Incoming
<1>12. QED
  BY <1>1, <1>10, <1>11 DEF Incoming

\* An order that is submitted or cancelled adds nothing.
LEMMA StatusAddsNothing ==
  ASSUME Records, Shape, OpenOrders, Shape',
         NEW i \in DOMAIN orders, NEW status \in {"pending_approval", "cancelled"},
         orders[i].status # "cancelled",
         orders' = [orders EXCEPT ![i].status = status]
  PROVE  OpenOrders' /\ Incoming' <= Incoming
<1>1. PICK book, new : book = Book /\ new = Book'
  OBVIOUS
<1>2. /\ DOMAIN orders' = DOMAIN orders
      /\ orders'[i].status = status
      /\ \A k \in DOMAIN orders :
           /\ orders'[k].quantity = orders[k].quantity
           /\ orders'[k].received = orders[k].received
           /\ k # i => orders'[k] = orders[k]
  BY DEF Shape, OrdersShape, OrderFields
<1>3. OpenOrders'
  BY <1>2 DEF OpenOrders, OrderIsOpen
<1>4. book \in Seq(R!Orders) /\ DOMAIN book = DOMAIN orders /\ R!Readable(Item, book)
  BY <1>1, BookType
<1>5. new \in Seq(R!Orders) /\ DOMAIN new = DOMAIN orders
  <2>1. PICK n \in Nat : DOMAIN orders = 1 .. n
    BY DEF Shape, OrdersShape
  <2>2. PICK os : os = orders'
    OBVIOUS
  <2>3. new = [k \in DOMAIN os |->
                 [status |-> os[k].status, line_items |-> Lines(os[k])]]
    BY <1>1, <2>2 DEF Book, Lines
  <2>4. DOMAIN os = 1 .. n /\ \A k \in DOMAIN os : OrderIsOpen(os[k])
    BY <1>2, <1>3, <2>1, <2>2 DEF OpenOrders, OrderIsOpen
  <2>5. QED
    BY <2>1, <2>3, <2>4, BookOfOrders
<1>6. \A k \in DOMAIN book :
        /\ new[k].line_items = book[k].line_items
        /\ new[k].status \notin R!NotComing => book[k].status \notin R!NotComing
  <2>1. ASSUME NEW k \in DOMAIN orders
        PROVE  /\ new[k].line_items = book[k].line_items
               /\ new[k].status \notin R!NotComing => book[k].status \notin R!NotComing
    <3>1. /\ book[k] = [status |-> orders[k].status, line_items |-> Lines(orders[k])]
          /\ new[k] = [status |-> orders'[k].status, line_items |-> Lines(orders'[k])]
      BY <1>1, <1>2 DEF Book, Lines
    <3>2. Lines(orders'[k]) = Lines(orders[k])
      BY <1>2 DEF Lines
    <3>3. orders[k].status = "cancelled" => orders'[k].status = "cancelled"
      BY <1>2
    <3>4. orders[k].status \in {"draft", "pending_approval", "cancelled"}
      BY DEF OpenOrders, OrderIsOpen
    <3>5. QED
      BY <3>1, <3>2, <3>3, <3>4 DEF R!NotComing
  <2>2. QED
    BY <1>4, <2>1
<1>7. R!IncomingQuantity(Item, new) <= R!IncomingQuantity(Item, book)
  BY <1>4, <1>5, <1>6, RAssumptions, R!StatusChange
<1>8. Incoming' = R!IncomingQuantity(Item, new)
  BY <1>1 DEF Incoming
<1>9. QED
  BY <1>1, <1>3, <1>7, <1>8 DEF Incoming

-----------------------------------------------------------------------------
(* One session that takes the advice or leaves it.                           *)

\* The supplier has no minimum above one, and all is well to begin with.
Modest ==
  /\ P!MinimumQuantity(Item, Policy) \in Int /\ P!MinimumQuantity(Item, Policy) <= 1
  /\ Policy.target_stock \in Int
  /\ InitialStock \in Int /\ InitialStock <= Policy.target_stock

\* Nobody asks for a quantity of his own, gives a call up, or receives goods.
AdviceOnly ==
  /\ OneSession /\ ~ Timeouts /\ "receive" \notin Events
  /\ \A q \in Asked : q \in Int /\ ~ Given(q)

Within(q) == stock + Incoming + q <= Policy.target_stock

\* There is room for what a request orders, unless the lookup is going to find it.
Fits(q, reference) == Existing(reference) # {} \/ Within(q)

Reference(q) == OperationId(Human, Item.item_id, q)

ZohoWithin == stock \in Int /\ OpenOrders /\ Within(0)

CallerWithin(c) ==
  /\ callers[c].quantity \in Int
  /\ callers[c].pc = "read" => callers[c].seen \in Int /\ callers[c].seen >= stock
  /\ Made(c) /\ callers[c].quantity > 0 =>
       Fits(callers[c].quantity, Reference(callers[c].quantity))

InstanceWithin(e) ==
  /\ executors[e].pc \in {"item", "plan"} =>
       executors[e].quantity = executors[e].message.quantity
  /\ executors[e].pc = "plan" => executors[e].seen \in Int /\ executors[e].seen >= stock
  /\ executors[e].pc \in {"exchange", "lookup", "create", "creating"} =>
       executors[e].quantity \in Nat \ {0} /\ Fits(executors[e].quantity, Operation(e))

\* Every message is of the request that the session waits for.
OneRequest == \A m \in Known, c \in Callers : m.quantity = callers[c].quantity

WritesWithin == \A w \in writes : w.quantity = executors[w.by].quantity

WithinInv ==
  /\ ZohoWithin /\ OneRequest /\ WritesWithin
  /\ \A c \in Callers : CallerWithin(c)
  /\ \A e \in Executors : InstanceWithin(e)

\* What is sold, submitted or cancelled leaves at least as much room.
NothingAdded ==
  /\ stock' \in Int /\ stock' <= stock
  /\ OpenOrders' /\ Incoming' <= Incoming

LEMMA AdviceFits ==
  ASSUME Records, Modest, Shape, ZohoWithin,
         NEW seen \in Int, seen >= stock,
         PlanFor(seen).reorder_needed \/ PlanFor(seen).quantity > 0
  PROVE  PlanFor(seen).quantity \in Nat \ {0} /\ Within(PlanFor(seen).quantity)
<1>1. PICK it : it = ItemWith(seen)
  OBVIOUS
<1>2. /\ it \in R!ItemRecords /\ it.item_id = Item.item_id
      /\ it.actual_available_stock = seen
      /\ it.minimum_order_quantity = Item.minimum_order_quantity
  BY <1>1 DEF ItemWith, Records, R!ItemRecords, R!Amounts
<1>3. PICK book, incoming : book = Book /\ incoming = Incoming
  OBVIOUS
<1>4. book \in Seq(R!Orders) /\ incoming \in Nat
  BY <1>3, BookType DEF ZohoWithin
<1>5. PICK p : p = PlanFor(seen)
  OBVIOUS
<1>6. p = R!Plan(it, Policy, book)
  BY <1>1, <1>3, <1>5, SamePlan DEF PlanFor
<1>7. R!AvailableStock(it) = seen /\ seen # None
  BY <1>2 DEF R!AvailableStock, Records
<1>8. R!IncomingQuantity(it, book) = incoming
  BY <1>2, <1>3, RAssumptions, R!SameItem DEF Incoming
<1>9. R!MinimumQuantity(it, Policy) \in Int /\ R!MinimumQuantity(it, Policy) <= 1
  <2>1. R!MinimumQuantity(it, Policy) = R!MinimumQuantity(Item, Policy)
    BY <1>2 DEF R!MinimumQuantity
  <2>2. R!MinimumQuantity(Item, Policy) = P!MinimumQuantity(Item, Policy)
    BY SameSteps
  <2>3. QED
    BY <2>1, <2>2 DEF Modest
<1>10. /\ p.quantity \in Nat \ {0}
       /\ R!AvailableStock(it) + R!IncomingQuantity(it, book) + p.quantity
            <= Policy.target_stock
  <2>1. Policy \in R!Entries \cup {None} /\ book \in Seq(R!Orders) \cup {None}
    BY <1>4 DEF Records
  <2>2. p.reorder_needed \/ p.quantity > 0
    BY <1>5
  <2>3. QED
    BY <1>2, <1>6, <1>9, <2>1, <2>2, RAssumptions, R!PlanFits
<1>11. seen + incoming + p.quantity <= Policy.target_stock
  BY <1>7, <1>8, <1>10
<1>12. Within(p.quantity)
  BY <1>3, <1>4, <1>10, <1>11 DEF Within, ZohoWithin, Modest
<1>13. QED
  BY <1>5, <1>10, <1>12

LEMMA IncomingType ==
  ASSUME Records, Shape', OpenOrders'
  PROVE  Incoming' \in Nat
<1>1. PICK os, book : os = orders' /\ book = Book'
  OBVIOUS
<1>2. PICK n \in Nat : DOMAIN os = 1 .. n
  BY <1>1 DEF Shape, OrdersShape
<1>3. book = [k \in DOMAIN os |-> [status |-> os[k].status, line_items |-> Lines(os[k])]]
  BY <1>1 DEF Book, Lines
<1>4. \A k \in DOMAIN os : OrderIsOpen(os[k])
  BY <1>1 DEF OpenOrders, OrderIsOpen
<1>5. book \in Seq(R!Orders) /\ R!Readable(Item, book)
  BY <1>2, <1>3, <1>4, BookOfOrders
<1>6. R!IncomingQuantity(Item, book) \in Nat
  BY <1>5, RAssumptions, R!SumOutstandingIs
<1>7. QED
  BY <1>1, <1>6 DEF Incoming

LEMMA FitsKept ==
  ASSUME Records, Modest, Shape, Shape', ZohoWithin, NothingAdded, OrdersKept,
         NEW q \in Int
  PROVE  /\ Within(q) => Within(q)'
         /\ \A reference : Fits(q, reference) => Fits(q, reference)'
<1>1. Incoming \in Nat /\ Incoming' \in Nat
  BY BookType, IncomingType DEF ZohoWithin, NothingAdded
<1>2. Within(q) => Within(q)'
  BY <1>1 DEF Within, ZohoWithin, NothingAdded, Modest
<1>3. \A reference : Existing(reference) # {} => Existing(reference)' # {}
  BY DEF OrdersKept, Existing
<1>4. QED
  BY <1>2, <1>3 DEF Fits

\* The session waits while its request is under way, and its record stands.
LEMMA SessionWaits ==
  ASSUME NoRepeatInv, OneSession, Known # {}
  PROVE  \A c \in Callers : callers[c].pc = "sent"
<1>1. ASSUME NEW w \in writes PROVE \E e \in Executors : Busy(e)
  BY DEF NoRepeatInv, AwaitedInv, Matched, Awaited, Busy, Shape, WritesShape
<1>2. QED
  BY <1>1 DEF NoRepeatInv, Alone, SessionInv, Known

\* The operation of an instance that was given its quantity is that of the request.
LEMMA OperationOfRequest ==
  ASSUME MessagesInv, NEW e \in Executors, Busy(e),
         executors[e].quantity = executors[e].message.quantity
  PROVE  Operation(e) = Reference(executors[e].quantity)
<1>1. executors[e].message \in Known
  BY DEF Known
<1>2. MessageInv(executors[e].message)
  BY <1>1 DEF MessagesInv
<1>3. QED
  BY <1>2 DEF MessageInv, Operation, Reference

-----------------------------------------------------------------------------
(* The steps.                                                                *)

LEMMA WithinCaller ==
  ASSUME Records, Modest, AdviceOnly, NoRepeatInv, WithinInv, Shape', OrdersKept,
         NEW c \in Callers, CallerStep(c)
  PROVE  WithinInv'
<1>1. /\ UNCHANGED <<stock, orders, writes, executors>>
      /\ CallersShape /\ CallersShape'
  BY DEF CallerStep, CheckItem, CheckOrders, Advised, Ask, Send, CallerGivesUp, Done, zoho,
         NoRepeatInv, Shape
<1>2. callers[c].pc # "sent" /\ Known = {}
  BY SessionWaits
     DEF CallerStep, CheckItem, CheckOrders, Advised, Ask, Send, CallerGivesUp, Done,
         AdviceOnly
<1>3. Incoming' = Incoming
  BY <1>1 DEF Incoming, Book, Lines
<1>4. ZohoWithin'
  BY <1>1, <1>3 DEF WithinInv, ZohoWithin, OpenOrders, OrderIsOpen, Within
<1>5. \A q, reference : Fits(q, reference)' <=> Fits(q, reference)
  BY <1>1, <1>3 DEF Fits, Within, Existing
<1>6. \A e \in Executors : InstanceWithin(e)'
  BY <1>1, <1>5 DEF WithinInv, InstanceWithin, Operation
<1>7. WritesWithin'
  BY <1>1 DEF WithinInv, WritesWithin
<1>8. \A d \in Callers : d = c
  BY DEF AdviceOnly, OneSession
<1>9. ASSUME UNCHANGED messages PROVE OneRequest'
  BY <1>1, <1>2, <1>9 DEF OneRequest, Known, Busy
<1>10. ASSUME NEW q \in Int, Advised(c, q), q > 0 => Within(q)
       PROVE  CallerWithin(c)' /\ OneRequest'
  <2>1. /\ callers'[c].pc = "asked" /\ callers'[c].quantity = q
        /\ UNCHANGED messages
    BY <1>1, <1>10 DEF Advised, CallersShape, CallerFields
  <2>2. q > 0 => Fits(q, Reference(q))'
    BY <1>5, <1>10 DEF Fits
  <2>3. QED
    BY <1>9, <1>10, <2>1, <2>2 DEF CallerWithin
<1>11. CASE CheckItem(c)
  <2>1. /\ callers'[c].pc = "read" /\ callers'[c].seen = stock
        /\ callers'[c].quantity = callers[c].quantity /\ UNCHANGED messages
    BY <1>1, <1>11 DEF CheckItem, CallersShape, CallerFields
  <2>2. CallerWithin(c)'
    BY <1>1, <2>1 DEF WithinInv, ZohoWithin, CallerWithin, Made
  <2>3. QED
    BY <1>4, <1>6, <1>7, <1>8, <1>9, <2>1, <2>2 DEF WithinInv
<1>12. CASE CheckOrders(c)
  <2>1. PICK seen \in Int : seen = callers[c].seen /\ seen >= stock
    BY <1>12 DEF CheckOrders, WithinInv, CallerWithin
  <2>2. PICK p : p = PlanFor(seen)
    OBVIOUS
  <2>3. CASE p.reorder_needed /\ Advised(c, p.quantity)
    <3>1. p.quantity \in Nat \ {0} /\ Within(p.quantity)
      BY <2>1, <2>2, <2>3, AdviceFits DEF NoRepeatInv, WithinInv
    <3>2. QED
      BY <1>4, <1>6, <1>7, <1>8, <1>10, <2>3, <3>1 DEF WithinInv
  <2>4. CASE /\ callers' = [callers EXCEPT ![c].pc = "idle"]
             /\ UNCHANGED messages
    <3>1. callers'[c].pc = "idle" /\ callers'[c].quantity = callers[c].quantity
      BY <1>1, <2>4 DEF CallersShape, CallerFields
    <3>2. CallerWithin(c)'
      BY <3>1 DEF WithinInv, CallerWithin, Made
    <3>3. QED
      BY <1>4, <1>6, <1>7, <1>8, <1>9, <2>4, <3>2 DEF WithinInv
  <2>5. QED
    BY <1>12, <2>1, <2>2, <2>3, <2>4 DEF CheckOrders
<1>13. CASE Ask(c)
  <2>1. PICK q \in Asked : Advised(c, q)
    BY <1>13 DEF Ask
  <2>2. q \in Int /\ ~ (q > 0)
    BY DEF AdviceOnly, Given
  <2>3. QED
    BY <1>4, <1>6, <1>7, <1>8, <1>10, <2>1, <2>2 DEF WithinInv
<1>14. CASE Send(c)
  <2>1. /\ callers'[c].pc = "sent" /\ callers'[c].quantity = callers[c].quantity
        /\ callers[c].pc \in {"asked", "failed"}
        /\ messages' = messages \cup {Message(c)}
    BY <1>1, <1>14 DEF Send, CallersShape, CallerFields
  <2>2. CallerWithin(c)'
    BY <1>5, <2>1 DEF WithinInv, CallerWithin, Made, Reference
  <2>3. OneRequest'
    <3>1. \A m \in Known' : m = Message(c)
      BY <1>1, <1>2, <2>1 DEF Known, Busy
    <3>2. QED
      BY <1>8, <2>1, <3>1 DEF OneRequest, Message
  <2>4. QED
    BY <1>4, <1>6, <1>7, <1>8, <2>2, <2>3 DEF WithinInv
<1>15. CASE Done(c)
  <2>1. /\ callers'[c].pc = "idle" /\ callers'[c].quantity = 0 /\ UNCHANGED messages
    BY <1>1, <1>15 DEF Done, CallersShape, CallerFields, Idle
  <2>2. CallerWithin(c)'
    BY <2>1 DEF CallerWithin, Made
  <2>3. QED
    BY <1>4, <1>6, <1>7, <1>8, <1>9, <2>1, <2>2 DEF WithinInv
<1>16. QED
  BY <1>11, <1>12, <1>13, <1>14, <1>15 DEF CallerStep, CallerGivesUp, AdviceOnly

\* Where nothing is added, what there is room for stays so.
LEMMA ZohoKept ==
  ASSUME Records, Modest, Shape, Shape', ZohoWithin, NothingAdded, OrdersKept
  PROVE  ZohoWithin'
<1>1. Within(0)'
  BY FitsKept DEF ZohoWithin
<1>2. QED
  BY <1>1 DEF ZohoWithin, NothingAdded

LEMMA CallerKept ==
  ASSUME Records, Modest, Shape, Shape', ZohoWithin, NothingAdded, OrdersKept,
         NEW c \in Callers, CallerWithin(c),
         callers'[c].quantity = callers[c].quantity,
         callers'[c] = callers[c] \/ (Made(c) /\ Made(c)')
  PROVE  CallerWithin(c)'
<1>1. stock \in Int /\ stock' \in Int /\ stock' <= stock
  BY DEF ZohoWithin, NothingAdded
<1>2. PICK q \in Int : q = callers[c].quantity
  BY DEF CallerWithin
<1>3. PICK reference : reference = Reference(q)
  OBVIOUS
<1>4. q > 0 /\ Made(c)' => Fits(q, reference)'
  BY <1>2, <1>3, FitsKept DEF CallerWithin, Made
<1>5. callers'[c].pc = "read" => callers'[c].seen \in Int /\ callers'[c].seen >= stock'
  BY <1>1 DEF CallerWithin, Made
<1>6. Reference(q)' = reference
  BY <1>3 DEF Reference, OperationId, Human
<1>7. QED
  BY <1>2, <1>3, <1>4, <1>5, <1>6 DEF CallerWithin, Reference

LEMMA InstanceKept ==
  ASSUME Records, Modest, Shape, Shape', ZohoWithin, NothingAdded, OrdersKept,
         NEW e \in Executors, InstanceWithin(e), executors'[e] = executors[e]
  PROVE  InstanceWithin(e)'
<1>1. stock \in Int /\ stock' \in Int /\ stock' <= stock
  BY DEF ZohoWithin, NothingAdded
<1>2. PICK q, reference : q = executors[e].quantity /\ reference = Operation(e)
  OBVIOUS
<1>3. ASSUME executors[e].pc \in {"exchange", "lookup", "create", "creating"}
      PROVE  q \in Nat \ {0} /\ Fits(q, reference)'
  <2>1. q \in Nat \ {0} /\ Fits(q, reference)
    BY <1>2, <1>3 DEF InstanceWithin
  <2>2. q \in Int
    BY <2>1
  <2>3. QED
    BY <2>1, <2>2, FitsKept
<1>4. Operation(e)' = reference
  BY <1>2, OperationKept
<1>5. executors[e].pc = "plan" => executors[e].seen \in Int /\ executors[e].seen >= stock'
  BY <1>1 DEF InstanceWithin
<1>6. executors[e].pc \in {"item", "plan"} =>
        executors[e].quantity = executors[e].message.quantity
  BY DEF InstanceWithin
<1>7. Fits(q, reference)' => Fits(executors[e].quantity, Operation(e))'
  BY <1>2, <1>4 DEF Fits, Within
<1>8. QED
  BY <1>2, <1>3, <1>4, <1>5, <1>6, <1>7 DEF InstanceWithin

\* While a request is under way it stays the only one.
LEMMA OneRequestKept ==
  ASSUME NoRepeatInv, OneSession, OneRequest, [Next]_vars, Known # {},
         \A c \in Callers : callers'[c].quantity = callers[c].quantity
  PROVE  OneRequest'
<1>1. Known' \subseteq Known
  BY KnownNext, SessionWaits DEF Send, NoRepeatInv
<1>2. QED
  BY <1>1 DEF OneRequest

\* An instance adds nothing to the orders; at most it submits one.
LEMMA InstanceAdds ==
  ASSUME Records, Modest, RequestInv, ZohoWithin, Shape',
         NEW e \in Executors, ExecutorStep(e)
  PROVE  NothingAdded
<1>1. stock' = stock /\ stock \in Int
  BY DEF ExecutorStep, Accept, ReadItem, ReadOrders, Exchange, Lookup, Create,
         CreateGivenUp, Submit, zoho, ZohoWithin
<1>2. CASE UNCHANGED orders
  <2>1. Incoming' = Incoming /\ OpenOrders'
    BY <1>2 DEF Incoming, Book, Lines, ZohoWithin, OpenOrders, OrderIsOpen
  <2>2. Incoming \in Nat
    BY BookType DEF ZohoWithin, RequestInv
  <2>3. QED
    BY <1>1, <2>1, <2>2 DEF NothingAdded
<1>3. CASE ~ UNCHANGED orders
  <2>1. Submit(e)
    BY <1>3 DEF ExecutorStep, Accept, ReadItem, ReadOrders, Exchange, Lookup, Create,
                CreateGivenUp, zoho
  <2>2. PICK i : i = executors[e].order
    OBVIOUS
  <2>3. /\ i \in DOMAIN orders /\ orders[i].status = "draft"
        /\ orders' = [orders EXCEPT ![i].status = "pending_approval"]
    BY <1>3, <2>1, <2>2 DEF Submit, RequestInv, QuantitiesInv, InstancesInv, InstanceInv
  <2>4. OpenOrders' /\ Incoming' <= Incoming
    BY <2>3, StatusAddsNothing DEF ZohoWithin, RequestInv
  <2>5. QED
    BY <1>1, <2>4 DEF NothingAdded
<1>4. QED
  BY <1>2, <1>3

\* What an instance goes on with has room.
LEMMA InstanceGoesOn ==
  ASSUME Records, Modest, AdviceOnly, NoRepeatInv, WithinInv, Shape', OrdersKept,
         NothingAdded, NEW e \in Executors, GoesOn(e)
  PROVE  InstanceWithin(e)'
<1>1. /\ Shape /\ ZohoWithin /\ InstanceWithin(e) /\ Busy(e)
      /\ executors'[e].message = executors[e].message
      /\ stock \in Int /\ stock' \in Int /\ stock' <= stock
  BY DEF NoRepeatInv, WithinInv, ZohoWithin, NothingAdded, GoesOn
<1>2. ASSUME NEW q \in Nat \ {0}, NEW reference, Fits(q, reference),
             executors'[e].quantity = q, Operation(e)' = reference,
             executors'[e].pc \in {"exchange", "lookup", "create", "creating"}
      PROVE  InstanceWithin(e)'
  <2>1. q \in Int
    OBVIOUS
  <2>2. Fits(q, reference)'
    BY <1>1, <1>2, <2>1, FitsKept
  <2>3. Fits(executors[e].quantity, Operation(e))'
    BY <1>2, <2>2 DEF Fits, Within
  <2>4. QED
    BY <1>2, <2>3 DEF InstanceWithin
<1>3. ASSUME executors[e].pc \in {"exchange", "lookup", "create"},
             executors'[e].quantity = executors[e].quantity,
             executors'[e].pc \in {"lookup", "create", "creating"}
      PROVE  InstanceWithin(e)'
  <2>1. PICK q, reference : q = executors[e].quantity /\ reference = Operation(e)
    OBVIOUS
  <2>2. q \in Nat \ {0} /\ Fits(q, reference)
    BY <1>1, <1>3, <2>1 DEF InstanceWithin
  <2>3. Operation(e)' = reference
    BY <1>1, <1>3, <2>1, OperationKept
  <2>4. QED
    BY <1>2, <1>3, <2>1, <2>2, <2>3
<1>4. CASE executors[e].pc = "item"
  <2>1. executors[e].quantity = executors[e].message.quantity
    BY <1>1, <1>4 DEF InstanceWithin
  <2>2. CASE executors'[e].pc = "plan"
    <3>1. executors'[e].quantity = executors[e].quantity /\ executors'[e].seen = stock
      BY <1>4, <2>2 DEF GoesOn, Plans, Advances, Writes
    <3>2. QED
      BY <1>1, <2>1, <2>2, <3>1 DEF InstanceWithin
  <2>3. CASE executors'[e].pc # "plan"
    <3>1. /\ executors'[e].quantity = executors[e].quantity
          /\ executors'[e].pc = "exchange" /\ Given(executors[e].quantity)
      BY <1>4, <2>3 DEF GoesOn, Plans, Advances, Writes
    <3>2. executors[e].message \in Known
      BY <1>1 DEF Known
    <3>3. PICK c \in Callers : executors[e].quantity = callers[c].quantity
      BY <2>1, <3>2 DEF NoRepeatInv, MessagesInv, MessageInv, WithinInv, OneRequest
    <3>4. Made(c)
      BY <3>2, SessionWaits DEF AdviceOnly, Made
    <3>5. PICK q, reference : q = executors[e].quantity /\ reference = Operation(e)
      OBVIOUS
    <3>6. q \in Nat \ {0} /\ Fits(q, Reference(q))
      BY <3>1, <3>3, <3>4, <3>5 DEF WithinInv, CallerWithin, Given
    <3>7. reference = Reference(q)
      BY <1>1, <2>1, <3>5, OperationOfRequest DEF NoRepeatInv
    <3>8. Operation(e)' = reference
      BY <1>1, <3>1, <3>5, OperationKept
    <3>9. QED
      BY <1>2, <3>1, <3>5, <3>6, <3>7, <3>8
  <2>4. QED
    BY <2>2, <2>3
<1>5. CASE executors[e].pc = "plan"
  <2>1. PICK seen \in Int : seen = executors[e].seen /\ seen >= stock
    BY <1>1, <1>5 DEF InstanceWithin
  <2>2. /\ executors'[e].pc = "exchange"
        /\ executors'[e].quantity = PlanFor(seen).quantity
        /\ PlanFor(seen).quantity > 0
    BY <1>5, <2>1 DEF GoesOn, Plans, Advances, Writes
  <2>3. PICK q : q = PlanFor(seen).quantity
    OBVIOUS
  <2>4. q \in Nat \ {0} /\ Within(q)
    BY <1>1, <2>1, <2>2, <2>3, AdviceFits
  <2>5. PICK reference : reference = Operation(e)'
    OBVIOUS
  <2>6. Fits(q, reference)
    BY <2>4 DEF Fits
  <2>7. QED
    BY <1>2, <2>2, <2>3, <2>4, <2>5, <2>6
<1>6. CASE executors[e].pc \notin {"item", "plan"}
  BY <1>3, <1>6 DEF GoesOn, Plans, Advances, Writes
<1>7. QED
  BY <1>4, <1>5, <1>6

LEMMA WithinExecutor ==
  ASSUME Records, Modest, AdviceOnly, NoRepeatInv, RequestInv, WithinInv, [Next]_vars,
         Shape', OrdersKept, NEW e \in Executors, ExecutorStep(e)
  PROVE  WithinInv'
<1>1. NothingAdded /\ Shape /\ ZohoWithin
  BY InstanceAdds DEF WithinInv, NoRepeatInv
<1>2. \A f \in Executors : f # e => executors'[f] = executors[f]
  BY <1>1, ExecutorShape
<1>3. Takes(e) \/ Leaves(e) \/ GoesOn(e)
  BY <1>1, ExecutorEffect
<1>4. Known # {}
  BY <1>3 DEF Takes, Leaves, GoesOn, Known
<1>5. \A c \in Callers : callers[c].pc = "sent"
  BY <1>4, SessionWaits DEF AdviceOnly
<1>6. \A c \in Callers :
        /\ callers'[c].quantity = callers[c].quantity
        /\ callers'[c] = callers[c] \/ (Made(c) /\ Made(c)')
  <2>1. CASE UNCHANGED callers
    BY <2>1
  <2>2. CASE Leaves(e)
    <3>1. PICK pc, order : pc \in {"answered", "failed"} /\ Reply(e, pc, order)
      BY <2>2 DEF Leaves
    <3>2. QED
      BY <1>1, <1>5, <3>1, ReplyFacts DEF Made
  <2>3. QED
    BY <1>3, <2>1, <2>2 DEF Takes, GoesOn
<1>7. OneRequest'
  BY <1>4, <1>6, OneRequestKept DEF AdviceOnly, WithinInv
<1>8. ASSUME NEW w \in writes PROVE w.by # e
  <2>1. executors[w.by].pc = "creating"
    BY DEF NoRepeatInv, AwaitedInv, Matched, Awaited
  <2>2. executors[e].pc # "creating"
    BY DEF ExecutorStep, Accept, ReadItem, ReadOrders, Exchange, Lookup, Create,
           CreateGivenUp, Submit, AdviceOnly
  <2>3. QED
    BY <2>1, <2>2
<1>9. WritesWithin'
  <2>1. ASSUME NEW w \in writes PROVE w.quantity = executors'[w.by].quantity
    BY <1>1, <1>2, <1>8 DEF WithinInv, WritesWithin, Shape, WritesShape
  <2>2. ASSUME NEW w \in writes', w \notin writes
        PROVE  w.quantity = executors'[w.by].quantity
    <3>1. GoesOn(e) /\ Writes(e)
      BY <1>3, <2>2 DEF Takes, Leaves, GoesOn, Plans, Advances
    <3>2. w.by = e /\ w.quantity = executors[e].quantity
      BY <2>2, <3>1 DEF Writes
    <3>3. QED
      BY <3>1, <3>2 DEF Writes
  <2>3. QED
    BY <2>1, <2>2 DEF WritesWithin
<1>10. InstanceWithin(e)'
  <2>1. CASE Takes(e)
    BY <2>1 DEF Takes, InstanceWithin
  <2>2. CASE Leaves(e)
    BY <2>2 DEF Leaves, Free, InstanceWithin
  <2>3. CASE GoesOn(e)
    BY <1>1, <2>3, InstanceGoesOn
  <2>4. QED
    BY <1>3, <2>1, <2>2, <2>3
<1>11. ASSUME NEW f \in Executors PROVE InstanceWithin(f)'
  BY <1>1, <1>2, <1>10, InstanceKept DEF WithinInv
<1>12. ASSUME NEW c \in Callers PROVE CallerWithin(c)'
  BY <1>1, <1>6, CallerKept DEF WithinInv
<1>13. ZohoWithin'
  BY <1>1, ZohoKept
<1>14. QED
  BY <1>7, <1>9, <1>11, <1>12, <1>13 DEF WithinInv

\* The create of an instance has room: its lookup found nothing.
LEMMA WriteFits ==
  ASSUME NoRepeatInv, OneSession, WithinInv, NEW w \in writes
  PROVE  /\ Awaited(w) /\ w.by \in Executors
         /\ w.reference = Operation(w.by)
         /\ w.quantity = executors[w.by].quantity
         /\ w.quantity \in Nat \ {0} /\ Within(w.quantity)
         /\ \A v \in writes : v = w
         /\ \A f \in Executors : f # w.by => ~ Busy(f)
<1>1. Awaited(w) /\ w.by \in Executors
  BY DEF NoRepeatInv, AwaitedInv, Matched, Shape, WritesShape
<1>2. w.reference = Operation(w.by)
  BY <1>1 DEF NoRepeatInv, DeliveryInv, OwnWrites, OwnWrite, Awaited
<1>3. \A f \in Executors : f # w.by => ~ Busy(f)
  BY <1>1 DEF NoRepeatInv, Alone, SessionInv, OneAtATime, Awaited, Busy
<1>4. \A v \in writes : v = w
  BY <1>1, <1>3 DEF NoRepeatInv, AwaitedInv, Matched, Awaited, Busy, Shape, WritesShape
<1>5. w.quantity = executors[w.by].quantity
  BY DEF WithinInv, WritesWithin
<1>6. executors[w.by].pc = "creating"
  BY <1>1 DEF Awaited
<1>7. w.quantity \in Nat \ {0} /\ Fits(w.quantity, Operation(w.by))
  BY <1>1, <1>5, <1>6 DEF WithinInv, InstanceWithin
<1>8. Existing(Operation(w.by)) = {}
  BY <1>1, <1>6 DEF NoRepeatInv, LookedUpInv, LookedUp, AwaitedInv, Existing
<1>9. QED
  BY <1>1, <1>2, <1>3, <1>4, <1>5, <1>7, <1>8 DEF Fits

LEMMA WithinCarriedOut ==
  ASSUME Records, Modest, AdviceOnly, NoRepeatInv, RequestInv, WithinInv, [Next]_vars,
         Shape', OrdersKept, NEW w \in writes, CarryOut(w)
  PROVE  WithinInv'
<1>1. PICK e \in Executors, q \in Nat \ {0} : e = w.by /\ q = w.quantity
  BY WriteFits DEF AdviceOnly
<1>2. /\ Awaited(w) /\ w.reference = Operation(e)
      /\ q = executors[e].quantity /\ Within(q)
      /\ \A f \in Executors : f # e => ~ Busy(f)
  BY <1>1, WriteFits DEF AdviceOnly
<1>3. /\ Shape /\ Busy(e) /\ Known # {}
  BY <1>1, <1>2 DEF NoRepeatInv, Awaited, Busy, Known
<1>4. /\ writes' = {}
      /\ \A f \in Executors : f # e => executors'[f] = executors[f]
      /\ executors'[e].pc \in {"free", "submit"}
  <2>1. /\ writes' = writes \ {w}
        /\ \A f \in Executors : f # e => executors'[f] = executors[f]
        /\ executors'[e].pc \in {"free", "submit"}
    BY <1>1, <1>2, <1>3, AnswerEffect DEF Free
  <2>2. \A v \in writes : v = w
    BY WriteFits DEF AdviceOnly
  <2>3. QED
    BY <2>1, <2>2
<1>5. \A c \in Callers : /\ callers[c].pc = "sent"
                         /\ callers'[c].quantity = callers[c].quantity
                         /\ callers'[c].pc \in {"sent", "answered", "failed"}
  <2>1. \A c \in Callers : callers[c].pc = "sent"
    BY <1>3, SessionWaits DEF AdviceOnly
  <2>2. CASE UNCHANGED callers
    BY <2>1, <2>2
  <2>3. CASE Failed(w.by)
    BY <1>1, <1>3, <2>1, <2>3, ReplyFacts DEF Failed
  <2>4. QED
    BY <1>2, <1>3, <2>2, <2>3, AnswerEffect
<1>6. ZohoWithin'
  <2>1. PICK order : order = NewOrder(w)
    OBVIOUS
  <2>2. /\ order.status = "draft" /\ order.received = 0 /\ order.quantity = q
        /\ orders' = Append(orders, order)
    BY <1>1, <2>1 DEF NewOrder, CarryOut
  <2>3. OrderIsOpen(order)
    BY <2>2 DEF OrderIsOpen
  <2>4. PICK n \in Nat : DOMAIN orders = 1 .. n /\ Len(orders) = n
    BY <1>3 DEF Shape, OrdersShape
  <2>5. /\ DOMAIN orders' = 1 .. n + 1 /\ orders'[n + 1] = order
        /\ \A i \in 1 .. n : orders'[i] = orders[i]
    BY <1>3, <2>2, <2>4 DEF Shape, OrdersShape
  <2>6. OpenOrders'
    BY <2>3, <2>4, <2>5 DEF WithinInv, ZohoWithin, OpenOrders, OrderIsOpen
  <2>7. Incoming' = Incoming + q
    BY <1>3, <2>2, <2>3, <2>6, NewOrderAdds DEF WithinInv, ZohoWithin
  <2>8. Incoming \in Nat
    BY <1>3, BookType DEF WithinInv, ZohoWithin
  <2>9. stock' = stock /\ stock \in Int
    BY DEF CarryOut, WithinInv, ZohoWithin
  <2>10. Within(0)'
    BY <1>2, <2>7, <2>8, <2>9 DEF Within, Modest
  <2>11. QED
    BY <2>6, <2>9, <2>10 DEF ZohoWithin
<1>7. ASSUME NEW f \in Executors PROVE InstanceWithin(f)'
  BY <1>2, <1>4 DEF InstanceWithin, Busy
<1>8. ASSUME NEW c \in Callers PROVE CallerWithin(c)'
  <2>1. callers[c].quantity \in Int
    BY DEF WithinInv, CallerWithin
  <2>2. ASSUME callers[c].quantity > 0
        PROVE  Existing(Reference(callers[c].quantity))' # {}
    <3>1. executors[e].message \in Known
      BY <1>3 DEF Known
    <3>2. executors[e].message.quantity = callers[c].quantity
      BY <3>1 DEF WithinInv, OneRequest
    <3>3. executors[e].quantity = executors[e].message.quantity
      BY <1>3, <2>1, <2>2, <3>2
         DEF RequestInv, QuantitiesInv, InstancesInv, InstanceInv, Given
    <3>4. Operation(e) = Reference(callers[c].quantity)
      BY <1>3, <3>2, <3>3, OperationOfRequest DEF NoRepeatInv
    <3>5. PICK i \in DOMAIN orders' : orders'[i].reference = Reference(callers[c].quantity)
      BY <1>2, <1>3, <3>4, CarryOutFacts
    <3>6. QED
      BY <1>5, <3>5 DEF Existing, Reference, OperationId
  <2>3. QED
    BY <1>5, <2>1, <2>2 DEF CallerWithin, Fits
<1>9. OneRequest'
  BY <1>3, <1>5, OneRequestKept DEF AdviceOnly, WithinInv
<1>10. WritesWithin'
  BY <1>4 DEF WritesWithin
<1>11. QED
  BY <1>6, <1>7, <1>8, <1>9, <1>10 DEF WithinInv

LEMMA WithinRefused ==
  ASSUME Records, Modest, AdviceOnly, NoRepeatInv, WithinInv, [Next]_vars,
         Shape', OrdersKept, NothingAdded, NEW w \in writes, Refuse(w)
  PROVE  WithinInv'
<1>1. PICK e \in Executors : e = w.by
  BY WriteFits DEF AdviceOnly
<1>2. /\ Awaited(w) /\ Shape /\ ZohoWithin /\ Busy(e) /\ Known # {}
  BY <1>1, WriteFits DEF AdviceOnly, NoRepeatInv, WithinInv, Awaited, Busy, Known
<1>3. /\ writes' = writes \ {w} /\ Reply(e, "failed", None)
      /\ executors'[e].pc = "free"
      /\ \A f \in Executors : f # e => executors'[f] = executors[f]
  BY <1>1, <1>2, ReplyFacts DEF Refuse, Failed, Free
<1>4. \A c \in Callers :
        /\ callers'[c].quantity = callers[c].quantity
        /\ callers'[c] = callers[c] \/ (Made(c) /\ Made(c)')
  <2>1. \A c \in Callers : callers[c].pc = "sent"
    BY <1>2, SessionWaits DEF AdviceOnly
  <2>2. QED
    BY <1>2, <1>3, <2>1, ReplyFacts DEF Made
<1>5. OneRequest'
  BY <1>2, <1>4, OneRequestKept DEF AdviceOnly, WithinInv
<1>6. WritesWithin'
  <2>1. \A v \in writes : v = w
    BY WriteFits DEF AdviceOnly
  <2>2. QED
    BY <1>3, <2>1 DEF WritesWithin
<1>7. ASSUME NEW f \in Executors PROVE InstanceWithin(f)'
  <2>1. CASE f = e
    BY <1>3, <2>1 DEF InstanceWithin
  <2>2. CASE f # e
    BY <1>2, <1>3, <2>2, InstanceKept DEF WithinInv
  <2>3. QED
    BY <2>1, <2>2
<1>8. ASSUME NEW c \in Callers PROVE CallerWithin(c)'
  BY <1>2, <1>4, CallerKept DEF WithinInv
<1>9. ZohoWithin'
  BY <1>2, ZohoKept
<1>10. QED
  BY <1>5, <1>6, <1>7, <1>8, <1>9 DEF WithinInv

LEMMA WithinZoho ==
  ASSUME Records, Modest, AdviceOnly, NoRepeatInv, RequestInv, WithinInv, [Next]_vars,
         Shape', OrdersKept, ZohoStep
  PROVE  WithinInv'
<1>1. Shape /\ ZohoWithin /\ stock \in Int
  BY DEF NoRepeatInv, WithinInv, ZohoWithin
<1>2. Incoming \in Nat
  BY <1>1, BookType DEF ZohoWithin
<1>3. ASSUME UNCHANGED orders, stock' \in Int, stock' <= stock PROVE NothingAdded
  <2>1. Incoming' = Incoming /\ OpenOrders'
    BY <1>1, <1>3 DEF Incoming, Book, Lines, ZohoWithin, OpenOrders, OrderIsOpen
  <2>2. QED
    BY <1>2, <1>3, <2>1 DEF NothingAdded
<1>4. ASSUME NothingAdded, UNCHANGED <<writes, messages, callers, executors>>
      PROVE  WithinInv'
  <2>1. ASSUME NEW f \in Executors PROVE InstanceWithin(f)'
    BY <1>1, <1>4, InstanceKept DEF WithinInv
  <2>2. ASSUME NEW c \in Callers PROVE CallerWithin(c)'
    BY <1>1, <1>4, CallerKept DEF WithinInv
  <2>3. ZohoWithin'
    BY <1>1, <1>4, ZohoKept
  <2>4. OneRequest' /\ WritesWithin'
    BY <1>4 DEF WithinInv, OneRequest, WritesWithin, Known, Busy
  <2>5. QED
    BY <2>1, <2>2, <2>3, <2>4 DEF WithinInv
<1>5. ASSUME NEW w \in writes, CarryOut(w) PROVE WithinInv'
  BY <1>5, WithinCarriedOut
<1>6. ASSUME NEW w \in writes, Refuse(w) PROVE WithinInv'
  <2>1. NothingAdded
    BY <1>1, <1>3, <1>6 DEF Refuse, zoho
  <2>2. QED
    BY <1>6, <2>1, WithinRefused
<1>7. CASE Sell
  BY <1>1, <1>3, <1>4, <1>7 DEF Sell
<1>8. ASSUME NEW i \in DOMAIN orders, Cancel(i) PROVE WithinInv'
  <2>1. /\ orders[i].status # "cancelled" /\ stock' = stock
        /\ orders' = [orders EXCEPT ![i].status = "cancelled"]
    BY <1>8 DEF Cancel, Landed
  <2>2. OpenOrders' /\ Incoming' <= Incoming
    BY <1>1, <2>1, StatusAddsNothing DEF ZohoWithin
  <2>3. NothingAdded
    BY <1>1, <2>1, <2>2 DEF NothingAdded
  <2>4. QED
    BY <1>4, <1>8, <2>3 DEF Cancel
<1>9. ASSUME NEW i \in DOMAIN orders, Receive(i) PROVE FALSE
  BY <1>9 DEF Receive, AdviceOnly
<1>10. QED
  BY <1>5, <1>6, <1>7, <1>8, <1>9 DEF ZohoStep

LEMMA WithinNext ==
  ASSUME Records, Modest, AdviceOnly, NoRepeatInv, RequestInv, WithinInv, [Next]_vars
  PROVE  WithinInv'
<1>1. Shape' /\ OrdersKept
  BY ShapeNext DEF NoRepeatInv
<1>2. CASE UNCHANGED vars
  BY <1>2 DEF vars, WithinInv, ZohoWithin, OpenOrders, OrderIsOpen, Within, Incoming, Book,
              Lines, OneRequest, WritesWithin, CallerWithin, InstanceWithin, Known, Busy,
              Made, Fits, Existing, Operation, Reference
<1>3. CASE Next
  BY <1>1, <1>3, WithinCaller, WithinExecutor, WithinZoho DEF Next
<1>4. QED
  BY <1>2, <1>3

LEMMA InitWithin ==
  ASSUME Records, Modest
  PROVE  Init => WithinInv
<1> SUFFICES ASSUME Init PROVE WithinInv
  OBVIOUS
<1>1. Shape
  BY InitShape
<1>2. OpenOrders
  BY DEF Init, OpenOrders
<1>3. Incoming = 0
  <2>1. PICK f : f = [i \in DOMAIN orders \ Landed |-> orders[i].quantity]
    OBVIOUS
  <2>2. DOMAIN f = {}
    BY <2>1 DEF Init
  <2>3. Inbound = SumFunctionOnSet(f, {})
    BY <2>1, <2>2 DEF Inbound, SumFunction
  <2>4. R!SumFunctionOnSet(f, {}) = 0
    BY RAssumptions, R!SumNothing
  <2>5. QED
    BY <1>1, <1>2, <2>3, <2>4, SameSum, InboundIsIncoming
<1>4. ZohoWithin
  BY <1>2, <1>3 DEF Init, ZohoWithin, Within, Modest
<1>5. Known = {} /\ writes = {}
  BY DEF Init, Known, Busy, Free
<1>6. (\A c \in Callers : CallerWithin(c)) /\ \A e \in Executors : InstanceWithin(e)
  BY DEF Init, Idle, Free, CallerWithin, InstanceWithin, Made
<1>7. QED
  BY <1>4, <1>5, <1>6 DEF WithinInv, OneRequest, WritesWithin

\* Who orders only what was advised never has more available and inbound than the
\* target, whatever is sold, cancelled or refused meanwhile and however often the
\* request is sent (incoming_quantity, create_draft).
THEOREM AdviceStaysWithinTarget ==
  ASSUME Records, Modest, AdviceOnly
  PROVE  Spec => []OrderedWithinTarget
<1> DEFINE Inv == NoRepeatInv /\ RequestInv /\ WithinInv
<1>1. Init => WithinInv
  BY InitWithin
<1>2. NoRepeatInv /\ RequestInv /\ WithinInv /\ [Next]_vars => WithinInv'
  BY WithinNext
<1>3. NoRepeatInv /\ WithinInv => OrderedWithinTarget
  <2> SUFFICES ASSUME NoRepeatInv, WithinInv PROVE OrderedWithinTarget
    OBVIOUS
  <2>1. Shape /\ OpenOrders /\ stock + Incoming + 0 <= Policy.target_stock /\ stock \in Int
    BY DEF NoRepeatInv, WithinInv, ZohoWithin, Within
  <2>2. Inbound = Incoming /\ Incoming \in Nat
    BY <2>1, InboundIsIncoming, BookType
  <2>3. QED
    BY <2>1, <2>2 DEF OrderedWithinTarget, Modest
<1>4. Spec => []NoRepeatInv
  BY NoRepeats DEF AdviceOnly
<1>5. Spec => []RequestInv
  BY RequestsHold
<1>6. QED
  BY <1>1, <1>2, <1>3, <1>4, <1>5, PTL DEF Spec
=============================================================================
