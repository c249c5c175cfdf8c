--------------------------- MODULE ZohoEmulatorProofs ---------------------------
(***************************************************************************)
(* Proofs about ZohoEmulator for any calls, keys and approvers and any      *)
(* number of restarts.                                                     *)
(***************************************************************************)
EXTENDS ZohoEmulatorProperties, FiniteSetTheorems, SequenceTheorems, TLAPS

-----------------------------------------------------------------------------
\* What a step does to the call or the human it is a step of.

\* The call's record after the step.
Becomes(c, pc, key, waiting, id, order) ==
  calls'[c] = [pc |-> pc, key |-> key, waiting |-> waiting, id |-> id, order |-> order]
Moves(c, pc) ==
  Becomes(c, pc, calls[c].key, calls[c].waiting, calls[c].id, calls[c].order)
Ends(c) ==
  \E pc \in {"done", "failed"} : Becomes(c, pc, None, TRUE, 0, 0)

\* A call that ended has forgotten all but how it ended.
LEMMA EndRecord ==
  ASSUME NEW pc \in CallPCs
  PROVE  End(pc) = [pc |-> pc, key |-> None, waiting |-> TRUE, id |-> 0, order |-> 0]
<1>1. IdleCall \in Call
  BY DEF IdleCall, Call, CallPCs
<1>2. /\ IdleCall.key = None /\ IdleCall.waiting = TRUE
      /\ IdleCall.id = 0 /\ IdleCall.order = 0
  BY DEF IdleCall
<1>3. ASSUME NEW r \in Call
      PROVE  [r EXCEPT !.pc = pc] = [pc |-> pc, key |-> r.key, waiting |-> r.waiting,
                                     id |-> r.id, order |-> r.order]
  BY <1>3 DEF Call
<1>4. End(pc) = [pc |-> pc, key |-> IdleCall.key, waiting |-> IdleCall.waiting,
                 id |-> IdleCall.id, order |-> IdleCall.order]
  BY <1>1, <1>3 DEF End
<1> QED
  BY <1>2, <1>4

\* An answer finds a client that waits, or the call fails.
LEMMA AnswerMoves ==
  ASSUME calls \in [Calls -> Call], NEW c \in Calls, NEW state, Answer(c, state)
  PROVE  calls'[c] = state \/ Ends(c)
<1>1. calls'[c] = state \/ calls'[c] = End("failed")
  BY DEF Answer, After
<1> QED
  BY <1>1, EndRecord DEF Ends, CallPCs, Becomes

\* The record of a call whose place alone changes.
LEMMA AtRecord ==
  ASSUME calls \in [Calls -> Call], NEW c \in Calls, NEW pc
  PROVE  /\ At(c, pc) = [pc |-> pc, key |-> calls[c].key,
                         waiting |-> calls[c].waiting, id |-> calls[c].id,
                         order |-> calls[c].order]
         /\ [calls EXCEPT ![c].pc = pc][c] = At(c, pc)
  BY DEF At, Call

\* Every action of a call, but for what it does to the emulator.
LEMMA CallMoves ==
  ASSUME calls \in [Calls -> Call], NEW c \in Calls
  PROVE  /\ \A k \in Keys : CallTool(c, k) =>
              Becomes(c, "token", k, calls[c].waiting, calls[c].id, calls[c].order)
         /\ GiveUp(c) =>
              Becomes(c, calls[c].pc, calls[c].key, FALSE, calls[c].id, calls[c].order)
         /\ OauthToken(c) => Moves(c, "create") \/ Ends(c)
         /\ RefuseCreate(c) \/ RefuseSubmit(c) => Ends(c)
         /\ Replay(c) =>
              \/ Becomes(c, "submit", calls[c].key, calls[c].waiting,
                         IDEMPOTENCY[calls[c].key], calls[c].order)
              \/ Ends(c)
         /\ CheckCreate(c) => Moves(c, "number")
         /\ NumberOrder(c) =>
              Becomes(c, "insert", calls[c].key, calls[c].waiting,
                      Cardinality(DOMAIN PURCHASE_ORDERS) + 1, calls[c].order)
         /\ InsertOrder(c) => Moves(c, "remember")
         /\ RememberKey(c) => Moves(c, "submit") \/ Ends(c)
         /\ CheckSubmit(c) =>
              \/ /\ Find(calls[c].id).status = "draft"
                 /\ Becomes(c, "submitted", calls[c].key, calls[c].waiting, calls[c].id,
                            PURCHASE_ORDERS[calls[c].id])
              \/ Ends(c)
         /\ MarkSubmitted(c) => Moves(c, "pending")
         /\ MarkPending(c) => Ends(c)
<1> USE DEF Becomes
<1>1. ASSUME NEW k \in Keys, CallTool(c, k)
      PROVE  Becomes(c, "token", k, calls[c].waiting, calls[c].id, calls[c].order)
  BY <1>1 DEF CallTool, Call
<1>2. ASSUME GiveUp(c)
      PROVE  Becomes(c, calls[c].pc, calls[c].key, FALSE, calls[c].id, calls[c].order)
  BY <1>2 DEF GiveUp, Call
<1>3. ASSUME OauthToken(c)
      PROVE  Moves(c, "create") \/ Ends(c)
  BY <1>3, AtRecord, AnswerMoves DEF OauthToken, Moves
<1>4. ASSUME RefuseCreate(c) \/ RefuseSubmit(c)
      PROVE  Ends(c)
  BY <1>4, EndRecord DEF RefuseCreate, RefuseSubmit, Fail, Ends, CallPCs
<1>5. ASSUME Replay(c)
      PROVE  \/ Becomes(c, "submit", calls[c].key, calls[c].waiting,
                        IDEMPOTENCY[calls[c].key], calls[c].order)
             \/ Ends(c)
  <2> DEFINE state == [At(c, "submit") EXCEPT !.id = IDEMPOTENCY[calls[c].key]]
  <2>1. calls'[c] = state \/ Ends(c)
    BY <1>5, AnswerMoves DEF Replay
  <2>2. state = [pc |-> "submit", key |-> calls[c].key, waiting |-> calls[c].waiting,
                 id |-> IDEMPOTENCY[calls[c].key], order |-> calls[c].order]
    BY AtRecord
  <2> QED
    BY <2>1, <2>2
<1>6. ASSUME CheckCreate(c)
      PROVE  Moves(c, "number")
  BY <1>6, AtRecord DEF CheckCreate, Moves
<1>7. ASSUME NumberOrder(c)
      PROVE  Becomes(c, "insert", calls[c].key, calls[c].waiting,
                     Cardinality(DOMAIN PURCHASE_ORDERS) + 1, calls[c].order)
  <2> DEFINE n == Cardinality(DOMAIN PURCHASE_ORDERS) + 1
  <2>1. calls' = [calls EXCEPT ![c].pc = "insert", ![c].id = n]
    BY <1>7 DEF NumberOrder
  <2> HIDE DEF n
  <2>2. Becomes(c, "insert", calls[c].key, calls[c].waiting, n, calls[c].order)
    BY <2>1 DEF Call
  <2> QED
    BY <2>2 DEF n
<1>8. ASSUME InsertOrder(c)
      PROVE  Moves(c, "remember")
  BY <1>8, AtRecord DEF InsertOrder, Moves
<1>9. ASSUME RememberKey(c)
      PROVE  Moves(c, "submit") \/ Ends(c)
  BY <1>9, AtRecord, AnswerMoves DEF RememberKey, Moves
<1>10. ASSUME CheckSubmit(c)
       PROVE  \/ /\ Find(calls[c].id).status = "draft"
                 /\ Becomes(c, "submitted", calls[c].key, calls[c].waiting, calls[c].id,
                            PURCHASE_ORDERS[calls[c].id])
              \/ Ends(c)
  <2>1. CASE Find(calls[c].id).status = "draft"
    <3> DEFINE i == PURCHASE_ORDERS[calls[c].id]
    <3>1. calls' = [calls EXCEPT ![c].pc = "submitted", ![c].order = i]
      BY <1>10, <2>1 DEF CheckSubmit
    <3> HIDE DEF i
    <3>2. Becomes(c, "submitted", calls[c].key, calls[c].waiting, calls[c].id, i)
      BY <3>1 DEF Call
    <3> QED
      BY <2>1, <3>2 DEF i
  <2>2. CASE Find(calls[c].id).status # "draft"
    <3>1. Answer(c, End("done"))
      BY <1>10, <2>2 DEF CheckSubmit
    <3> QED
      BY <3>1, AnswerMoves, EndRecord DEF Ends, CallPCs
  <2> QED
    BY <2>1, <2>2
<1>11. ASSUME MarkSubmitted(c)
       PROVE  Moves(c, "pending")
  BY <1>11, AtRecord DEF MarkSubmitted, Moves
<1>12. ASSUME MarkPending(c)
       PROVE  Ends(c)
  <2>1. Answer(c, End("done"))
    BY <1>12 DEF MarkPending
  <2> QED
    BY <2>1, AnswerMoves, EndRecord DEF Ends, CallPCs
<1> QED
  BY <1>1, <1>2, <1>3, <1>4, <1>5, <1>6, <1>7, <1>8, <1>9, <1>10, <1>11, <1>12

\* A step of a call writes no other call and no human.
CallStep(c) == Serve(c) \/ GiveUp(c) \/ \E k \in Keys : CallTool(c, k)

\* Whatever a call does, the others are left alone.
LEMMA OtherCalls ==
  ASSUME calls \in [Calls -> Call], NEW c \in Calls, CallStep(c)
  PROVE  /\ \A d \in Calls : d # c => calls'[d] = calls[d]
         /\ calls' = [calls EXCEPT ![c] = calls'[c]]
         /\ humans' = humans /\ SESSIONS' = SESSIONS /\ restarts' = restarts
<1>1. CASE OauthToken(c) \/ Replay(c) \/ RememberKey(c) \/ MarkPending(c)
  BY <1>1 DEF OauthToken, Replay, RememberKey, MarkPending, Answer, access
<1>2. CASE RefuseCreate(c) \/ RefuseSubmit(c)
  BY <1>2 DEF RefuseCreate, RefuseSubmit, Fail, access
<1>3. CASE CheckCreate(c) \/ InsertOrder(c) \/ MarkSubmitted(c) \/ GiveUp(c)
  BY <1>3 DEF CheckCreate, InsertOrder, MarkSubmitted, GiveUp, access
<1>4. CASE NumberOrder(c) \/ \E k \in Keys : CallTool(c, k)
  BY <1>4 DEF NumberOrder, CallTool, access
<1>5. CASE CheckSubmit(c)
  BY <1>5 DEF CheckSubmit, Answer, access
<1> QED
  BY <1>1, <1>2, <1>3, <1>4, <1>5 DEF CallStep, Serve

\* Every action of a human.
HumanStep(h) ==
  \/ Login(h) \/ SessionExpires(h)
  \/ \E id \in DOMAIN PURCHASE_ORDERS : Review(h, id)
  \/ \E page \in humans[h].reviewed : CheckApproval(h, page[1], page[2])
  \/ ApproveStatus(h) \/ ApproveFinal(h)

\* The human's record after the step.
HumanBecomes(h, pc, reviewed, order, hash) ==
  humans'[h] = [pc |-> pc, reviewed |-> reviewed, order |-> order, hash |-> hash]

\* What each action of a human makes of its record.
LEMMA HumanMoves ==
  ASSUME humans \in [Humans -> Human], NEW h \in Humans
  PROVE  /\ \A id : Review(h, id) =>
              HumanBecomes(h, "idle", humans[h].reviewed \cup {<<id, Find(id).key>>},
                           humans[h].order, humans[h].hash)
         /\ \A id, hash : CheckApproval(h, id, hash) =>
              HumanBecomes(h, "status", humans[h].reviewed, PURCHASE_ORDERS[id], hash)
         /\ ApproveStatus(h) =>
              HumanBecomes(h, "final", humans[h].reviewed, humans[h].order, humans[h].hash)
         /\ ApproveFinal(h) => HumanBecomes(h, "idle", humans[h].reviewed, 0, None)
<1> USE DEF HumanBecomes
<1>1. ASSUME NEW id, Review(h, id)
      PROVE  HumanBecomes(h, "idle", humans[h].reviewed \cup {<<id, Find(id).key>>},
                          humans[h].order, humans[h].hash)
  <2> DEFINE page == <<id, Find(id).key>>
  <2>1. /\ humans' = [humans EXCEPT ![h].reviewed = @ \cup {page}]
        /\ humans[h].pc = "idle"
    BY <1>1 DEF Review
  <2> HIDE DEF page
  <2>2. HumanBecomes(h, "idle", humans[h].reviewed \cup {page}, humans[h].order,
                     humans[h].hash)
    BY <2>1 DEF Human
  <2> QED
    BY <2>2 DEF page
<1>2. ASSUME NEW id, NEW hash, CheckApproval(h, id, hash)
      PROVE  HumanBecomes(h, "status", humans[h].reviewed, PURCHASE_ORDERS[id], hash)
  <2> DEFINE i == PURCHASE_ORDERS[id]
  <2>1. humans' = [humans EXCEPT ![h].pc = "status", ![h].hash = hash, ![h].order = i]
    BY <1>2 DEF CheckApproval
  <2> HIDE DEF i
  <2>2. HumanBecomes(h, "status", humans[h].reviewed, i, hash)
    BY <2>1 DEF Human
  <2> QED
    BY <2>2 DEF i
<1>3. ASSUME ApproveStatus(h)
      PROVE  HumanBecomes(h, "final", humans[h].reviewed, humans[h].order,
                          humans[h].hash)
  BY <1>3 DEF ApproveStatus, Human
<1>4. ASSUME ApproveFinal(h)
      PROVE  HumanBecomes(h, "idle", humans[h].reviewed, 0, None)
  <2>1. humans' = [humans EXCEPT ![h].pc = "idle", ![h].order = 0, ![h].hash = None]
    BY <1>4 DEF ApproveFinal
  <2> QED
    BY <2>1 DEF Human
<1> QED
  BY <1>1, <1>2, <1>3, <1>4

\* A step of a human writes no other human and no call.
LEMMA OtherHumans ==
  ASSUME humans \in [Humans -> Human], NEW h \in Humans, HumanStep(h)
  PROVE  /\ \A g \in Humans : g # h => humans'[g] = humans[g]
         /\ humans' = [humans EXCEPT ![h] = humans'[h]]
         /\ calls' = calls /\ ACCESS_TOKENS' = ACCESS_TOKENS /\ restarts' = restarts
         /\ PURCHASE_ORDERS' = PURCHASE_ORDERS /\ IDEMPOTENCY' = IDEMPOTENCY
<1>1. CASE Login(h) \/ SessionExpires(h)
  BY <1>1 DEF Login, SessionExpires, memory
<1>2. CASE \E id \in DOMAIN PURCHASE_ORDERS : Review(h, id)
  BY <1>2 DEF Review, access, memory
<1>3. ASSUME NEW page \in humans[h].reviewed, CheckApproval(h, page[1], page[2])
      PROVE  /\ \A g \in Humans : g # h => humans'[g] = humans[g]
             /\ humans' = [humans EXCEPT ![h] = humans'[h]]
             /\ UNCHANGED <<calls, ACCESS_TOKENS, restarts, PURCHASE_ORDERS, IDEMPOTENCY>>
  <2> DEFINE hash == page[2]
             i == PURCHASE_ORDERS[page[1]]
  <2>1. humans' = [humans EXCEPT ![h].pc = "status", ![h].hash = hash, ![h].order = i]
    BY <1>3 DEF CheckApproval
  <2>2. UNCHANGED <<calls, ACCESS_TOKENS, restarts, PURCHASE_ORDERS, IDEMPOTENCY>>
    BY <1>3 DEF CheckApproval, access, memory
  <2> HIDE DEF hash, i
  <2> QED
    BY <2>1, <2>2
<1>4. CASE ApproveStatus(h) \/ ApproveFinal(h)
  BY <1>4 DEF ApproveStatus, ApproveFinal, access
<1> QED
  BY <1>1, <1>2, <1>3, <1>4 DEF HumanStep

-----------------------------------------------------------------------------
\* What a step does to the orders.

\* One order is rewritten.
Rewritten(i, status, approval_status, approvedWith) ==
  /\ DOMAIN orders' = DOMAIN orders
  /\ orders'[i] = [key |-> orders[i].key, status |-> status,
                   approval_status |-> approval_status, approvedWith |-> approvedWith]
  /\ \A j \in DOMAIN orders : j # i => orders'[j] = orders[j]

\* A field of one order is set.
LEMMA FieldSet ==
  ASSUME orders \in Seq(Order), NEW i \in DOMAIN orders
  PROVE  /\ \A status \in Statuses :
              orders' = [orders EXCEPT ![i].status = status] =>
                /\ orders' \in Seq(Order)
                /\ Rewritten(i, status, orders[i].approval_status,
                             orders[i].approvedWith)
         /\ \A status \in ApprovalStatuses :
              orders' = [orders EXCEPT ![i].approval_status = status] =>
                /\ orders' \in Seq(Order)
                /\ Rewritten(i, orders[i].status, status, orders[i].approvedWith)
         /\ \A status \in ApprovalStatuses, hash \in Keys \cup {None} :
              orders' = [orders EXCEPT ![i].approval_status = status,
                                       ![i].approvedWith = hash] =>
                /\ orders' \in Seq(Order)
                /\ Rewritten(i, orders[i].status, status, hash)
<1>1. orders \in [DOMAIN orders -> Order] /\ DOMAIN orders = 1..Len(orders)
  BY LenProperties
<1>2. ASSUME NEW o \in Order, orders' = [orders EXCEPT ![i] = o]
      PROVE  orders' \in Seq(Order)
  BY <1>1, <1>2, ExceptSeq
<1>3. ASSUME NEW status \in Statuses,
             orders' = [orders EXCEPT ![i].status = status]
      PROVE  /\ orders' \in Seq(Order)
             /\ Rewritten(i, status, orders[i].approval_status, orders[i].approvedWith)
  <2>1. Rewritten(i, status, orders[i].approval_status, orders[i].approvedWith)
    BY <1>1, <1>3 DEF Rewritten, Order
  <2>2. orders'[i] \in Order /\ orders' = [orders EXCEPT ![i] = orders'[i]]
    BY <1>1, <1>3, <2>1 DEF Rewritten, Order
  <2> QED
    BY <1>2, <2>1, <2>2
<1>4. ASSUME NEW status \in ApprovalStatuses,
             orders' = [orders EXCEPT ![i].approval_status = status]
      PROVE  /\ orders' \in Seq(Order)
             /\ Rewritten(i, orders[i].status, status, orders[i].approvedWith)
  <2>1. Rewritten(i, orders[i].status, status, orders[i].approvedWith)
    BY <1>1, <1>4 DEF Rewritten, Order
  <2>2. orders'[i] \in Order /\ orders' = [orders EXCEPT ![i] = orders'[i]]
    BY <1>1, <1>4, <2>1 DEF Rewritten, Order
  <2> QED
    BY <1>2, <2>1, <2>2
<1>5. ASSUME NEW status \in ApprovalStatuses, NEW hash \in Keys \cup {None},
             orders' = [orders EXCEPT ![i].approval_status = status,
                                      ![i].approvedWith = hash]
      PROVE  /\ orders' \in Seq(Order)
             /\ Rewritten(i, orders[i].status, status, hash)
  <2>1. Rewritten(i, orders[i].status, status, hash)
    BY <1>1, <1>5 DEF Rewritten, Order
  <2>2. orders'[i] \in Order /\ orders' = [orders EXCEPT ![i] = orders'[i]]
    BY <1>1, <1>5, <2>1 DEF Rewritten, Order
  <2> QED
    BY <1>2, <2>1, <2>2
<1> QED
  BY <1>3, <1>4, <1>5

\* The order that a create adds.
NewOrder(k) == [key |-> k, status |-> "draft", approval_status |-> "not_submitted",
                approvedWith |-> None]

\* Every action that writes the orders, but Restart.
LEMMA OrderMoves ==
  ASSUME TypeOK
  PROVE  /\ \A c \in Calls : InsertOrder(c) =>
              /\ orders' \in Seq(Order)
              /\ Len(orders) \in Nat
              /\ DOMAIN orders = 1..Len(orders)
              /\ DOMAIN orders' = 1..(Len(orders) + 1)
              /\ \A i \in DOMAIN orders : orders'[i] = orders[i]
              /\ orders'[Len(orders) + 1] = NewOrder(calls[c].key)
              /\ calls[c].key \in Keys
         /\ \A c \in Calls : MarkSubmitted(c) =>
              LET i == calls[c].order
              IN  /\ i \in DOMAIN orders
                  /\ orders' \in Seq(Order)
                  /\ Rewritten(i, "submitted", orders[i].approval_status,
                               orders[i].approvedWith)
         /\ \A c \in Calls : MarkPending(c) =>
              LET i == calls[c].order
              IN  /\ i \in DOMAIN orders
                  /\ orders' \in Seq(Order)
                  /\ Rewritten(i, orders[i].status, "pending_approval",
                               orders[i].approvedWith)
         /\ \A h \in Humans : ApproveStatus(h) =>
              LET i == humans[h].order
              IN  /\ i \in DOMAIN orders
                  /\ orders' \in Seq(Order)
                  /\ Rewritten(i, "approved", orders[i].approval_status,
                               orders[i].approvedWith)
         /\ \A h \in Humans : ApproveFinal(h) =>
              LET i == humans[h].order
              IN  /\ i \in DOMAIN orders
                  /\ orders' \in Seq(Order)
                  /\ Rewritten(i, orders[i].status, "approved", humans[h].hash)
<1>1. orders \in Seq(Order)
  BY DEF TypeOK
<1>2. ASSUME NEW c \in Calls, InsertOrder(c)
      PROVE  /\ orders' \in Seq(Order)
             /\ Len(orders) \in Nat
             /\ DOMAIN orders = 1..Len(orders)
             /\ DOMAIN orders' = 1..(Len(orders) + 1)
             /\ \A i \in DOMAIN orders : orders'[i] = orders[i]
             /\ orders'[Len(orders) + 1] = NewOrder(calls[c].key)
             /\ calls[c].key \in Keys
  <2>1. orders' = Append(orders, NewOrder(calls[c].key)) /\ calls[c].pc = "insert"
    BY <1>2 DEF InsertOrder, NewOrder
  <2>2. calls[c].key \in Keys
    BY <2>1 DEF TypeOK, Call
  <2>3. NewOrder(calls[c].key) \in Order
    BY <2>2 DEF NewOrder, Order, Statuses, ApprovalStatuses
  <2> HIDE DEF NewOrder
  <2> QED
    BY <1>1, <2>1, <2>2, <2>3, AppendProperties, LenProperties
<1>3. ASSUME NEW c \in Calls, calls[c].pc \in Submitting
      PROVE  calls[c].order \in DOMAIN orders
  BY <1>3 DEF TypeOK
<1>4. ASSUME NEW h \in Humans, humans[h].pc \in Approving
      PROVE  humans[h].order \in DOMAIN orders /\ humans[h].hash \in Keys
  BY <1>4 DEF TypeOK
<1>5. ASSUME NEW c \in Calls, MarkSubmitted(c)
      PROVE  LET i == calls[c].order
             IN  /\ i \in DOMAIN orders
                 /\ orders' \in Seq(Order)
                 /\ Rewritten(i, "submitted", orders[i].approval_status,
                              orders[i].approvedWith)
  <2>1. calls[c].order \in DOMAIN orders
    BY <1>3, <1>5 DEF MarkSubmitted, Submitting
  <2> QED
    BY <1>1, <1>5, <2>1, FieldSet DEF MarkSubmitted, Statuses
<1>6. ASSUME NEW c \in Calls, MarkPending(c)
      PROVE  LET i == calls[c].order
             IN  /\ i \in DOMAIN orders
                 /\ orders' \in Seq(Order)
                 /\ Rewritten(i, orders[i].status, "pending_approval",
                              orders[i].approvedWith)
  <2>1. calls[c].order \in DOMAIN orders
    BY <1>3, <1>6 DEF MarkPending, Submitting
  <2> QED
    BY <1>1, <1>6, <2>1, FieldSet DEF MarkPending, ApprovalStatuses
<1>7. ASSUME NEW h \in Humans, ApproveStatus(h)
      PROVE  LET i == humans[h].order
             IN  /\ i \in DOMAIN orders
                 /\ orders' \in Seq(Order)
                 /\ Rewritten(i, "approved", orders[i].approval_status,
                              orders[i].approvedWith)
  <2>1. humans[h].order \in DOMAIN orders
    BY <1>4, <1>7 DEF ApproveStatus, Approving
  <2> QED
    BY <1>1, <1>7, <2>1, FieldSet DEF ApproveStatus, Statuses
<1>8. ASSUME NEW h \in Humans, ApproveFinal(h)
      PROVE  LET i == humans[h].order
             IN  /\ i \in DOMAIN orders
                 /\ orders' \in Seq(Order)
                 /\ Rewritten(i, orders[i].status, "approved", humans[h].hash)
  <2>1. humans[h].order \in DOMAIN orders /\ humans[h].hash \in Keys
    BY <1>4, <1>8 DEF ApproveFinal, Approving
  <2> QED
    BY <1>1, <1>8, <2>1, FieldSet DEF ApproveFinal, ApprovalStatuses
<1> QED
  BY <1>2, <1>5, <1>6, <1>7, <1>8

\* The steps that write no order.
LEMMA OrdersSame ==
  /\ \A c \in Calls : CallStep(c) =>
       \/ InsertOrder(c) \/ MarkSubmitted(c) \/ MarkPending(c)
       \/ orders' = orders
  /\ \A h \in Humans : HumanStep(h) =>
       ApproveStatus(h) \/ ApproveFinal(h) \/ orders' = orders
<1>1. ASSUME NEW c \in Calls, CallStep(c)
      PROVE  \/ InsertOrder(c) \/ MarkSubmitted(c) \/ MarkPending(c)
             \/ orders' = orders
  BY <1>1 DEF CallStep, Serve, GiveUp, CallTool, OauthToken, RefuseCreate, Replay,
     CheckCreate, NumberOrder, RememberKey, CheckSubmit, RefuseSubmit, memory
<1>2. ASSUME NEW h \in Humans, HumanStep(h)
      PROVE  ApproveStatus(h) \/ ApproveFinal(h) \/ orders' = orders
  BY <1>2 DEF HumanStep, Login, SessionExpires, Review, CheckApproval, memory
<1> QED
  BY <1>1, <1>2

\* No order is lost or changes its key, and what is no draft stays none.
Kept ==
  /\ orders' \in Seq(Order)
  /\ \A i \in DOMAIN orders :
       /\ i \in DOMAIN orders'
       /\ orders'[i].key = orders[i].key
       /\ orders[i].status # "draft" => orders'[i].status # "draft"

\* Every step but a restart keeps the orders.
LEMMA OrdersKept ==
  ASSUME TypeOK, \/ \E c \in Calls : CallStep(c)
                 \/ \E h \in Humans : HumanStep(h)
  PROVE  Kept
<1>1. orders' = orders => Kept
  BY DEF Kept, TypeOK
<1>2. ASSUME NEW i \in DOMAIN orders, NEW status, NEW approval_status, NEW with,
             orders[i].status = "draft" \/ status # "draft",
             orders' \in Seq(Order), Rewritten(i, status, approval_status, with)
      PROVE  Kept
  BY <1>2 DEF Kept, Rewritten
<1>3. ASSUME NEW c \in Calls, InsertOrder(c)
      PROVE  Kept
  BY <1>3, OrderMoves DEF Kept
<1>4. ASSUME NEW c \in Calls, MarkSubmitted(c)
      PROVE  Kept
  BY <1>2, <1>4, OrderMoves
<1>5. ASSUME NEW c \in Calls, MarkPending(c)
      PROVE  Kept
  BY <1>2, <1>5, OrderMoves
<1>6. ASSUME NEW h \in Humans, ApproveStatus(h)
      PROVE  Kept
  BY <1>2, <1>6, OrderMoves
<1>7. ASSUME NEW h \in Humans, ApproveFinal(h)
      PROVE  Kept
  BY <1>2, <1>7, OrderMoves
<1> QED
  BY <1>1, <1>3, <1>4, <1>5, <1>6, <1>7, OrdersSame

\* Every step is one of a call or of a human, or a restart.
LEMMA NextSteps ==
  Next => \/ \E c \in Calls : CallStep(c)
          \/ \E h \in Humans : HumanStep(h)
          \/ Restart
  BY DEF Next, CallStep, HumanStep

\* The calls a restart leaves, and the humans.
LEMMA RestartMoves ==
  ASSUME TypeOK, Restart
  PROVE  /\ \A c \in Calls : \/ calls'[c] = calls[c] /\ c \notin Handled
                             \/ Ends(c)
         /\ \A h \in Humans : HumanBecomes(h, "idle", humans[h].reviewed, 0, None)
         /\ calls' \in [Calls -> Call]
         /\ humans' \in [Humans -> Human]
<1>1. ASSUME NEW c \in Calls
      PROVE  \/ calls'[c] = calls[c] /\ c \notin Handled
             \/ Ends(c)
  <2>1. calls'[c] = IF c \in Handled THEN End("failed") ELSE calls[c]
    BY DEF Restart
  <2> QED
    BY <2>1, EndRecord DEF Ends, Becomes, CallPCs
<1>2. ASSUME NEW h \in Humans
      PROVE  HumanBecomes(h, "idle", humans[h].reviewed, 0, None)
  <2>1. humans \in [Humans -> Human]
    BY DEF TypeOK
  <2>2. humans'[h] = [humans[h] EXCEPT !.pc = "idle", !.order = 0, !.hash = None]
    BY DEF Restart
  <2> QED
    BY <2>1, <2>2 DEF Human, HumanBecomes
<1>3. calls' \in [Calls -> Call]
  <2>1. calls' = [c \in Calls |-> IF c \in Handled THEN End("failed") ELSE calls[c]]
    BY DEF Restart
  <2>2. End("failed") \in Call
    <3>1. End("failed") = [pc |-> "failed", key |-> None, waiting |-> TRUE, id |-> 0,
                           order |-> 0]
      BY EndRecord DEF CallPCs
    <3>2. [pc |-> "failed", key |-> None, waiting |-> TRUE, id |-> 0, order |-> 0]
            \in Call
      BY DEF Call, CallPCs
    <3> QED
      BY <3>1, <3>2
  <2> QED
    BY <2>1, <2>2 DEF TypeOK
<1>4. humans' \in [Humans -> Human]
  <2>1. humans' = [h \in Humans |-> humans'[h]]
    BY DEF Restart
  <2>2. \A h \in Humans : humans'[h] \in Human
    <3> SUFFICES ASSUME NEW h \in Humans
                 PROVE  humans'[h] \in Human
      OBVIOUS
    <3>1. humans[h].reviewed \in SUBSET (Nat \X Keys)
      BY DEF TypeOK, Human
    <3>2. [pc |-> "idle", reviewed |-> humans[h].reviewed, order |-> 0, hash |-> None]
            \in Human
      BY <3>1 DEF Human
    <3> QED
      BY <1>2, <3>2 DEF HumanBecomes
  <2> QED
    BY <2>1, <2>2
<1> QED
  BY <1>1, <1>2, <1>3, <1>4

-----------------------------------------------------------------------------
\* Types.

\* The order a call is about to name by its key is in the table.
TableInv ==
  /\ IsFiniteSet(DOMAIN PURCHASE_ORDERS)
  /\ \A c \in Calls :
       calls[c].pc = "remember" => calls[c].id \in DOMAIN PURCHASE_ORDERS

\* A step of a call keeps the calls typed.
LEMMA CallsType ==
  ASSUME TypeOK, TableInv, NEW c \in Calls, CallStep(c)
  PROVE  calls' \in [Calls -> Call]
<1>1. /\ calls \in [Calls -> Call] /\ calls[c] \in Call
      /\ calls[c].pc \in CallPCs /\ calls[c].key \in Keys \cup {None}
      /\ calls[c].waiting \in BOOLEAN /\ calls[c].id \in Nat /\ calls[c].order \in Nat
  BY DEF TypeOK, Call
<1>2. ASSUME NEW pc \in CallPCs, NEW key \in Keys \cup {None}, NEW waiting \in BOOLEAN,
             NEW id \in Nat, NEW order \in Nat, Becomes(c, pc, key, waiting, id, order)
      PROVE  calls' \in [Calls -> Call]
  <2>1. calls'[c] \in Call
    BY <1>2 DEF Becomes, Call
  <2> QED
    BY <1>1, <2>1, OtherCalls
<1>3. Ends(c) => calls' \in [Calls -> Call]
  BY <1>2 DEF Ends, CallPCs
<1>4. {"token", "create", "number", "insert", "remember", "submit", "submitted",
       "pending"} \subseteq CallPCs
  BY DEF CallPCs, Creating, Submitting
<1>5. \A pc \in CallPCs : Moves(c, pc) => calls' \in [Calls -> Call]
  BY <1>1, <1>2 DEF Moves
<1>6. CASE \E k \in Keys : CallTool(c, k)
  BY <1>1, <1>2, <1>4, <1>6, CallMoves
<1>7. CASE GiveUp(c)
  BY <1>1, <1>2, <1>7, CallMoves
<1>8. CASE Replay(c)
  <2>1. IDEMPOTENCY[calls[c].key] \in Nat
    BY <1>8 DEF Replay, TypeOK, Range
  <2> QED
    BY <1>1, <1>2, <1>3, <1>4, <1>8, <2>1, CallMoves
<1>9. CASE NumberOrder(c)
  <2>1. Cardinality(DOMAIN PURCHASE_ORDERS) + 1 \in Nat
    BY FS_CardinalityType DEF TableInv
  <2> QED
    BY <1>1, <1>2, <1>4, <1>9, <2>1, CallMoves
<1>10. CASE CheckSubmit(c)
  <2>1. PURCHASE_ORDERS[calls[c].id] \in Nat
    <3>1. PURCHASE_ORDERS[calls[c].id] \in DOMAIN orders
      BY <1>10 DEF CheckSubmit, TypeOK, Range
    <3>2. DOMAIN orders \subseteq Nat
      BY LenProperties DEF TypeOK
    <3> QED
      BY <3>1, <3>2
  <2> QED
    BY <1>1, <1>2, <1>3, <1>4, <1>10, <2>1, CallMoves
<1> QED
  BY <1>1, <1>3, <1>4, <1>5, <1>6, <1>7, <1>8, <1>9, <1>10, CallMoves
     DEF CallStep, Serve

\* What the type invariant says of one call.
CallOK(c) ==
  /\ calls[c].key = None <=> calls[c].pc \in {"idle", "done", "failed"}
  /\ calls[c].pc \in Submitting => calls[c].order \in DOMAIN orders

\* A call that ended says nothing about orders.
LEMMA EndedOK ==
  ASSUME NEW c \in Calls, Ends(c)
  PROVE  CallOK(c)' /\ calls'[c].pc \in {"done", "failed"}
  BY DEF Ends, Becomes, CallOK, Submitting

\* A step of a call keeps what the type invariant says of every call.
LEMMA CallsOK ==
  ASSUME TypeOK, NEW c \in Calls, CallStep(c)
  PROVE  \A d \in Calls : CallOK(d)'
<1>1. ASSUME NEW d \in Calls, d # c
      PROVE  CallOK(d)'
  <2>1. calls'[d] = calls[d] /\ CallOK(d)
    BY <1>1, OtherCalls DEF TypeOK, CallOK
  <2>2. DOMAIN orders \subseteq DOMAIN orders'
    BY OrdersKept DEF Kept
  <2> QED
    BY <2>1, <2>2 DEF CallOK
<1> SUFFICES CallOK(c)'
  BY <1>1
<1>2. CallOK(c) /\ calls[c] \in Call /\ calls \in [Calls -> Call] /\ None \notin Keys
  BY NoneAssumption DEF TypeOK, CallOK
<1>3. ASSUME NEW pc \in CallPCs \ ({"idle", "done", "failed"} \cup Submitting),
             NEW key \in Keys, NEW waiting, NEW id, NEW order,
             Becomes(c, pc, key, waiting, id, order)
      PROVE  CallOK(c)'
  BY <1>2, <1>3 DEF CallOK, Becomes
<1>4. calls[c].pc \notin {"idle", "done", "failed"} => calls[c].key \in Keys
  BY <1>2 DEF CallOK, Call
<1>5. {"token", "create", "number", "insert", "remember", "submit"}
        \subseteq CallPCs \ ({"idle", "done", "failed"} \cup Submitting)
  BY DEF CallPCs, Creating, Submitting
<1>6. CASE \E k \in Keys : CallTool(c, k)
  BY <1>2, <1>3, <1>5, <1>6, CallMoves
<1>7. CASE GiveUp(c)
  <2>1. orders' = orders
    BY <1>7 DEF GiveUp, memory
  <2>2. Becomes(c, calls[c].pc, calls[c].key, FALSE, calls[c].id, calls[c].order)
    BY <1>2, <1>7, CallMoves
  <2> QED
    BY <1>2, <2>1, <2>2 DEF Becomes, CallOK
<1>8. CASE CheckSubmit(c)
  <2>1. orders' = orders /\ calls[c].pc = "submit"
    BY <1>8 DEF CheckSubmit, memory
  <2>2. PURCHASE_ORDERS[calls[c].id] \in DOMAIN orders
    BY <1>8 DEF CheckSubmit, TypeOK, Range
  <2>3. \/ Becomes(c, "submitted", calls[c].key, calls[c].waiting, calls[c].id,
                   PURCHASE_ORDERS[calls[c].id])
        \/ Ends(c)
    BY <1>2, <1>8, CallMoves
  <2> QED
    BY <1>2, <1>4, <2>1, <2>2, <2>3, EndedOK DEF Becomes, CallOK
<1>9. CASE MarkSubmitted(c)
  <2>1. calls[c].pc = "submitted" /\ Moves(c, "pending")
    BY <1>2, <1>9, CallMoves DEF MarkSubmitted
  <2>2. DOMAIN orders \subseteq DOMAIN orders'
    BY OrdersKept DEF Kept
  <2>3. calls[c].order \in DOMAIN orders /\ calls[c].key \in Keys
    BY <1>2, <1>4, <2>1 DEF CallOK, Submitting
  <2> QED
    BY <1>2, <2>1, <2>2, <2>3 DEF Moves, Becomes, CallOK
<1>10. CASE OauthToken(c) \/ CheckCreate(c) \/ InsertOrder(c) \/ RememberKey(c)
  <2>1. \/ \E pc \in {"create", "number", "remember", "submit"} : Moves(c, pc)
        \/ Ends(c)
    BY <1>2, <1>10, CallMoves
  <2>2. calls[c].pc \notin {"idle", "done", "failed"}
    BY <1>10 DEF OauthToken, CheckCreate, InsertOrder, RememberKey
  <2> QED
    BY <1>3, <1>4, <1>5, <2>1, <2>2, EndedOK DEF Moves
<1>11. CASE Replay(c)
  <2>1. calls[c].pc = "create"
    BY <1>11 DEF Replay
  <2> QED
    BY <1>2, <1>3, <1>4, <1>5, <1>11, <2>1, CallMoves, EndedOK
<1>12. CASE NumberOrder(c)
  <2>1. calls[c].pc = "number"
    BY <1>12 DEF NumberOrder
  <2> QED
    BY <1>2, <1>3, <1>4, <1>5, <1>12, <2>1, CallMoves
<1>13. CASE RefuseCreate(c) \/ RefuseSubmit(c) \/ MarkPending(c)
  BY <1>2, <1>13, CallMoves, EndedOK
<1> QED
  BY <1>1, <1>6, <1>7, <1>8, <1>9, <1>10, <1>11, <1>12, <1>13 DEF CallStep, Serve

\* The tables after a step of a call.
LEMMA TablesMove ==
  \A c \in Calls : CallStep(c) =>
    /\ \/ InsertOrder(c) /\ IDEMPOTENCY' = IDEMPOTENCY
       \/ RememberKey(c) /\ PURCHASE_ORDERS' = PURCHASE_ORDERS /\ orders' = orders
       \/ UNCHANGED <<PURCHASE_ORDERS, IDEMPOTENCY>>
    /\ OauthToken(c) \/ ACCESS_TOKENS' = ACCESS_TOKENS
    /\ \/ overlaps' = overlaps
       \/ Replay(c) /\ Note(FALSE)
       \/ CheckCreate(c) /\ Note(CreatingWith(calls[c].key))
       \/ CheckSubmit(c) /\ Note(FALSE)
<1> SUFFICES ASSUME NEW c \in Calls, CallStep(c)
             PROVE  /\ \/ InsertOrder(c) /\ IDEMPOTENCY' = IDEMPOTENCY
                       \/ /\ RememberKey(c) /\ PURCHASE_ORDERS' = PURCHASE_ORDERS
                          /\ orders' = orders
                       \/ UNCHANGED <<PURCHASE_ORDERS, IDEMPOTENCY>>
                    /\ OauthToken(c) \/ ACCESS_TOKENS' = ACCESS_TOKENS
                    /\ \/ overlaps' = overlaps
                       \/ Replay(c) /\ Note(FALSE)
                       \/ CheckCreate(c) /\ Note(CreatingWith(calls[c].key))
                       \/ CheckSubmit(c) /\ Note(FALSE)
  OBVIOUS
<1>1. CASE OauthToken(c) \/ GiveUp(c) \/ RefuseCreate(c) \/ RefuseSubmit(c)
           \/ NumberOrder(c) \/ \E k \in Keys : CallTool(c, k)
  BY <1>1 DEF OauthToken, GiveUp, RefuseCreate, RefuseSubmit, NumberOrder, CallTool,
     memory, access
<1>2. CASE Replay(c) \/ CheckCreate(c) \/ CheckSubmit(c)
  BY <1>2 DEF Replay, CheckCreate, CheckSubmit, memory, access
<1>3. CASE InsertOrder(c) \/ RememberKey(c) \/ MarkSubmitted(c) \/ MarkPending(c)
  BY <1>3 DEF InsertOrder, RememberKey, MarkSubmitted, MarkPending, access
<1> QED
  BY <1>1, <1>2, <1>3 DEF CallStep, Serve

\* The tables of an insert.
LEMMA InsertTables ==
  ASSUME TypeOK, TableInv, NEW c \in Calls, InsertOrder(c)
  PROVE  /\ DOMAIN PURCHASE_ORDERS' = DOMAIN PURCHASE_ORDERS \cup {calls[c].id}
         /\ PURCHASE_ORDERS'[calls[c].id] = Len(orders) + 1
         /\ \A id \in DOMAIN PURCHASE_ORDERS :
              id # calls[c].id => PURCHASE_ORDERS'[id] = PURCHASE_ORDERS[id]
         /\ calls[c].id \in Nat /\ calls[c].key \in Keys
<1>1. PURCHASE_ORDERS' = Put(PURCHASE_ORDERS, calls[c].id, Len(orders) + 1)
  BY DEF InsertOrder
<1>2. calls[c].id \in Nat /\ calls[c].key \in Keys
  BY OrderMoves DEF TypeOK, Call
<1> QED
  BY <1>1, <1>2 DEF Put

\* The table of keys of a remember.
LEMMA RememberTables ==
  ASSUME TypeOK, TableInv, NEW c \in Calls, RememberKey(c)
  PROVE  /\ DOMAIN IDEMPOTENCY' = DOMAIN IDEMPOTENCY \cup {calls[c].key}
         /\ IDEMPOTENCY'[calls[c].key] = calls[c].id
         /\ \A k \in DOMAIN IDEMPOTENCY :
              k # calls[c].key => IDEMPOTENCY'[k] = IDEMPOTENCY[k]
         /\ calls[c].key \in Keys
         /\ calls[c].id \in DOMAIN PURCHASE_ORDERS
<1>1. calls[c].pc = "remember"
  BY DEF RememberKey
<1>2. calls[c].key \in Keys /\ calls[c].id \in DOMAIN PURCHASE_ORDERS
  BY <1>1 DEF TypeOK, Call, TableInv
<1>3. IDEMPOTENCY' = Put(IDEMPOTENCY, calls[c].key, calls[c].id)
  BY DEF RememberKey
<1> QED
  BY <1>2, <1>3 DEF Put

\* What the type invariant says of the tables.
TablesOK ==
  /\ IsInjective(PURCHASE_ORDERS) /\ Range(PURCHASE_ORDERS) \subseteq DOMAIN orders
  /\ DOMAIN PURCHASE_ORDERS \subseteq Nat
  /\ DOMAIN IDEMPOTENCY \subseteq Keys /\ Range(IDEMPOTENCY) \subseteq DOMAIN PURCHASE_ORDERS

\* A step of a call keeps the tables typed: numbers and keys lead to orders.
LEMMA TablesType ==
  ASSUME TypeOK, TableInv, NEW c \in Calls, CallStep(c)
  PROVE  TablesOK' /\ TableInv'
<1> USE DEF TablesOK
<1>1. DOMAIN orders \subseteq DOMAIN orders'
  BY OrdersKept DEF Kept
<1>2. TablesOK
  BY DEF TypeOK
<1>3. CASE InsertOrder(c)
  <2>1. IDEMPOTENCY' = IDEMPOTENCY
    BY <1>3 DEF InsertOrder
  <2>2. /\ DOMAIN PURCHASE_ORDERS' = DOMAIN PURCHASE_ORDERS \cup {calls[c].id}
        /\ PURCHASE_ORDERS'[calls[c].id] = Len(orders) + 1
        /\ \A id \in DOMAIN PURCHASE_ORDERS :
             id # calls[c].id => PURCHASE_ORDERS'[id] = PURCHASE_ORDERS[id]
        /\ calls[c].id \in Nat
    BY <1>3, InsertTables
  <2>3. /\ Len(orders) + 1 \notin DOMAIN orders
        /\ Len(orders) + 1 \in DOMAIN orders'
    <3>1. /\ Len(orders) \in Nat /\ DOMAIN orders = 1..Len(orders)
          /\ DOMAIN orders' = 1..(Len(orders) + 1)
      BY <1>3, OrderMoves
    <3> QED
      BY <3>1
  <2>4. IsInjective(PURCHASE_ORDERS')
    BY <1>2, <2>2, <2>3 DEF IsInjective, Range
  <2>5. Range(PURCHASE_ORDERS') \subseteq DOMAIN orders'
    BY <1>1, <1>2, <2>2, <2>3 DEF Range
  <2>6. TablesOK'
    BY <1>2, <2>1, <2>2, <2>4, <2>5 DEF Range
  <2>7. IsFiniteSet(DOMAIN PURCHASE_ORDERS')
    <3>1. IsFiniteSet(DOMAIN PURCHASE_ORDERS)
      BY DEF TableInv
    <3>2. IsFiniteSet(DOMAIN PURCHASE_ORDERS \cup {calls[c].id})
      BY <3>1, FS_AddElement
    <3> QED
      BY <2>2, <3>2
  <2>8. ASSUME NEW d \in Calls, calls'[d].pc = "remember"
        PROVE  calls'[d].id \in DOMAIN PURCHASE_ORDERS'
    <3>1. CASE d = c
      <4>1. Moves(c, "remember")
        BY <1>3, CallMoves DEF TypeOK
      <4> QED
        BY <2>2, <3>1, <4>1 DEF Moves, Becomes
    <3>2. CASE d # c
      BY <2>2, <2>8, <3>2, OtherCalls DEF TableInv, TypeOK
    <3> QED
      BY <3>1, <3>2
  <2> QED
    BY <2>6, <2>7, <2>8 DEF TableInv
<1>4. CASE ~InsertOrder(c)
  <2>1. PURCHASE_ORDERS' = PURCHASE_ORDERS
    BY <1>4, TablesMove
  <2>2. TableInv'
    <3>1. calls'[c].pc # "remember" \/ calls'[c] = calls[c]
             \/ (calls'[c].pc = calls[c].pc /\ calls'[c].id = calls[c].id)
      <4>1. CASE GiveUp(c)
        <5>1. Becomes(c, calls[c].pc, calls[c].key, FALSE, calls[c].id, calls[c].order)
          BY <4>1, CallMoves DEF TypeOK
        <5> QED
          BY <5>1 DEF Becomes
      <4>2. CASE ~GiveUp(c)
        <5>1. \/ Ends(c)
              \/ \E pc \in CallPCs \ {"remember"} : \E key, waiting, id, order :
                   Becomes(c, pc, key, waiting, id, order)
          BY <1>4, <4>2, CallMoves
             DEF Moves, TypeOK, CallStep, Serve, CallPCs, Creating, Submitting
        <5>2. ASSUME NEW pc, NEW key, NEW waiting, NEW id, NEW order,
                     Becomes(c, pc, key, waiting, id, order)
              PROVE  calls'[c].pc = pc
          BY <5>2 DEF Becomes
        <5> QED
          BY <5>1, <5>2 DEF Ends
      <4> QED
        BY <4>1, <4>2
    <3> QED
      BY <2>1, <3>1, OtherCalls DEF TableInv, TypeOK
  <2>3. CASE RememberKey(c)
    <3>1. PICK k \in Keys, id \in DOMAIN PURCHASE_ORDERS :
            /\ DOMAIN IDEMPOTENCY' = DOMAIN IDEMPOTENCY \cup {k}
            /\ IDEMPOTENCY'[k] = id
            /\ \A j \in DOMAIN IDEMPOTENCY :
                 j # k => IDEMPOTENCY'[j] = IDEMPOTENCY[j]
      BY <2>3, RememberTables
    <3>2. DOMAIN IDEMPOTENCY' \subseteq Keys
      BY <1>2, <3>1
    <3>3. \A j \in DOMAIN IDEMPOTENCY : IDEMPOTENCY[j] \in DOMAIN PURCHASE_ORDERS
      BY <1>2 DEF Range
    <3>4. \A j \in DOMAIN IDEMPOTENCY' : IDEMPOTENCY'[j] \in DOMAIN PURCHASE_ORDERS
      BY <3>1, <3>3
    <3>5. Range(IDEMPOTENCY') \subseteq DOMAIN PURCHASE_ORDERS
      BY <3>4 DEF Range
    <3>6. Range(PURCHASE_ORDERS') \subseteq DOMAIN orders'
      BY <1>1, <1>2, <2>1
    <3> QED
      BY <1>2, <2>1, <2>2, <3>2, <3>5, <3>6
  <2>4. CASE IDEMPOTENCY' = IDEMPOTENCY
    BY <1>1, <1>2, <2>1, <2>2, <2>4
  <2> QED
    BY <1>4, <2>3, <2>4, TablesMove
<1> QED
  BY <1>3, <1>4

\* What the type invariant says of one human.
HumanOK(h) ==
  humans[h].pc \in Approving => /\ humans[h].order \in DOMAIN orders
                                /\ humans[h].hash \in Keys

\* A step of a human keeps the humans typed.
LEMMA HumansType ==
  ASSUME TypeOK, NEW h \in Humans, HumanStep(h)
  PROVE  humans' \in [Humans -> Human] /\ \A g \in Humans : HumanOK(g)'
<1>1. /\ humans \in [Humans -> Human] /\ humans[h] \in Human
      /\ humans[h].reviewed \in SUBSET (Nat \X Keys) /\ humans[h].order \in Nat
      /\ humans[h].hash \in Keys \cup {None} /\ HumanOK(h)
  BY DEF TypeOK, Human, HumanOK
<1>2. DOMAIN orders \subseteq DOMAIN orders' /\ DOMAIN orders \subseteq Nat
  BY OrdersKept, LenProperties DEF Kept, TypeOK
<1>3. ASSUME NEW g \in Humans, humans'[g] = humans[g]
      PROVE  HumanOK(g)'
  BY <1>2, <1>3 DEF HumanOK, TypeOK
<1>4. ASSUME NEW pc \in {"idle"} \cup Approving, NEW reviewed \in SUBSET (Nat \X Keys),
             NEW order \in Nat, NEW hash \in Keys \cup {None},
             pc \in Approving => order \in DOMAIN orders' /\ hash \in Keys,
             HumanBecomes(h, pc, reviewed, order, hash)
      PROVE  humans'[h] \in Human /\ HumanOK(h)'
  BY <1>4 DEF HumanBecomes, Human, HumanOK
<1>5. humans'[h] \in Human /\ HumanOK(h)'
  <2>1. CASE Login(h) \/ SessionExpires(h)
    BY <1>1, <1>3, <2>1 DEF Login, SessionExpires
  <2>2. ASSUME NEW id \in DOMAIN PURCHASE_ORDERS, Review(h, id)
        PROVE  humans'[h] \in Human /\ HumanOK(h)'
    <3>1. id \in Nat /\ Find(id).key \in Keys
      <4>1. PURCHASE_ORDERS[id] \in DOMAIN orders /\ id \in Nat
        BY DEF TypeOK, Range
      <4>2. orders[PURCHASE_ORDERS[id]] \in Order
        BY <4>1, ElementOfSeq, LenProperties DEF TypeOK
      <4> QED
        BY <4>1, <4>2 DEF Find, Order
    <3>2. HumanBecomes(h, "idle", humans[h].reviewed \cup {<<id, Find(id).key>>},
                       humans[h].order, humans[h].hash)
      BY <1>1, <2>2, HumanMoves
    <3>3. humans[h].reviewed \cup {<<id, Find(id).key>>} \in SUBSET (Nat \X Keys)
      BY <1>1, <3>1
    <3>4. "idle" \notin Approving
      BY DEF Approving
    <3> QED
      BY <1>1, <1>4, <3>2, <3>3, <3>4
  <2>3. ASSUME NEW page \in humans[h].reviewed, CheckApproval(h, page[1], page[2])
        PROVE  humans'[h] \in Human /\ HumanOK(h)'
    <3>1. page[2] \in Keys /\ PURCHASE_ORDERS[page[1]] \in DOMAIN orders
      BY <1>1, <2>3 DEF CheckApproval, TypeOK, Range
    <3>2. HumanBecomes(h, "status", humans[h].reviewed, PURCHASE_ORDERS[page[1]],
                       page[2])
      BY <1>1, <2>3, HumanMoves
    <3>3. "status" \in Approving
      BY DEF Approving
    <3> QED
      BY <1>1, <1>2, <1>4, <3>1, <3>2, <3>3
  <2>4. CASE ApproveStatus(h)
    <3>1. humans[h].pc \in Approving /\ "final" \in Approving
      BY <2>4 DEF ApproveStatus, Approving
    <3>2. HumanBecomes(h, "final", humans[h].reviewed, humans[h].order, humans[h].hash)
      BY <1>1, <2>4, HumanMoves
    <3>3. humans[h].order \in DOMAIN orders' /\ humans[h].hash \in Keys
      BY <1>1, <1>2, <3>1 DEF HumanOK
    <3> QED
      BY <1>1, <1>4, <3>1, <3>2, <3>3
  <2>5. CASE ApproveFinal(h)
    <3>1. HumanBecomes(h, "idle", humans[h].reviewed, 0, None)
      BY <1>1, <2>5, HumanMoves
    <3>2. "idle" \notin Approving
      BY DEF Approving
    <3> QED
      BY <1>1, <1>4, <3>1, <3>2
  <2> QED
    BY <2>1, <2>2, <2>3, <2>4, <2>5 DEF HumanStep
<1> QED
  BY <1>1, <1>3, <1>5, OtherHumans

\* What a step of a human leaves alone and what it adds to the history.
LEMMA HumanLeaves ==
  ASSUME NEW h \in Humans, HumanStep(h), TypeOK
  PROVE  /\ SESSIONS' \subseteq Humans
         /\ \/ overlaps' = overlaps
            \/ /\ Note(FALSE) /\ orders' = orders
               /\ \E page \in humans[h].reviewed : CheckApproval(h, page[1], page[2])
  BY DEF HumanStep, Login, SessionExpires, Review, CheckApproval, ApproveStatus,
     ApproveFinal, access, memory, TypeOK

\* Every step keeps the types.
LEMMA TypeNext ==
  ASSUME TypeOK, TableInv, [Next]_vars
  PROVE  TypeOK' /\ TableInv'
<1>1. ASSUME NEW c \in Calls, CallStep(c)
      PROVE  TypeOK' /\ TableInv'
  <2>1. ACCESS_TOKENS' \subseteq Calls
    <3>1. OauthToken(c) \/ ACCESS_TOKENS' = ACCESS_TOKENS
      BY <1>1, TablesMove
    <3>2. OauthToken(c) => ACCESS_TOKENS' = ACCESS_TOKENS \cup {c}
      BY DEF OauthToken
    <3> QED
      BY <3>1, <3>2 DEF TypeOK
  <2>2. overlaps' \subseteq {"handlers", "key"}
    BY <1>1, TablesMove DEF TypeOK, Note
  <2>3. UNCHANGED <<humans, SESSIONS, restarts>>
    BY <1>1, OtherCalls DEF TypeOK
  <2>4. \A h \in Humans : HumanOK(h)'
    BY <1>1, <2>3, OrdersKept DEF HumanOK, Kept, TypeOK
  <2>5. orders' \in Seq(Order)
    BY <1>1, OrdersKept DEF Kept
  <2> QED
    BY <1>1, <2>1, <2>2, <2>3, <2>4, <2>5, CallsType, CallsOK, TablesType
       DEF TypeOK, HumanOK, CallOK, TablesOK
<1>2. ASSUME NEW h \in Humans, HumanStep(h)
      PROVE  TypeOK' /\ TableInv'
  <2>1. UNCHANGED <<calls, ACCESS_TOKENS, restarts, PURCHASE_ORDERS, IDEMPOTENCY>>
    BY <1>2, OtherHumans DEF TypeOK
  <2>2. orders' \in Seq(Order) /\ DOMAIN orders \subseteq DOMAIN orders'
    BY <1>2, OrdersKept DEF Kept
  <2>3. SESSIONS' \subseteq Humans /\ overlaps' \subseteq {"handlers", "key"}
    BY <1>2, HumanLeaves DEF TypeOK, Note
  <2> QED
    BY <1>2, <2>1, <2>2, <2>3, HumansType DEF TypeOK, TableInv, HumanOK
<1>3. CASE Restart
  <2>1. /\ orders' = <<>> /\ PURCHASE_ORDERS' = <<>> /\ IDEMPOTENCY' = <<>>
        /\ ACCESS_TOKENS' = {} /\ SESSIONS' = {} /\ overlaps' = overlaps
        /\ restarts' \in 0..MaxRestarts
    <3>1. restarts \in 0..MaxRestarts /\ restarts < MaxRestarts
      BY <1>3 DEF Restart, TypeOK
    <3>2. restarts + 1 \in 0..MaxRestarts
      BY <3>1, RestartsAssumption
    <3> QED
      BY <1>3, <3>2 DEF Restart
  <2>2. ASSUME NEW c \in Calls
        PROVE  /\ calls'[c].key = None <=> calls'[c].pc \in {"idle", "done", "failed"}
               /\ calls'[c].pc \notin Submitting \cup {"remember"}
    <3>1. CASE Ends(c)
      BY <3>1 DEF Ends, Becomes, Submitting
    <3>2. CASE calls'[c] = calls[c] /\ c \notin Handled
      BY <3>2 DEF Handled, Creating, TypeOK
    <3> QED
      BY <1>3, <3>1, <3>2, RestartMoves
  <2>3. \A h \in Humans : humans'[h].pc \notin Approving
    BY <1>3, RestartMoves DEF HumanBecomes, Approving
  <2>4. /\ <<>> \in Seq(Order) /\ DOMAIN <<>> = {} /\ Range(<<>>) = {}
        /\ IsInjective(<<>>) /\ IsFiniteSet({})
    BY EmptySeq, FS_EmptySet DEF Range, IsInjective
  <2> QED
    BY <1>3, <2>1, <2>2, <2>3, <2>4, RestartMoves DEF TypeOK, TableInv
<1>4. CASE UNCHANGED vars
  BY <1>4 DEF vars, TypeOK, TableInv
<1> QED
  BY <1>1, <1>2, <1>3, <1>4, NextSteps

-----------------------------------------------------------------------------
\* The fields of what a step has written.

\* An emulator that has just started has no orders.
LEMMA NoOrders ==
  DOMAIN <<>> = {}
<1>1. <<>> \in Seq(Order) /\ Len(<<>>) = 0
  BY EmptySeq
<1>2. DOMAIN <<>> = 1..0
  BY <1>1, LenProperties
<1> QED
  BY <1>2

\* The fields of a call whose record is known.
LEMMA CallFields ==
  ASSUME NEW c \in Calls, NEW pc, NEW key, NEW waiting, NEW id, NEW order,
         Becomes(c, pc, key, waiting, id, order)
  PROVE  /\ calls'[c].pc = pc /\ calls'[c].key = key
         /\ calls'[c].id = id /\ calls'[c].order = order
  BY DEF Becomes

\* The fields of a call whose place alone changes.
LEMMA MovesFields ==
  ASSUME NEW c \in Calls, NEW pc, Moves(c, pc)
  PROVE  /\ calls'[c].pc = pc /\ calls'[c].key = calls[c].key
         /\ calls'[c].id = calls[c].id /\ calls'[c].order = calls[c].order
  BY CallFields DEF Moves

\* The fields of a human whose record is known.
LEMMA HumanFields ==
  ASSUME NEW h \in Humans, NEW pc, NEW reviewed, NEW order, NEW hash,
         HumanBecomes(h, pc, reviewed, order, hash)
  PROVE  humans'[h].pc = pc /\ humans'[h].order = order /\ humans'[h].hash = hash
  BY DEF HumanBecomes

\* The fields of the orders when one is rewritten.
LEMMA OrderFields ==
  ASSUME NEW i \in DOMAIN orders, NEW status, NEW approval_status, NEW with,
         Rewritten(i, status, approval_status, with)
  PROVE  /\ DOMAIN orders' = DOMAIN orders
         /\ orders'[i].key = orders[i].key
         /\ orders'[i].status = status
         /\ orders'[i].approval_status = approval_status
         /\ orders'[i].approvedWith = with
         /\ \A j \in DOMAIN orders : j # i => orders'[j] = orders[j]
  BY DEF Rewritten

\* A new order is a draft nobody has submitted.
LEMMA NewOrderFields ==
  ASSUME NEW k
  PROVE  /\ NewOrder(k).key = k /\ NewOrder(k).status = "draft"
         /\ NewOrder(k).approval_status = "not_submitted"
  BY DEF NewOrder

-----------------------------------------------------------------------------
\* The inductive invariant.

\* The page an approval is given on shows the key of the order that is held.
ApprovalInv ==
  /\ ApprovedAsReviewed
  /\ \A h \in Humans :
       humans[h].pc \in Approving => orders[humans[h].order].key = humans[h].hash

\* Between the two writes of a submit or of an approval the order is no draft.
StatusInv ==
  /\ PendingIsNoDraft
  /\ \A c \in Calls :
       calls[c].pc = "pending" => orders[calls[c].order].status # "draft"
  /\ \A h \in Humans :
       humans[h].pc = "final" => orders[humans[h].order].status # "draft"

\* No create was taken up while another with its key was under way: a key that
\* is not stored yet has no order, or one whose handler is about to store it.
KeysApart ==
  /\ \A i, j \in DOMAIN orders : orders[i].key = orders[j].key => i = j
  /\ \A c, d \in Calls :
       calls[c].pc \in Creating /\ calls[d].pc \in Creating
         /\ calls[c].key = calls[d].key => c = d
  /\ \A c \in Calls :
       calls[c].pc \in {"number", "insert"} =>
         \A i \in DOMAIN orders : orders[i].key # calls[c].key
  /\ \A i \in DOMAIN orders :
       \/ orders[i].key \in DOMAIN IDEMPOTENCY
       \/ \E c \in Calls : calls[c].pc = "remember" /\ calls[c].key = orders[i].key

KeyInv == "key" \notin overlaps => KeysApart

\* What a call knows of its order when no two requests have overlapped.
CallKnows(c) ==
  /\ calls[c].pc \in Creating => calls[c].key \notin DOMAIN IDEMPOTENCY
  /\ calls[c].pc = "insert" => calls[c].id = Len(orders) + 1
  /\ calls[c].pc = "remember" =>
       /\ orders[calls[c].id].key = calls[c].key
       /\ orders[calls[c].id].approval_status = "not_submitted"
  /\ calls[c].pc = "submit" /\ c \in ACCESS_TOKENS =>
       /\ calls[c].id \in DOMAIN orders
       /\ orders[calls[c].id].key = calls[c].key
  /\ calls[c].pc \in Submitting =>
       /\ orders[calls[c].order].key = calls[c].key
       /\ orders[calls[c].order].approval_status = "not_submitted"

\* No two requests have overlapped: one handler runs, every order has the number
\* of its place, and every key names its own order.
OneHandler ==
  /\ \A c, d \in Handled : c = d
  /\ \A h, g \in Humans :
       humans[h].pc \in Approving /\ humans[g].pc \in Approving => h = g
  /\ \A c \in Handled, h \in Humans : humans[h].pc \notin Approving
Numbered ==
  /\ DOMAIN PURCHASE_ORDERS = DOMAIN orders
  /\ \A i \in DOMAIN orders : PURCHASE_ORDERS[i] = i
  /\ \A k \in DOMAIN IDEMPOTENCY : orders[IDEMPOTENCY[k]].key = k
HumanKnows(h) ==
  humans[h].pc \in Approving =>
    orders[humans[h].order].approval_status = "pending_approval"
Serial ==
  /\ OneHandler
  /\ Numbered
  /\ \A c \in Calls : CallKnows(c)
  /\ \A h \in Humans : HumanKnows(h)

SerialInv == "handlers" \notin overlaps => Serial

IInv == TypeOK /\ TableInv /\ ApprovalInv /\ StatusInv /\ KeyInv /\ SerialInv

-----------------------------------------------------------------------------
\* Approvals and statuses.

\* Every step keeps approvals on the page that showed the order.
LEMMA ApprovalNext ==
  ASSUME TypeOK, ApprovalInv, Next
  PROVE  ApprovalInv'
<1>1. ASSUME NEW c \in Calls, CallStep(c)
      PROVE  ApprovalInv'
  <2>1. ASSUME NEW i \in DOMAIN orders', orders'[i].approval_status = "approved"
        PROVE  orders'[i].approvedWith = orders'[i].key
    <3>1. CASE orders' = orders
      BY <2>1, <3>1 DEF ApprovalInv, ApprovedAsReviewed
    <3>2. CASE InsertOrder(c)
      <4>1. (i \in DOMAIN orders /\ orders'[i] = orders[i]) \/ i = Len(orders) + 1
        BY <3>2, OrderMoves
      <4>2. orders'[Len(orders) + 1].approval_status = "not_submitted"
        BY <3>2, OrderMoves, NewOrderFields
      <4> QED
        BY <2>1, <4>1, <4>2 DEF ApprovalInv, ApprovedAsReviewed
    <3>3. CASE MarkSubmitted(c)
      BY <2>1, <3>3, OrderMoves, OrderFields DEF ApprovalInv, ApprovedAsReviewed
    <3>4. CASE MarkPending(c)
      BY <2>1, <3>4, OrderMoves, OrderFields DEF ApprovalInv, ApprovedAsReviewed
    <3> QED
      BY <1>1, <3>1, <3>2, <3>3, <3>4, OrdersSame
  <2>2. humans' = humans
    BY <1>1, OtherCalls DEF TypeOK
  <2>3. ASSUME NEW h \in Humans, humans'[h].pc \in Approving
        PROVE  orders'[humans'[h].order].key = humans'[h].hash
    BY <1>1, <2>2, <2>3, OrdersKept DEF Kept, ApprovalInv, TypeOK
  <2> QED
    BY <2>1, <2>3 DEF ApprovalInv, ApprovedAsReviewed
<1>2. ASSUME NEW h \in Humans, HumanStep(h)
      PROVE  ApprovalInv'
  <2>1. ASSUME NEW i \in DOMAIN orders', orders'[i].approval_status = "approved"
        PROVE  orders'[i].approvedWith = orders'[i].key
    <3>1. CASE orders' = orders
      BY <2>1, <3>1 DEF ApprovalInv, ApprovedAsReviewed
    <3>2. CASE ApproveStatus(h)
      BY <2>1, <3>2, OrderMoves, OrderFields DEF ApprovalInv, ApprovedAsReviewed
    <3>3. CASE ApproveFinal(h)
      <4>1. orders[humans[h].order].key = humans[h].hash
        BY <3>3 DEF ApproveFinal, Approving, ApprovalInv
      <4> QED
        BY <2>1, <3>3, <4>1, OrderMoves, OrderFields DEF ApprovalInv, ApprovedAsReviewed
    <3> QED
      BY <1>2, <3>1, <3>2, <3>3, OrdersSame
  <2>2. ASSUME NEW g \in Humans, humans'[g] = humans[g], humans[g].pc \in Approving
        PROVE  orders'[humans'[g].order].key = humans'[g].hash
    BY <1>2, <2>2, OrdersKept DEF Kept, ApprovalInv, TypeOK
  <2>3. ASSUME humans'[h].pc \in Approving
        PROVE  orders'[humans'[h].order].key = humans'[h].hash
    <3>1. CASE Login(h) \/ SessionExpires(h)
      BY <2>2, <2>3, <3>1 DEF Login, SessionExpires
    <3>2. CASE \E id \in DOMAIN PURCHASE_ORDERS : Review(h, id)
      <4>1. humans'[h].pc = "idle"
        <5>1. PICK id \in DOMAIN PURCHASE_ORDERS : Review(h, id)
          BY <3>2
        <5>2. HumanBecomes(h, "idle", humans[h].reviewed \cup {<<id, Find(id).key>>},
                           humans[h].order, humans[h].hash)
          BY <5>1, HumanMoves DEF TypeOK
        <5> QED
          BY <5>2, HumanFields
      <4> QED
        BY <2>3, <4>1 DEF Approving
    <3>3. ASSUME NEW page \in humans[h].reviewed, CheckApproval(h, page[1], page[2])
          PROVE  orders'[humans'[h].order].key = humans'[h].hash
      <4>1. humans'[h].order = PURCHASE_ORDERS[page[1]] /\ humans'[h].hash = page[2]
        BY <3>3, HumanMoves, HumanFields DEF TypeOK
      <4>2. orders' = orders /\ page[2] = orders[PURCHASE_ORDERS[page[1]]].key
        BY <3>3 DEF CheckApproval, Find, memory
      <4> QED
        BY <4>1, <4>2
    <3>4. CASE ApproveStatus(h)
      <4>1. /\ humans'[h].order = humans[h].order /\ humans'[h].hash = humans[h].hash
            /\ humans[h].pc \in Approving
        BY <3>4, HumanMoves, HumanFields DEF TypeOK, ApproveStatus, Approving
      <4> QED
        BY <1>2, <4>1, OrdersKept DEF Kept, ApprovalInv, TypeOK
    <3>5. CASE ApproveFinal(h)
      BY <2>3, <3>5, HumanMoves, HumanFields DEF TypeOK, Approving
    <3> QED
      BY <1>2, <3>1, <3>2, <3>3, <3>4, <3>5 DEF HumanStep
  <2>4. \A g \in Humans : g # h => humans'[g] = humans[g]
    BY <1>2, OtherHumans DEF TypeOK
  <2> QED
    BY <2>1, <2>2, <2>3, <2>4 DEF ApprovalInv, ApprovedAsReviewed
<1>3. CASE Restart
  <2>1. DOMAIN orders' = {}
    BY <1>3, NoOrders DEF Restart
  <2>2. \A h \in Humans : humans'[h].pc \notin Approving
    BY <1>3, RestartMoves DEF HumanBecomes, Approving
  <2> QED
    BY <2>1, <2>2 DEF ApprovalInv, ApprovedAsReviewed
<1> QED
  BY <1>1, <1>2, <1>3, NextSteps

\* Every step keeps orders that are not drafts from looking like drafts.
LEMMA StatusNext ==
  ASSUME TypeOK, StatusInv, Next
  PROVE  StatusInv'
<1>1. ASSUME NEW c \in Calls, CallStep(c)
      PROVE  StatusInv'
  <2>1. PendingIsNoDraft'
    <3> SUFFICES ASSUME NEW i \in DOMAIN orders',
                        orders'[i].approval_status # "not_submitted"
                 PROVE  orders'[i].status # "draft"
      BY DEF PendingIsNoDraft
    <3>1. CASE orders' = orders
      BY <3>1 DEF StatusInv, PendingIsNoDraft
    <3>2. CASE InsertOrder(c)
      <4>1. (i \in DOMAIN orders /\ orders'[i] = orders[i]) \/ i = Len(orders) + 1
        BY <3>2, OrderMoves
      <4>2. orders'[Len(orders) + 1].approval_status = "not_submitted"
        BY <3>2, OrderMoves, NewOrderFields
      <4> QED
        BY <4>1, <4>2 DEF StatusInv, PendingIsNoDraft
    <3>3. CASE MarkSubmitted(c)
      BY <3>3, OrderMoves, OrderFields DEF StatusInv, PendingIsNoDraft
    <3>4. CASE MarkPending(c)
      <4>1. orders[calls[c].order].status # "draft"
        BY <3>4 DEF MarkPending, StatusInv
      <4> QED
        BY <3>4, <4>1, OrderMoves, OrderFields DEF StatusInv, PendingIsNoDraft
    <3> QED
      BY <1>1, <3>1, <3>2, <3>3, <3>4, OrdersSame
  <2>2. \A h \in Humans :
          humans'[h].pc = "final" => orders'[humans'[h].order].status # "draft"
    BY <1>1, OtherCalls, OrdersKept DEF Kept, StatusInv, TypeOK, Approving
  <2>3. ASSUME NEW d \in Calls, calls'[d].pc = "pending"
        PROVE  orders'[calls'[d].order].status # "draft"
    <3>1. CASE calls[d].pc = "pending" /\ calls'[d].order = calls[d].order
      BY <1>1, <3>1, OrdersKept DEF Kept, StatusInv, TypeOK, Submitting
    <3>2. CASE MarkSubmitted(c) /\ d = c
      <4>1. calls'[c].order = calls[c].order
        BY <3>2, CallMoves, MovesFields DEF TypeOK
      <4>2. orders'[calls[c].order].status = "submitted"
        BY <3>2, OrderMoves, OrderFields
      <4> QED
        BY <3>2, <4>1, <4>2
    <3>3. CASE GiveUp(c) /\ d = c
      <4>1. Becomes(c, calls[c].pc, calls[c].key, FALSE, calls[c].id, calls[c].order)
        BY <3>3, CallMoves DEF TypeOK
      <4>2. calls'[c].pc = calls[c].pc /\ calls'[c].order = calls[c].order
        BY <4>1, CallFields
      <4> QED
        BY <2>3, <3>1, <3>3, <4>2
    <3>4. CASE d # c
      BY <1>1, <2>3, <3>1, <3>4, OtherCalls DEF TypeOK
    <3>5. CASE d = c /\ ~MarkSubmitted(c) /\ ~GiveUp(c)
      <4>1. \/ Ends(c)
            \/ \E pc \in CallPCs \ {"pending"} : \E key, waiting, id, order :
                 Becomes(c, pc, key, waiting, id, order)
        BY <1>1, <3>5, CallMoves
           DEF Moves, TypeOK, CallStep, Serve, CallPCs, Creating, Submitting
      <4>2. ASSUME NEW pc, NEW key, NEW waiting, NEW id, NEW order,
                   Becomes(c, pc, key, waiting, id, order)
            PROVE  calls'[c].pc = pc
        BY <4>2 DEF Becomes
      <4> QED
        BY <2>3, <3>5, <4>1, <4>2 DEF Ends
    <3> QED
      BY <3>2, <3>3, <3>4, <3>5
  <2> QED
    BY <2>1, <2>2, <2>3 DEF StatusInv
<1>2. ASSUME NEW h \in Humans, HumanStep(h)
      PROVE  StatusInv'
  <2>1. PendingIsNoDraft'
    <3> SUFFICES ASSUME NEW i \in DOMAIN orders',
                        orders'[i].approval_status # "not_submitted"
                 PROVE  orders'[i].status # "draft"
      BY DEF PendingIsNoDraft
    <3>1. CASE orders' = orders
      BY <3>1 DEF StatusInv, PendingIsNoDraft
    <3>2. CASE ApproveStatus(h)
      BY <3>2, OrderMoves, OrderFields DEF StatusInv, PendingIsNoDraft
    <3>3. CASE ApproveFinal(h)
      <4>1. orders[humans[h].order].status # "draft"
        BY <3>3 DEF ApproveFinal, StatusInv
      <4> QED
        BY <3>3, <4>1, OrderMoves, OrderFields DEF StatusInv, PendingIsNoDraft
    <3> QED
      BY <1>2, <3>1, <3>2, <3>3, OrdersSame
  <2>2. ASSUME NEW c \in Calls, calls'[c].pc = "pending"
        PROVE  orders'[calls'[c].order].status # "draft"
    BY <1>2, <2>2, OtherHumans, OrdersKept DEF Kept, StatusInv, TypeOK, Submitting
  <2>3. ASSUME NEW g \in Humans, humans'[g].pc = "final"
        PROVE  orders'[humans'[g].order].status # "draft"
    <3>1. CASE humans'[g] = humans[g]
      BY <1>2, <2>3, <3>1, OrdersKept DEF Kept, StatusInv, TypeOK, Approving
    <3>2. CASE ApproveStatus(h) /\ g = h
      BY <3>2, HumanMoves, HumanFields, OrderMoves, OrderFields DEF TypeOK
    <3>3. CASE g # h
      BY <1>2, <3>1, <3>3, OtherHumans DEF TypeOK
    <3>4. CASE g = h /\ ~ApproveStatus(h)
      <4>1. CASE Login(h) \/ SessionExpires(h)
        BY <3>1, <3>4, <4>1 DEF Login, SessionExpires
      <4>2. CASE ~(Login(h) \/ SessionExpires(h))
        <5>1. \E pc \in {"idle", "status"} : \E reviewed, order, hash :
                HumanBecomes(h, pc, reviewed, order, hash)
          <6>1. ASSUME NEW id \in DOMAIN PURCHASE_ORDERS, Review(h, id)
                PROVE  \E reviewed, order, hash :
                         HumanBecomes(h, "idle", reviewed, order, hash)
            BY <6>1, HumanMoves DEF TypeOK
          <6>2. ASSUME NEW page \in humans[h].reviewed,
                       CheckApproval(h, page[1], page[2])
                PROVE  \E reviewed, order, hash :
                         HumanBecomes(h, "status", reviewed, order, hash)
            BY <6>2, HumanMoves DEF TypeOK
          <6>3. CASE ApproveFinal(h)
            BY <6>3, HumanMoves DEF TypeOK
          <6> QED
            BY <1>2, <3>4, <4>2, <6>1, <6>2, <6>3 DEF HumanStep
        <5>2. ASSUME NEW pc, NEW reviewed, NEW order, NEW hash,
                     HumanBecomes(h, pc, reviewed, order, hash)
              PROVE  humans'[h].pc = pc
          BY <5>2 DEF HumanBecomes
        <5> QED
          BY <2>3, <3>4, <5>1, <5>2
      <4> QED
        BY <4>1, <4>2
    <3> QED
      BY <3>2, <3>3, <3>4
  <2> QED
    BY <2>1, <2>2, <2>3 DEF StatusInv
<1>3. CASE Restart
  <2>1. DOMAIN orders' = {}
    BY <1>3, NoOrders DEF Restart
  <2>2. \A h \in Humans : humans'[h].pc = "idle"
    BY <1>3, RestartMoves DEF HumanBecomes
  <2>3. ASSUME NEW c \in Calls
        PROVE  calls'[c].pc # "pending"
    <3>1. CASE Ends(c)
      BY <3>1 DEF Ends, Becomes
    <3>2. CASE calls'[c] = calls[c] /\ c \notin Handled
      BY <3>2 DEF Handled, Submitting
    <3> QED
      BY <1>3, <3>1, <3>2, RestartMoves
  <2> QED
    BY <2>1, <2>2, <2>3 DEF StatusInv, PendingIsNoDraft
<1> QED
  BY <1>1, <1>2, <1>3, NextSteps

-----------------------------------------------------------------------------
\* Keys.

\* The fields of a call after its step.
SameCall(c) ==
  /\ calls'[c].pc = calls[c].pc /\ calls'[c].key = calls[c].key
  /\ calls'[c].id = calls[c].id /\ calls'[c].order = calls[c].order
Ended(c) == calls'[c].pc \in {"done", "failed"}
Goes(c, pc) ==
  /\ calls'[c].pc = pc /\ calls'[c].key = calls[c].key
  /\ calls'[c].id = calls[c].id /\ calls'[c].order = calls[c].order

\* Where every action of a call leaves it.
LEMMA CallSteps ==
  ASSUME TypeOK, NEW c \in Calls, CallStep(c)
  PROVE  \/ (\E k \in Keys : CallTool(c, k)) /\ calls'[c].pc = "token"
         \/ GiveUp(c) /\ SameCall(c)
         \/ OauthToken(c) /\ (calls'[c].pc = "create" \/ Ended(c))
         \/ (RefuseCreate(c) \/ RefuseSubmit(c)) /\ Ended(c)
         \/ /\ Replay(c)
            /\ \/ /\ calls'[c].pc = "submit" /\ calls'[c].key = calls[c].key
                  /\ calls'[c].id = IDEMPOTENCY[calls[c].key]
               \/ Ended(c)
         \/ CheckCreate(c) /\ Goes(c, "number")
         \/ /\ NumberOrder(c)
            /\ calls'[c].pc = "insert" /\ calls'[c].key = calls[c].key
            /\ calls'[c].id = Cardinality(DOMAIN PURCHASE_ORDERS) + 1
         \/ InsertOrder(c) /\ Goes(c, "remember")
         \/ RememberKey(c) /\ (Goes(c, "submit") \/ Ended(c))
         \/ /\ CheckSubmit(c)
            /\ \/ /\ Find(calls[c].id).status = "draft"
                  /\ calls'[c].pc = "submitted" /\ calls'[c].key = calls[c].key
                  /\ calls'[c].order = PURCHASE_ORDERS[calls[c].id]
               \/ Ended(c)
         \/ MarkSubmitted(c) /\ Goes(c, "pending")
         \/ MarkPending(c) /\ Ended(c)
<1>1. calls \in [Calls -> Call]
  BY DEF TypeOK
<1>2. Ends(c) => Ended(c)
  BY CallFields DEF Ends, Ended
<1>3. \A pc : Moves(c, pc) => Goes(c, pc)
  BY MovesFields DEF Goes
<1>4. CASE \E k \in Keys : CallTool(c, k)
  <2>1. PICK k \in Keys : CallTool(c, k)
    BY <1>4
  <2>2. Becomes(c, "token", k, calls[c].waiting, calls[c].id, calls[c].order)
    BY <1>1, <2>1, CallMoves
  <2> QED
    BY <1>4, <2>2, CallFields
<1>5. CASE GiveUp(c)
  <2>1. Becomes(c, calls[c].pc, calls[c].key, FALSE, calls[c].id, calls[c].order)
    BY <1>1, <1>5, CallMoves
  <2>2. SameCall(c)
    BY <2>1, CallFields DEF SameCall
  <2> QED
    BY <1>5, <2>2
<1>6. CASE OauthToken(c)
  BY <1>1, <1>2, <1>6, CallMoves, MovesFields
<1>7. CASE RefuseCreate(c) \/ RefuseSubmit(c)
  BY <1>1, <1>2, <1>7, CallMoves
<1>8. CASE Replay(c)
  <2>1. \/ Becomes(c, "submit", calls[c].key, calls[c].waiting,
                   IDEMPOTENCY[calls[c].key], calls[c].order)
        \/ Ends(c)
    BY <1>1, <1>8, CallMoves
  <2> QED
    BY <1>2, <1>8, <2>1, CallFields
<1>9. CASE CheckCreate(c)
  BY <1>1, <1>3, <1>9, CallMoves
<1>10. CASE NumberOrder(c)
  <2>1. Becomes(c, "insert", calls[c].key, calls[c].waiting,
                Cardinality(DOMAIN PURCHASE_ORDERS) + 1, calls[c].order)
    BY <1>1, <1>10, CallMoves
  <2> QED
    BY <1>10, <2>1, CallFields
<1>11. CASE InsertOrder(c)
  BY <1>1, <1>3, <1>11, CallMoves
<1>12. CASE RememberKey(c)
  BY <1>1, <1>2, <1>3, <1>12, CallMoves
<1>13. CASE CheckSubmit(c)
  <2>1. \/ /\ Find(calls[c].id).status = "draft"
           /\ Becomes(c, "submitted", calls[c].key, calls[c].waiting, calls[c].id,
                      PURCHASE_ORDERS[calls[c].id])
        \/ Ends(c)
    BY <1>1, <1>13, CallMoves
  <2> QED
    BY <1>2, <1>13, <2>1, CallFields
<1>14. CASE MarkSubmitted(c)
  BY <1>1, <1>3, <1>14, CallMoves
<1>15. CASE MarkPending(c)
  BY <1>1, <1>2, <1>15, CallMoves
<1> QED
  BY <1>4, <1>5, <1>6, <1>7, <1>8, <1>9, <1>10, <1>11, <1>12, <1>13, <1>14, <1>15
     DEF CallStep, Serve

\* Only an insert adds an order; no other step changes which keys the orders have.
SameKeys ==
  /\ DOMAIN orders' = DOMAIN orders
  /\ \A i \in DOMAIN orders : orders'[i].key = orders[i].key

\* All steps but an insert and a restart leave the keys of the orders.
LEMMA KeysSame ==
  ASSUME TypeOK
  PROVE  /\ \A c \in Calls : CallStep(c) => InsertOrder(c) \/ SameKeys
         /\ \A h \in Humans : HumanStep(h) => SameKeys
<1>1. orders' = orders => SameKeys
  BY DEF SameKeys
<1>2. ASSUME NEW i \in DOMAIN orders, NEW status, NEW approval_status, NEW with,
             Rewritten(i, status, approval_status, with)
      PROVE  SameKeys
  BY <1>2, OrderFields DEF SameKeys
<1>3. ASSUME NEW c \in Calls, MarkSubmitted(c)
      PROVE  SameKeys
  BY <1>2, <1>3, OrderMoves
<1>4. ASSUME NEW c \in Calls, MarkPending(c)
      PROVE  SameKeys
  BY <1>2, <1>4, OrderMoves
<1>5. ASSUME NEW h \in Humans, ApproveStatus(h)
      PROVE  SameKeys
  BY <1>2, <1>5, OrderMoves
<1>6. ASSUME NEW h \in Humans, ApproveFinal(h)
      PROVE  SameKeys
  BY <1>2, <1>6, OrderMoves
<1> QED
  BY <1>1, <1>3, <1>4, <1>5, <1>6, OrdersSame

\* Steps that change neither keys nor creates.
LEMMA KeysApartKept ==
  ASSUME KeysApart, SameKeys, IDEMPOTENCY' = IDEMPOTENCY,
         \A d \in Calls :
           /\ calls'[d].pc \in Creating =>
                calls'[d].pc = calls[d].pc /\ calls'[d].key = calls[d].key
           /\ calls[d].pc = "remember" =>
                calls'[d].pc = calls[d].pc /\ calls'[d].key = calls[d].key
  PROVE  KeysApart'
  BY DEF KeysApart, SameKeys, Creating

\* The history only grows.
LEMMA Monotone ==
  ASSUME TypeOK, Next
  PROVE  overlaps \subseteq overlaps'
<1>1. ASSUME NEW c \in Calls, CallStep(c)
      PROVE  overlaps \subseteq overlaps'
  BY <1>1, TablesMove DEF Note
<1>2. ASSUME NEW h \in Humans, HumanStep(h)
      PROVE  overlaps \subseteq overlaps'
  BY <1>2, HumanLeaves DEF Note
<1>3. CASE Restart
  BY <1>3 DEF Restart
<1> QED
  BY <1>1, <1>2, <1>3, NextSteps

\* The steps of a create keep the keys apart.
LEMMA CreateKeys ==
  ASSUME IInv, NEW c \in Calls, CallStep(c), KeysApart, "key" \notin overlaps'
  PROVE  KeysApart'
<1>1. \A d \in Calls : d # c => calls'[d] = calls[d]
  BY OtherCalls DEF IInv, TypeOK
<1>2. TypeOK /\ TableInv
  BY DEF IInv
<1>3. CASE CheckCreate(c)
  <2>1. /\ calls[c].key \notin DOMAIN IDEMPOTENCY /\ calls[c].pc = "create"
        /\ Note(CreatingWith(calls[c].key)) /\ UNCHANGED <<orders, IDEMPOTENCY>>
    BY <1>3 DEF CheckCreate, memory
  <2>2. \A d \in Calls : calls[d].pc \in Creating => calls[d].key # calls[c].key
    BY <2>1 DEF Note, CreatingWith
  <2>3. calls'[c].pc = "number" /\ calls'[c].key = calls[c].key
    BY <1>2, <1>3, CallMoves, MovesFields DEF TypeOK
  <2>4. \A i \in DOMAIN orders : orders[i].key # calls[c].key
    BY <2>1, <2>2 DEF KeysApart, Creating
  <2>5. \A d, e \in Calls :
          calls'[d].pc \in Creating /\ calls'[e].pc \in Creating
            /\ calls'[d].key = calls'[e].key => d = e
    BY <1>1, <2>2, <2>3 DEF KeysApart
  <2>6. \A d \in Calls :
          calls'[d].pc \in {"number", "insert"} =>
            \A i \in DOMAIN orders : orders[i].key # calls'[d].key
    BY <1>1, <2>3, <2>4 DEF KeysApart
  <2>7. \A d \in Calls : calls[d].pc = "remember" => calls'[d] = calls[d]
    BY <1>1, <2>1
  <2> QED
    BY <2>1, <2>5, <2>6, <2>7 DEF KeysApart
<1>4. CASE NumberOrder(c)
  <2>1. calls[c].pc = "number" /\ UNCHANGED <<orders, IDEMPOTENCY>>
    BY <1>4 DEF NumberOrder, memory
  <2>2. calls'[c].pc = "insert" /\ calls'[c].key = calls[c].key
    <3>1. Becomes(c, "insert", calls[c].key, calls[c].waiting,
                  Cardinality(DOMAIN PURCHASE_ORDERS) + 1, calls[c].order)
      BY <1>2, <1>4, CallMoves DEF TypeOK
    <3> QED
      BY <3>1, CallFields
  <2>3. \A d \in Calls : /\ calls'[d].key = calls[d].key
                         /\ calls'[d].pc \in Creating => calls[d].pc \in Creating
                         /\ calls'[d].pc \in {"number", "insert"} =>
                              calls[d].pc \in {"number", "insert"}
                         /\ calls[d].pc = "remember" => calls'[d].pc = "remember"
    BY <1>1, <2>1, <2>2 DEF Creating
  <2> QED
    BY <2>1, <2>3 DEF KeysApart
<1>5. CASE InsertOrder(c)
  <2> DEFINE n == Len(orders) + 1
  <2>1. calls[c].pc = "insert" /\ IDEMPOTENCY' = IDEMPOTENCY
    BY <1>5 DEF InsertOrder
  <2>2. calls'[c].pc = "remember" /\ calls'[c].key = calls[c].key
    BY <1>2, <1>5, CallMoves, MovesFields DEF TypeOK
  <2>3. /\ \A i \in DOMAIN orders' : i \in DOMAIN orders \/ i = n
        /\ n \in DOMAIN orders' /\ DOMAIN orders \subseteq DOMAIN orders'
        /\ \A i \in DOMAIN orders : orders'[i] = orders[i]
        /\ orders'[n].key = calls[c].key
    BY <1>2, <1>5, OrderMoves, NewOrderFields
  <2> HIDE DEF n
  <2>4. \A i \in DOMAIN orders : orders[i].key # calls[c].key
    BY <2>1 DEF KeysApart
  <2>5. \A d \in Calls : calls[d].pc \in Creating /\ d # c => calls[d].key # calls[c].key
    BY <2>1 DEF KeysApart, Creating
  <2>6. \A i, j \in DOMAIN orders' : orders'[i].key = orders'[j].key => i = j
    BY <2>3, <2>4 DEF KeysApart
  <2>7. \A d, e \in Calls :
          calls'[d].pc \in Creating /\ calls'[e].pc \in Creating
            /\ calls'[d].key = calls'[e].key => d = e
    BY <1>1, <2>2, <2>5 DEF KeysApart
  <2>8. \A d \in Calls :
          calls'[d].pc \in {"number", "insert"} =>
            \A i \in DOMAIN orders' : orders'[i].key # calls'[d].key
    <3>1. ASSUME NEW d \in Calls, calls'[d].pc \in {"number", "insert"},
                 NEW i \in DOMAIN orders'
          PROVE  orders'[i].key # calls'[d].key
      <4>1. d # c /\ calls'[d] = calls[d]
        BY <1>1, <2>2, <3>1
      <4>2. calls[d].key # calls[c].key
        BY <2>5, <3>1, <4>1 DEF Creating
      <4> QED
        BY <2>3, <3>1, <4>1, <4>2 DEF KeysApart
    <3> QED
      BY <3>1
  <2>9. \A i \in DOMAIN orders' :
          \/ orders'[i].key \in DOMAIN IDEMPOTENCY'
          \/ \E d \in Calls : calls'[d].pc = "remember" /\ calls'[d].key = orders'[i].key
    <3>1. ASSUME NEW i \in DOMAIN orders, orders[i].key \notin DOMAIN IDEMPOTENCY
          PROVE  \E d \in Calls :
                   calls'[d].pc = "remember" /\ calls'[d].key = orders[i].key
      <4>1. PICK d \in Calls : calls[d].pc = "remember" /\ calls[d].key = orders[i].key
        BY <3>1 DEF KeysApart
      <4>2. calls'[d] = calls[d]
        BY <1>1, <2>1, <4>1
      <4> QED
        BY <4>1, <4>2
    <3> QED
      BY <2>1, <2>2, <2>3, <3>1
  <2> QED
    BY <2>6, <2>7, <2>8, <2>9 DEF KeysApart
<1>6. CASE RememberKey(c)
  <2>1. /\ calls[c].pc = "remember" /\ orders' = orders
        /\ DOMAIN IDEMPOTENCY' = DOMAIN IDEMPOTENCY \cup {calls[c].key}
    BY <1>2, <1>6, RememberTables DEF RememberKey
  <2>2. calls'[c].pc \in {"submit", "done", "failed"}
    <3>1. Moves(c, "submit") \/ Ends(c)
      BY <1>2, <1>6, CallMoves DEF TypeOK
    <3> QED
      BY <3>1, MovesFields, EndedOK
  <2>3. \A i \in DOMAIN orders :
          \/ orders[i].key \in DOMAIN IDEMPOTENCY'
          \/ \E d \in Calls : calls'[d].pc = "remember" /\ calls'[d].key = orders[i].key
    <3>1. ASSUME NEW i \in DOMAIN orders, NEW d \in Calls, calls[d].pc = "remember",
                 calls[d].key = orders[i].key
          PROVE  \/ orders[i].key \in DOMAIN IDEMPOTENCY'
                 \/ calls'[d].pc = "remember" /\ calls'[d].key = orders[i].key
      BY <1>1, <2>1, <3>1
    <3> QED
      BY <2>1, <3>1 DEF KeysApart
  <2>4. \A d \in Calls : calls'[d].pc \in Creating =>
          calls'[d] = calls[d]
    BY <1>1, <2>2 DEF Creating
  <2>5. \A d \in Calls : calls'[d].pc \in {"number", "insert"} => calls'[d] = calls[d]
    BY <2>4 DEF Creating
  <2> QED
    BY <2>1, <2>3, <2>4, <2>5 DEF KeysApart
<1>7. CASE ~(CheckCreate(c) \/ NumberOrder(c) \/ InsertOrder(c) \/ RememberKey(c))
  <2>1. SameKeys /\ IDEMPOTENCY' = IDEMPOTENCY
    BY <1>2, <1>7, KeysSame, TablesMove
  <2>2. \/ SameCall(c)
        \/ /\ calls'[c].pc \notin Creating
           /\ calls[c].pc # "remember"
    <3>1. GiveUp(c) => SameCall(c)
      BY <1>2, CallSteps DEF GiveUp, SameCall, OauthToken, Replay, CheckSubmit
    <3>2. CASE ~GiveUp(c)
      <4>1. calls'[c].pc \in {"token", "create", "submit", "submitted", "pending",
                              "done", "failed"}
        BY <1>2, <1>7, <3>2, CallSteps DEF Ended, Goes
      <4>2. calls[c].pc # "remember"
        BY <1>7, <3>2 DEF CallStep, Serve, CallTool, OauthToken, RefuseCreate,
           RefuseSubmit, Replay, CheckSubmit, MarkSubmitted, MarkPending
      <4> QED
        BY <4>1, <4>2 DEF Creating
    <3> QED
      BY <3>1, <3>2
  <2> QED
    BY <1>1, <2>1, <2>2, KeysApartKept DEF SameCall
<1> QED
  BY <1>3, <1>4, <1>5, <1>6, <1>7

\* Every step keeps the keys apart, or a create has overlapped another.
LEMMA KeyNext ==
  ASSUME IInv, Next
  PROVE  KeyInv'
<1> SUFFICES ASSUME "key" \notin overlaps'
             PROVE  KeysApart'
  BY DEF KeyInv
<1>1. TypeOK /\ KeysApart
  BY Monotone DEF IInv, KeyInv
<1>2. ASSUME NEW c \in Calls, CallStep(c)
      PROVE  KeysApart'
  BY <1>1, <1>2, CreateKeys
<1>3. ASSUME NEW h \in Humans, HumanStep(h)
      PROVE  KeysApart'
  <2>1. SameKeys /\ calls' = calls /\ IDEMPOTENCY' = IDEMPOTENCY
    BY <1>1, <1>3, KeysSame, OtherHumans DEF TypeOK
  <2> QED
    BY <1>1, <2>1, KeysApartKept
<1>4. CASE Restart
  <2>1. DOMAIN orders' = {}
    BY <1>4, NoOrders DEF Restart
  <2>2. ASSUME NEW c \in Calls
        PROVE  calls'[c].pc \notin Creating
    <3>1. CASE Ends(c)
      BY <3>1, EndedOK DEF Creating
    <3>2. CASE calls'[c] = calls[c] /\ c \notin Handled
      BY <3>2 DEF Handled
    <3> QED
      BY <1>1, <1>4, <3>1, <3>2, RestartMoves
  <2> QED
    BY <2>1, <2>2 DEF KeysApart, Creating
<1> QED
  BY <1>2, <1>3, <1>4, NextSteps

-----------------------------------------------------------------------------
\* Requests that do not overlap.

\* A call writes the tables only while its request is handled.
LEMMA OnlyHandlersWrite ==
  ASSUME NEW c \in Calls, CallStep(c), c \notin Handled
  PROVE  UNCHANGED memory
<1>1. calls[c].pc \notin Creating \cup Submitting
  BY DEF Handled
<1>2. ~InsertOrder(c) /\ ~RememberKey(c)
  BY <1>1 DEF InsertOrder, RememberKey, Creating
<1>3. ~MarkSubmitted(c) /\ ~MarkPending(c)
  BY <1>1 DEF MarkSubmitted, MarkPending, Submitting
<1> QED
  BY <1>2, <1>3, TablesMove, OrdersSame DEF memory

\* A request that is taken up finds no other handler at work.
LEMMA HandlersAfter ==
  ASSUME TypeOK, NEW c \in Calls, CallStep(c), "handlers" \notin overlaps'
  PROVE  \/ Handled' \subseteq Handled
         \/ /\ Handled = {} /\ Handled' \subseteq {c}
            /\ \A h \in Humans : humans[h].pc \notin Approving
<1>1. \A d \in Calls : d # c => calls'[d] = calls[d]
  BY OtherCalls DEF TypeOK
<1>2. CASE Replay(c) \/ CheckCreate(c) \/ CheckSubmit(c)
  <2>1. ~HandlersRun
    BY <1>2 DEF Replay, CheckCreate, CheckSubmit, Note
  <2> QED
    BY <1>1, <2>1 DEF HandlersRun, Handled
<1>3. CASE ~(Replay(c) \/ CheckCreate(c) \/ CheckSubmit(c))
  <2>1. c \in Handled' => c \in Handled
    <3>1. CASE GiveUp(c)
      <4>1. Becomes(c, calls[c].pc, calls[c].key, FALSE, calls[c].id, calls[c].order)
        BY <3>1, CallMoves DEF TypeOK
      <4> QED
        BY <4>1, CallFields DEF Handled
    <3>2. CASE ~GiveUp(c)
      <4>1. \/ calls'[c].pc \in {"token", "create", "submit", "done", "failed"}
            \/ NumberOrder(c) \/ InsertOrder(c) \/ MarkSubmitted(c)
        BY <1>3, <3>2, CallSteps DEF Ended, Goes
      <4>2. NumberOrder(c) \/ InsertOrder(c) \/ MarkSubmitted(c) => c \in Handled
        BY DEF NumberOrder, InsertOrder, MarkSubmitted, Handled, Creating, Submitting
      <4>3. calls'[c].pc \in {"token", "create", "submit", "done", "failed"} =>
              c \notin Handled'
        BY DEF Handled, Creating, Submitting
      <4> QED
        BY <4>1, <4>2, <4>3
    <3> QED
      BY <3>1, <3>2
  <2> QED
    BY <1>1, <2>1 DEF Handled
<1> QED
  BY <1>2, <1>3

\* The places of a call at which its request is handled.
LEMMA HandledPlaces ==
  ASSUME NEW c \in Calls
  PROVE  calls[c].pc \in {"number", "insert", "remember", "submitted", "pending"}
           <=> c \in Handled
  BY DEF Handled, Creating, Submitting

\* A step of a call keeps every order at the number of its place.
LEMMA SerialNumbered ==
  ASSUME IInv, Serial, NEW c \in Calls, CallStep(c)
  PROVE  Numbered'
<1>1. /\ TypeOK /\ TableInv /\ Numbered /\ CallKnows(c)
      /\ \A k \in DOMAIN IDEMPOTENCY : IDEMPOTENCY[k] \in DOMAIN orders
  BY DEF IInv, Serial, Numbered, TypeOK, Range
<1>2. CASE InsertOrder(c)
  <2>1. calls[c].id = Len(orders) + 1 /\ IDEMPOTENCY' = IDEMPOTENCY
    BY <1>1, <1>2 DEF InsertOrder, CallKnows
  <2> DEFINE n == Len(orders) + 1
  <2>2. /\ Len(orders) \in Nat /\ DOMAIN orders = 1..Len(orders)
        /\ DOMAIN orders' = 1..(Len(orders) + 1)
        /\ \A i \in DOMAIN orders : orders'[i] = orders[i]
    BY <1>1, <1>2, OrderMoves
  <2>3. DOMAIN orders' = DOMAIN orders \cup {n} /\ n \notin DOMAIN orders
    BY <2>2
  <2>4. /\ DOMAIN PURCHASE_ORDERS' = DOMAIN PURCHASE_ORDERS \cup {n}
        /\ PURCHASE_ORDERS'[n] = n
        /\ \A id \in DOMAIN PURCHASE_ORDERS :
             id # n => PURCHASE_ORDERS'[id] = PURCHASE_ORDERS[id]
    BY <1>1, <1>2, <2>1, InsertTables
  <2> HIDE DEF n
  <2> QED
    BY <1>1, <2>1, <2>2, <2>3, <2>4 DEF Numbered
<1>3. CASE RememberKey(c)
  <2>1. orders' = orders /\ PURCHASE_ORDERS' = PURCHASE_ORDERS
    BY <1>3 DEF RememberKey
  <2>2. orders[calls[c].id].key = calls[c].key
    BY <1>1, <1>3 DEF RememberKey, CallKnows
  <2>3. /\ DOMAIN IDEMPOTENCY' = DOMAIN IDEMPOTENCY \cup {calls[c].key}
        /\ IDEMPOTENCY'[calls[c].key] = calls[c].id
        /\ \A k \in DOMAIN IDEMPOTENCY :
             k # calls[c].key => IDEMPOTENCY'[k] = IDEMPOTENCY[k]
    BY <1>1, <1>3, RememberTables
  <2> QED
    BY <1>1, <2>1, <2>2, <2>3 DEF Numbered
<1>4. CASE ~InsertOrder(c) /\ ~RememberKey(c)
  <2>1. SameKeys /\ UNCHANGED <<PURCHASE_ORDERS, IDEMPOTENCY>>
    BY <1>1, <1>4, KeysSame, TablesMove
  <2> QED
    BY <1>1, <2>1 DEF Numbered, SameKeys
<1> QED
  BY <1>2, <1>3, <1>4

\* What the other calls know stays true.
LEMMA SerialOthers ==
  ASSUME IInv, Serial, NEW c \in Calls, CallStep(c), NEW d \in Calls, d # c
  PROVE  CallKnows(d)'
<1>1. /\ TypeOK /\ TableInv /\ CallKnows(d)
      /\ calls'[d] = calls[d]
      /\ d \in ACCESS_TOKENS' => d \in ACCESS_TOKENS
  <2>1. TypeOK /\ TableInv /\ CallKnows(d)
    BY DEF IInv, Serial
  <2>2. calls'[d] = calls[d]
    BY <2>1, OtherCalls DEF TypeOK
  <2>3. OauthToken(c) => ACCESS_TOKENS' = ACCESS_TOKENS \cup {c}
    BY DEF OauthToken
  <2> QED
    BY <2>1, <2>2, <2>3, TablesMove
<1>2. CASE d \in Handled
  <2>1. c \notin Handled
    BY <1>2 DEF Serial, OneHandler
  <2>2. UNCHANGED memory
    BY <2>1, OnlyHandlersWrite
  <2> QED
    BY <1>1, <2>2 DEF CallKnows, memory
<1>3. CASE d \notin Handled
  <2>1. /\ calls[d].pc \notin Creating /\ calls[d].pc \notin Submitting
        /\ calls[d].pc # "insert" /\ calls[d].pc # "remember"
    BY <1>3 DEF Handled, Creating
  <2>2. \A i \in DOMAIN orders : i \in DOMAIN orders' /\ orders'[i].key = orders[i].key
    BY <1>1, OrdersKept DEF Kept
  <2> QED
    BY <1>1, <2>1, <2>2 DEF CallKnows
<1> QED
  BY <1>2, <1>3

\* What a call knows of its own order after its own step.
LEMMA SerialOwn ==
  ASSUME IInv, Serial, NEW c \in Calls, CallStep(c)
  PROVE  CallKnows(c)'
<1>1. TypeOK /\ TableInv /\ Numbered /\ CallKnows(c) /\ PendingIsNoDraft
  BY DEF IInv, Serial, StatusInv
<1>2. ASSUME calls'[c].pc \in {"token", "create", "done", "failed"}
      PROVE  CallKnows(c)'
  BY <1>2 DEF CallKnows, Creating, Submitting
<1>3. CASE GiveUp(c)
  <2>1. Becomes(c, calls[c].pc, calls[c].key, FALSE, calls[c].id, calls[c].order)
    BY <1>1, <1>3, CallMoves DEF TypeOK
  <2>2. SameCall(c)
    BY <2>1, CallFields DEF SameCall
  <2>3. UNCHANGED <<memory, ACCESS_TOKENS>>
    BY <1>3 DEF GiveUp, access
  <2> QED
    BY <1>1, <2>2, <2>3 DEF CallKnows, SameCall, memory
<1>4. CASE Replay(c)
  <2>1. /\ calls[c].key \in DOMAIN IDEMPOTENCY /\ UNCHANGED memory
        /\ ACCESS_TOKENS' = ACCESS_TOKENS
    BY <1>4 DEF Replay, access
  <2>2. /\ IDEMPOTENCY[calls[c].key] \in DOMAIN orders
        /\ orders[IDEMPOTENCY[calls[c].key]].key = calls[c].key
    BY <1>1, <2>1 DEF Numbered, TypeOK, Range
  <2>3. \/ Becomes(c, "submit", calls[c].key, calls[c].waiting,
                   IDEMPOTENCY[calls[c].key], calls[c].order)
        \/ Ends(c)
    BY <1>1, <1>4, CallMoves DEF TypeOK
  <2>4. CASE Ends(c)
    BY <1>2, <2>4, EndedOK
  <2>5. CASE ~Ends(c)
    <3>1. /\ calls'[c].pc = "submit" /\ calls'[c].key = calls[c].key
          /\ calls'[c].id = IDEMPOTENCY[calls[c].key]
      BY <2>3, <2>5, CallFields
    <3> QED
      BY <2>1, <2>2, <3>1 DEF CallKnows, memory, Creating, Submitting
  <2> QED
    BY <2>4, <2>5
<1>5. CASE CheckCreate(c)
  <2>1. calls[c].key \notin DOMAIN IDEMPOTENCY /\ IDEMPOTENCY' = IDEMPOTENCY
    BY <1>5 DEF CheckCreate, memory
  <2>2. calls'[c].pc = "number" /\ calls'[c].key = calls[c].key
    BY <1>1, <1>5, CallMoves, MovesFields DEF TypeOK
  <2> QED
    BY <2>1, <2>2 DEF CallKnows, Submitting
<1>6. CASE NumberOrder(c)
  <2>1. /\ calls[c].pc = "number" /\ UNCHANGED memory
        /\ calls[c].key \notin DOMAIN IDEMPOTENCY
    BY <1>1, <1>6 DEF NumberOrder, CallKnows, Creating
  <2>2. Cardinality(DOMAIN PURCHASE_ORDERS) = Len(orders)
    <3>1. DOMAIN PURCHASE_ORDERS = 1..Len(orders) /\ Len(orders) \in Nat
      BY <1>1, LenProperties DEF Numbered, TypeOK
    <3> QED
      BY <3>1, FS_Interval
  <2>3. Becomes(c, "insert", calls[c].key, calls[c].waiting,
                Cardinality(DOMAIN PURCHASE_ORDERS) + 1, calls[c].order)
    BY <1>1, <1>6, CallMoves DEF TypeOK
  <2>4. /\ calls'[c].pc = "insert" /\ calls'[c].key = calls[c].key
        /\ calls'[c].id = Len(orders) + 1
    BY <2>2, <2>3, CallFields
  <2> QED
    BY <2>1, <2>4 DEF CallKnows, memory, Submitting
<1>7. CASE InsertOrder(c)
  <2>1. /\ calls[c].pc = "insert" /\ IDEMPOTENCY' = IDEMPOTENCY
        /\ calls[c].key \notin DOMAIN IDEMPOTENCY /\ calls[c].id = Len(orders) + 1
    BY <1>1, <1>7 DEF InsertOrder, CallKnows, Creating
  <2>2. /\ calls'[c].pc = "remember" /\ calls'[c].key = calls[c].key
        /\ calls'[c].id = calls[c].id
    BY <1>1, <1>7, CallMoves, MovesFields DEF TypeOK
  <2>3. orders'[Len(orders) + 1] = NewOrder(calls[c].key)
    BY <1>1, <1>7, OrderMoves
  <2>4. /\ orders'[calls'[c].id].key = calls'[c].key
        /\ orders'[calls'[c].id].approval_status = "not_submitted"
    BY <2>1, <2>2, <2>3, NewOrderFields
  <2> QED
    BY <2>1, <2>2, <2>4 DEF CallKnows, Submitting
<1>8. CASE RememberKey(c)
  <2>1. /\ calls[c].pc = "remember" /\ orders' = orders
        /\ calls[c].id \in DOMAIN PURCHASE_ORDERS
    BY <1>1, <1>8 DEF RememberKey, TableInv
  <2>2. Moves(c, "submit") \/ Ends(c)
    BY <1>1, <1>8, CallMoves DEF TypeOK
  <2>3. CASE Ends(c)
    BY <1>2, <2>3, EndedOK
  <2>4. CASE Moves(c, "submit")
    <3>1. /\ calls'[c].pc = "submit" /\ calls'[c].key = calls[c].key
          /\ calls'[c].id = calls[c].id
      BY <2>4, MovesFields
    <3> QED
      BY <1>1, <2>1, <3>1 DEF CallKnows, Numbered, Creating, Submitting
  <2> QED
    BY <2>2, <2>3, <2>4
<1>9. CASE CheckSubmit(c)
  <2>1. /\ calls[c].pc = "submit" /\ c \in ACCESS_TOKENS /\ UNCHANGED memory
        /\ calls[c].id \in DOMAIN PURCHASE_ORDERS
    BY <1>9 DEF CheckSubmit
  <2>2. /\ calls[c].id \in DOMAIN orders /\ PURCHASE_ORDERS[calls[c].id] = calls[c].id
        /\ orders[calls[c].id].key = calls[c].key
    BY <1>1, <2>1 DEF CallKnows, Numbered
  <2>3. \/ /\ Find(calls[c].id).status = "draft"
           /\ Becomes(c, "submitted", calls[c].key, calls[c].waiting, calls[c].id,
                      PURCHASE_ORDERS[calls[c].id])
        \/ Ends(c)
    BY <1>1, <1>9, CallMoves DEF TypeOK
  <2>4. CASE Ends(c)
    BY <1>2, <2>4, EndedOK
  <2>5. CASE ~Ends(c)
    <3>1. /\ calls'[c].pc = "submitted" /\ calls'[c].key = calls[c].key
          /\ calls'[c].order = calls[c].id
      BY <2>2, <2>3, <2>5, CallFields
    <3>2. orders[calls[c].id].approval_status = "not_submitted"
      BY <1>1, <2>2, <2>3, <2>5 DEF PendingIsNoDraft, Find
    <3> QED
      BY <2>1, <2>2, <3>1, <3>2 DEF CallKnows, memory, Creating
  <2> QED
    BY <2>4, <2>5
<1>10. CASE MarkSubmitted(c)
  <2> DEFINE i == calls[c].order
  <2>1. calls[c].pc \in Submitting
    BY <1>10 DEF MarkSubmitted, Submitting
  <2>2. /\ i \in DOMAIN orders
        /\ Rewritten(i, "submitted", orders[i].approval_status, orders[i].approvedWith)
    BY <1>1, <1>10, OrderMoves
  <2>3. orders[i].key = calls[c].key /\ orders[i].approval_status = "not_submitted"
    BY <1>1, <2>1 DEF CallKnows
  <2>4. orders'[i].key = calls[c].key /\ orders'[i].approval_status = "not_submitted"
    BY <2>2, <2>3, OrderFields
  <2>5. /\ calls'[c].pc = "pending" /\ calls'[c].key = calls[c].key
        /\ calls'[c].order = i
    BY <1>1, <1>10, CallMoves, MovesFields DEF TypeOK
  <2> HIDE DEF i
  <2> QED
    BY <2>4, <2>5 DEF CallKnows, Creating
<1>11. CASE \/ OauthToken(c) \/ RefuseCreate(c) \/ RefuseSubmit(c) \/ MarkPending(c)
            \/ \E k \in Keys : CallTool(c, k)
  <2>1. calls'[c].pc \in {"token", "create", "done", "failed"}
    <3>1. CASE OauthToken(c)
      BY <1>1, <3>1, CallMoves, MovesFields, EndedOK DEF TypeOK
    <3>2. CASE RefuseCreate(c) \/ RefuseSubmit(c) \/ MarkPending(c)
      BY <1>1, <3>2, CallMoves, EndedOK DEF TypeOK
    <3>3. ASSUME NEW k \in Keys, CallTool(c, k)
          PROVE  calls'[c].pc = "token"
      <4>1. Becomes(c, "token", k, calls[c].waiting, calls[c].id, calls[c].order)
        BY <1>1, <3>3, CallMoves DEF TypeOK
      <4> QED
        BY <4>1, CallFields
    <3> QED
      BY <1>11, <3>1, <3>2, <3>3
  <2> QED
    BY <1>2, <2>1
<1> QED
  BY <1>3, <1>4, <1>5, <1>6, <1>7, <1>8, <1>9, <1>10, <1>11 DEF CallStep, Serve

\* A step of a call that overlaps no other request.
LEMMA SerialCall ==
  ASSUME IInv, Serial, NEW c \in Calls, CallStep(c), "handlers" \notin overlaps'
  PROVE  Serial'
<1>1. TypeOK /\ OneHandler /\ humans' = humans
  BY OtherCalls DEF IInv, Serial, TypeOK
<1>2. OneHandler'
  BY <1>1, HandlersAfter DEF OneHandler
<1>3. Numbered'
  BY SerialNumbered
<1>4. \A d \in Calls : CallKnows(d)'
  BY SerialOwn, SerialOthers
<1>5. ASSUME NEW h \in Humans, humans[h].pc \in Approving
      PROVE  HumanKnows(h)'
  <2>1. c \notin Handled
    BY <1>1, <1>5 DEF OneHandler
  <2>2. orders' = orders
    BY <2>1, OnlyHandlersWrite DEF memory
  <2> QED
    BY <1>1, <2>2 DEF Serial, HumanKnows
<1>6. \A h \in Humans : HumanKnows(h)'
  BY <1>1, <1>5 DEF HumanKnows
<1> QED
  BY <1>2, <1>3, <1>4, <1>6 DEF Serial

\* A step of a human that overlaps no other request.
LEMMA SerialHuman ==
  ASSUME IInv, Serial, NEW h \in Humans, HumanStep(h), "handlers" \notin overlaps'
  PROVE  Serial'
<1>1. TypeOK /\ OneHandler
  BY DEF IInv, Serial
<1>2. /\ UNCHANGED <<calls, ACCESS_TOKENS, PURCHASE_ORDERS, IDEMPOTENCY>>
      /\ \A g \in Humans : g # h => humans'[g] = humans[g]
  BY <1>1, OtherHumans DEF TypeOK
<1>3. SameKeys
  BY <1>1, KeysSame
<1>4. Numbered'
  <2>1. \A k \in DOMAIN IDEMPOTENCY : IDEMPOTENCY[k] \in DOMAIN orders
    BY <1>1 DEF Serial, Numbered, TypeOK, Range
  <2> QED
    BY <1>2, <1>3, <2>1 DEF Serial, Numbered, SameKeys
<1>5. CASE \E page \in humans[h].reviewed : CheckApproval(h, page[1], page[2])
  <2>1. PICK page \in humans[h].reviewed : CheckApproval(h, page[1], page[2])
    BY <1>5
  <2>2. ~HandlersRun /\ orders' = orders /\ humans[h].pc = "idle"
    BY <2>1 DEF CheckApproval, Note, memory
  <2>3. orders[PURCHASE_ORDERS[page[1]]].approval_status = "pending_approval"
    BY <2>1 DEF CheckApproval, Find
  <2>4. humans'[h].pc = "status" /\ humans'[h].order = PURCHASE_ORDERS[page[1]]
    <3>1. HumanBecomes(h, "status", humans[h].reviewed, PURCHASE_ORDERS[page[1]],
                       page[2])
      BY <1>1, <2>1, HumanMoves DEF TypeOK
    <3> QED
      BY <3>1, HumanFields
  <2>5. \A g \in Humans : humans[g].pc \notin Approving /\ Handled = {}
    BY <2>2 DEF HandlersRun
  <2>6. OneHandler'
    BY <1>2, <2>5 DEF OneHandler, Handled
  <2>7. \A g \in Humans : HumanKnows(g)'
    BY <1>2, <2>2, <2>3, <2>4, <2>5 DEF HumanKnows
  <2>8. \A c \in Calls : CallKnows(c)'
    BY <1>2, <2>2 DEF Serial, CallKnows
  <2> QED
    BY <1>4, <2>6, <2>7, <2>8 DEF Serial
<1>6. CASE ApproveStatus(h) \/ ApproveFinal(h)
  <2>1. humans[h].pc \in Approving
    BY <1>6 DEF ApproveStatus, ApproveFinal, Approving
  <2>2. Handled = {} /\ \A g \in Humans : humans[g].pc \in Approving => g = h
    BY <1>1, <2>1 DEF OneHandler
  <2>3. OneHandler'
    BY <1>2, <2>2 DEF OneHandler, Handled
  <2>4. \A c \in Calls : CallKnows(c)'
    <3>1. ASSUME NEW c \in Calls
          PROVE  calls[c].pc \notin Creating /\ calls[c].pc \notin Submitting
      BY <2>2 DEF Handled
    <3> QED
      BY <1>2, <1>3, <3>1 DEF Serial, CallKnows, SameKeys, Creating
  <2>5. HumanKnows(h)'
    <3>1. CASE ApproveStatus(h)
      <4>1. /\ humans[h].order \in DOMAIN orders
            /\ Rewritten(humans[h].order, "approved",
                         orders[humans[h].order].approval_status,
                         orders[humans[h].order].approvedWith)
        BY <1>1, <3>1, OrderMoves
      <4>2. humans'[h].order = humans[h].order
        BY <1>1, <3>1, HumanMoves, HumanFields DEF TypeOK
      <4>3. orders[humans[h].order].approval_status = "pending_approval"
        BY <2>1 DEF Serial, HumanKnows
      <4>4. orders'[humans[h].order].approval_status = "pending_approval"
        BY <4>1, <4>3, OrderFields
      <4> QED
        BY <4>2, <4>4 DEF HumanKnows
    <3>2. CASE ApproveFinal(h)
      <4>1. humans'[h].pc = "idle"
        BY <1>1, <3>2, HumanMoves, HumanFields DEF TypeOK
      <4> QED
        BY <4>1 DEF HumanKnows, Approving
    <3> QED
      BY <1>6, <3>1, <3>2
  <2>6. \A g \in Humans : HumanKnows(g)'
    BY <1>2, <2>2, <2>5 DEF HumanKnows
  <2> QED
    BY <1>4, <2>3, <2>4, <2>6 DEF Serial
<1>7. CASE \/ Login(h) \/ SessionExpires(h)
           \/ \E id \in DOMAIN PURCHASE_ORDERS : Review(h, id)
  <2>1. orders' = orders
    BY <1>7 DEF Login, SessionExpires, Review, memory
  <2>2. humans'[h].pc \notin Approving \/ humans'[h] = humans[h]
    <3>1. CASE Login(h) \/ SessionExpires(h)
      BY <3>1 DEF Login, SessionExpires
    <3>2. ASSUME NEW id \in DOMAIN PURCHASE_ORDERS, Review(h, id)
          PROVE  humans'[h].pc = "idle"
      <4>1. HumanBecomes(h, "idle", humans[h].reviewed \cup {<<id, Find(id).key>>},
                         humans[h].order, humans[h].hash)
        BY <1>1, <3>2, HumanMoves DEF TypeOK
      <4> QED
        BY <4>1, HumanFields
    <3> QED
      BY <1>7, <3>1, <3>2 DEF Approving
  <2>3. OneHandler'
    BY <1>1, <1>2, <2>2 DEF OneHandler, Handled
  <2>4. \A c \in Calls : CallKnows(c)'
    BY <1>2, <2>1 DEF Serial, CallKnows
  <2>5. \A g \in Humans : HumanKnows(g)'
    BY <1>2, <2>1, <2>2 DEF Serial, HumanKnows
  <2> QED
    BY <1>4, <2>3, <2>4, <2>5 DEF Serial
<1> QED
  BY <1>5, <1>6, <1>7 DEF HumanStep

\* Every step keeps what is known of requests that do not overlap.
LEMMA SerialNext ==
  ASSUME IInv, Next
  PROVE  SerialInv'
<1> SUFFICES ASSUME "handlers" \notin overlaps'
             PROVE  Serial'
  BY DEF SerialInv
<1>1. TypeOK /\ Serial
  BY Monotone DEF IInv, SerialInv
<1>2. ASSUME NEW c \in Calls, CallStep(c)
      PROVE  Serial'
  BY <1>1, <1>2, SerialCall
<1>3. ASSUME NEW h \in Humans, HumanStep(h)
      PROVE  Serial'
  BY <1>1, <1>3, SerialHuman
<1>4. CASE Restart
  <2>1. /\ DOMAIN orders' = {} /\ DOMAIN PURCHASE_ORDERS' = {}
        /\ DOMAIN IDEMPOTENCY' = {} /\ ACCESS_TOKENS' = {}
    BY <1>4, NoOrders DEF Restart
  <2>2. \A h \in Humans : humans'[h].pc \notin Approving
    BY <1>1, <1>4, RestartMoves DEF HumanBecomes, Approving
  <2>3. ASSUME NEW c \in Calls
        PROVE  calls'[c].pc \notin Creating \cup Submitting
    <3>1. CASE Ends(c)
      BY <3>1, EndedOK DEF Creating, Submitting
    <3>2. CASE calls'[c] = calls[c] /\ c \notin Handled
      BY <3>2 DEF Handled
    <3> QED
      BY <1>1, <1>4, <3>1, <3>2, RestartMoves
  <2>4. OneHandler'
    BY <2>2, <2>3 DEF OneHandler, Handled
  <2>5. \A c \in Calls : CallKnows(c)'
    BY <2>1, <2>3 DEF CallKnows, Creating
  <2> QED
    BY <2>1, <2>2, <2>4, <2>5 DEF Serial, Numbered, HumanKnows
<1> QED
  BY <1>2, <1>3, <1>4, NextSteps

-----------------------------------------------------------------------------
\* The theorems.

\* The emulator starts with empty tables and nothing to do.
LEMMA InitIInv == Init => IInv
<1> SUFFICES ASSUME Init
             PROVE  IInv
  OBVIOUS
<1>1. /\ DOMAIN orders = {} /\ DOMAIN PURCHASE_ORDERS = {} /\ DOMAIN IDEMPOTENCY = {}
      /\ orders \in Seq(Order) /\ IsFiniteSet(DOMAIN PURCHASE_ORDERS)
  BY NoOrders, EmptySeq, FS_EmptySet DEF Init
<1>2. \A c \in Calls : calls[c].pc = "idle" /\ calls[c].key = None
  BY DEF Init, IdleCall
<1>3. \A h \in Humans : humans[h].pc = "idle"
  BY DEF Init, IdleHuman
<1>4. calls \in [Calls -> Call]
  BY DEF Init, IdleCall, Call, CallPCs
<1>5. humans \in [Humans -> Human]
  BY DEF Init, IdleHuman, Human
<1>6. restarts \in 0..MaxRestarts
  BY RestartsAssumption DEF Init
<1>7. TypeOK
  BY <1>1, <1>2, <1>3, <1>4, <1>5, <1>6
     DEF TypeOK, IsInjective, Range, Submitting, Approving, Init
<1>8. TableInv /\ ApprovalInv /\ StatusInv
  BY <1>1, <1>2, <1>3 DEF TableInv, ApprovalInv, ApprovedAsReviewed, StatusInv,
     PendingIsNoDraft, Approving
<1>9. KeyInv
  BY <1>1, <1>2 DEF KeyInv, KeysApart, Creating
<1>10. SerialInv
  <2>1. OneHandler
    BY <1>2, <1>3 DEF OneHandler, Handled, Creating, Submitting, Approving
  <2>2. \A c \in Calls : CallKnows(c)
    BY <1>2 DEF CallKnows, Creating, Submitting
  <2>3. \A h \in Humans : HumanKnows(h)
    BY <1>3 DEF HumanKnows, Approving
  <2> QED
    BY <1>1, <2>1, <2>2, <2>3 DEF SerialInv, Serial, Numbered
<1> QED
  BY <1>7, <1>8, <1>9, <1>10 DEF IInv

\* Every step keeps the inductive invariant.
LEMMA NextIInv == IInv /\ [Next]_vars => IInv'
<1> SUFFICES ASSUME IInv, [Next]_vars
             PROVE  IInv'
  OBVIOUS
<1>1. CASE Next
  <2>1. TypeOK /\ TableInv /\ ApprovalInv /\ StatusInv
    BY DEF IInv
  <2>2. TypeOK' /\ TableInv'
    BY <1>1, <2>1, TypeNext
  <2>3. ApprovalInv' /\ StatusInv'
    BY <1>1, <2>1, ApprovalNext, StatusNext
  <2>4. KeyInv' /\ SerialInv'
    BY <1>1, KeyNext, SerialNext
  <2> QED
    BY <2>2, <2>3, <2>4 DEF IInv
<1>2. CASE UNCHANGED vars
  <2>1. TypeOK' /\ TableInv' /\ ApprovalInv' /\ StatusInv'
    BY <1>2 DEF vars, IInv, TypeOK, TableInv, ApprovalInv, ApprovedAsReviewed,
       StatusInv, PendingIsNoDraft
  <2>2. KeyInv'
    BY <1>2 DEF vars, IInv, KeyInv, KeysApart
  <2>3. SerialInv'
    BY <1>2 DEF vars, IInv, SerialInv, Serial, OneHandler, Handled, Numbered,
       CallKnows, HumanKnows
  <2> QED
    BY <2>1, <2>2, <2>3 DEF IInv
<1> QED
  BY <1>1, <1>2

\* What is known of the orders, the keys and the requests in progress holds in
\* every state of every instance.
THEOREM Inductive == Spec => []IInv
  BY InitIInv, NextIInv, PTL DEF Spec

\* The tables, the calls and the humans keep their types, and no key and no
\* handler refers to an order that is not there.
THEOREM TypeCorrect == Spec => []TypeOK
  BY Inductive, PTL DEF IInv

\* An order is only approved on a page that showed it, whatever requests overlap
\* and however often the emulator restarts (approve_purchase_order).
THEOREM OnlyReviewedApproved == Spec => []ApprovedAsReviewed
  BY Inductive, PTL DEF IInv, ApprovalInv

\* An order whose approval has been asked for is not submitted again.
THEOREM NoSecondSubmit == Spec => []PendingIsNoDraft
  BY Inductive, PTL DEF IInv, StatusInv

\* A key has one order as long as no create overlaps another with its key.
THEOREM Idempotent == Spec => []OneOrderPerKey
<1>1. IInv => OneOrderPerKey
  BY DEF IInv, KeyInv, KeysApart, OneOrderPerKey
<1> QED
  BY <1>1, Inductive, PTL

\* A call submits the order it asked for as long as no two requests overlap.
THEOREM OwnOrder == Spec => []AnsweredWithItsOrder
<1>1. IInv => AnsweredWithItsOrder
  BY DEF IInv, SerialInv, Serial, CallKnows, AnsweredWithItsOrder
<1> QED
  BY <1>1, Inductive, PTL

-----------------------------------------------------------------------------
\* The ledger.

\* The ledger by the numbers of the orders, which are their places.
Standing(k) ==
  IF k \notin DOMAIN IDEMPOTENCY THEN "absent"
  ELSE IF orders[IDEMPOTENCY[k]].approval_status = "not_submitted" THEN "draft"
       ELSE orders[IDEMPOTENCY[k]].approval_status

\* While orders have the numbers of their places, the two readings agree.
LEMMA LedgerStanding ==
  ASSUME TypeOK, Numbered, NEW k \in Keys
  PROVE  LedgerOf(k) = Standing(k)
<1>1. k \in DOMAIN IDEMPOTENCY => PURCHASE_ORDERS[IDEMPOTENCY[k]] = IDEMPOTENCY[k]
  BY DEF TypeOK, Range, Numbered
<1> QED
  BY <1>1 DEF LedgerOf, Standing, Find

\* Steps that leave the ledger as it is, or move one key.
SameLedger == \A k \in Keys : Standing(k)' = Standing(k)
MovesKey(k0, from, to) ==
  /\ k0 \in Keys /\ Standing(k0) = from /\ Standing(k0)' = to
  /\ \A k \in Keys : k # k0 => Standing(k)' = Standing(k)

\* Setting the approval status of one order moves its key, if it has one.
LEMMA StatusMoves ==
  ASSUME TypeOK, Numbered, NEW i \in DOMAIN orders, NEW status, NEW from, NEW to,
         NEW with, Rewritten(i, status, to, with), IDEMPOTENCY' = IDEMPOTENCY,
         orders[i].approval_status = from
  PROVE  \/ SameLedger
         \/ \E k0 \in Keys :
              MovesKey(k0, IF from = "not_submitted" THEN "draft" ELSE from,
                           IF to = "not_submitted" THEN "draft" ELSE to)
<1>1. /\ orders'[i].approval_status = to
      /\ \A j \in DOMAIN orders : j # i => orders'[j] = orders[j]
  BY OrderFields
<1>2. \A k \in DOMAIN IDEMPOTENCY : /\ IDEMPOTENCY[k] \in DOMAIN orders /\ k \in Keys
                                    /\ orders[IDEMPOTENCY[k]].key = k
  BY DEF TypeOK, Range, Numbered
<1>3. CASE \E k0 \in DOMAIN IDEMPOTENCY : IDEMPOTENCY[k0] = i
  <2>1. PICK k0 \in DOMAIN IDEMPOTENCY : IDEMPOTENCY[k0] = i
    BY <1>3
  <2>2. \A k \in DOMAIN IDEMPOTENCY : k # k0 => IDEMPOTENCY[k] # i
    BY <1>2, <2>1
  <2>3. \A k \in Keys : k # k0 => Standing(k)' = Standing(k)
    BY <1>1, <1>2, <2>2 DEF Standing
  <2>4. /\ Standing(k0) = IF from = "not_submitted" THEN "draft" ELSE from
        /\ Standing(k0)' = IF to = "not_submitted" THEN "draft" ELSE to
    BY <1>1, <2>1 DEF Standing
  <2> QED
    BY <1>2, <2>1, <2>3, <2>4 DEF MovesKey
<1>4. CASE ~ \E k0 \in DOMAIN IDEMPOTENCY : IDEMPOTENCY[k0] = i
  BY <1>1, <1>2, <1>4 DEF SameLedger, Standing
<1> QED
  BY <1>3, <1>4

\* A step of a call creates or submits the order of one key, or none.
LEMMA CallLedger ==
  ASSUME IInv, Serial, NEW c \in Calls, CallStep(c)
  PROVE  \/ SameLedger
         \/ \E k0 \in Keys : \/ MovesKey(k0, "absent", "draft")
                             \/ MovesKey(k0, "draft", "pending_approval")
<1>1. TypeOK /\ TableInv /\ Numbered /\ CallKnows(c)
  BY DEF IInv, Serial
<1>2. \A k \in DOMAIN IDEMPOTENCY : IDEMPOTENCY[k] \in DOMAIN orders
  BY <1>1 DEF TypeOK, Range, Numbered
<1>3. CASE InsertOrder(c)
  <2>1. /\ IDEMPOTENCY' = IDEMPOTENCY
        /\ \A i \in DOMAIN orders : orders'[i] = orders[i]
    BY <1>1, <1>3, OrderMoves DEF InsertOrder
  <2> QED
    BY <1>2, <2>1 DEF SameLedger, Standing
<1>4. CASE RememberKey(c)
  <2>1. calls[c].key \in Keys
    BY <1>1, <1>4, RememberTables
  <2>2. PICK k0 \in Keys : k0 = calls[c].key
    BY <2>1
  <2>3. PICK id : id = calls[c].id
    OBVIOUS
  <2>4. /\ k0 \notin DOMAIN IDEMPOTENCY /\ orders' = orders
        /\ orders[id].approval_status = "not_submitted"
    BY <1>1, <1>4, <2>2, <2>3 DEF RememberKey, CallKnows, Creating
  <2>5. /\ DOMAIN IDEMPOTENCY' = DOMAIN IDEMPOTENCY \cup {k0}
        /\ IDEMPOTENCY'[k0] = id
        /\ \A k \in DOMAIN IDEMPOTENCY : k # k0 => IDEMPOTENCY'[k] = IDEMPOTENCY[k]
    BY <1>1, <1>4, <2>2, <2>3, RememberTables
  <2>6. Standing(k0) = "absent" /\ Standing(k0)' = "draft"
    BY <2>4, <2>5 DEF Standing
  <2>7. \A k \in Keys : k # k0 => Standing(k)' = Standing(k)
    BY <2>4, <2>5 DEF Standing
  <2> QED
    BY <2>6, <2>7 DEF MovesKey
<1>5. CASE MarkSubmitted(c)
  <2> DEFINE i == calls[c].order
  <2>1. /\ i \in DOMAIN orders /\ IDEMPOTENCY' = IDEMPOTENCY
        /\ Rewritten(i, "submitted", orders[i].approval_status, orders[i].approvedWith)
    BY <1>1, <1>5, OrderMoves DEF MarkSubmitted
  <2> HIDE DEF i
  <2>2. /\ orders'[i].approval_status = orders[i].approval_status
        /\ \A j \in DOMAIN orders : j # i => orders'[j] = orders[j]
    BY <2>1, OrderFields
  <2> QED
    BY <1>2, <2>1, <2>2 DEF SameLedger, Standing
<1>6. CASE MarkPending(c)
  <2> DEFINE i == calls[c].order
  <2>1. /\ i \in DOMAIN orders /\ IDEMPOTENCY' = IDEMPOTENCY
        /\ Rewritten(i, orders[i].status, "pending_approval", orders[i].approvedWith)
    BY <1>1, <1>6, OrderMoves DEF MarkPending
  <2>2. orders[i].approval_status = "not_submitted"
    BY <1>1, <1>6 DEF MarkPending, CallKnows, Submitting
  <2> HIDE DEF i
  <2> QED
    BY <1>1, <2>1, <2>2, StatusMoves
<1>7. CASE ~(InsertOrder(c) \/ RememberKey(c) \/ MarkSubmitted(c) \/ MarkPending(c))
  <2>1. UNCHANGED <<orders, IDEMPOTENCY>>
    BY <1>7, TablesMove, OrdersSame
  <2> QED
    BY <2>1 DEF SameLedger, Standing
<1> QED
  BY <1>3, <1>4, <1>5, <1>6, <1>7

\* A step of a human approves the order of one key, or none.
LEMMA HumanLedger ==
  ASSUME IInv, Serial, NEW h \in Humans, HumanStep(h)
  PROVE  \/ SameLedger
         \/ \E k0 \in Keys : MovesKey(k0, "pending_approval", "approved")
<1>1. TypeOK /\ Numbered /\ HumanKnows(h)
  BY DEF IInv, Serial
<1>2. \A k \in DOMAIN IDEMPOTENCY : IDEMPOTENCY[k] \in DOMAIN orders
  BY <1>1 DEF TypeOK, Range, Numbered
<1>3. IDEMPOTENCY' = IDEMPOTENCY
  BY <1>1, OtherHumans DEF TypeOK
<1>4. CASE ApproveStatus(h)
  <2> DEFINE i == humans[h].order
  <2>1. /\ i \in DOMAIN orders
        /\ Rewritten(i, "approved", orders[i].approval_status, orders[i].approvedWith)
    BY <1>1, <1>4, OrderMoves
  <2> HIDE DEF i
  <2>2. /\ orders'[i].approval_status = orders[i].approval_status
        /\ \A j \in DOMAIN orders : j # i => orders'[j] = orders[j]
    BY <2>1, OrderFields
  <2> QED
    BY <1>2, <1>3, <2>2 DEF SameLedger, Standing
<1>5. CASE ApproveFinal(h)
  <2> DEFINE i == humans[h].order
  <2>1. i \in DOMAIN orders /\ Rewritten(i, orders[i].status, "approved", humans[h].hash)
    BY <1>1, <1>5, OrderMoves
  <2>2. orders[i].approval_status = "pending_approval"
    BY <1>1, <1>5 DEF ApproveFinal, HumanKnows, Approving
  <2> HIDE DEF i
  <2> QED
    BY <1>1, <1>3, <2>1, <2>2, StatusMoves
<1>6. CASE orders' = orders
  BY <1>3, <1>6 DEF SameLedger, Standing
<1> QED
  BY <1>4, <1>5, <1>6, OrdersSame

\* Every step of the emulator is a step of the ledger, or leaves it.
LEMMA LedgerStep ==
  ASSUME IInv, IInv', [Next]_vars, overlaps' = {}
  PROVE  Ledger!Next \/ UNCHANGED [k \in Keys |-> LedgerOf(k)]
<1> DEFINE ledger == [k \in Keys |-> LedgerOf(k)]
<1>1. CASE UNCHANGED vars
  BY <1>1 DEF vars, LedgerOf, Find
<1>2. CASE Next
  <2>1. Serial /\ Serial'
    BY <1>2, Monotone DEF IInv, SerialInv
  <2>2. /\ \A k \in Keys : LedgerOf(k) = Standing(k)
        /\ TypeOK' /\ Numbered'
    BY <2>1, LedgerStanding DEF IInv, Serial
  <2>3. \A k \in Keys : LedgerOf(k)' = Standing(k)'
    <3>1. ASSUME NEW k \in Keys
          PROVE  k \in DOMAIN IDEMPOTENCY' =>
                   PURCHASE_ORDERS'[IDEMPOTENCY'[k]] = IDEMPOTENCY'[k]
      BY <2>2 DEF TypeOK, Range, Numbered
    <3> QED
      BY <3>1 DEF LedgerOf, Standing, Find
  <2>4. SameLedger => UNCHANGED ledger
    BY <2>2, <2>3 DEF SameLedger
  <2>5. ASSUME NEW k0 \in Keys, NEW from, NEW to, MovesKey(k0, from, to)
        PROVE  ledger[k0] = from /\ ledger' = [ledger EXCEPT ![k0] = to]
    <3>1. ledger' = [k \in Keys |-> IF k = k0 THEN to ELSE ledger[k]]
      BY <2>2, <2>3, <2>5 DEF MovesKey
    <3> QED
      BY <2>2, <2>5, <3>1 DEF MovesKey
  <2>6. CASE SameLedger
    BY <2>4, <2>6
  <2>7. ASSUME NEW k0 \in Keys,
               \/ MovesKey(k0, "absent", "draft")
               \/ MovesKey(k0, "draft", "pending_approval")
               \/ MovesKey(k0, "pending_approval", "approved")
        PROVE  Ledger!Next
    BY <2>5, <2>7
       DEF Ledger!Next, Ledger!Create, Ledger!Submit, Ledger!Approve, Ledger!Move
  <2>8. CASE Restart
    <3>1. DOMAIN IDEMPOTENCY' = {}
      BY <2>8, NoOrders DEF Restart
    <3>2. ledger' = [k \in Keys |-> "absent"]
      BY <3>1 DEF LedgerOf
    <3> QED
      BY <3>2 DEF Ledger!Next, Ledger!Lose
  <2> QED
    BY <1>2, <2>1, <2>6, <2>7, <2>8, CallLedger, HumanLedger, NextSteps
<1> QED
  BY <1>1, <1>2

\* The emulator implements the ledger of orders while no two requests overlap.
THEOREM Refinement == Spec => ImplementsLedger
<1>1. Init => Ledger!Init
  <2>1. Init => DOMAIN IDEMPOTENCY = {}
    BY NoOrders DEF Init
  <2> QED
    BY <2>1 DEF Ledger!Init, LedgerOf
<1>2. IInv /\ IInv' /\ [Next]_vars =>
        [overlaps' = {} => \/ Ledger!Next
                           \/ UNCHANGED [k \in Keys |-> LedgerOf(k)]]_vars
  BY LedgerStep
<1> QED
  BY <1>1, <1>2, Inductive, PTL DEF Spec, ImplementsLedger
=============================================================================
