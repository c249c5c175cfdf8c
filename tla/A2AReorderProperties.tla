-------------------------- MODULE A2AReorderProperties --------------------------
(***************************************************************************)
(* What the idempotency and the reorder rule of the A2A path promise.       *)
(***************************************************************************)
EXTENDS A2AReorder, Functions

\* A business request is one purchase order, however often it is sent and
\* whatever fails on the way (operation_id, create_draft).
OneOrderPerReference ==
  \A i, j \in DOMAIN orders : orders[i].reference = orders[j].reference => i = j

\* With one instance, a reference is used twice only when a create was carried
\* out after its caller had given it up: the caller's own timeout, its retries
\* and the queue at the instance are harmless (_find_by_reference).
OnlyLateOrdersRepeat ==
  \A i, j \in DOMAIN orders :
    i # j /\ orders[i].reference = orders[j].reference
      => orders[i].late \/ orders[j].late

\* A quantity was asked for (create_draft computes one if `quantity <= 0`).
Given(quantity) == ~ (quantity <= 0)

\* Success names an order for the quantity that was asked for, also when it is
\* the replay of an earlier one.
AnsweredWithWhatWasAsked ==
  \A c \in Callers :
    callers[c].pc = "answered" /\ callers[c].order # None /\ Given(callers[c].quantity)
      => orders[callers[c].order].quantity = callers[c].quantity

Inbound == SumFunction([i \in DOMAIN orders \ Landed |-> orders[i].quantity])

\* Who orders only what was advised never has more available and inbound than
\* the target (incoming_quantity: no second order for what is already inbound).
OrderedWithinTarget == stock + Inbound <= Policy.target_stock

\* Success names an order that is with the people who approve, or past them
\* (create_draft: "create ... and submit it for human approval").
SuccessIsSubmitted ==
  \A c \in Callers :
    callers[c].pc = "answered" /\ callers[c].order # None
      => orders[callers[c].order].status # "draft"

\* Success of a new request does not name an order that had landed before the
\* request was made (operation_id: a genuinely new order has another quantity).
NewRequestIsOrdered ==
  \A c \in Callers :
    callers[c].pc = "answered" => callers[c].order \notin callers[c].before

\* Every request that was sent is answered or fails, also when it is queued at
\* an instance that is busy.
EveryRequestEnds ==
  \A c \in Callers : callers[c].pc = "sent" ~> callers[c].pc # "sent"
=============================================================================
