------------------------------ MODULE ReorderPlan ------------------------------
(***************************************************************************)
(* Whether to reorder and how much (reorder_plan in cloud/*/governance.py), *)
(* computed from an item record, the purchase orders of the item and the   *)
(* configured policy.                                                      *)
(*                                                                         *)
(* The code computes with floats and truncates the quantity at the end.    *)
(* Here an amount is an integer number of fractions, Unit of them to one.  *)
(* A field that Zoho does not supply is None.  `orders` is what the reads   *)
(* of the item's purchase orders returned, None when one of them failed.    *)
(* What a reply does say is taken to be right.                              *)
(***************************************************************************)
EXTENDS Integers, Sequences, FiniteSetsExt, Functions

CONSTANTS Unit, None

ASSUME UnitAssumption == Unit \in Nat \ {0}

\* Mutant of NotComing: a draft is not counted either.
DraftsDoNotCount == {"cancelled", "closed", "draft"}

NotComing == {"cancelled", "closed"}

\* The first of the three fields that is there.
AvailableStock(item) ==
  IF item.actual_available_stock # None THEN item.actual_available_stock
  ELSE IF item.available_stock # None THEN item.available_stock
  ELSE item.stock_on_hand

AtLeastZero(n) == Max({n, 0})

\* Mutant of Outstanding: what has arrived counts again.
ReceivedStillComes(line) == AtLeastZero(line.quantity - line.quantity_cancelled)

Outstanding(line) ==
  AtLeastZero(line.quantity - line.quantity_received - line.quantity_cancelled)

\* The lines of the item that are still to come: the order and the line in it.
Coming(orders) == {k \in DOMAIN orders : orders[k].status \notin NotComing}
LinesFor(item, order) ==
  {i \in DOMAIN order.line_items : order.line_items[i].item_id = item.item_id}
OpenLines(item, orders) ==
  UNION {{k} \X LinesFor(item, orders[k]) : k \in Coming(orders)}
LineAt(orders, l) == orders[l[1]].line_items[l[2]]

SumOutstanding(orders, lines) ==
  SumFunction([l \in lines |-> Outstanding(LineAt(orders, l))])

\* What an order comes to that is listed without an id, and is skipped, or whose
\* detail comes back empty.  A reply that lists nothing under either of the keys
\* that are looked for comes to such orders only.
Empty == [status |-> "", line_items |-> <<>>]

\* Mutant of IncomingQuantity: a line without a quantity counts for nothing.
UnreadableIsEmpty(item, orders) ==
  IF orders = None THEN None
  ELSE SumOutstanding(orders, {l \in OpenLines(item, orders) :
                                 LineAt(orders, l).quantity # None})

\* Only a read that fails and a line of the item that has no quantity make what
\* is inbound unknown; an Empty order counts for nothing.
Readable(item, orders) ==
  /\ orders # None
  /\ \A l \in OpenLines(item, orders) : LineAt(orders, l).quantity # None

IncomingQuantity(item, orders) ==
  IF Readable(item, orders) THEN SumOutstanding(orders, OpenLines(item, orders)) ELSE None

\* Python's `or`: zero and None are both absent.
Given(v) == v # None /\ v # 0

MinimumQuantity(item, policy) ==
  IF Given(item.minimum_order_quantity) THEN item.minimum_order_quantity
  ELSE IF Given(policy.min_order_quantity) THEN policy.min_order_quantity
  ELSE Unit

Unresolved == [resolved |-> FALSE, reorder_needed |-> FALSE, quantity |-> 0]

\* Mutant of Wanted: the smaller of shortfall and minimum.
OnlyTheMinimum(below, shortfall, minimum) ==
  IF ~ below \/ shortfall <= 0 THEN 0 ELSE Min({shortfall, minimum})

\* The quantity before the maximum of the supplier, and int().
Wanted(below, shortfall, minimum) ==
  IF ~ below \/ shortfall <= 0 THEN 0 ELSE Max({shortfall, minimum})

Capped(item, quantity) ==
  IF Given(item.maximum_order_quantity) /\ item.maximum_order_quantity > 0
    THEN Min({quantity, item.maximum_order_quantity})
    ELSE quantity

Whole(quantity) == (quantity \div Unit) * Unit

Plan(item, policy, orders) ==
  LET available == AvailableStock(item)
      incoming == IncomingQuantity(item, orders)
  IN IF \/ available = None
        \/ item.reorder_level = None
        \/ policy = None \/ policy.target_stock = None
        \/ incoming = None
       THEN Unresolved
       ELSE LET below == available < item.reorder_level
                shortfall == AtLeastZero(policy.target_stock - (available + incoming))
                minimum == MinimumQuantity(item, policy)
                quantity == Whole(Capped(item, Wanted(below, shortfall, minimum)))
            IN [resolved |-> TRUE, reorder_needed |-> below /\ quantity > 0,
                quantity |-> quantity]
=============================================================================
