----------------------------- MODULE ReorderRounds -----------------------------
(***************************************************************************)
(* A buyer who is alone: reads the item, then its purchase orders, decides  *)
(* by reorder_plan, places the order, decides again, while goods arrive.    *)
(* What the plan is good for shows over several rounds, not in one.         *)
(*                                                                         *)
(* `item` and `orders` are Zoho's own records.  The replies may leave things *)
(* out.  The list of orders and each order are read one after the other;    *)
(* this is one action, because goods that arrive on different orders in     *)
(* between could as well have come before it (when their order was read     *)
(* later) or after it, in either order, to the same effect.                 *)
(***************************************************************************)
EXTENDS ReorderPlan

CONSTANTS
  ItemIds, Statuses,
  Items,      \* item records to start from
  Policies,   \* entries of reorder_policy, None for none
  Books,      \* sequences of purchase orders to start from
  MaxRounds   \* bound: orders placed

\* The records that Zoho and the configuration supply.
Amounts == Int \cup {None}
ItemRecords ==
  [item_id : ItemIds, actual_available_stock : Amounts, available_stock : Amounts,
   stock_on_hand : Amounts, reorder_level : Amounts,
   minimum_order_quantity : Amounts, maximum_order_quantity : Amounts]
Entries == [target_stock : Amounts, min_order_quantity : Amounts]
Lines ==
  [item_id : ItemIds, quantity : Amounts, quantity_received : Int, quantity_cancelled : Int]
Orders == [status : Statuses, line_items : Seq(Lines)]

ASSUME RecordsAssumption ==
  /\ Items \subseteq ItemRecords /\ Policies \subseteq Entries \cup {None}
  /\ Books \subseteq Seq(Orders) /\ "draft" \in Statuses /\ "" \in Statuses
  /\ None \notin Int \cup Entries \cup Seq(Orders)

\* In Zoho every line of the item has a quantity.
ASSUME BooksAssumption == \A it \in Items, book \in Books : Readable(it, book)

VARIABLES
  item, policy, orders,
  seen,       \* the item record as it was read, None when none is in hand
  plan,       \* what was decided last
  placed,
  uncounted   \* history: what came in since the item was read, and what the
              \* replies about the orders left out

vars == <<item, policy, orders, seen, plan, placed, uncounted>>

Undecided == [resolved |-> FALSE, reorder_needed |-> FALSE, quantity |-> -1]

Init ==
  /\ item \in Items
  /\ policy \in Policies
  /\ orders \in Books
  /\ seen = None
  /\ plan = Undecided
  /\ placed = 0
  /\ uncounted = 0

\* get_item's record or, when that comes back empty, the one of the list, which
\* has no limits (find_item_by_sku).
Records(it) ==
  {it, [it EXCEPT !.minimum_order_quantity = None, !.maximum_order_quantity = None]}

\* check_stock begins; what was decided before is dropped.
ReadItem ==
  /\ seen = None
  /\ seen' \in Records(item)
  /\ plan' = Undecided
  /\ uncounted' = 0
  /\ UNCHANGED <<item, policy, orders, placed>>

\* The replies when some orders come out Empty and some lines have no quantity (at
\* most one, since the first of them ends the reading).
Blank(k, blank) ==
  [i \in DOMAIN orders[k].line_items |->
     [orders[k].line_items[i] EXCEPT !.quantity = IF <<k, i>> \in blank THEN None ELSE @]]
Replies(lost, blank) ==
  [k \in DOMAIN orders |->
     IF k \in lost THEN Empty ELSE [orders[k] EXCEPT !.line_items = Blank(k, blank)]]

\* reorder_plan, which reads the orders, with the record in hand.
ReadOrders(lost, blank) ==
  /\ plan' = Plan(seen, policy, Replies(lost, blank))
  /\ uncounted' = uncounted
       + SumOutstanding(orders, {l \in OpenLines(item, orders) : l[1] \in lost})

\* A read fails, or the token for it is refused.
CannotRead == plan' = Plan(seen, policy, None) /\ UNCHANGED uncounted

Decide ==
  /\ seen # None
  /\ \/ \E lost \in SUBSET DOMAIN orders,
            blank \in {{}} \cup {{l} : l \in OpenLines(item, orders)} : ReadOrders(lost, blank)
     \/ CannotRead
  /\ seen' = None
  /\ UNCHANGED <<item, policy, orders, placed>>

Line(quantity) ==
  [item_id |-> item.item_id, quantity |-> quantity,
   quantity_received |-> 0, quantity_cancelled |-> 0]

\* The order that create_draft writes.
Place ==
  /\ plan.reorder_needed /\ placed < MaxRounds
  /\ orders' = Append(orders, [status |-> "draft", line_items |-> <<Line(plan.quantity)>>])
  /\ plan' = Undecided
  /\ placed' = placed + 1
  /\ UNCHANGED <<item, policy, seen, uncounted>>

\* Some or all of what a line still lacks arrives, at any moment.
Receive(l, amount) ==
  /\ item.actual_available_stock # None
  /\ amount <= Outstanding(LineAt(orders, l))
  /\ orders' = [orders EXCEPT ![l[1]].line_items[l[2]].quantity_received = @ + amount]
  /\ item' = [item EXCEPT !.actual_available_stock = @ + amount]
  /\ uncounted' = IF seen # None THEN uncounted + amount ELSE uncounted
  /\ UNCHANGED <<policy, seen, plan, placed>>

Arrive == \E l \in OpenLines(item, orders), amount \in {Unit, 2 * Unit} : Receive(l, amount)

Next == ReadItem \/ Decide \/ Place \/ Arrive

Spec == Init /\ [][Next]_vars

-----------------------------------------------------------------------------
\* What is really available and inbound.
Position == AvailableStock(item) + IncomingQuantity(item, orders)
Unlimited == ~ Given(item.maximum_order_quantity)

\* An order that the supplier does not limit brings what is available and
\* inbound up to the target, but for the fraction that int() drops, whatever the
\* replies left out (governance.py "rule").
BroughtToTarget ==
  plan.reorder_needed /\ Unlimited => Position + plan.quantity > policy.target_stock - Unit

\* Beyond the shortfall, or the minimum, an order can only make up for goods that
\* came in between the read of the item and the reads of its orders, and for
\* orders that the replies left out: nothing else that is unknown counts as
\* nothing (reorder_plan and incoming_quantity).
OrdersOnlyTheShortfall ==
  plan.reorder_needed =>
    \E it \in Records(item) :
      plan.quantity <= Max({policy.target_stock - Position + uncounted,
                            MinimumQuantity(it, policy)})

\* Once an unlimited order is placed, and until something is sold, deciding
\* again orders nothing, unless goods came in between its two reads or the
\* replies left an order out (check_stock and incoming_quantity).
Settles == placed > 0 /\ Unlimited /\ plan.reorder_needed => uncounted > 0

\* Goods that arrive move from inbound to available and are counted once
\* (the arithmetic of incoming_quantity over received and cancelled).
ArrivalMovesGoods == [][Arrive => Position' = Position]_vars
=============================================================================
