---------------------------- MODULE MCReorderRounds ----------------------------
(***************************************************************************)
(* Small records for one item "w" and another "v".                         *)
(***************************************************************************)
EXTENDS ReorderRounds

Item(actual, onHand, level, min, max) ==
  [item_id |-> "w", actual_available_stock |-> actual, available_stock |-> None,
   stock_on_hand |-> onHand, reorder_level |-> level,
   minimum_order_quantity |-> min, maximum_order_quantity |-> max]

SomeItems ==
  {Item(1, 4, 3, None, None), Item(1, 4, 3, 3, None), Item(1, 4, 3, None, 2),
   Item(None, 2, 3, None, None), Item(1, 4, None, None, None)}

SomePolicies ==
  {None} \cup {[target_stock |-> t, min_order_quantity |-> 2] : t \in {5, None}}

L(of, quantity, received, cancelled) ==
  [item_id |-> of, quantity |-> quantity, quantity_received |-> received,
   quantity_cancelled |-> cancelled]

TwoToCome == <<L("w", 2, 0, 0)>>
OneToCome == <<L("v", None, 0, 0), L("w", 3, 1, 1)>>

Order(status, lines) == [status |-> status, line_items |-> lines]

SomeBooks ==
  {<<>>, <<Order("closed", TwoToCome)>>} \cup
  {<<Order("open", lines)>> : lines \in {TwoToCome, OneToCome}} \cup
  {<<Order("draft", OneToCome), Order(status, OneToCome)>> : status \in {"open", "cancelled"}}
=============================================================================
