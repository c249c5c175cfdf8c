------------------------------ MODULE MCA2AReorder ------------------------------
(***************************************************************************)
(* One item: reorder below 2, up to 3.                                      *)
(***************************************************************************)
EXTENDS A2AReorderProperties

TheItem ==
  [item_id |-> "w", actual_available_stock |-> None, available_stock |-> None,
   stock_on_hand |-> None, reorder_level |-> 2, minimum_order_quantity |-> None,
   maximum_order_quantity |-> None]
ThePolicy == [target_stock |-> 3, min_order_quantity |-> 1]
=============================================================================
