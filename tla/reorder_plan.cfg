\* Whole quantities: every combination of known and unknown fields.
CONSTANTS
  Unit = 1
  None = None
  ItemIds = {"w", "v"}
  Statuses = {"", "draft", "open", "closed", "cancelled"}
  Items <- SomeItems
  Policies <- SomePolicies
  Books <- SomeBooks
  MaxRounds = 2
SPECIFICATION Spec
INVARIANTS BroughtToTarget Settles OrdersOnlyTheShortfall
PROPERTY ArrivalMovesGoods
