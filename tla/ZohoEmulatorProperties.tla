------------------------- MODULE ZohoEmulatorProperties -------------------------
(***************************************************************************)
(* What the emulator keeps to whatever overlaps, and what it promises only  *)
(* to requests that do not.                                                *)
(***************************************************************************)
EXTENDS ZohoEmulator

\* The type invariant.  A replay finds an order, since a key never names a number
\* that no order has (create_purchase_order, zoho_app.py:134-135, 164-166), and
\* what a handler holds is a dictionary that was built.
TypeOK ==
  /\ orders \in Seq(Order)
  /\ IsInjective(PURCHASE_ORDERS) /\ Range(PURCHASE_ORDERS) \subseteq DOMAIN orders
  /\ DOMAIN PURCHASE_ORDERS \subseteq Nat
  /\ DOMAIN IDEMPOTENCY \subseteq Keys /\ Range(IDEMPOTENCY) \subseteq DOMAIN PURCHASE_ORDERS
  /\ ACCESS_TOKENS \subseteq Calls
  /\ SESSIONS \subseteq Humans
  /\ calls \in [Calls -> Call]
  /\ \A c \in Calls :
       /\ calls[c].key = None <=> calls[c].pc \in {"idle", "done", "failed"}
       /\ calls[c].pc \in Submitting => calls[c].order \in DOMAIN orders
  /\ humans \in [Humans -> Human]
  /\ \A h \in Humans :
       humans[h].pc \in Approving => /\ humans[h].order \in DOMAIN orders
                                     /\ humans[h].hash \in Keys
  /\ restarts \in 0..MaxRestarts
  /\ overlaps \subseteq {"handlers", "key"}

\* An order is approved on a page that showed this very order, although numbers
\* are given out again after a restart and to two orders created at once, and
\* pages stay open over both (approve_purchase_order, zoho_app.py:244-246).
ApprovedAsReviewed ==
  \A i \in DOMAIN orders :
    orders[i].approval_status = "approved" => orders[i].approvedWith = orders[i].key

\* Once approval has been asked for, no submit that starts afterwards touches
\* the order: it is not seen as a draft any more, even between the two writes
\* of submit or those of a concurrent approval (zoho_app.py:181-183, 247-248).
PendingIsNoDraft ==
  \A i \in DOMAIN orders :
    orders[i].approval_status # "not_submitted" => orders[i].status # "draft"

\* "A replay must not create a second order" (tests/test_approval_and_idempotency.py),
\* and none does, if it is not sent while a create with its key is under way:
\* the check and the store of a key are apart (zoho_app.py:134 and 165-166).
OneOrderPerKey ==
  "key" \notin overlaps =>
    \A i, j \in DOMAIN orders : orders[i].key = orders[j].key => i = j

\* A call is answered with its own order, when no two requests overlap: the
\* number it submits by is not given to another order in between, not even by
\* a restart, after which its token is unknown (procurement_mcp_app.py:75-81).
AnsweredWithItsOrder ==
  \A c \in Calls :
    calls[c].pc \in Submitting /\ "handlers" \notin overlaps =>
      orders[calls[c].order].key = calls[c].key

\* Where the order of a key stands, for a caller that repeats the key.
LedgerOf(k) ==
  IF k \notin DOMAIN IDEMPOTENCY THEN "absent"
  ELSE LET status == Find(IDEMPOTENCY[k]).approval_status
       IN  IF status = "not_submitted" THEN "draft" ELSE status

Ledger == INSTANCE OrderLedger WITH ledger <- [k \in Keys |-> LedgerOf(k)]

\* As long as no two requests overlap, the emulator is a ledger: orders are
\* neither duplicated nor exchanged, and an approved one is settled whatever is
\* replayed (tests/test_approval_and_idempotency.py).
ImplementsLedger ==
  /\ Ledger!Init
  /\ [][overlaps' = {} => \/ Ledger!Next
                          \/ UNCHANGED [k \in Keys |-> LedgerOf(k)]]_vars
=============================================================================
