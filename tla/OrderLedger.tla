------------------------------ MODULE OrderLedger ------------------------------
(***************************************************************************)
(* What the procurement API promises its callers: there is one order for a  *)
(* key, and it goes from absent over draft and pending to approved.  All    *)
(* orders may be lost at once (the emulator keeps them in memory).          *)
(***************************************************************************)
CONSTANT Keys

VARIABLE ledger   \* where the order of each key stands

States == {"absent", "draft", "pending_approval", "approved"}

Init == ledger = [k \in Keys |-> "absent"]

Move(k, from, to) == ledger[k] = from /\ ledger' = [ledger EXCEPT ![k] = to]

Create(k) == Move(k, "absent", "draft")
Submit(k) == Move(k, "draft", "pending_approval")
Approve(k) == Move(k, "pending_approval", "approved")
Lose == ledger' = [k \in Keys |-> "absent"]

Next == Lose \/ \E k \in Keys : Create(k) \/ Submit(k) \/ Approve(k)

Spec == Init /\ [][Next]_ledger
=============================================================================
