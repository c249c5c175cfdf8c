--------------------------- MODULE ApprovedPurchase ---------------------------
(***************************************************************************)
(* What the purchasing UI promises about a proposed purchase: one human    *)
(* decision, at most one order and only after an approval, and a report    *)
(* that never claims more than happened.                                   *)
(***************************************************************************)
EXTENDS Naturals

CONSTANT Drafts

VARIABLES decision,  \* "none", "approved" or "rejected"
          ordered,   \* how many orders the vendor side holds
          report     \* "open", "placed" or "rejected"

vars == <<decision, ordered, report>>

Init == /\ decision = [d \in Drafts |-> "none"]
        /\ ordered = [d \in Drafts |-> 0]
        /\ report = [d \in Drafts |-> "open"]

Decide(d) ==
  /\ decision[d] = "none"
  /\ \E v \in {"approved", "rejected"} : decision' = [decision EXCEPT ![d] = v]
  /\ UNCHANGED <<ordered, report>>

Order(d) ==
  /\ decision[d] = "approved"
  /\ ordered[d] = 0
  /\ ordered' = [ordered EXCEPT ![d] = 1]
  /\ UNCHANGED <<decision, report>>

Report(d) ==
  /\ report[d] = "open"
  /\ \/ ordered[d] = 1 /\ report' = [report EXCEPT ![d] = "placed"]
     \/ /\ decision[d] = "rejected"
        /\ report' = [report EXCEPT ![d] = "rejected"]
  /\ UNCHANGED <<decision, ordered>>

\* A draft whose stored content is found altered goes back to review.
Withdraw(d) == /\ report' = [report EXCEPT ![d] = "open"]
               /\ UNCHANGED <<decision, ordered>>

Next == \E d \in Drafts : Decide(d) \/ Order(d) \/ Report(d) \/ Withdraw(d)

Spec == Init /\ [][Next]_vars
=============================================================================
