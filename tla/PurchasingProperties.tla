------------------------- MODULE PurchasingProperties -------------------------
(***************************************************************************)
(* What the purchasing UI must never do, and what it must eventually do.   *)
(***************************************************************************)
EXTENDS PurchasingUI, FiniteSets

\* At most one purchase order exists for a draft, whatever clicks, timeouts,
\* crashes and late creates happen (submit_approved_draft, store.py:93-94).
OneOrderPerDraft ==
  \A i, j \in DOMAIN orders : orders[i].ref = orders[j].ref => i = j

\* The run and the subject a draft belongs to.
Owner(d) == runs[drafts[d].run].subject

\* An order exists only for a draft whose every recorded decision is the
\* approval of its owner, who holds the approver role (approve, app.py:215).
OrderIsApproved ==
  \A i \in DOMAIN orders :
    LET d == orders[i].ref
    IN /\ ApprovalsFor(d) # {}
       /\ \A a \in ApprovalsFor(d) : /\ a.verdict = "approved"
                                     /\ a.subject = Owner(d)
                                     /\ a.subject \in Approvers

\* What a draft's state says is so: PLACED has its order at Zoho, REJECTED has
\* none and none on its way (app.py:261, app.py:284).
ReportIsTrue ==
  \A d \in Drafts :
    /\ drafts[d].state = "PLACED" => Ordered(d)
    /\ drafts[d].state = "REJECTED" =>
         ~ Ordered(d) /\ \A q \in wire : q.ref # d

\* Concurrent decisions have one winner: no draft has two (store.py:259-262).
OneDecision == \A a, b \in approvals : a.draft = b.draft => a = b

\* No create request leaves for a draft that has an order, a request on its way
\* or a submission outcome on record: an UNKNOWN outcome is never retried
\* (claim_submission, models.py:6-8).
NoBlindRetry ==
  [][\A q \in wire' \ wire :
       /\ submissions[q.ref] = "CLAIMED"
       /\ ~ Ordered(q.ref)
       /\ \A p \in wire : p.ref # q.ref]_vars

\* What the tables and Zoho amount to for a draft: the decision on record, the
\* number of orders, and what the draft's state claims.
DecisionOn(d) == IF Decided(d) THEN (CHOOSE a \in ApprovalsFor(d) : TRUE).verdict
                               ELSE "none"
OrdersHeld(d) == Cardinality(OrdersFor(d))
ReportOf(state) == CASE state = "PLACED" -> "placed"
                     [] state = "REJECTED" -> "rejected"
                     [] OTHER -> "open"

\* The UI implements the promise of ApprovedPurchase.
Promise == INSTANCE ApprovedPurchase WITH
  decision <- [d \in Drafts |-> DecisionOn(d)],
  ordered <- [d \in Drafts |-> OrdersHeld(d)],
  report <- [d \in Drafts |-> ReportOf(drafts[d].state)]

KeepsPromise == Promise!Spec

-----------------------------------------------------------------------------
(* Runs. *)

\* A run that asks for a decision has a draft to decide on, and one that ended
\* without an order has none (process_run, executor.py:359-383).
RunMatchesItsDrafts ==
  \A r \in Runs :
    LET proposed == \E d \in Drafts : drafts[d].run = r
    IN /\ runs[r].state = "AWAITING_APPROVAL" => proposed
       /\ runs[r].state \in {"STOCK_SUFFICIENT", "UNRESOLVED", "FAILED"} =>
            ~ proposed

\* A draft that still asks for a decision can be given one: nobody's decision
\* on it is on file, unless its request is being served (app.py:219-227).
PendingIsDecidable ==
  \A d \in Drafts :
    drafts[d].state = "AWAITING_APPROVAL" /\ Decided(d) =>
      \E t \in Threads : threads[t].draft = d /\ threads[t].pc = "decide"

\* A subject has one active run at a time (store.py:138-140, app.py:111).
OneActiveRun == \A s \in Subjects : Cardinality(ActiveRuns(s)) <= 1

\* One stock check ends in one order at most, however often its task is
\* delivered (store.py:11-13).
OneOrderPerRun ==
  \A i, j \in DOMAIN orders :
    drafts[orders[i].ref].run = drafts[orders[j].ref].run => i = j

\* A run that is over is not active again (app.py:266, app.py:289).
CompleteIsFinal ==
  [][\A r \in Runs :
       runs[r].state = "COMPLETE" => runs'[r].state = "COMPLETE"]_vars

-----------------------------------------------------------------------------
(* What the documentation says of the submission. *)

\* When the create request leaves, the approval has not expired
\* (executor.py:281-282).
SubmittedWhileFresh == [][\A q \in wire' \ wire : Fresh(q.ref)]_vars

\* What is ordered has the content hash of the approval (executor.py:283).
OrderedAsApproved ==
  \A i \in DOMAIN orders :
    \A a \in ApprovalsFor(orders[i].ref) : orders[i].content = a.hash

\* A draft is reported FAILED only if no order was created for it; otherwise
\* its outcome is unknown (models.py:6-8).
FailedHasNoOrder ==
  \A d \in Drafts : drafts[d].state = "FAILED" => ~ Ordered(d)

-----------------------------------------------------------------------------
(* Liveness, under FairSpec. *)

Settled == {"PLACED", "REJECTED", "FAILED", "NEEDS_REVIEW", "SUBMISSION_UNKNOWN"}

\* A decision that is on record is carried out (approve, reject).
DecisionCarriedOut ==
  \A d \in Drafts : Decided(d) ~> (drafts[d].state \in Settled)

\* A run does not stay DRAFTING (start_check, _dispatch, process_run).
DraftingEnds ==
  \A r \in Runs : (runs[r].state = "DRAFTING") ~> (runs[r].state # "DRAFTING")
=============================================================================
