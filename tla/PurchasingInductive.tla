-------------------------- MODULE PurchasingInductive --------------------------
(***************************************************************************)
(* The inductive invariant behind OneOrderPerDraft, OrderIsApproved,       *)
(* ReportIsTrue and NoBlindRetry: who may be working on a draft, what is   *)
(* on record by then, and what can have reached Zoho.                      *)
(***************************************************************************)
EXTENDS PurchasingProperties

\* Past the insert of the approval, a thread owns its draft.
Submitting == {"recheck", "claim", "lookup", "create", "await_create", "submit",
               "finish", "reconcile", "place", "give_up"}
Holding == Submitting \cup {"decide", "close"}
\* Until here no request for the draft has been sent.
BeforeSend == {"decide", "recheck", "claim", "lookup", "create"}

Live(d) == drafts[d].state # "ABSENT"
OnWire(d) == \E q \in wire : q.ref = d

RowsInv ==
  /\ \A d \in Drafts :
       Live(d) => /\ drafts[d].run \in Runs
                  /\ drafts[d].hash \in Contents
                  /\ runs[drafts[d].run].state # "ABSENT"
  /\ \A w \in Workers :
       workers[w].pc # "idle" => /\ workers[w].run \in Runs
                                 /\ runs[workers[w].run].state # "ABSENT"

ThreadOK(t) ==
  /\ threads[t].pc \in {"create_run", "dispatch"} => threads[t].subject \in Subjects
  /\ threads[t].pc = "dispatch" => /\ threads[t].run \in Runs
                                   /\ runs[threads[t].run].state # "ABSENT"
  /\ threads[t].pc \in Holding \cup {"mistrust", "record"} =>
       /\ threads[t].draft \in Drafts
       /\ Live(threads[t].draft)
       /\ threads[t].verdict \in Verdicts
  /\ threads[t].pc = "record" => /\ threads[t].subject \in Approvers
                                 /\ threads[t].subject = Owner(threads[t].draft)
  /\ threads[t].pc \in Submitting => threads[t].verdict = "approved"

ThreadsInv == \A t \in Threads : ThreadOK(t)

DecisionsInv ==
  /\ OneDecision
  /\ \A a \in approvals : /\ Live(a.draft)
                          /\ a.subject \in Approvers
                          /\ a.subject = Owner(a.draft)
  /\ \A t \in Threads :
       threads[t].pc \in Holding =>
         \E a \in ApprovalsFor(threads[t].draft) : a.verdict = threads[t].verdict
  /\ \A t, u \in Threads :
       /\ threads[t].pc \in Holding
       /\ threads[u].pc \in Holding
       /\ threads[t].draft = threads[u].draft
       => t = u

Approved(d) == \E a \in ApprovalsFor(d) : a.verdict = "approved"

OrdersInv ==
  /\ \A q \in wire : Approved(q.ref)
  /\ \A i \in DOMAIN orders : Approved(orders[i].ref)
  /\ \A p, q \in wire : p.ref = q.ref => p = q
  /\ \A q \in wire : ~ Ordered(q.ref)
  /\ OneOrderPerDraft
  /\ \A t \in Threads :
       threads[t].pc \in BeforeSend =>
         ~ OnWire(threads[t].draft) /\ ~ Ordered(threads[t].draft)

ClaimsInv ==
  \A t \in Threads :
    threads[t].pc \in {"lookup", "create"} =>
      submissions[threads[t].draft] = "CLAIMED"

ReportInv ==
  /\ \A t \in Threads :
       threads[t].pc \in {"submit", "finish", "place"} => Ordered(threads[t].draft)
  /\ \A d \in Drafts : drafts[d].state = "PLACED" => Ordered(d)
  /\ \A d \in Drafts :
       drafts[d].state = "REJECTED" =>
         \E a \in ApprovalsFor(d) : a.verdict = "rejected"

IInv == /\ RowsInv
        /\ ThreadsInv
        /\ DecisionsInv
        /\ OrdersInv
        /\ ClaimsInv
        /\ ReportInv

-----------------------------------------------------------------------------
(* The inductive invariant behind RunMatchesItsDrafts, which holds as long *)
(* as no task is delivered again and no statement of the store raises.     *)

Proposed(r) == \E d \in Drafts : drafts[d].run = r

\* At these statements a worker has its run's only task and no draft yet.
Undrafted == {"read_run", "read_stock", "unresolved", "sufficient", "shortage"}

\* One thread or worker at a time brings a run towards its draft.
HandoverInv ==
  /\ \A t \in Threads :
       threads[t].pc = "dispatch" => /\ runs[threads[t].run].state = "DRAFTING"
                                     /\ ~ Proposed(threads[t].run)
  /\ \A w \in Workers :
       workers[w].pc \in Undrafted => /\ runs[workers[w].run].state = "DRAFTING"
                                      /\ ~ Proposed(workers[w].run)
  /\ \A t, u \in Threads :
       /\ threads[t].pc = "dispatch"
       /\ threads[u].pc = "dispatch"
       /\ threads[t].run = threads[u].run
       => t = u
  /\ \A w, x \in Workers :
       /\ workers[w].pc \in Undrafted
       /\ workers[x].pc \in Undrafted
       /\ workers[w].run = workers[x].run
       => w = x
  /\ \A t \in Threads, w \in Workers :
       threads[t].pc = "dispatch" /\ workers[w].pc \in Undrafted =>
         threads[t].run # workers[w].run

ProposalsInv ==
  /\ \A w \in Workers : workers[w].pc = "publish" => Proposed(workers[w].run)
  /\ \A d \in Drafts : ~ Live(d) => drafts[d].run = None
  /\ \A r \in Runs :
       /\ runs[r].state = "AWAITING_APPROVAL" => Proposed(r)
       /\ Proposed(r) =>
            runs[r].state \in {"DRAFTING", "AWAITING_APPROVAL", "COMPLETE"}

RunsInv == HandoverInv /\ ProposalsInv
=============================================================================
