----------------------------- MODULE PurchasingUI -----------------------------
(***************************************************************************)
(* The purchasing UI as a system: request threads that start a stock check *)
(* or decide on a draft (app.py), background workers that turn a run into  *)
(* a draft (executor.process_run), and Zoho, which receives the create     *)
(* request of an approved draft (governance.create_draft).                 *)
(*                                                                         *)
(* A thread's `pc` names the statement it is about to execute; everything  *)
(* between two of its statements may interleave with the other threads, a  *)
(* crash of the process and the passage of time.  `Faults` says which of   *)
(* the following the environment does:                                     *)
(*   "crash"       the process dies; the database and Zoho stay            *)
(*   "redelivery"  /internal/process is called again for a run             *)
(*   "store"       a SQLite statement raises                               *)
(*   "edit"        the stored payload of a draft is changed                *)
(***************************************************************************)
EXTENDS PurchasingStore, Sequences

CONSTANTS Threads,    \* request threads of the web server
          Workers,    \* executions of process_run that can coexist
          Approvers,  \* subjects with role purchaseorder.approver
          Faults

ASSUME ActorAssumption ==
  /\ Approvers \subseteq Subjects
  /\ Faults \subseteq {"crash", "redelivery", "store", "edit"}

VARIABLES threads, workers,
          wire,    \* create requests sent to Zoho that have not arrived
          orders   \* Zoho's purchase orders, oldest first

zoho == <<wire, orders>>
vars == <<tables, now, threads, workers, zoho>>

ThreadPCs == {"idle", "create_run", "dispatch", "mistrust", "record", "decide",
              "recheck", "claim", "lookup", "create", "await_create", "submit",
              "finish", "reconcile", "place", "give_up", "close"}
WorkerPCs == {"idle", "read_run", "read_stock", "unresolved", "sufficient",
              "shortage", "publish"}

Thread == [pc : ThreadPCs, subject : Subjects \cup {None},
           run : Runs \cup {None}, draft : Drafts \cup {None},
           verdict : Verdicts \cup {None}, saw : DraftStates \cup {None},
           content : Contents \cup {None}]
IdleThread == [pc |-> "idle", subject |-> None, run |-> None, draft |-> None,
               verdict |-> None, saw |-> None, content |-> None]
Worker == [pc : WorkerPCs, run : Runs \cup {None}, spawned : BOOLEAN]
IdleWorker == [pc |-> "idle", run |-> None, spawned |-> FALSE]

Request == [by : Threads, ref : Drafts, content : Contents \cup {None}]
Order == [ref : Drafts, content : Contents \cup {None}, submitted : BOOLEAN]

TypeOK == /\ StoreTypeOK
          /\ threads \in [Threads -> Thread]
          /\ workers \in [Workers -> Worker]
          /\ wire \subseteq Request
          /\ orders \in Seq(Order)

Init == /\ StoreInit
        /\ threads = [t \in Threads |-> IdleThread]
        /\ workers = [w \in Workers |-> IdleWorker]
        /\ wire = {}
        /\ orders = <<>>

At(t, pc) == threads[t].pc = pc
Goto(t, pc) == threads' = [threads EXCEPT ![t].pc = pc]
Done(t) == threads' = [threads EXCEPT ![t] = IdleThread]

OrdersFor(d) == {i \in DOMAIN orders : orders[i].ref = d}
Ordered(d) == OrdersFor(d) # {}

-----------------------------------------------------------------------------
(* start_check: look for an active run, then create one and hand it over.  *)

RequestCheck(t, s) ==
  /\ At(t, "idle")
  /\ IF ActiveRuns(s) # {}
       THEN UNCHANGED threads
       ELSE threads' = [threads EXCEPT ![t] =
              [IdleThread EXCEPT !.pc = "create_run", !.subject = s]]
  /\ UNCHANGED <<tables, now, workers, zoho>>

\* organization_id() raised: 502, nothing written.
CheckUnavailable(t) ==
  /\ At(t, "create_run")
  /\ Done(t)
  /\ UNCHANGED <<tables, now, workers, zoho>>

CreateRun(t) ==
  /\ At(t, "create_run")
  /\ \E r \in Runs :
       /\ InsertRun(r, threads[t].subject)
       /\ threads' = [threads EXCEPT ![t] =
                        [@ EXCEPT !.pc = "dispatch", !.run = r]]
  /\ UNCHANGED <<drafts, approvals, submissions, now, workers, zoho>>

Dispatch(t) ==
  /\ At(t, "dispatch")
  /\ \E w \in Workers :
       /\ workers[w].pc = "idle"
       /\ workers' = [workers EXCEPT ![w] =
            [pc |-> "read_run", run |-> threads[t].run, spawned |-> TRUE]]
  /\ Done(t)
  /\ UNCHANGED <<tables, now, zoho>>

-----------------------------------------------------------------------------
(* process_run, on a spawned thread or on behalf of /internal/process.     *)

WorkerAt(w, pc) == workers[w].pc = pc
WorkerGoto(w, pc) == workers' = [workers EXCEPT ![w].pc = pc]
WorkerDone(w) == workers' = [workers EXCEPT ![w] = IdleWorker]

Redeliver(w, r) ==
  /\ "redelivery" \in Faults
  /\ WorkerAt(w, "idle")
  /\ runs[r].state # "ABSENT"
  /\ workers' = [workers EXCEPT ![w] =
       [pc |-> "read_run", run |-> r, spawned |-> FALSE]]
  /\ UNCHANGED <<tables, now, threads, zoho>>

ReadRun(w) ==
  /\ WorkerAt(w, "read_run")
  /\ IF runs[workers[w].run].state = "DRAFTING"
       THEN WorkerGoto(w, "read_stock")
       ELSE WorkerDone(w)
  /\ UNCHANGED <<tables, now, threads, zoho>>

\* A failing read fails the run; any other outcome is stored with the run,
\* whose state is written back as DRAFTING.
ReadStock(w) ==
  /\ WorkerAt(w, "read_stock")
  /\ \/ /\ SetRunState(workers[w].run, "FAILED")
        /\ WorkerDone(w)
     \/ /\ SetRunState(workers[w].run, "DRAFTING")
        /\ \E outcome \in {"unresolved", "sufficient", "shortage"} :
             WorkerGoto(w, outcome)
  /\ UNCHANGED <<drafts, approvals, submissions, now, threads, zoho>>

CloseWithoutDraft(w) ==
  /\ \/ /\ WorkerAt(w, "sufficient")
        /\ SetRunState(workers[w].run, "STOCK_SUFFICIENT")
     \/ /\ WorkerAt(w, "unresolved") \/ WorkerAt(w, "shortage")
        /\ SetRunState(workers[w].run, "UNRESOLVED")
  /\ WorkerDone(w)
  /\ UNCHANGED <<drafts, approvals, submissions, now, threads, zoho>>

CreateDraft(w) ==
  /\ WorkerAt(w, "shortage")
  /\ \E d \in Drafts, content \in Contents :
       InsertDraft(d, workers[w].run, content)
  /\ WorkerGoto(w, "publish")
  /\ UNCHANGED <<runs, approvals, submissions, now, threads, zoho>>

Publish(w) ==
  /\ WorkerAt(w, "publish")
  /\ SetRunState(workers[w].run, "AWAITING_APPROVAL")
  /\ WorkerDone(w)
  /\ UNCHANGED <<drafts, approvals, submissions, now, threads, zoho>>

-----------------------------------------------------------------------------
(* approve and reject, up to the transition that settles who won.          *)

MayDecide(s, d) ==
  /\ s \in Approvers
  /\ drafts[d].state # "ABSENT"
  /\ runs[drafts[d].run].subject = s

\* A refused request (403, 404, 409) changes nothing and is left out.
LoadForDecision(t, s, d, verdict) ==
  /\ At(t, "idle")
  /\ MayDecide(s, d)
  /\ threads' = [threads EXCEPT ![t] = [IdleThread EXCEPT
       !.pc = IF drafts[d].payload = drafts[d].hash THEN "record" ELSE "mistrust",
       !.subject = s, !.draft = d, !.verdict = verdict,
       !.saw = drafts[d].state]]
  /\ UNCHANGED <<tables, now, workers, zoho>>

\* The payload failed its integrity check; the state written over is the one
\* read with it, and a Conflict here is an uncaught 500.
FlagForReview(t) ==
  /\ At(t, "mistrust")
  /\ IF InState(threads[t].draft, threads[t].saw)
       THEN MoveDraft(threads[t].draft, "NEEDS_REVIEW")
       ELSE UNCHANGED drafts
  /\ Done(t)
  /\ UNCHANGED <<runs, approvals, submissions, now, workers, zoho>>

RecordApproval(t) ==
  /\ At(t, "record")
  /\ LET d == threads[t].draft
     IN IF Decided(d)
          THEN Done(t) /\ UNCHANGED approvals
          ELSE /\ InsertApproval(d, threads[t].verdict, threads[t].subject)
               /\ Goto(t, "decide")
  /\ UNCHANGED <<runs, drafts, submissions, now, workers, zoho>>

Decide(t) ==
  /\ At(t, "decide")
  /\ LET d == threads[t].draft
     IN IF ~ InState(d, "AWAITING_APPROVAL")
          THEN Done(t) /\ UNCHANGED drafts
          ELSE IF threads[t].verdict = "approved"
                 THEN MoveDraft(d, "APPROVED") /\ Goto(t, "recheck")
                 ELSE MoveDraft(d, "REJECTED") /\ Goto(t, "close")
  /\ UNCHANGED <<runs, approvals, submissions, now, workers, zoho>>

-----------------------------------------------------------------------------
(* Submission of an approved draft, on the approver's request thread.      *)

Fresh(d) == \E a \in ApprovalsFor(d) : now < a.expires

\* The expiry check and the transition it selects, then get_draft.
Recheck(t) ==
  /\ At(t, "recheck")
  /\ LET d == threads[t].draft
     IN IF ~ InState(d, "APPROVED")
          THEN Done(t) /\ UNCHANGED drafts
          ELSE IF Fresh(d)
                 THEN /\ MoveDraft(d, "SUBMITTING")
                      /\ threads' = [threads EXCEPT ![t] =
                           [@ EXCEPT !.pc = "claim",
                                     !.content = drafts[d].payload]]
                 ELSE MoveDraft(d, "NEEDS_REVIEW") /\ Done(t)
  /\ UNCHANGED <<runs, approvals, submissions, now, workers, zoho>>

ClaimSubmission(t) ==
  /\ At(t, "claim")
  /\ LET d == threads[t].draft
     IN IF Claimed(d)
          THEN Done(t) /\ UNCHANGED submissions
          ELSE SetSubmission(d, "CLAIMED") /\ Goto(t, "lookup")
  /\ UNCHANGED <<runs, drafts, approvals, now, workers, zoho>>

\* governance.create_draft: an order with the reference is returned as it is,
\* a lookup that fails refuses to create, otherwise the order is created.
LookupReference(t) ==
  /\ At(t, "lookup")
  /\ \/ Goto(t, IF Ordered(threads[t].draft) THEN "finish" ELSE "create")
     \/ Goto(t, "reconcile")
  /\ UNCHANGED <<tables, now, workers, zoho>>

SendCreate(t) ==
  /\ At(t, "create")
  /\ wire' = wire \cup {[by |-> t, ref |-> threads[t].draft,
                         content |-> threads[t].content]}
  /\ Goto(t, "await_create")
  /\ UNCHANGED <<tables, now, workers, orders>>

\* Mutant of CreateReturns: a timeout taken for an accepted create.
CreateReturnsHopeful(t) ==
  /\ At(t, "await_create")
  /\ Goto(t, "finish")
  /\ UNCHANGED <<tables, now, workers, zoho>>

\* The answer arrives, or the call raises whether Zoho created or not.
CreateReturns(t) ==
  /\ At(t, "await_create")
  /\ \/ Ordered(threads[t].draft) /\ Goto(t, "submit")
     \/ Goto(t, "reconcile")
  /\ UNCHANGED <<tables, now, workers, zoho>>

\* submit_purchase_order may take effect or not, and raise or not; the read
\* that follows a failure may fail too.
SubmitOrder(t) ==
  /\ At(t, "submit")
  /\ \E effect \in BOOLEAN :
       orders' = [i \in DOMAIN orders |->
         IF orders[i].ref = threads[t].draft
           THEN [orders[i] EXCEPT !.submitted = @ \/ effect]
           ELSE orders[i]]
  /\ \E next \in {"finish", "reconcile"} : Goto(t, next)
  /\ UNCHANGED <<tables, now, workers, wire>>

FinishSubmission(t) ==
  /\ At(t, "finish")
  /\ SetSubmission(threads[t].draft, "COMPLETE")
  /\ Goto(t, "place")
  /\ UNCHANGED <<runs, drafts, approvals, now, workers, zoho>>

\* Mutant of Reconcile: an order that is not there yet is created again.
ReconcileRetries(t) ==
  /\ At(t, "reconcile")
  /\ Goto(t, IF Ordered(threads[t].draft) THEN "finish" ELSE "create")
  /\ UNCHANGED <<tables, now, workers, zoho>>

\* After a failure: look the reference up once more.
Reconcile(t) ==
  /\ At(t, "reconcile")
  /\ \/ /\ Ordered(threads[t].draft)
        /\ SetSubmission(threads[t].draft, "RECONCILED")
        /\ Goto(t, "place")
     \/ /\ SetSubmission(threads[t].draft, "UNKNOWN")
        /\ Goto(t, "give_up")
  /\ UNCHANGED <<runs, drafts, approvals, now, workers, zoho>>

Place(t) ==
  /\ At(t, "place")
  /\ IF InState(threads[t].draft, "SUBMITTING")
       THEN MoveDraft(threads[t].draft, "PLACED") /\ Goto(t, "close")
       ELSE UNCHANGED drafts /\ Done(t)
  /\ UNCHANGED <<runs, approvals, submissions, now, workers, zoho>>

\* The error handler of approve: what it reports depends on the submission row.
GiveUp(t) ==
  /\ At(t, "give_up")
  /\ LET d == threads[t].draft
     IN IF InState(d, "SUBMITTING")
          THEN MoveDraft(d, IF submissions[d] = "UNKNOWN"
                              THEN "SUBMISSION_UNKNOWN" ELSE "FAILED")
          ELSE UNCHANGED drafts
  /\ Done(t)
  /\ UNCHANGED <<runs, approvals, submissions, now, workers, zoho>>

CloseRun(t) ==
  /\ At(t, "close")
  /\ SetRunState(drafts[threads[t].draft].run, "COMPLETE")
  /\ Done(t)
  /\ UNCHANGED <<drafts, approvals, submissions, now, workers, zoho>>

-----------------------------------------------------------------------------
(* Zoho, the network, the clock and the faults.                            *)

CreateArrives(q) ==
  /\ wire' = wire \ {q}
  /\ orders' = Append(orders, [ref |-> q.ref, content |-> q.content,
                               submitted |-> FALSE])
  /\ UNCHANGED <<tables, now, threads, workers>>

CreateLost(q) ==
  /\ wire' = wire \ {q}
  /\ UNCHANGED <<tables, now, threads, workers, orders>>

Tick == /\ now < MaxTime
        /\ now' = now + 1
        /\ UNCHANGED <<tables, threads, workers, zoho>>

Crash ==
  /\ "crash" \in Faults
  /\ threads' = [t \in Threads |-> IdleThread]
  /\ workers' = [w \in Workers |-> IdleWorker]
  /\ UNCHANGED <<tables, now, zoho>>

\* Inside approve's try block the error handler runs, elsewhere it is a 500.
ThreadStoreFault(t) ==
  /\ "store" \in Faults
  /\ \/ threads[t].pc \in {"claim", "finish", "reconcile"} /\ Goto(t, "give_up")
     \/ /\ threads[t].pc \in {"create_run", "dispatch", "mistrust", "record",
                              "decide", "recheck", "place", "give_up", "close"}
        /\ Done(t)
  /\ UNCHANGED <<tables, now, workers, zoho>>

\* _run_task marks the run FAILED (or fails to); /internal/process does not.
WorkerStoreFault(w) ==
  /\ "store" \in Faults
  /\ ~ WorkerAt(w, "idle")
  /\ \/ workers[w].spawned /\ SetRunState(workers[w].run, "FAILED")
     \/ UNCHANGED runs
  /\ WorkerDone(w)
  /\ UNCHANGED <<drafts, approvals, submissions, now, threads, zoho>>

EditPayload(d) ==
  /\ "edit" \in Faults
  /\ drafts[d].state # "ABSENT" /\ drafts[d].payload = drafts[d].hash
  /\ \E c \in Contents \ {drafts[d].hash} :
       drafts' = [drafts EXCEPT ![d].payload = c]
  /\ UNCHANGED <<runs, approvals, submissions, now, threads, workers, zoho>>

-----------------------------------------------------------------------------
ThreadStep(t) ==
  \/ CheckUnavailable(t) \/ CreateRun(t) \/ Dispatch(t)
  \/ FlagForReview(t) \/ RecordApproval(t) \/ Decide(t) \/ Recheck(t)
  \/ ClaimSubmission(t) \/ LookupReference(t) \/ SendCreate(t)
  \/ CreateReturns(t) \/ SubmitOrder(t) \/ FinishSubmission(t)
  \/ Reconcile(t) \/ Place(t) \/ GiveUp(t) \/ CloseRun(t)

WorkerStep(w) == \/ ReadRun(w) \/ ReadStock(w) \/ CloseWithoutDraft(w)
                 \/ CreateDraft(w) \/ Publish(w)

Environment ==
  \/ \E t \in Threads, s \in Subjects : RequestCheck(t, s)
  \/ \E t \in Threads, s \in Subjects, d \in Drafts, v \in Verdicts :
       LoadForDecision(t, s, d, v)
  \/ \E w \in Workers, r \in Runs : Redeliver(w, r)
  \/ \E q \in wire : CreateArrives(q) \/ CreateLost(q)
  \/ Tick \/ Crash
  \/ \E t \in Threads : ThreadStoreFault(t)
  \/ \E w \in Workers : WorkerStoreFault(w)
  \/ \E d \in Drafts : EditPayload(d)

Next == \/ \E t \in Threads : ThreadStep(t)
        \/ \E w \in Workers : WorkerStep(w)
        \/ Environment

Spec == Init /\ [][Next]_vars

\* Threads of a live process are scheduled; nothing forces a user to click,
\* Zoho to answer, or the platform to deliver a task again.
FairSpec == /\ Spec
            /\ \A t \in Threads : WF_vars(ThreadStep(t))
            /\ \A w \in Workers : WF_vars(WorkerStep(w))
=============================================================================
