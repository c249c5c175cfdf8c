--------------------------- MODULE PurchasingProofs ---------------------------
(***************************************************************************)
(* Proofs about PurchasingUI for any sets of runs, drafts, users, contents *)
(* and threads, any TTL and clock bound, and any combination of faults.    *)
(***************************************************************************)
EXTENDS PurchasingInductive, SequenceTheorems, FiniteSetTheorems, TLAPS

\* Initially every table is empty and every thread idle.
LEMMA TypeInit == Init => TypeOK
  BY TimeAssumption DEF Init, StoreInit, TypeOK, StoreTypeOK, RunRow, DraftRow,
     RunStates, DraftStates, SubmissionStates, Clock, IdleThread, IdleWorker,
     Thread, Worker, ThreadPCs, WorkerPCs

\* Moving a thread's pc keeps the threads typed.
LEMMA GotoType ==
  ASSUME threads \in [Threads -> Thread], NEW t \in Threads,
         NEW pc \in ThreadPCs, Goto(t, pc)
  PROVE  threads' \in [Threads -> Thread]
  BY DEF Goto, Thread

\* A finished request leaves an idle thread, which is typed.
LEMMA DoneType ==
  ASSUME threads \in [Threads -> Thread], NEW t \in Threads, Done(t)
  PROVE  threads' \in [Threads -> Thread]
<1>1. IdleThread \in Thread
  BY DEF IdleThread, Thread, ThreadPCs
<1> QED
  BY <1>1 DEF Done

\* Moving a thread's pc changes nothing else of it, and no other thread.
LEMMA GotoFields ==
  ASSUME TypeOK, NEW t \in Threads, NEW pc, Goto(t, pc)
  PROVE  /\ threads'[t].pc = pc
         /\ threads'[t].draft = threads[t].draft
         /\ threads'[t].verdict = threads[t].verdict
         /\ \A u \in Threads : u # t => threads'[u] = threads[u]
  BY DEF Goto, TypeOK, Thread

\* Moving a worker's pc keeps the workers typed.
LEMMA WorkerGotoType ==
  ASSUME workers \in [Workers -> Worker], NEW w \in Workers,
         NEW pc \in WorkerPCs, WorkerGoto(w, pc)
  PROVE  workers' \in [Workers -> Worker]
  BY DEF WorkerGoto, Worker

\* A finished execution of process_run leaves an idle worker, which is typed.
LEMMA WorkerDoneType ==
  ASSUME workers \in [Workers -> Worker], NEW w \in Workers, WorkerDone(w)
  PROVE  workers' \in [Workers -> Worker]
<1>1. IdleWorker \in Worker
  BY DEF IdleWorker, Worker, WorkerPCs
<1> QED
  BY <1>1 DEF WorkerDone

\* set_run_state keeps the runs typed.
LEMMA SetRunStateType ==
  ASSUME runs \in [Runs -> RunRow], NEW r, NEW state \in RunStates,
         SetRunState(r, state)
  PROVE  runs' \in [Runs -> RunRow]
  BY DEF SetRunState, RunRow

\* transition_draft keeps the drafts typed.
LEMMA MoveDraftType ==
  ASSUME drafts \in [Drafts -> DraftRow], NEW d, NEW state \in DraftStates,
         MoveDraft(d, state)
  PROVE  drafts' \in [Drafts -> DraftRow]
  BY DEF MoveDraft, DraftRow

\* claim_submission and finish_submission keep the submissions typed.
LEMMA SetSubmissionType ==
  ASSUME submissions \in [Drafts -> SubmissionStates], NEW d,
         NEW state \in SubmissionStates, SetSubmission(d, state)
  PROVE  submissions' \in [Drafts -> SubmissionStates]
  BY DEF SetSubmission

\* submit_purchase_order touches nothing but the submitted flag of an order.
LEMMA SubmitKeepsOrders ==
  ASSUME orders \in Seq(Order), NEW d, NEW effect \in BOOLEAN,
         orders' = [i \in DOMAIN orders |->
           IF orders[i].ref = d
             THEN [orders[i] EXCEPT !.submitted = @ \/ effect]
             ELSE orders[i]]
  PROVE  /\ orders' \in Seq(Order)
         /\ DOMAIN orders' = DOMAIN orders
         /\ \A i \in DOMAIN orders : orders'[i].ref = orders[i].ref
<1>1. \A i \in DOMAIN orders : orders[i] \in Order
  OBVIOUS
<1>2. \A i \in DOMAIN orders : orders'[i] \in Order
  BY <1>1 DEF Order
<1>3. DOMAIN orders' = 1 .. Len(orders) /\ Len(orders) \in Nat
  OBVIOUS
<1>4. orders' = [i \in 1 .. Len(orders) |-> orders'[i]]
  BY <1>3
<1>5. orders' \in [1 .. Len(orders) -> Order]
  BY <1>2, <1>3, <1>4
<1>6. orders' \in Seq(Order)
  BY <1>3, <1>5, SeqDef
<1> QED
  BY <1>1, <1>3, <1>6 DEF Order

\* The steps of a request thread keep the types.
LEMMA TypeThread ==
  ASSUME TypeOK, RowsInv, ThreadsInv, NEW t \in Threads, ThreadStep(t)
  PROVE  TypeOK'
<1> USE GotoType, DoneType, SetRunStateType, MoveDraftType, SetSubmissionType
    DEF TypeOK, StoreTypeOK, tables, zoho
<1>1. CASE CheckUnavailable(t)
  BY <1>1 DEF CheckUnavailable
<1>2. CASE CreateRun(t)
  <2>1. PICK r \in Runs :
          /\ InsertRun(r, threads[t].subject)
          /\ threads' = [threads EXCEPT ![t] =
                           [@ EXCEPT !.pc = "dispatch", !.run = r]]
    BY <1>2 DEF CreateRun
  <2>2. threads[t].subject \in Subjects
    BY <1>2 DEF CreateRun, At, ThreadsInv, ThreadOK
  <2>3. [state |-> "DRAFTING", subject |-> threads[t].subject] \in RunRow
    BY <2>2 DEF RunRow, RunStates
  <2>4. runs' \in [Runs -> RunRow]
    BY <2>1, <2>3 DEF InsertRun
  <2>5. threads' \in [Threads -> Thread]
    <3>1. [threads[t] EXCEPT !.pc = "dispatch", !.run = r] \in Thread
      <4>1. threads[t] \in Thread
        OBVIOUS
      <4>2. "dispatch" \in ThreadPCs
        BY DEF ThreadPCs
      <4> QED
        BY <4>1, <4>2 DEF Thread
    <3> QED
      BY <2>1, <3>1
  <2> QED
    BY <1>2, <2>4, <2>5 DEF CreateRun
<1>3. CASE Dispatch(t)
  BY <1>3 DEF Dispatch, Worker, WorkerPCs, Thread
<1>4. CASE FlagForReview(t)
  BY <1>4 DEF FlagForReview, DraftStates
<1>5. CASE RecordApproval(t)
  <2>1. CASE Done(t) /\ UNCHANGED approvals
    BY <1>5, <2>1 DEF RecordApproval
  <2> DEFINE d == threads[t].draft
  <2>2. CASE InsertApproval(d, threads[t].verdict, threads[t].subject)
             /\ Goto(t, "decide")
    <3>1. /\ d \in Drafts /\ Live(d)
          /\ threads[t].verdict \in Verdicts /\ threads[t].subject \in Subjects
      BY <1>5, ActorAssumption DEF RecordApproval, At, ThreadsInv, ThreadOK
    <3>2. drafts[d].hash \in Contents
      BY <3>1 DEF RowsInv
    <3>3. now + TTL \in Nat
      BY TimeAssumption DEF Clock
    <3>4. approvals' \subseteq ApprovalRow
      BY <2>2, <3>1, <3>2, <3>3 DEF InsertApproval, ApprovalRow
    <3> QED
      BY <1>5, <2>2, <3>4 DEF RecordApproval, ThreadPCs
  <2> QED
    BY <1>5, <2>1, <2>2 DEF RecordApproval
<1>6. CASE Decide(t)
  BY <1>6 DEF Decide, DraftStates, ThreadPCs
<1>7. CASE Recheck(t)
  <2> DEFINE d == threads[t].draft
  <2>1. d \in Drafts
    BY <1>7 DEF Recheck, At, ThreadsInv, ThreadOK, Holding, Submitting
  <2>2. CASE /\ MoveDraft(d, "SUBMITTING")
             /\ threads' = [threads EXCEPT ![t] =
                  [@ EXCEPT !.pc = "claim", !.content = drafts[d].payload]]
    <3>1. drafts[d].payload \in Contents \cup {None}
      BY <2>1 DEF DraftRow
    <3>2. ASSUME NEW p \in Contents \cup {None}
          PROVE  [threads[t] EXCEPT !.pc = "claim", !.content = p] \in Thread
      <4>1. threads[t] \in Thread
        OBVIOUS
      <4>2. "claim" \in ThreadPCs
        BY DEF ThreadPCs
      <4> QED
        BY <4>1, <4>2 DEF Thread
    <3>3. threads' \in [Threads -> Thread]
      BY <2>2, <3>1, <3>2
    <3> QED
      BY <1>7, <2>2, <3>3 DEF Recheck, DraftStates
  <2>3. CASE Done(t)
    BY <1>7, <2>3 DEF Recheck, DraftStates
  <2> QED
    BY <1>7, <2>2, <2>3 DEF Recheck
<1>8. CASE ClaimSubmission(t)
  BY <1>8 DEF ClaimSubmission, SubmissionStates, ThreadPCs
<1>9. CASE LookupReference(t)
  BY <1>9 DEF LookupReference, ThreadPCs
<1>10. CASE SendCreate(t)
  <2>1. threads[t].draft \in Drafts
    BY <1>10 DEF SendCreate, At, ThreadsInv, ThreadOK, Holding, Submitting
  <2>2. threads[t].content \in Contents \cup {None}
    BY DEF Thread
  <2>3. wire' \subseteq Request
    BY <1>10, <2>1, <2>2 DEF SendCreate, Request
  <2> QED
    BY <1>10, <2>3 DEF SendCreate, ThreadPCs
<1>11. CASE CreateReturns(t)
  BY <1>11 DEF CreateReturns, ThreadPCs
<1>12. CASE SubmitOrder(t)
  <2>1. threads' \in [Threads -> Thread]
    BY <1>12 DEF SubmitOrder, ThreadPCs
  <2>2. orders' \in Seq(Order)
    <3>1. PICK effect \in BOOLEAN :
            orders' = [i \in DOMAIN orders |->
              IF orders[i].ref = threads[t].draft
                THEN [orders[i] EXCEPT !.submitted = @ \/ effect]
                ELSE orders[i]]
      BY <1>12 DEF SubmitOrder
    <3> QED
      BY <3>1, SubmitKeepsOrders
  <2> QED
    BY <1>12, <2>1, <2>2 DEF SubmitOrder
<1>13. CASE FinishSubmission(t)
  BY <1>13 DEF FinishSubmission, SubmissionStates, ThreadPCs
<1>14. CASE Reconcile(t)
  BY <1>14 DEF Reconcile, SubmissionStates, ThreadPCs
<1>15. CASE Place(t)
  BY <1>15 DEF Place, DraftStates, ThreadPCs
<1>16. CASE GiveUp(t)
  BY <1>16 DEF GiveUp, DraftStates, ThreadPCs
<1>17. CASE CloseRun(t)
  BY <1>17 DEF CloseRun, RunStates, ThreadPCs
<1> QED
  BY <1>1, <1>2, <1>3, <1>4, <1>5, <1>6, <1>7, <1>8, <1>9, <1>10, <1>11, <1>12,
     <1>13, <1>14, <1>15, <1>16, <1>17 DEF ThreadStep

\* The steps of process_run keep the types.
LEMMA TypeWorker ==
  ASSUME TypeOK, RowsInv, NEW w \in Workers, WorkerStep(w)
  PROVE  TypeOK'
<1> USE WorkerGotoType, WorkerDoneType, SetRunStateType
    DEF TypeOK, StoreTypeOK, tables, zoho, WorkerPCs
<1>1. CASE ReadRun(w)
  BY <1>1 DEF ReadRun
<1>2. CASE ReadStock(w)
  BY <1>2 DEF ReadStock, RunStates
<1>3. CASE CloseWithoutDraft(w)
  BY <1>3 DEF CloseWithoutDraft, RunStates
<1>4. CASE CreateDraft(w)
  <2>1. PICK d \in Drafts, content \in Contents :
          InsertDraft(d, workers[w].run, content)
    BY <1>4 DEF CreateDraft
  <2>2. workers[w].run \in Runs
    BY <1>4 DEF CreateDraft, WorkerAt, RowsInv
  <2>3. drafts' \in [Drafts -> DraftRow]
    BY <2>1, <2>2 DEF InsertDraft, DraftRow, DraftStates
  <2> QED
    BY <1>4, <2>3 DEF CreateDraft
<1>5. CASE Publish(w)
  BY <1>5 DEF Publish, RunStates
<1> QED
  BY <1>1, <1>2, <1>3, <1>4, <1>5 DEF WorkerStep

\* Clicks, deliveries, the network, the clock and the faults keep the types.
LEMMA TypeEnvironment ==
  ASSUME TypeOK, RowsInv, Environment
  PROVE  TypeOK'
<1> USE GotoType, DoneType, WorkerDoneType, SetRunStateType
    DEF TypeOK, StoreTypeOK, tables, zoho
<1>1. ASSUME NEW t \in Threads, NEW s \in Subjects, RequestCheck(t, s)
      PROVE  TypeOK'
  <2>1. [IdleThread EXCEPT !.pc = "create_run", !.subject = s] \in Thread
    BY DEF IdleThread, Thread, ThreadPCs
  <2> QED
    BY <1>1, <2>1 DEF RequestCheck
<1>2. ASSUME NEW t \in Threads, NEW s \in Subjects, NEW d \in Drafts,
             NEW v \in Verdicts, LoadForDecision(t, s, d, v)
      PROVE  TypeOK'
  <2> DEFINE Loaded(pc, state) == [IdleThread EXCEPT
               !.pc = pc, !.subject = s, !.draft = d, !.verdict = v, !.saw = state]
  <2>1. \A pc \in ThreadPCs, state \in DraftStates : Loaded(pc, state) \in Thread
    BY DEF IdleThread, Thread
  <2>2. drafts[d].state \in DraftStates
    BY DEF DraftRow
  <2>3. (IF drafts[d].payload = drafts[d].hash THEN "record" ELSE "mistrust")
          \in ThreadPCs
    BY DEF ThreadPCs
  <2>4. threads' = [threads EXCEPT ![t] = Loaded(
          IF drafts[d].payload = drafts[d].hash THEN "record" ELSE "mistrust",
          drafts[d].state)]
    BY <1>2 DEF LoadForDecision
  <2> HIDE DEF Loaded
  <2>5. threads' \in [Threads -> Thread]
    BY <2>1, <2>2, <2>3, <2>4
  <2> QED
    BY <1>2, <2>5 DEF LoadForDecision
<1>3. ASSUME NEW w \in Workers, NEW r \in Runs, Redeliver(w, r)
      PROVE  TypeOK'
  BY <1>3 DEF Redeliver, Worker, WorkerPCs
<1>4. ASSUME NEW q \in wire, CreateArrives(q) \/ CreateLost(q)
      PROVE  TypeOK'
  <2>1. [ref |-> q.ref, content |-> q.content, submitted |-> FALSE] \in Order
    BY DEF Request, Order
  <2>2. orders' \in Seq(Order)
    BY <1>4, <2>1 DEF CreateArrives, CreateLost
  <2>3. wire' \subseteq Request
    BY <1>4 DEF CreateArrives, CreateLost
  <2> QED
    BY <1>4, <2>2, <2>3 DEF CreateArrives, CreateLost
<1>5. CASE Tick
  BY <1>5, TimeAssumption DEF Tick, Clock
<1>6. CASE Crash
  <2>1. IdleThread \in Thread /\ IdleWorker \in Worker
    BY DEF IdleThread, Thread, ThreadPCs, IdleWorker, Worker, WorkerPCs
  <2> QED
    BY <1>6, <2>1 DEF Crash
<1>7. ASSUME NEW t \in Threads, ThreadStoreFault(t)
      PROVE  TypeOK'
  BY <1>7 DEF ThreadStoreFault, ThreadPCs
<1>8. ASSUME NEW w \in Workers, WorkerStoreFault(w)
      PROVE  TypeOK'
  BY <1>8 DEF WorkerStoreFault, RunStates
<1>9. ASSUME NEW d \in Drafts, EditPayload(d)
      PROVE  TypeOK'
  <2>1. PICK c \in Contents : drafts' = [drafts EXCEPT ![d].payload = c]
    BY <1>9 DEF EditPayload
  <2>2. [drafts[d] EXCEPT !.payload = c] \in DraftRow
    BY DEF DraftRow
  <2>3. drafts' \in [Drafts -> DraftRow]
    BY <2>1, <2>2
  <2> QED
    BY <1>9, <2>3 DEF EditPayload
<1> QED
  BY <1>1, <1>2, <1>3, <1>4, <1>5, <1>6, <1>7, <1>8, <1>9 DEF Environment

-----------------------------------------------------------------------------
(* What no step takes back. *)

RunsKept == \A r \in Runs :
  runs[r].state # "ABSENT" => /\ runs'[r].state # "ABSENT"
                              /\ runs'[r].subject = runs[r].subject

DraftsKept == \A d \in Drafts :
  Live(d) => /\ Live(d)'
             /\ drafts'[d].run = drafts[d].run
             /\ drafts'[d].hash = drafts[d].hash

\* set_run_state neither removes a run nor changes its subject.
LEMMA SetRunStateKeeps ==
  ASSUME runs \in [Runs -> RunRow], NEW r, NEW state, state # "ABSENT",
         SetRunState(r, state)
  PROVE  RunsKept
  BY DEF SetRunState, RunRow, RunsKept

\* transition_draft neither removes a draft nor changes its run or its hash.
LEMMA MoveDraftKeeps ==
  ASSUME drafts \in [Drafts -> DraftRow], NEW d, NEW state, state # "ABSENT",
         MoveDraft(d, state)
  PROVE  DraftsKept
  BY DEF MoveDraft, DraftRow, DraftsKept, Live

\* A run keeps its subject, a draft its run and its hash, and approvals are
\* never updated or deleted.
LEMMA RowsKept ==
  ASSUME TypeOK, Next
  PROVE  RunsKept /\ DraftsKept /\ approvals \subseteq approvals'
<1> USE SetRunStateKeeps, MoveDraftKeeps DEF TypeOK, StoreTypeOK, tables
<1>1. UNCHANGED runs => RunsKept
  BY DEF RunsKept
<1>2. UNCHANGED drafts => DraftsKept
  BY DEF DraftsKept, Live
<1>3. ASSUME NEW t \in Threads, ThreadStep(t)
      PROVE  RunsKept /\ DraftsKept /\ approvals \subseteq approvals'
  <2>1. CASE CheckUnavailable(t) \/ Dispatch(t) \/ LookupReference(t)
             \/ SendCreate(t) \/ CreateReturns(t) \/ SubmitOrder(t)
             \/ ClaimSubmission(t) \/ FinishSubmission(t) \/ Reconcile(t)
    BY <1>1, <1>2, <2>1 DEF CheckUnavailable, Dispatch, LookupReference,
       SendCreate, CreateReturns, SubmitOrder, ClaimSubmission,
       FinishSubmission, Reconcile
  <2>2. CASE CreateRun(t)
    BY <1>2, <2>2 DEF CreateRun, InsertRun, RunsKept
  <2>3. CASE FlagForReview(t) \/ Decide(t) \/ Recheck(t)
    BY <1>1, <1>2, <2>3 DEF FlagForReview, Decide, Recheck
  <2>4. CASE RecordApproval(t)
    BY <1>1, <1>2, <2>4 DEF RecordApproval, InsertApproval
  <2>5. CASE Place(t) \/ GiveUp(t)
    BY <1>1, <1>2, <2>5 DEF Place, GiveUp
  <2>6. CASE CloseRun(t)
    BY <1>1, <1>2, <2>6 DEF CloseRun
  <2> QED
    BY <1>3, <2>1, <2>2, <2>3, <2>4, <2>5, <2>6 DEF ThreadStep
<1>4. ASSUME NEW w \in Workers, WorkerStep(w)
      PROVE  RunsKept /\ DraftsKept /\ approvals \subseteq approvals'
  <2>1. CASE CreateDraft(w)
    BY <1>1, <2>1 DEF CreateDraft, InsertDraft, DraftsKept, Live
  <2>2. CASE ReadRun(w) \/ ReadStock(w) \/ CloseWithoutDraft(w) \/ Publish(w)
    BY <1>1, <1>2, <2>2 DEF ReadRun, ReadStock, CloseWithoutDraft, Publish
  <2> QED
    BY <1>4, <2>1, <2>2 DEF WorkerStep
<1>5. CASE Environment
  <2>1. ASSUME NEW d \in Drafts, EditPayload(d)
        PROVE  DraftsKept
    BY <2>1 DEF EditPayload, DraftRow, DraftsKept, Live
  <2>2. ASSUME NEW w \in Workers, WorkerStoreFault(w)
        PROVE  RunsKept
    BY <1>1, <2>2 DEF WorkerStoreFault
  <2> QED
    BY <1>1, <1>2, <1>5, <2>1, <2>2 DEF Environment, RequestCheck,
       LoadForDecision, Redeliver, CreateArrives, CreateLost, Tick, Crash,
       ThreadStoreFault, WorkerStoreFault, EditPayload
<1> QED
  BY <1>3, <1>4, <1>5 DEF Next

\* A draft appears with its run and its hash; a worker serves an existing run.
LEMMA RowsNext ==
  ASSUME TypeOK, RowsInv, ThreadsInv, Next
  PROVE  RowsInv'
<1> DEFINE DraftBorn(d) == /\ drafts'[d].run \in Runs
                           /\ drafts'[d].hash \in Contents
                           /\ runs[drafts'[d].run].state # "ABSENT"
           WorkerOK(w) == /\ workers'[w].run \in Runs
                          /\ runs[workers'[w].run].state # "ABSENT"
           WorkersOK == \A w \in Workers : workers'[w].pc # "idle" =>
             \/ workers[w].pc # "idle" /\ workers'[w].run = workers[w].run
             \/ WorkerOK(w)
<1>1. RunsKept /\ DraftsKept
  BY RowsKept
<1>2. \A d \in Drafts : Live(d)' => Live(d) \/ DraftBorn(d)
  <2>1. UNCHANGED drafts => \A d \in Drafts : Live(d)' => Live(d)
    BY DEF Live
  <2>2. ASSUME NEW e, NEW state, MoveDraft(e, state), Live(e)
        PROVE  \A d \in Drafts : Live(d)' => Live(d)
    BY <2>2 DEF MoveDraft, Live, TypeOK, StoreTypeOK
  <2>3. ASSUME NEW t \in Threads, ThreadStep(t)
        PROVE  \A d \in Drafts : Live(d)' => Live(d)
    <3>1. CASE UNCHANGED drafts
      BY <2>1, <3>1
    <3>2. CASE \E state : /\ MoveDraft(threads[t].draft, state)
                          /\ threads[t].pc \in Holding \cup {"mistrust"}
      BY <2>2, <3>2 DEF ThreadsInv, ThreadOK
    <3> QED
      BY <2>3, <3>1, <3>2 DEF ThreadStep, CheckUnavailable, CreateRun, Dispatch,
         FlagForReview, RecordApproval, Decide, Recheck, ClaimSubmission,
         LookupReference, SendCreate, CreateReturns, SubmitOrder,
         FinishSubmission, Reconcile, Place, GiveUp, CloseRun, tables, zoho,
         At, Holding, Submitting
  <2>4. ASSUME NEW w \in Workers, WorkerStep(w)
        PROVE  \A d \in Drafts : Live(d)' => Live(d) \/ DraftBorn(d)
    <3>1. CASE UNCHANGED drafts
      BY <2>1, <3>1
    <3>2. CASE CreateDraft(w)
      BY <3>2 DEF CreateDraft, InsertDraft, WorkerAt, RowsInv, Live, TypeOK,
         StoreTypeOK
    <3> QED
      BY <2>4, <3>1, <3>2 DEF WorkerStep, ReadRun, ReadStock,
         CloseWithoutDraft, Publish, tables
  <2>5. ASSUME NEW e \in Drafts, EditPayload(e)
        PROVE  \A d \in Drafts : Live(d)' => Live(d)
    BY <2>5 DEF EditPayload, Live, TypeOK, StoreTypeOK, DraftRow
  <2>6. CASE Environment
    BY <2>1, <2>5, <2>6 DEF Environment, RequestCheck, LoadForDecision,
       Redeliver, CreateArrives, CreateLost, Tick, Crash, ThreadStoreFault,
       WorkerStoreFault, tables
  <2> QED
    BY <2>3, <2>4, <2>6 DEF Next
<1>3. WorkersOK
  <2>1. UNCHANGED workers => WorkersOK
    OBVIOUS
  <2>2. ASSUME NEW w \in Workers,
               \/ WorkerDone(w)
               \/ workers[w].pc # "idle" /\ \E pc : WorkerGoto(w, pc)
        PROVE  WorkersOK
    BY <2>2 DEF WorkerDone, WorkerGoto, IdleWorker, TypeOK, Worker
  <2>3. ASSUME NEW t \in Threads, ThreadStep(t)
        PROVE  WorkersOK
    <3>1. CASE Dispatch(t)
      <4>1. /\ threads[t].run \in Runs
            /\ runs[threads[t].run].state # "ABSENT"
        BY <3>1 DEF Dispatch, At, ThreadsInv, ThreadOK
      <4>2. \A w \in Workers :
              workers'[w] = workers[w] \/ workers'[w].run = threads[t].run
        BY <3>1 DEF Dispatch, TypeOK
      <4> QED
        BY <4>1, <4>2
    <3>2. CASE UNCHANGED workers
      BY <2>1, <3>2
    <3> QED
      BY <2>3, <3>1, <3>2 DEF ThreadStep, CheckUnavailable, CreateRun,
         FlagForReview, RecordApproval, Decide, Recheck, ClaimSubmission,
         LookupReference, SendCreate, CreateReturns, SubmitOrder,
         FinishSubmission, Reconcile, Place, GiveUp, CloseRun
  <2>4. ASSUME NEW w \in Workers, WorkerStep(w)
        PROVE  WorkersOK
    BY <2>2, <2>4 DEF WorkerStep, ReadRun, ReadStock, CloseWithoutDraft,
       CreateDraft, Publish, WorkerAt
  <2>5. ASSUME NEW w \in Workers, NEW r \in Runs, Redeliver(w, r)
        PROVE  WorkersOK
    BY <2>5 DEF Redeliver, TypeOK
  <2>6. CASE Crash
    BY <2>6 DEF Crash, IdleWorker
  <2>7. CASE Environment
    BY <2>1, <2>2, <2>5, <2>6, <2>7 DEF Environment, RequestCheck,
       LoadForDecision, CreateArrives, CreateLost, Tick, ThreadStoreFault,
       WorkerStoreFault, EditPayload
  <2> QED
    BY <2>3, <2>4, <2>7 DEF Next
<1> QED
  BY <1>1, <1>2, <1>3 DEF RowsInv, RunsKept, DraftsKept

\* The owner of a draft is settled when the draft is created.
LEMMA OwnerKept ==
  ASSUME RowsInv, RunsKept, DraftsKept, NEW d \in Drafts, Live(d)
  PROVE  Live(d)' /\ Owner(d)' = Owner(d)
  BY DEF RowsInv, RunsKept, DraftsKept, Owner

\* A thread that does not move keeps what it has established.
LEMMA ThreadStays ==
  ASSUME RowsInv, RunsKept, DraftsKept, NEW t \in Threads, ThreadOK(t),
         threads'[t] = threads[t]
  PROVE  ThreadOK(t)'
<1>1. threads[t].run \in Runs /\ runs[threads[t].run].state # "ABSENT" =>
        runs'[threads[t].run].state # "ABSENT"
  BY DEF RunsKept
<1> QED
  BY <1>1, OwnerKept DEF ThreadOK

\* Between two statements of approve or reject a thread keeps its draft.
LEMMA ThreadMoves ==
  ASSUME TypeOK, RowsInv, RunsKept, DraftsKept, NEW t \in Threads, ThreadOK(t),
         NEW pc \in Holding, Goto(t, pc),
         threads[t].pc \in Holding \cup {"record"},
         pc \in Submitting => threads[t].verdict = "approved"
  PROVE  ThreadOK(t)'
<1>1. /\ threads'[t].pc = pc
      /\ threads'[t].draft = threads[t].draft
      /\ threads'[t].verdict = threads[t].verdict
  BY DEF Goto, TypeOK, Thread
<1> QED
  BY <1>1, OwnerKept DEF ThreadOK, Holding, Submitting

\* Only the stepping thread changes.
LEMMA OthersStay ==
  ASSUME TypeOK, NEW t \in Threads, ThreadStep(t), NEW u \in Threads, u # t
  PROVE  threads'[u] = threads[u]
<1>1. (\E pc : Goto(t, pc)) \/ Done(t) => threads'[u] = threads[u]
  BY DEF Goto, Done, TypeOK
<1>2. CreateRun(t) \/ Recheck(t) => threads'[u] = threads[u]
  BY <1>1 DEF CreateRun, Recheck, TypeOK
<1> QED
  BY <1>1, <1>2 DEF ThreadStep, CheckUnavailable, Dispatch, FlagForReview,
     RecordApproval, Decide, ClaimSubmission, LookupReference, SendCreate,
     CreateReturns, SubmitOrder, FinishSubmission, Reconcile, Place, GiveUp,
     CloseRun

\* A thread that holds a draft may decide on it, and submits only an approval.
LEMMA ThreadsNext ==
  ASSUME TypeOK, RowsInv, ThreadsInv, Next
  PROVE  ThreadsInv'
<1>1. RunsKept /\ DraftsKept
  BY RowsKept
<1>2. \A t \in Threads : threads'[t] = threads[t] => ThreadOK(t)'
  BY <1>1, ThreadStays DEF ThreadsInv
<1>3. \A t \in Threads : threads'[t] = IdleThread => ThreadOK(t)'
  BY DEF ThreadOK, IdleThread, Holding, Submitting
<1>4. ASSUME NEW t \in Threads, ThreadStep(t)
      PROVE  ThreadsInv'
  <2>1. CASE Done(t)
    <3>1. threads'[t] = IdleThread
      BY <2>1 DEF Done, TypeOK
    <3> QED
      BY <1>2, <1>3, <1>4, <3>1, OthersStay DEF ThreadsInv
  <2>2. ASSUME NEW pc \in Holding, Goto(t, pc),
               threads[t].pc \in Holding \cup {"record"},
               pc \in Submitting => \/ threads[t].pc \in Submitting
                                    \/ threads[t].verdict = "approved"
        PROVE  ThreadsInv'
    <3>1. ThreadOK(t)'
      BY <1>1, <2>2, ThreadMoves DEF ThreadsInv, ThreadOK
    <3> QED
      BY <1>2, <1>4, <3>1, OthersStay DEF ThreadsInv
  <2>3. CASE CreateRun(t)
    <3>1. PICK r \in Runs :
            /\ InsertRun(r, threads[t].subject)
            /\ threads' = [threads EXCEPT ![t] =
                             [@ EXCEPT !.pc = "dispatch", !.run = r]]
      BY <2>3 DEF CreateRun
    <3>2. /\ threads'[t].pc = "dispatch" /\ threads'[t].run = r
          /\ threads'[t].subject = threads[t].subject
          /\ runs'[r].state # "ABSENT"
      BY <3>1 DEF InsertRun, TypeOK, StoreTypeOK, Thread
    <3>3. threads[t].subject \in Subjects
      BY <2>3 DEF CreateRun, At, ThreadsInv, ThreadOK
    <3>4. ThreadOK(t)'
      BY <3>2, <3>3 DEF ThreadOK, Holding, Submitting
    <3> QED
      BY <1>2, <1>4, <3>4, OthersStay DEF ThreadsInv
  <2>4. CASE Recheck(t) /\ ~ Done(t)
    <3> DEFINE d == threads[t].draft
    <3>0. /\ threads[t].pc = "recheck"
          /\ threads' = [threads EXCEPT ![t] =
               [@ EXCEPT !.pc = "claim", !.content = drafts[d].payload]]
      BY <2>4 DEF Recheck, At
    <3>1. /\ threads'[t].pc = "claim"
          /\ threads'[t].draft = threads[t].draft
          /\ threads'[t].verdict = threads[t].verdict
          /\ threads[t].pc = "recheck"
      BY <3>0 DEF TypeOK, Thread
    <3>2. ThreadOK(t)'
      BY <1>1, <3>1, OwnerKept DEF ThreadsInv, ThreadOK, Holding, Submitting
    <3> QED
      BY <1>2, <1>4, <3>2, OthersStay DEF ThreadsInv
  <2>5. CASE RecordApproval(t) \/ Decide(t)
    BY <2>1, <2>2, <2>5 DEF RecordApproval, Decide, At, Holding, Submitting
  <2>6. CASE \/ ClaimSubmission(t) \/ LookupReference(t) \/ SendCreate(t)
             \/ CreateReturns(t) \/ SubmitOrder(t) \/ FinishSubmission(t)
             \/ Reconcile(t) \/ Place(t)
    BY <2>1, <2>2, <2>6 DEF ClaimSubmission, LookupReference, SendCreate,
       CreateReturns, SubmitOrder, FinishSubmission, Reconcile, Place, At,
       Holding, Submitting
  <2>7. CASE \/ CheckUnavailable(t) \/ Dispatch(t) \/ FlagForReview(t)
             \/ GiveUp(t) \/ CloseRun(t)
    BY <2>1, <2>7 DEF CheckUnavailable, Dispatch, FlagForReview, GiveUp, CloseRun
  <2> QED
    BY <1>4, <2>1, <2>3, <2>4, <2>5, <2>6, <2>7 DEF ThreadStep
<1>5. CASE UNCHANGED threads
  BY <1>2, <1>5 DEF ThreadsInv
<1>6. CASE Environment
  <2>1. ASSUME NEW t \in Threads, NEW s \in Subjects, RequestCheck(t, s)
        PROVE  ThreadsInv'
    <3>1. CASE ActiveRuns(s) # {}
      BY <1>5, <2>1, <3>1 DEF RequestCheck
    <3>2. CASE ActiveRuns(s) = {}
      <4>1. threads'[t].pc = "create_run" /\ threads'[t].subject = s
        BY <2>1, <3>2 DEF RequestCheck, TypeOK, IdleThread
      <4>2. ThreadOK(t)'
        BY <4>1 DEF ThreadOK, Holding, Submitting
      <4>3. \A u \in Threads : u # t => threads'[u] = threads[u]
        BY <2>1, <3>2 DEF RequestCheck, TypeOK
      <4> QED
        BY <1>2, <4>2, <4>3 DEF ThreadsInv
    <3> QED
      BY <3>1, <3>2
  <2>2. ASSUME NEW t \in Threads, NEW s \in Subjects, NEW d \in Drafts,
               NEW v \in Verdicts, LoadForDecision(t, s, d, v)
        PROVE  ThreadsInv'
    <3>1. /\ threads'[t].pc \in {"record", "mistrust"}
          /\ threads'[t].subject = s
          /\ threads'[t].draft = d
          /\ threads'[t].verdict = v
      BY <2>2 DEF LoadForDecision, TypeOK, IdleThread
    <3>2. s \in Approvers /\ Live(d) /\ s = Owner(d)
      BY <2>2 DEF LoadForDecision, MayDecide, Live, Owner
    <3>3. ThreadOK(t)'
      BY <1>1, <3>1, <3>2, OwnerKept DEF ThreadOK, Holding, Submitting
    <3>4. \A u \in Threads : u # t => threads'[u] = threads[u]
      BY <2>2 DEF LoadForDecision, TypeOK
    <3> QED
      BY <1>2, <3>3, <3>4 DEF ThreadsInv
  <2>3. CASE Crash
    BY <1>3, <2>3 DEF Crash, ThreadsInv
  <2>4. ASSUME NEW t \in Threads, ThreadStoreFault(t)
        PROVE  ThreadsInv'
    <3>1. \A u \in Threads : u # t => threads'[u] = threads[u]
      BY <2>4 DEF ThreadStoreFault, Goto, Done, TypeOK
    <3>2. CASE Done(t)
      <4>1. threads'[t] = IdleThread
        BY <3>2 DEF Done, TypeOK
      <4> QED
        BY <1>2, <1>3, <3>1, <4>1 DEF ThreadsInv
    <3>3. CASE /\ threads[t].pc \in {"claim", "finish", "reconcile"}
               /\ Goto(t, "give_up")
      <4>1. ThreadOK(t)'
        BY <1>1, <3>3, ThreadMoves DEF ThreadsInv, ThreadOK, Holding, Submitting
      <4> QED
        BY <1>2, <3>1, <4>1 DEF ThreadsInv
    <3> QED
      BY <2>4, <3>2, <3>3 DEF ThreadStoreFault
  <2> QED
    BY <1>5, <1>6, <2>1, <2>2, <2>3, <2>4 DEF Environment, Redeliver,
       CreateArrives, CreateLost, Tick, WorkerStoreFault, EditPayload
<1>7. ASSUME NEW w \in Workers, WorkerStep(w)
      PROVE  UNCHANGED threads
  BY <1>7 DEF WorkerStep, ReadRun, ReadStock, CloseWithoutDraft, CreateDraft,
     Publish
<1> QED
  BY <1>4, <1>5, <1>6, <1>7 DEF Next

-----------------------------------------------------------------------------
(* Who holds a draft. *)

HoldersKept ==
  \A t \in Threads :
    threads'[t].pc \in Holding => /\ threads[t].pc \in Holding
                                  /\ threads'[t].draft = threads[t].draft
                                  /\ threads'[t].verdict = threads[t].verdict

\* A draft is taken hold of by the insert of its approval and by nothing else.
LEMMA HoldByApproval ==
  ASSUME TypeOK, Next
  PROVE  \/ \E t \in Threads : RecordApproval(t) /\ ~ Decided(threads[t].draft)
         \/ HoldersKept /\ UNCHANGED approvals
<1> DEFINE Kept(t) ==
      threads'[t].pc \in Holding => /\ threads[t].pc \in Holding
                                    /\ threads'[t].draft = threads[t].draft
                                    /\ threads'[t].verdict = threads[t].verdict
<1>1. \A t \in Threads : threads'[t] = threads[t] => Kept(t)
  OBVIOUS
<1>2. \A t \in Threads : threads'[t] = IdleThread => Kept(t)
  BY DEF IdleThread, Holding, Submitting
<1>3. ASSUME NEW t \in Threads, ThreadStep(t), ~ (RecordApproval(t) /\ ~ Decided(threads[t].draft))
      PROVE  HoldersKept /\ UNCHANGED approvals
  <2>1. UNCHANGED approvals
    BY <1>3 DEF ThreadStep, CheckUnavailable, CreateRun, Dispatch,
       FlagForReview, RecordApproval, Decide, Recheck, ClaimSubmission,
       LookupReference, SendCreate, CreateReturns, SubmitOrder,
       FinishSubmission, Reconcile, Place, GiveUp, CloseRun, tables
  <2>2. Done(t) => Kept(t)
    BY <1>2 DEF Done, TypeOK
  <2>3. threads[t].pc \in Holding /\ (\E pc : Goto(t, pc)) => Kept(t)
    BY DEF Goto, TypeOK, Thread
  <2>4. CreateRun(t) => Kept(t)
    <3>1. ASSUME NEW r, threads' = [threads EXCEPT ![t] =
                          [@ EXCEPT !.pc = "dispatch", !.run = r]]
          PROVE  Kept(t)
      BY <3>1 DEF TypeOK, Thread, Holding, Submitting
    <3> QED
      BY <3>1 DEF CreateRun
  <2>5. Recheck(t) => Kept(t)
    <3>1. ASSUME NEW c, threads' = [threads EXCEPT ![t] =
                          [@ EXCEPT !.pc = "claim", !.content = c]],
                 threads[t].pc = "recheck"
          PROVE  Kept(t)
      BY <3>1 DEF TypeOK, Thread, Holding, Submitting
    <3> QED
      BY <2>2, <3>1 DEF Recheck, At
  <2>6. Kept(t)
    BY <1>3, <2>2, <2>3, <2>4, <2>5 DEF ThreadStep, CheckUnavailable, Dispatch,
       FlagForReview, RecordApproval, Decide, ClaimSubmission,
       LookupReference, SendCreate, CreateReturns, SubmitOrder,
       FinishSubmission, Reconcile, Place, GiveUp, CloseRun, At, Holding,
       Submitting
  <2> QED
    BY <1>1, <1>3, <2>1, <2>6, OthersStay DEF HoldersKept
<1>4. ASSUME NEW w \in Workers, WorkerStep(w)
      PROVE  HoldersKept /\ UNCHANGED approvals
  BY <1>4 DEF WorkerStep, ReadRun, ReadStock, CloseWithoutDraft, CreateDraft,
     Publish, tables, HoldersKept
<1>5. CASE Environment
  <2>1. UNCHANGED approvals
    BY <1>5 DEF Environment, RequestCheck, LoadForDecision, Redeliver,
       CreateArrives, CreateLost, Tick, Crash, ThreadStoreFault,
       WorkerStoreFault, EditPayload, tables
  <2>2. ASSUME NEW t \in Threads, NEW s \in Subjects, RequestCheck(t, s)
        PROVE  HoldersKept
    BY <2>2 DEF RequestCheck, TypeOK, IdleThread, HoldersKept, Holding, Submitting
  <2>3. ASSUME NEW t \in Threads, NEW s \in Subjects, NEW d \in Drafts,
               NEW v \in Verdicts, LoadForDecision(t, s, d, v)
        PROVE  HoldersKept
    <3>1. threads'[t].pc \notin Holding
      BY <2>3 DEF LoadForDecision, TypeOK, IdleThread, Holding, Submitting
    <3>2. \A u \in Threads : u # t => threads'[u] = threads[u]
      BY <2>3 DEF LoadForDecision, TypeOK
    <3> QED
      BY <3>1, <3>2 DEF HoldersKept
  <2>4. CASE Crash
    <3>1. \A t \in Threads : threads'[t].pc = "idle"
      BY <2>4 DEF Crash, IdleThread
    <3>2. "idle" \notin Holding
      BY DEF Holding, Submitting
    <3> QED
      BY <2>1, <3>1, <3>2 DEF HoldersKept
  <2>5. ASSUME NEW t \in Threads, ThreadStoreFault(t)
        PROVE  HoldersKept
    BY <2>5 DEF ThreadStoreFault, Goto, Done, IdleThread, TypeOK, Thread,
       HoldersKept, Holding, Submitting
  <2> QED
    BY <1>5, <2>1, <2>2, <2>3, <2>4, <2>5 DEF Environment, Redeliver,
       CreateArrives, CreateLost, Tick, WorkerStoreFault, EditPayload, HoldersKept
<1> QED
  BY <1>3, <1>4, <1>5 DEF Next

\* What RecordApproval does when it wins.
LEMMA ApprovalInserted ==
  ASSUME TypeOK, RowsInv, ThreadsInv, NEW t \in Threads,
         RecordApproval(t), ~ Decided(threads[t].draft)
  PROVE  \E a : /\ approvals' = approvals \cup {a}
                /\ ApprovalsFor(threads[t].draft) = {}
                /\ a.draft = threads[t].draft
                /\ a.verdict = threads[t].verdict
                /\ a.subject = threads[t].subject
                /\ a.subject \in Approvers
                /\ a.subject = Owner(a.draft)
                /\ a.draft \in Drafts /\ Live(a.draft)
                /\ threads'[t].pc = "decide"
                /\ threads'[t].draft = threads[t].draft
                /\ threads'[t].verdict = threads[t].verdict
                /\ \A u \in Threads : u # t => threads'[u] = threads[u]
                /\ UNCHANGED <<runs, drafts, submissions, wire, orders>>
<1> DEFINE a == [draft |-> threads[t].draft, verdict |-> threads[t].verdict,
                 subject |-> threads[t].subject,
                 hash |-> drafts[threads[t].draft].hash, expires |-> now + TTL]
<1>1. /\ approvals' = approvals \cup {a}
      /\ ApprovalsFor(threads[t].draft) = {}
      /\ Goto(t, "decide")
      /\ threads[t].pc = "record"
      /\ UNCHANGED <<runs, drafts, submissions, wire, orders>>
  BY DEF RecordApproval, InsertApproval, Decided, At, zoho
<1>2. /\ threads[t].draft \in Drafts /\ Live(threads[t].draft)
      /\ threads[t].subject \in Approvers
      /\ threads[t].subject = Owner(threads[t].draft)
  BY <1>1 DEF ThreadsInv, ThreadOK
<1>3. /\ threads'[t].pc = "decide"
      /\ threads'[t].draft = threads[t].draft
      /\ threads'[t].verdict = threads[t].verdict
      /\ \A u \in Threads : u # t => threads'[u] = threads[u]
  BY <1>1 DEF Goto, TypeOK, Thread
<1>4. /\ a.draft = threads[t].draft /\ a.verdict = threads[t].verdict
      /\ a.subject = threads[t].subject
  OBVIOUS
<1> HIDE DEF a
<1> QED
  BY <1>1, <1>2, <1>3, <1>4

\* One decision per draft, and one thread to carry it out.
LEMMA DecisionsNext ==
  ASSUME TypeOK, RowsInv, ThreadsInv, DecisionsInv, Next
  PROVE  DecisionsInv'
<1>1. RunsKept /\ DraftsKept
  BY RowsKept
<1>2. \A a \in approvals : Live(a.draft)' /\ Owner(a.draft)' = Owner(a.draft)
  BY <1>1, OwnerKept DEF DecisionsInv, TypeOK, StoreTypeOK, ApprovalRow
<1>3. CASE HoldersKept /\ UNCHANGED approvals
  <2>1. OneDecision'
    BY <1>3 DEF DecisionsInv, OneDecision
  <2>2. \A a \in approvals' : /\ Live(a.draft)'
                              /\ a.subject \in Approvers
                              /\ a.subject = Owner(a.draft)'
    BY <1>2, <1>3 DEF DecisionsInv
  <2>3. \A t \in Threads : threads'[t].pc \in Holding =>
          \E a \in approvals' : a.draft = threads'[t].draft
                                /\ a.verdict = threads'[t].verdict
    BY <1>3 DEF DecisionsInv, HoldersKept, ApprovalsFor
  <2>4. \A t, u \in Threads :
          /\ threads'[t].pc \in Holding
          /\ threads'[u].pc \in Holding
          /\ threads'[t].draft = threads'[u].draft
          => t = u
    BY <1>3 DEF DecisionsInv, HoldersKept
  <2> QED
    BY <2>1, <2>2, <2>3, <2>4 DEF DecisionsInv, ApprovalsFor
<1>4. ASSUME NEW t \in Threads, RecordApproval(t), ~ Decided(threads[t].draft)
      PROVE  DecisionsInv'
  <2>1. PICK a : /\ approvals' = approvals \cup {a}
                 /\ ApprovalsFor(threads[t].draft) = {}
                 /\ a.draft = threads[t].draft
                 /\ a.verdict = threads[t].verdict
                 /\ a.subject \in Approvers
                 /\ a.subject = Owner(a.draft)
                 /\ a.draft \in Drafts /\ Live(a.draft)
                 /\ threads'[t].pc = "decide"
                 /\ threads'[t].draft = threads[t].draft
                 /\ threads'[t].verdict = threads[t].verdict
                 /\ \A u \in Threads : u # t => threads'[u] = threads[u]
    BY <1>4, ApprovalInserted
  <2>2. \A b \in approvals : b.draft # a.draft
    BY <2>1 DEF ApprovalsFor
  <2>3. OneDecision'
    BY <2>1, <2>2 DEF DecisionsInv, OneDecision
  <2>4. Live(a.draft)' /\ Owner(a.draft)' = Owner(a.draft)
    BY <1>1, <2>1, OwnerKept
  <2>5. \A b \in approvals' : /\ Live(b.draft)'
                              /\ b.subject \in Approvers
                              /\ b.subject = Owner(b.draft)'
    BY <1>2, <2>1, <2>4 DEF DecisionsInv
  <2>6. \A u \in Threads : u # t /\ threads'[u].pc \in Holding =>
          threads'[u].draft # a.draft
    BY <2>1 DEF DecisionsInv
  <2>7. \A u \in Threads : threads'[u].pc \in Holding =>
          \E b \in approvals' : b.draft = threads'[u].draft
                                /\ b.verdict = threads'[u].verdict
    BY <2>1 DEF DecisionsInv, ApprovalsFor
  <2>8. \A u, v \in Threads :
          /\ threads'[u].pc \in Holding
          /\ threads'[v].pc \in Holding
          /\ threads'[u].draft = threads'[v].draft
          => u = v
    BY <2>1, <2>6 DEF DecisionsInv
  <2> QED
    BY <2>3, <2>5, <2>7, <2>8 DEF DecisionsInv, ApprovalsFor
<1> QED
  BY <1>3, <1>4, HoldByApproval

-----------------------------------------------------------------------------
(* What can have reached Zoho. *)

\* A thread that has sent its create request never gets back to sending it.
LEMMA NeverBack ==
  ASSUME TypeOK, Next, NEW t \in Threads, threads[t].pc \in Holding \ BeforeSend
  PROVE  threads'[t].pc \notin BeforeSend
<1>1. threads'[t] = threads[t] => threads'[t].pc \notin BeforeSend
  OBVIOUS
<1>2. ASSUME NEW pc, Goto(t, pc)
      PROVE  threads'[t].pc = pc
  BY <1>2 DEF Goto, TypeOK, Thread
<1>3. Done(t) => threads'[t].pc = "idle"
  BY DEF Done, TypeOK, IdleThread
<1>4. "idle" \notin BeforeSend
  BY DEF BeforeSend
<1>5. ASSUME NEW u \in Threads, ThreadStep(u)
      PROVE  threads'[t].pc \notin BeforeSend
  <2>1. CASE u # t
    BY <1>1, <1>5, <2>1, OthersStay
  <2>2. CASE u = t
    BY <1>2, <1>3, <1>4, <1>5, <2>2 DEF ThreadStep, CheckUnavailable, CreateRun,
       Dispatch, FlagForReview, RecordApproval, Decide, Recheck,
       ClaimSubmission, LookupReference, SendCreate, CreateReturns,
       SubmitOrder, FinishSubmission, Reconcile, Place, GiveUp, CloseRun, At,
       Holding, Submitting, BeforeSend
  <2> QED
    BY <2>1, <2>2
<1>6. ASSUME NEW w \in Workers, WorkerStep(w)
      PROVE  UNCHANGED threads
  BY <1>6 DEF WorkerStep, ReadRun, ReadStock, CloseWithoutDraft, CreateDraft,
     Publish
<1>7. CASE Environment
  <2>1. ASSUME NEW u \in Threads, NEW s \in Subjects,
               \/ RequestCheck(u, s)
               \/ \E d \in Drafts, v \in Verdicts : LoadForDecision(u, s, d, v)
        PROVE  threads'[t] = threads[t]
    BY <2>1 DEF RequestCheck, LoadForDecision, At, Holding, Submitting,
       BeforeSend, TypeOK
  <2>2. CASE Crash
    <3>1. threads'[t].pc = "idle"
      BY <2>2 DEF Crash, IdleThread
    <3> QED
      BY <1>4, <3>1
  <2>3. ASSUME NEW u \in Threads, ThreadStoreFault(u)
        PROVE  threads'[t].pc \notin BeforeSend
    BY <1>1, <1>2, <1>3, <1>4, <2>3 DEF ThreadStoreFault, Goto, Done, TypeOK,
       BeforeSend
  <2> QED
    BY <1>1, <1>7, <2>1, <2>2, <2>3 DEF Environment, Redeliver, CreateArrives,
       CreateLost, Tick, WorkerStoreFault, EditPayload
<1> QED
  BY <1>1, <1>5, <1>6, <1>7 DEF Next

\* Every order refers to a draft.
LEMMA OrderRefs ==
  ASSUME TypeOK, NEW i \in DOMAIN orders
  PROVE  orders[i].ref \in Drafts
<1>1. orders \in Seq(Order)
  BY DEF TypeOK
<1>2. orders[i] \in Order
  BY <1>1
<1> QED
  BY <1>2 DEF Order

SameOrders ==
  /\ DOMAIN orders' = DOMAIN orders
  /\ \A i \in DOMAIN orders : orders'[i].ref = orders[i].ref

\* A step that sends nothing, delivers nothing and gives nobody a draft.
LEMMA OrdersFrame ==
  ASSUME TypeOK, OrdersInv, Next, HoldersKept, approvals \subseteq approvals',
         UNCHANGED wire, SameOrders
  PROVE  OrdersInv'
<1>1. \A d \in Drafts : Ordered(d)' <=> Ordered(d)
  BY DEF SameOrders, Ordered, OrdersFor
<1>2. \A d \in Drafts : Approved(d) =>
        \E a \in approvals' : a.draft = d /\ a.verdict = "approved"
  BY DEF Approved, ApprovalsFor
<1>3. \A t \in Threads : threads'[t].pc \in BeforeSend =>
        threads[t].pc \in BeforeSend /\ threads'[t].draft = threads[t].draft
  BY NeverBack DEF HoldersKept, Holding, Submitting, BeforeSend
<1>4. OneOrderPerDraft'
  BY DEF OrdersInv, OneOrderPerDraft, SameOrders
<1>5. \A i \in DOMAIN orders' : orders[i].ref \in Drafts
  BY OrderRefs DEF SameOrders
<1>6. \A i \in DOMAIN orders' :
        \E a \in approvals' : a.draft = orders'[i].ref /\ a.verdict = "approved"
  BY <1>2, <1>5 DEF OrdersInv, SameOrders
<1>7. \A q \in wire' :
        \E a \in approvals' : a.draft = q.ref /\ a.verdict = "approved"
  BY <1>2 DEF OrdersInv, TypeOK, Request
<1>8. \A q \in wire' : ~ Ordered(q.ref)'
  BY <1>1 DEF OrdersInv, TypeOK, Request
<1>9. \A t \in Threads : threads'[t].pc \in BeforeSend =>
        /\ \A q \in wire' : q.ref # threads'[t].draft
        /\ \A i \in DOMAIN orders' : orders'[i].ref # threads'[t].draft
  BY <1>3 DEF OrdersInv, OnWire, Ordered, OrdersFor, SameOrders
<1> QED
  BY <1>4, <1>6, <1>7, <1>8, <1>9 DEF OrdersInv, OnWire, Approved,
     ApprovalsFor, Ordered, OrdersFor

\* The steps that reach for Zoho, and all the others.
LEMMA WhoTouchesZoho ==
  ASSUME TypeOK, Next
  PROVE  \/ \E t \in Threads : SendCreate(t)
         \/ \E q \in wire : CreateArrives(q) \/ CreateLost(q)
         \/ UNCHANGED wire /\ SameOrders
<1>1. UNCHANGED orders => SameOrders
  BY DEF SameOrders
<1>2. ASSUME NEW t \in Threads, SubmitOrder(t)
      PROVE  UNCHANGED wire /\ SameOrders
  <2>1. PICK effect \in BOOLEAN :
          orders' = [i \in DOMAIN orders |->
            IF orders[i].ref = threads[t].draft
              THEN [orders[i] EXCEPT !.submitted = @ \/ effect]
              ELSE orders[i]]
    BY <1>2 DEF SubmitOrder
  <2>2. SameOrders
    BY <2>1, SubmitKeepsOrders DEF TypeOK, SameOrders
  <2> QED
    BY <1>2, <2>2 DEF SubmitOrder
<1>3. ASSUME NEW t \in Threads, ThreadStep(t), ~ SendCreate(t)
      PROVE  UNCHANGED wire /\ SameOrders
  BY <1>1, <1>2, <1>3 DEF ThreadStep, CheckUnavailable, CreateRun, Dispatch,
     FlagForReview, RecordApproval, Decide, Recheck, ClaimSubmission,
     LookupReference, CreateReturns, FinishSubmission, Reconcile, Place,
     GiveUp, CloseRun, zoho
<1>4. ASSUME NEW w \in Workers, WorkerStep(w)
      PROVE  UNCHANGED wire /\ SameOrders
  BY <1>1, <1>4 DEF WorkerStep, ReadRun, ReadStock, CloseWithoutDraft,
     CreateDraft, Publish, zoho
<1>5. CASE Environment
  BY <1>1, <1>5 DEF Environment, RequestCheck, LoadForDecision, Redeliver,
     Tick, Crash, ThreadStoreFault, WorkerStoreFault, EditPayload, zoho
<1> QED
  BY <1>3, <1>4, <1>5 DEF Next

\* One create request at most leaves for a draft, and one order comes of it.
LEMMA OrdersNext ==
  ASSUME TypeOK, RowsInv, ThreadsInv, DecisionsInv, OrdersInv, Next
  PROVE  OrdersInv'
<1>1. approvals \subseteq approvals'
  BY RowsKept
<1>2. \A d \in Drafts : Approved(d) =>
        \E a \in approvals' : a.draft = d /\ a.verdict = "approved"
  BY <1>1 DEF Approved, ApprovalsFor
<1>3. ASSUME NEW t \in Threads, RecordApproval(t), ~ Decided(threads[t].draft)
      PROVE  OrdersInv'
  <2> DEFINE d == threads[t].draft
  <2>1. /\ ApprovalsFor(d) = {}
        /\ threads'[t].pc = "decide" /\ threads'[t].draft = d
        /\ \A u \in Threads : u # t => threads'[u] = threads[u]
        /\ UNCHANGED <<wire, orders>>
    BY <1>3, ApprovalInserted
  <2>2. ~ Approved(d)
    BY <2>1 DEF Approved
  <2>3. /\ \A q \in wire : q.ref # d
        /\ \A i \in DOMAIN orders : orders[i].ref # d
    BY <2>2 DEF OrdersInv
  <2>4. \A u \in Threads : threads'[u].pc \in BeforeSend =>
          /\ \A q \in wire' : q.ref # threads'[u].draft
          /\ \A i \in DOMAIN orders' : orders'[i].ref # threads'[u].draft
    BY <2>1, <2>3 DEF OrdersInv, OnWire, Ordered, OrdersFor
  <2>5. \A q \in wire :
          \E a \in approvals' : a.draft = q.ref /\ a.verdict = "approved"
    BY <1>2 DEF OrdersInv, TypeOK, Request
  <2>6. \A i \in DOMAIN orders :
          \E a \in approvals' : a.draft = orders[i].ref /\ a.verdict = "approved"
    BY <1>2, OrderRefs DEF OrdersInv
  <2> QED
    BY <2>1, <2>4, <2>5, <2>6 DEF OrdersInv, OneOrderPerDraft, OnWire, Approved,
       ApprovalsFor, Ordered, OrdersFor
<1>4. ASSUME NEW t \in Threads, SendCreate(t)
      PROVE  OrdersInv'
  <2> DEFINE d == threads[t].draft
             q0 == [by |-> t, ref |-> d, content |-> threads[t].content]
  <2>1. /\ threads[t].pc = "create"
        /\ wire' = wire \cup {q0} /\ q0.ref = d
        /\ UNCHANGED <<orders, approvals>>
        /\ Goto(t, "await_create")
    BY <1>4 DEF SendCreate, At, tables
  <2>2. /\ threads'[t].pc = "await_create"
        /\ \A u \in Threads : u # t => threads'[u] = threads[u]
    BY <2>1 DEF Goto, TypeOK, Thread
  <2>3. d \in Drafts
    BY <2>1 DEF ThreadsInv, ThreadOK, Holding, Submitting
  <2>4. \E a \in approvals : a.draft = d /\ a.verdict = "approved"
    BY <2>1 DEF DecisionsInv, ThreadsInv, ThreadOK, Holding, Submitting, ApprovalsFor
  <2>5. ~ OnWire(d) /\ ~ Ordered(d)
    BY <2>1 DEF OrdersInv, BeforeSend
  <2>6. \A u \in Threads : threads'[u].pc \in BeforeSend =>
          u # t /\ threads[u].pc \in BeforeSend /\ threads'[u] = threads[u]
    BY <2>2 DEF BeforeSend
  <2>7. \A u \in Threads : threads'[u].pc \in BeforeSend => threads[u].draft # d
    BY <2>1, <2>6 DEF DecisionsInv, Holding, Submitting, BeforeSend
  <2> HIDE DEF q0
  <2>8. \A u \in Threads : threads'[u].pc \in BeforeSend =>
          /\ \A q \in wire' : q.ref # threads'[u].draft
          /\ \A i \in DOMAIN orders' : orders'[i].ref # threads'[u].draft
    BY <2>1, <2>6, <2>7 DEF OrdersInv, OnWire, Ordered, OrdersFor
  <2>9. \A p, q \in wire' : p.ref = q.ref => p = q
    BY <2>1, <2>5 DEF OrdersInv, OnWire
  <2>10. \A q \in wire', i \in DOMAIN orders' : orders'[i].ref # q.ref
    BY <2>1, <2>5 DEF OrdersInv, Ordered, OrdersFor
  <2>11. \A q \in wire' :
           \E a \in approvals' : a.draft = q.ref /\ a.verdict = "approved"
    BY <2>1, <2>4 DEF OrdersInv, Approved, ApprovalsFor
  <2> QED
    BY <2>1, <2>8, <2>9, <2>10, <2>11 DEF OrdersInv, OneOrderPerDraft, OnWire,
       Approved, ApprovalsFor, Ordered, OrdersFor
<1>5. ASSUME NEW q \in wire, CreateArrives(q) \/ CreateLost(q)
      PROVE  OrdersInv'
  <2>1. wire' = wire \ {q} /\ UNCHANGED <<threads, approvals>>
    BY <1>5 DEF CreateArrives, CreateLost, tables
  <2>2. \A i \in DOMAIN orders' :
          \/ i \in DOMAIN orders /\ orders'[i].ref = orders[i].ref
          \/ i \notin DOMAIN orders /\ orders'[i].ref = q.ref
    BY <1>5 DEF CreateArrives, CreateLost, TypeOK
  <2>3. \A i, j \in DOMAIN orders' :
          i \notin DOMAIN orders /\ j \notin DOMAIN orders => i = j
    BY <1>5 DEF CreateArrives, CreateLost, TypeOK
  <2>4. \A i \in DOMAIN orders : orders[i].ref # q.ref
    BY DEF OrdersInv, Ordered, OrdersFor
  <2>5. OneOrderPerDraft'
    BY <2>2, <2>3, <2>4 DEF OrdersInv, OneOrderPerDraft
  <2>6. \A p \in wire', i \in DOMAIN orders' : orders'[i].ref # p.ref
    BY <2>1, <2>2 DEF OrdersInv, Ordered, OrdersFor
  <2>7. \A i \in DOMAIN orders' :
          \E a \in approvals' : a.draft = orders'[i].ref /\ a.verdict = "approved"
    BY <2>1, <2>2 DEF OrdersInv, Approved, ApprovalsFor
  <2>8. \A u \in Threads : threads'[u].pc \in BeforeSend =>
          /\ \A p \in wire' : p.ref # threads'[u].draft
          /\ \A i \in DOMAIN orders' : orders'[i].ref # threads'[u].draft
    BY <2>1, <2>2 DEF OrdersInv, OnWire, Ordered, OrdersFor
  <2> QED
    BY <2>1, <2>5, <2>6, <2>7, <2>8 DEF OrdersInv, OnWire, Approved,
       ApprovalsFor, Ordered, OrdersFor
<1>6. CASE HoldersKept /\ UNCHANGED wire /\ SameOrders
  BY <1>1, <1>6, OrdersFrame
<1> QED
  BY <1>3, <1>4, <1>5, <1>6, HoldByApproval, WhoTouchesZoho

\* A thread about to look up or create owns a submission that is still CLAIMED.
LEMMA ClaimsNext ==
  ASSUME TypeOK, ThreadsInv, DecisionsInv, ClaimsInv, Next
  PROVE  ClaimsInv'
<1> DEFINE Claiming == {"lookup", "create"}
           Kept(u) == threads'[u].pc \in Claiming =>
                        /\ threads[u].pc \in Claiming
                        /\ threads'[u].draft = threads[u].draft
<1>1. ASSUME UNCHANGED submissions, \A u \in Threads : Kept(u)
      PROVE  ClaimsInv'
  BY <1>1 DEF ClaimsInv
<1>2. \A u \in Threads : threads'[u] = threads[u] \/ threads'[u].pc \notin Claiming
        => Kept(u)
  OBVIOUS
<1>3. ASSUME NEW t \in Threads, ThreadStep(t)
      PROVE  ClaimsInv'
  <2>1. \A u \in Threads : u # t => threads'[u] = threads[u]
    BY <1>3, OthersStay
  <2>2. CASE ClaimSubmission(t)
    <3> DEFINE d == threads[t].draft
    <3>1. d \in Drafts
      BY <2>2 DEF ClaimSubmission, At, ThreadsInv, ThreadOK, Holding, Submitting
    <3>2. CASE Claimed(d)
      <4>1. threads'[t].pc = "idle" /\ UNCHANGED submissions
        BY <2>2, <3>2 DEF ClaimSubmission, Done, IdleThread, TypeOK
      <4> QED
        BY <1>1, <2>1, <4>1
    <3>3. CASE ~ Claimed(d)
      <4>1. /\ submissions' = [submissions EXCEPT ![d] = "CLAIMED"]
            /\ threads'[t].draft = d
        BY <2>2, <3>3 DEF ClaimSubmission, SetSubmission, Goto, TypeOK, Thread
      <4>2. /\ submissions'[d] = "CLAIMED"
            /\ \A e \in Drafts : submissions[e] = "CLAIMED" => submissions'[e] = "CLAIMED"
        BY <3>1, <4>1 DEF TypeOK, StoreTypeOK
      <4>3. \A u \in Threads : threads[u].pc \in Claiming => threads[u].draft \in Drafts
        BY DEF ThreadsInv, ThreadOK, Holding, Submitting
      <4> QED
        BY <2>1, <4>1, <4>2, <4>3 DEF ClaimsInv
    <3> QED
      BY <3>2, <3>3
  <2>3. CASE FinishSubmission(t) \/ Reconcile(t)
    <3> DEFINE d == threads[t].draft
    <3>1. /\ threads[t].pc \in {"finish", "reconcile"}
          /\ \E state : submissions' = [submissions EXCEPT ![d] = state]
          /\ threads'[t].pc \in {"place", "give_up"}
      <4>1. Goto(t, "place") \/ Goto(t, "give_up")
        BY <2>3 DEF FinishSubmission, Reconcile
      <4>2. threads'[t].pc \in {"place", "give_up"}
        BY <4>1, GotoFields
      <4> QED
        BY <2>3, <4>2 DEF FinishSubmission, Reconcile, SetSubmission, At
    <3>2. \A u \in Threads : u # t /\ threads[u].pc \in Claiming => threads[u].draft # d
      BY <3>1 DEF DecisionsInv, Holding, Submitting
    <3>3. \A u \in Threads : threads[u].pc \in Claiming => threads[u].draft \in Drafts
      BY DEF ThreadsInv, ThreadOK, Holding, Submitting
    <3>4. \A e \in Drafts : e # d => submissions'[e] = submissions[e]
      BY <3>1 DEF TypeOK, StoreTypeOK
    <3> QED
      BY <2>1, <3>1, <3>2, <3>3, <3>4 DEF ClaimsInv
  <2>4. CASE UNCHANGED submissions /\ ~ ClaimSubmission(t)
    <3>1. Done(t) => threads'[t].pc = "idle"
      BY DEF Done, TypeOK, IdleThread
    <3>2. ASSUME NEW pc, Goto(t, pc)
          PROVE  threads'[t].pc = pc /\ threads'[t].draft = threads[t].draft
      BY <3>2 DEF Goto, TypeOK, Thread
    <3>3. CreateRun(t) => threads'[t].pc = "dispatch"
      <4>1. ASSUME NEW r, threads' = [threads EXCEPT ![t] =
                            [@ EXCEPT !.pc = "dispatch", !.run = r]]
            PROVE  threads'[t].pc = "dispatch"
        BY <4>1 DEF TypeOK, Thread
      <4> QED
        BY <4>1 DEF CreateRun
    <3>4. Recheck(t) => Done(t) \/ threads'[t].pc = "claim"
      <4>1. ASSUME NEW c, threads' = [threads EXCEPT ![t] =
                            [@ EXCEPT !.pc = "claim", !.content = c]]
            PROVE  threads'[t].pc = "claim"
        BY <4>1 DEF TypeOK, Thread
      <4> QED
        BY <4>1 DEF Recheck
    <3>5. Kept(t)
      BY <1>3, <2>4, <3>1, <3>2, <3>3, <3>4 DEF ThreadStep, CheckUnavailable,
         Dispatch, FlagForReview, RecordApproval, Decide, LookupReference,
         SendCreate, CreateReturns, SubmitOrder, FinishSubmission, Reconcile,
         Place, GiveUp, CloseRun, At
    <3> QED
      BY <1>1, <1>2, <2>1, <2>4, <3>5
  <2> QED
    BY <1>3, <2>2, <2>3, <2>4 DEF ThreadStep, CheckUnavailable, CreateRun,
       Dispatch, FlagForReview, RecordApproval, Decide, Recheck,
       LookupReference, SendCreate, CreateReturns, SubmitOrder, Place, GiveUp,
       CloseRun, tables
<1>4. ASSUME NEW w \in Workers, WorkerStep(w)
      PROVE  ClaimsInv'
  BY <1>1, <1>4 DEF WorkerStep, ReadRun, ReadStock, CloseWithoutDraft,
     CreateDraft, Publish, tables
<1>5. CASE Environment
  <2>1. ASSUME NEW t \in Threads, NEW s \in Subjects,
               \/ RequestCheck(t, s)
               \/ \E d \in Drafts, v \in Verdicts : LoadForDecision(t, s, d, v)
        PROVE  \A u \in Threads : Kept(u)
    <3>1. \A u \in Threads : u # t => threads'[u] = threads[u]
      BY <2>1 DEF RequestCheck, LoadForDecision, TypeOK
    <3>2. threads'[t] = threads[t] \/ threads'[t].pc \in {"create_run", "record", "mistrust"}
      BY <2>1 DEF RequestCheck, LoadForDecision, TypeOK, IdleThread
    <3> QED
      BY <1>2, <3>1, <3>2
  <2>2. CASE Crash
    <3>1. \A u \in Threads : threads'[u].pc = "idle"
      BY <2>2 DEF Crash, IdleThread
    <3> QED
      BY <1>1, <2>2, <3>1 DEF Crash, tables
  <2>3. ASSUME NEW t \in Threads, ThreadStoreFault(t)
        PROVE  \A u \in Threads : Kept(u)
    BY <2>3 DEF ThreadStoreFault, Goto, Done, IdleThread, TypeOK, Thread
  <2> QED
    BY <1>1, <1>5, <2>1, <2>2, <2>3 DEF Environment, RequestCheck,
       LoadForDecision, Redeliver, CreateArrives, CreateLost, Tick,
       ThreadStoreFault, WorkerStoreFault, EditPayload, tables
<1> QED
  BY <1>3, <1>4, <1>5 DEF Next

\* Zoho's orders stay.
LEMMA OrderedKept ==
  ASSUME TypeOK, Next, NEW d \in Drafts, Ordered(d)
  PROVE  Ordered(d)'
<1>1. SameOrders => Ordered(d)'
  BY DEF SameOrders, Ordered, OrdersFor
<1>2. ASSUME NEW q \in wire, CreateArrives(q) \/ CreateLost(q)
      PROVE  Ordered(d)'
  BY <1>2 DEF CreateArrives, CreateLost, Ordered, OrdersFor, TypeOK
<1>3. ASSUME NEW t \in Threads, SendCreate(t)
      PROVE  Ordered(d)'
  BY <1>3 DEF SendCreate, Ordered, OrdersFor
<1> QED
  BY <1>1, <1>2, <1>3, WhoTouchesZoho

\* Where a draft's state comes from.
LEMMA WhoReports ==
  ASSUME TypeOK, ThreadsInv, Next, NEW d \in Drafts
  PROVE  /\ drafts'[d].state = "PLACED" =>
              \/ drafts[d].state = "PLACED"
              \/ \E t \in Threads : At(t, "place") /\ threads[t].draft = d
         /\ drafts'[d].state = "REJECTED" =>
              \/ drafts[d].state = "REJECTED"
              \/ \E t \in Threads : /\ At(t, "decide") /\ threads[t].draft = d
                                    /\ threads[t].verdict = "rejected"
<1> DEFINE Good ==
      /\ drafts'[d].state = "PLACED" =>
           \/ drafts[d].state = "PLACED"
           \/ \E t \in Threads : At(t, "place") /\ threads[t].draft = d
      /\ drafts'[d].state = "REJECTED" =>
           \/ drafts[d].state = "REJECTED"
           \/ \E t \in Threads : /\ At(t, "decide") /\ threads[t].draft = d
                                 /\ threads[t].verdict = "rejected"
<1>1. UNCHANGED drafts => Good
  OBVIOUS
<1>2. ASSUME NEW e, NEW state, MoveDraft(e, state)
      PROVE  /\ e # d => drafts'[d] = drafts[d]
             /\ e = d => drafts'[d].state = state
  BY <1>2 DEF MoveDraft, TypeOK, StoreTypeOK, DraftRow
<1>3. ASSUME NEW e, NEW state, MoveDraft(e, state), state \notin {"PLACED", "REJECTED"}
      PROVE  Good
  BY <1>2, <1>3
<1>4. ASSUME NEW t \in Threads, ThreadStep(t)
      PROVE  Good
  <2>1. CASE FlagForReview(t) \/ Recheck(t) \/ GiveUp(t)
    BY <1>1, <1>3, <2>1 DEF FlagForReview, Recheck, GiveUp
  <2>2. CASE Decide(t)
    <3>1. threads[t].verdict \in Verdicts
      BY <2>2 DEF Decide, At, ThreadsInv, ThreadOK, Holding
    <3> QED
      BY <1>1, <1>2, <1>3, <2>2, <3>1 DEF Decide, Verdicts
  <2>3. CASE Place(t)
    BY <1>1, <1>2, <2>3 DEF Place
  <2> QED
    BY <1>1, <1>4, <2>1, <2>2, <2>3 DEF ThreadStep, CheckUnavailable, CreateRun,
       Dispatch, RecordApproval, ClaimSubmission, LookupReference, SendCreate,
       CreateReturns, SubmitOrder, FinishSubmission, Reconcile, CloseRun, tables
<1>5. ASSUME NEW w \in Workers, WorkerStep(w)
      PROVE  Good
  <2>1. CASE CreateDraft(w)
    BY <2>1 DEF CreateDraft, InsertDraft, TypeOK, StoreTypeOK
  <2> QED
    BY <1>1, <1>5, <2>1 DEF WorkerStep, ReadRun, ReadStock, CloseWithoutDraft,
       Publish, tables
<1>6. ASSUME NEW e \in Drafts, EditPayload(e)
      PROVE  Good
  BY <1>6 DEF EditPayload, TypeOK, StoreTypeOK, DraftRow
<1>7. CASE Environment
  BY <1>1, <1>6, <1>7 DEF Environment, RequestCheck, LoadForDecision, Redeliver,
     CreateArrives, CreateLost, Tick, Crash, ThreadStoreFault,
     WorkerStoreFault, tables
<1> QED
  BY <1>4, <1>5, <1>7 DEF Next

\* A thread that reports success has seen the order.
LEMMA SeenOrders ==
  ASSUME TypeOK, Next, NEW t \in Threads,
         threads'[t].pc \in {"submit", "finish", "place"}
  PROVE  /\ threads'[t].draft = threads[t].draft
         /\ \/ threads[t].pc \in {"submit", "finish", "place"}
            \/ Ordered(threads[t].draft)
<1> DEFINE Seen == /\ threads'[t].draft = threads[t].draft
                   /\ \/ threads[t].pc \in {"submit", "finish", "place"}
                      \/ Ordered(threads[t].draft)
<1>1. threads'[t] = threads[t] => Seen
  OBVIOUS
<1>2. threads'[t] # IdleThread
  BY DEF IdleThread
<1>3. ~ Done(t)
  BY <1>2 DEF Done, TypeOK
<1>4. \A pc : Goto(t, pc) => /\ pc \in {"submit", "finish", "place"}
                             /\ threads'[t].draft = threads[t].draft
  BY GotoFields
<1>5. ASSUME NEW u \in Threads, ThreadStep(u)
      PROVE  Seen
  <2>1. CASE u # t
    BY <1>1, <1>5, <2>1, OthersStay
  <2>2. CASE u = t
    <3>1. ~ CreateRun(t)
      <4>1. ASSUME NEW r, threads' = [threads EXCEPT ![t] =
                            [@ EXCEPT !.pc = "dispatch", !.run = r]]
            PROVE  FALSE
        BY <4>1 DEF TypeOK, Thread
      <4> QED
        BY <4>1 DEF CreateRun
    <3>2. ~ Recheck(t)
      <4>1. ASSUME NEW c, threads' = [threads EXCEPT ![t] =
                            [@ EXCEPT !.pc = "claim", !.content = c]]
            PROVE  FALSE
        BY <4>1 DEF TypeOK, Thread
      <4> QED
        BY <1>3, <4>1 DEF Recheck
    <3> QED
      BY <1>3, <1>4, <1>5, <2>2, <3>1, <3>2 DEF ThreadStep, CheckUnavailable,
         Dispatch, FlagForReview, RecordApproval, Decide, ClaimSubmission,
         LookupReference, SendCreate, CreateReturns, SubmitOrder,
         FinishSubmission, Reconcile, Place, GiveUp, CloseRun, At
  <2> QED
    BY <2>1, <2>2
<1>6. CASE UNCHANGED threads
  BY <1>1, <1>6
<1>7. ASSUME NEW w \in Workers, WorkerStep(w)
      PROVE  UNCHANGED threads
  BY <1>7 DEF WorkerStep, ReadRun, ReadStock, CloseWithoutDraft, CreateDraft,
     Publish
<1>8. CASE Environment
  <2>1. ASSUME NEW u \in Threads, NEW s \in Subjects,
               \/ RequestCheck(u, s)
               \/ \E d \in Drafts, v \in Verdicts : LoadForDecision(u, s, d, v)
        PROVE  threads'[t] = threads[t]
    <3>1. CASE u = t
      <4>1. CASE RequestCheck(u, s)
        <5>1. threads'[u].pc = "create_run" \/ threads' = threads
          BY <4>1 DEF RequestCheck, TypeOK, IdleThread
        <5> QED
          BY <3>1, <5>1
      <4>2. ASSUME NEW d \in Drafts, NEW v \in Verdicts,
                   LoadForDecision(u, s, d, v)
            PROVE  threads'[u].pc \in {"record", "mistrust"}
        BY <4>2 DEF LoadForDecision, TypeOK, IdleThread
      <4>3. ~ \E d \in Drafts, v \in Verdicts : LoadForDecision(u, s, d, v)
        BY <3>1, <4>2
      <4> QED
        BY <2>1, <4>1, <4>3
    <3>2. CASE u # t
      <4>1. CASE RequestCheck(u, s)
        BY <3>2, <4>1 DEF RequestCheck, TypeOK
      <4>2. ASSUME NEW d \in Drafts, NEW v \in Verdicts,
                   LoadForDecision(u, s, d, v)
            PROVE  threads'[t] = threads[t]
        BY <3>2, <4>2 DEF LoadForDecision, TypeOK
      <4> QED
        BY <2>1, <4>1, <4>2
    <3> QED
      BY <3>1, <3>2
  <2>2. ASSUME NEW u \in Threads, ThreadStoreFault(u)
        PROVE  Seen
    <3>1. CASE u = t
      BY <1>3, <1>4, <2>2, <3>1 DEF ThreadStoreFault
    <3>2. CASE u # t
      BY <1>1, <2>2, <3>2 DEF ThreadStoreFault, Goto, Done, TypeOK
    <3> QED
      BY <3>1, <3>2
  <2> QED
    BY <1>1, <1>2, <1>6, <1>8, <2>1, <2>2 DEF Environment, Redeliver,
       CreateArrives, CreateLost, Tick, Crash, WorkerStoreFault, EditPayload
<1> QED
  BY <1>5, <1>6, <1>7, <1>8 DEF Next

\* What the tables say of a draft stays true.
LEMMA ReportNext ==
  ASSUME TypeOK, ThreadsInv, DecisionsInv, ReportInv, Next
  PROVE  ReportInv'
<1>1. ASSUME NEW d \in Drafts, Ordered(d)
      PROVE  \E i \in DOMAIN orders' : orders'[i].ref = d
  BY <1>1, OrderedKept DEF Ordered, OrdersFor
<1>2. \A t \in Threads : threads'[t].pc \in {"submit", "finish", "place"} =>
        \E i \in DOMAIN orders' : orders'[i].ref = threads'[t].draft
  <2> SUFFICES ASSUME NEW t \in Threads,
                      threads'[t].pc \in {"submit", "finish", "place"}
               PROVE  \E i \in DOMAIN orders' : orders'[i].ref = threads'[t].draft
    OBVIOUS
  <2>1. Ordered(threads[t].draft)
    BY SeenOrders DEF ReportInv
  <2>2. threads[t].draft \in Drafts
    BY <2>1, OrderRefs DEF Ordered, OrdersFor
  <2> QED
    BY <1>1, <2>1, <2>2, SeenOrders
<1>3. \A d \in Drafts : drafts'[d].state = "PLACED" =>
        \E i \in DOMAIN orders' : orders'[i].ref = d
  BY <1>1, WhoReports DEF ReportInv, At
<1>4. \A d \in Drafts : drafts'[d].state = "REJECTED" =>
        \E a \in approvals' : a.draft = d /\ a.verdict = "rejected"
  BY WhoReports, RowsKept DEF ReportInv, DecisionsInv, At, Holding, ApprovalsFor
<1> QED
  BY <1>2, <1>3, <1>4 DEF ReportInv, Ordered, OrdersFor, ApprovalsFor

-----------------------------------------------------------------------------
(* The invariant, and what follows from it. *)

\* Before the first click nobody holds anything and Zoho knows of nothing.
LEMMA InvInit == Init => IInv
<1> SUFFICES ASSUME Init PROVE IInv
  OBVIOUS
<1>1. /\ \A t \in Threads : threads[t] = IdleThread
      /\ \A w \in Workers : workers[w].pc = "idle"
      /\ \A d \in Drafts : drafts[d].state = "ABSENT"
      /\ approvals = {} /\ wire = {} /\ orders = <<>>
  BY DEF Init, StoreInit, IdleWorker
<1>2. RowsInv
  BY <1>1 DEF RowsInv, Live
<1>3. \A t \in Threads : threads[t].pc = "idle"
  BY <1>1 DEF IdleThread
<1>4. ThreadsInv
  BY <1>3 DEF ThreadsInv, ThreadOK, Holding, Submitting
<1>5. DecisionsInv
  BY <1>1, <1>3 DEF DecisionsInv, OneDecision, Holding, Submitting
<1>6. OrdersInv
  BY <1>1, <1>3 DEF OrdersInv, OneOrderPerDraft, BeforeSend
<1>7. ClaimsInv /\ ReportInv
  BY <1>1, <1>3 DEF ClaimsInv, ReportInv
<1> QED
  BY <1>2, <1>4, <1>5, <1>6, <1>7 DEF IInv

\* Every step, and every stutter, keeps the types and the invariant.
LEMMA InvNext == TypeOK /\ IInv /\ [Next]_vars => (TypeOK /\ IInv)'
<1> SUFFICES ASSUME TypeOK, IInv, [Next]_vars
             PROVE  (TypeOK /\ IInv)'
  OBVIOUS
<1> USE DEF IInv
<1>1. CASE Next
  <2>1. TypeOK'
    BY <1>1, TypeThread, TypeWorker, TypeEnvironment DEF Next
  <2> QED
    BY <1>1, <2>1, RowsNext, ThreadsNext, DecisionsNext, OrdersNext, ClaimsNext,
       ReportNext
<1>2. CASE UNCHANGED vars
  <2>1. UNCHANGED <<runs, drafts, approvals, submissions, now, threads, workers,
                    wire, orders>>
    BY <1>2 DEF vars, tables, zoho
  <2>2. TypeOK'
    BY <2>1 DEF TypeOK, StoreTypeOK
  <2>3. RowsInv' /\ ThreadsInv'
    BY <2>1 DEF RowsInv, ThreadsInv, ThreadOK, Live, Owner
  <2>4. DecisionsInv' /\ ClaimsInv'
    BY <2>1 DEF DecisionsInv, ClaimsInv, OneDecision, Live, Owner, ApprovalsFor
  <2>5. OrdersInv' /\ ReportInv'
    BY <2>1 DEF OrdersInv, ReportInv, OneOrderPerDraft, Approved, ApprovalsFor,
       OnWire, Ordered, OrdersFor
  <2> QED
    BY <2>2, <2>3, <2>4, <2>5
<1> QED
  BY <1>1, <1>2

\* The strengthening that carries everything below.
THEOREM Inductive == Spec => [](TypeOK /\ IInv)
  BY TypeInit, InvInit, InvNext, PTL DEF Spec

\* Every variable of the model keeps its type (the rows of store.py's tables,
\* what a request thread remembers, what Zoho holds).
THEOREM TypeCorrect == Spec => []TypeOK
  BY Inductive, PTL

\* No draft is ever ordered twice, however creates time out, arrive late or are
\* looked up again (submit_approved_draft, governance.create_draft).
THEOREM NoDoubleOrder == Spec => []OneOrderPerDraft
<1>1. IInv => OneOrderPerDraft
  BY DEF IInv, OrdersInv
<1> QED
  BY <1>1, Inductive, PTL

\* Concurrent decisions on a draft leave one on record (record_approval).
THEOREM OneWinner == Spec => []OneDecision
<1>1. IInv => OneDecision
  BY DEF IInv, DecisionsInv
<1> QED
  BY <1>1, Inductive, PTL

\* Whatever Zoho holds was approved by the owner of the stock check, who may
\* approve (approve, _load_for_decision).
THEOREM NothingUnapproved == Spec => []OrderIsApproved
<1>1. TypeOK /\ IInv => OrderIsApproved
  <2> SUFFICES ASSUME TypeOK, IInv, NEW i \in DOMAIN orders
               PROVE  LET d == orders[i].ref
                      IN /\ ApprovalsFor(d) # {}
                         /\ \A a \in ApprovalsFor(d) :
                              /\ a.verdict = "approved"
                              /\ a.subject = Owner(d)
                              /\ a.subject \in Approvers
    BY DEF OrderIsApproved
  <2> DEFINE d == orders[i].ref
  <2>1. PICK b \in approvals : b.draft = d /\ b.verdict = "approved"
    BY DEF IInv, OrdersInv, Approved, ApprovalsFor
  <2>2. \A a \in ApprovalsFor(d) : a = b /\ a \in approvals /\ a.draft = d
    BY <2>1 DEF IInv, DecisionsInv, OneDecision, ApprovalsFor
  <2> QED
    BY <2>1, <2>2 DEF IInv, DecisionsInv, ApprovalsFor
<1> QED
  BY <1>1, Inductive, PTL

\* PLACED and REJECTED tell the truth about Zoho (approve, reject).
THEOREM TruthfulReport == Spec => []ReportIsTrue
<1>1. TypeOK /\ IInv => ReportIsTrue
  <2> SUFFICES ASSUME TypeOK, IInv, NEW d \in Drafts
               PROVE  /\ drafts[d].state = "PLACED" => Ordered(d)
                      /\ drafts[d].state = "REJECTED" =>
                           ~ Ordered(d) /\ \A q \in wire : q.ref # d
    BY DEF ReportIsTrue
  <2>1. drafts[d].state = "REJECTED" => ~ Approved(d)
    BY DEF IInv, ReportInv, DecisionsInv, OneDecision, Approved, ApprovalsFor
  <2>2. Ordered(d) => Approved(d)
    BY DEF IInv, OrdersInv, Ordered, OrdersFor
  <2>3. \A q \in wire : q.ref = d => Approved(d)
    BY DEF IInv, OrdersInv
  <2> QED
    BY <2>1, <2>2, <2>3 DEF IInv, ReportInv
<1> QED
  BY <1>1, Inductive, PTL

\* A create request leaves only for a claimed draft of which Zoho and the
\* network know nothing (claim_submission, submit_approved_draft).
THEOREM CreatesOnce == Spec => NoBlindRetry
<1> DEFINE Unknown(q) == /\ submissions[q.ref] = "CLAIMED"
                         /\ ~ Ordered(q.ref)
                         /\ \A p \in wire : p.ref # q.ref
           Step == \A q \in wire' \ wire : Unknown(q)
<1>1. TypeOK /\ IInv /\ [Next]_vars => Step
  <2> SUFFICES ASSUME TypeOK, IInv, [Next]_vars
               PROVE  Step
    OBVIOUS
  <2>1. CASE wire' \subseteq wire
    BY <2>1
  <2>2. ASSUME NEW t \in Threads, SendCreate(t)
        PROVE  Step
    <3>1. /\ threads[t].pc = "create"
          /\ \A q \in wire' \ wire : q.ref = threads[t].draft
      BY <2>2 DEF SendCreate, At
    <3>2. submissions[threads[t].draft] = "CLAIMED"
      BY <3>1 DEF IInv, ClaimsInv
    <3>3. ~ OnWire(threads[t].draft) /\ ~ Ordered(threads[t].draft)
      BY <3>1 DEF IInv, OrdersInv, BeforeSend
    <3> QED
      BY <3>1, <3>2, <3>3 DEF OnWire
  <2>3. ASSUME NEW q \in wire, CreateArrives(q) \/ CreateLost(q)
        PROVE  wire' \subseteq wire
    BY <2>3 DEF CreateArrives, CreateLost
  <2>4. CASE UNCHANGED vars
    BY <2>1, <2>4 DEF vars, zoho
  <2> QED
    BY <2>1, <2>2, <2>3, <2>4, WhoTouchesZoho
<1> QED
  BY <1>1, Inductive, PTL DEF Spec, NoBlindRetry

-----------------------------------------------------------------------------
(* The UI implements ApprovedPurchase. *)

\* The abstract state read off the tables: the verdict of the one decision on a
\* draft, and its one order.
MappingInv ==
  /\ \A d \in Drafts : ApprovalsFor(d) = {} => DecisionOn(d) = "none"
  /\ \A a \in approvals : DecisionOn(a.draft) = a.verdict
  /\ \A d \in Drafts : OrdersHeld(d) = IF Ordered(d) THEN 1 ELSE 0

\* The abstract state is determined by what is on record.
LEMMA Mapping == TypeOK /\ IInv => MappingInv
<1> SUFFICES ASSUME TypeOK, IInv PROVE MappingInv
  OBVIOUS
<1>1. \A d \in Drafts : ApprovalsFor(d) = {} => DecisionOn(d) = "none"
  BY DEF DecisionOn, Decided
<1>2. ASSUME NEW a \in approvals
      PROVE  DecisionOn(a.draft) = a.verdict
  <2>1. ApprovalsFor(a.draft) = {a}
    BY DEF IInv, DecisionsInv, OneDecision, ApprovalsFor
  <2>2. (CHOOSE b \in {a} : TRUE) = a
    OBVIOUS
  <2> QED
    BY <2>1, <2>2 DEF DecisionOn, Decided
<1>3. ASSUME NEW d \in Drafts
      PROVE  OrdersHeld(d) = IF Ordered(d) THEN 1 ELSE 0
  <2>1. CASE Ordered(d)
    <3>1. PICK i : OrdersFor(d) = {i}
      BY <2>1 DEF IInv, OrdersInv, OneOrderPerDraft, Ordered, OrdersFor
    <3>2. Cardinality({i}) = 1
      BY FS_Singleton
    <3> QED
      BY <2>1, <3>1, <3>2 DEF OrdersHeld
  <2>2. CASE ~ Ordered(d)
    BY <2>2, FS_EmptySet DEF OrdersHeld, Ordered
  <2> QED
    BY <2>1, <2>2
<1> QED
  BY <1>1, <1>2, <1>3 DEF MappingInv

\* The state of every draft but d stays.
OnlyDraft(d) == \A e \in Drafts : e # d => drafts'[e].state = drafts[e].state
SameStates == \A d \in Drafts : drafts'[d].state = drafts[d].state

\* How the state of a draft moves: into PLACED and REJECTED from an open state,
\* by the thread that carries out the decision, and anywhere else at will.
MovesTo(d) ==
  \/ drafts'[d].state \notin {"PLACED", "REJECTED"}
  \/ /\ drafts'[d].state = "PLACED"
     /\ drafts[d].state = "SUBMITTING"
     /\ \E t \in Threads : At(t, "place") /\ threads[t].draft = d
  \/ /\ drafts'[d].state = "REJECTED"
     /\ drafts[d].state = "AWAITING_APPROVAL"
     /\ \E t \in Threads : /\ At(t, "decide") /\ threads[t].draft = d
                           /\ threads[t].verdict = "rejected"

\* An update of a draft's state leaves the other drafts alone.
LEMMA MoveDraftMoves ==
  ASSUME TypeOK, NEW d \in Drafts, NEW state, MoveDraft(d, state)
  PROVE  OnlyDraft(d) /\ drafts'[d].state = state
  BY DEF MoveDraft, OnlyDraft, TypeOK, StoreTypeOK, DraftRow

\* A step of the system moves at most one draft.
LEMMA StatesNext ==
  ASSUME TypeOK, ThreadsInv, Next
  PROVE  SameStates \/ \E d \in Drafts : OnlyDraft(d) /\ MovesTo(d)
<1> DEFINE Goal == SameStates \/ \E d \in Drafts : OnlyDraft(d) /\ MovesTo(d)
<1>1. UNCHANGED drafts => Goal
  BY DEF SameStates
<1>2. ASSUME NEW d \in Drafts, NEW state, MoveDraft(d, state),
             state \notin {"PLACED", "REJECTED"}
      PROVE  Goal
  BY <1>2, MoveDraftMoves DEF MovesTo
<1>3. ASSUME NEW t \in Threads, ThreadStep(t)
      PROVE  Goal
  <2> DEFINE d == threads[t].draft
  <2>1. threads[t].pc \in Holding \cup {"mistrust"} => d \in Drafts
    BY DEF ThreadsInv, ThreadOK
  <2>2. CASE FlagForReview(t) \/ Recheck(t) \/ GiveUp(t)
    BY <1>1, <1>2, <2>1, <2>2 DEF FlagForReview, Recheck, GiveUp, At, Holding,
       Submitting
  <2>3. CASE Decide(t)
    <3>1. d \in Drafts /\ threads[t].verdict \in Verdicts
      BY <2>3 DEF Decide, At, ThreadsInv, ThreadOK, Holding
    <3>2. CASE MoveDraft(d, "REJECTED") /\ threads[t].verdict # "approved"
               /\ InState(d, "AWAITING_APPROVAL")
      BY <2>3, <3>1, <3>2, MoveDraftMoves DEF Decide, MovesTo, InState, Verdicts
    <3> QED
      BY <1>1, <1>2, <2>3, <3>1, <3>2 DEF Decide
  <2>4. CASE Place(t)
    <3>1. d \in Drafts
      BY <2>1, <2>4 DEF Place, At, Holding, Submitting
    <3>2. CASE MoveDraft(d, "PLACED") /\ InState(d, "SUBMITTING")
      BY <2>4, <3>1, <3>2, MoveDraftMoves DEF Place, MovesTo, InState
    <3> QED
      BY <1>1, <2>4, <3>2 DEF Place
  <2> QED
    BY <1>1, <1>3, <2>2, <2>3, <2>4 DEF ThreadStep, CheckUnavailable, CreateRun,
       Dispatch, RecordApproval, ClaimSubmission, LookupReference, SendCreate,
       CreateReturns, SubmitOrder, FinishSubmission, Reconcile, CloseRun, tables
<1>4. ASSUME NEW w \in Workers, WorkerStep(w)
      PROVE  Goal
  <2>1. CASE CreateDraft(w)
    <3>1. PICK d \in Drafts, content \in Contents :
            InsertDraft(d, workers[w].run, content)
      BY <2>1 DEF CreateDraft
    <3>2. OnlyDraft(d) /\ drafts'[d].state = "AWAITING_APPROVAL"
      BY <3>1 DEF InsertDraft, OnlyDraft, TypeOK, StoreTypeOK
    <3> QED
      BY <3>2 DEF MovesTo
  <2> QED
    BY <1>1, <1>4, <2>1 DEF WorkerStep, ReadRun, ReadStock, CloseWithoutDraft,
       Publish, tables
<1>5. ASSUME NEW d \in Drafts, EditPayload(d)
      PROVE  Goal
  BY <1>5 DEF EditPayload, SameStates, TypeOK, StoreTypeOK, DraftRow
<1>6. CASE Environment
  BY <1>1, <1>5, <1>6 DEF Environment, RequestCheck, LoadForDecision, Redeliver,
     CreateArrives, CreateLost, Tick, Crash, ThreadStoreFault,
     WorkerStoreFault, tables
<1> QED
  BY <1>3, <1>4, <1>6 DEF Next

\* What is on record of a draft, one abstract variable at a time.
LEMMA SameDecisions ==
  ASSUME UNCHANGED approvals
  PROVE  [d \in Drafts |-> DecisionOn(d)]' = [d \in Drafts |-> DecisionOn(d)]
  BY DEF DecisionOn, Decided, ApprovalsFor

LEMMA SameOrdered ==
  ASSUME MappingInv, MappingInv', SameOrders
  PROVE  [d \in Drafts |-> OrdersHeld(d)]' = [d \in Drafts |-> OrdersHeld(d)]
<1>1. \A d \in Drafts : Ordered(d)' <=> Ordered(d)
  BY DEF SameOrders, Ordered, OrdersFor
<1>2. \A d \in Drafts : OrdersHeld(d)' = OrdersHeld(d)
  BY <1>1 DEF MappingInv
<1> QED
  BY <1>2

LEMMA SameReports ==
  ASSUME SameStates
  PROVE  [d \in Drafts |-> ReportOf(drafts[d].state)]' =
           [d \in Drafts |-> ReportOf(drafts[d].state)]
  BY DEF SameStates, ReportOf

\* The insert of the first approval of a draft is its decision.
LEMMA RecordDecides ==
  ASSUME TypeOK, IInv, MappingInv, MappingInv', NEW t \in Threads,
         RecordApproval(t), ~ Decided(threads[t].draft)
  PROVE  Promise!Decide(threads[t].draft) /\ threads[t].draft \in Drafts
<1> DEFINE d == threads[t].draft
<1>1. PICK a : /\ approvals' = approvals \cup {a}
               /\ ApprovalsFor(d) = {}
               /\ a.draft = d /\ a.verdict = threads[t].verdict
               /\ a.draft \in Drafts
               /\ UNCHANGED <<drafts, orders>>
  BY ApprovalInserted DEF IInv
<1>2. a.verdict \in {"approved", "rejected"}
  BY <1>1 DEF IInv, ThreadsInv, ThreadOK, RecordApproval, At, Verdicts
<1>3. DecisionOn(d) = "none"
  BY <1>1 DEF MappingInv
<1>4. DecisionOn(a.draft)' = a.verdict
  BY <1>1 DEF MappingInv
<1>5. \A e \in Drafts : e # a.draft => DecisionOn(e)' = DecisionOn(e)
  <2> SUFFICES ASSUME NEW e \in Drafts, e # a.draft
               PROVE  DecisionOn(e)' = DecisionOn(e)
    OBVIOUS
  <2>1. ApprovalsFor(e)' = ApprovalsFor(e)
    BY <1>1 DEF ApprovalsFor
  <2> QED
    BY <2>1 DEF DecisionOn, Decided
<1>6. [e \in Drafts |-> DecisionOn(e)]' =
        [[e \in Drafts |-> DecisionOn(e)] EXCEPT ![d] = a.verdict]
  BY <1>1, <1>4, <1>5
<1>7. /\ [e \in Drafts |-> OrdersHeld(e)]' = [e \in Drafts |-> OrdersHeld(e)]
      /\ [e \in Drafts |-> ReportOf(drafts[e].state)]' =
           [e \in Drafts |-> ReportOf(drafts[e].state)]
  BY <1>1, SameOrdered, SameReports DEF SameOrders, SameStates
<1> QED
  BY <1>1, <1>2, <1>3, <1>6, <1>7 DEF Promise!Decide

\* The arrival of a create request is the order.
LEMMA ArrivalOrders ==
  ASSUME TypeOK, IInv, MappingInv, MappingInv', NEW q \in wire, CreateArrives(q)
  PROVE  Promise!Order(q.ref) /\ q.ref \in Drafts
<1>1. /\ orders' = Append(orders, [ref |-> q.ref, content |-> q.content,
                                   submitted |-> FALSE])
      /\ UNCHANGED <<drafts, approvals>>
  BY DEF CreateArrives, tables
<1>2. q.ref \in Drafts
  BY DEF TypeOK, Request
<1>3. ~ Ordered(q.ref) /\ Approved(q.ref)
  BY DEF IInv, OrdersInv
<1>4. DecisionOn(q.ref) = "approved"
  BY <1>3 DEF MappingInv, Approved, ApprovalsFor
<1>5. /\ Ordered(q.ref)'
      /\ \A e \in Drafts : e # q.ref => (Ordered(e)' <=> Ordered(e))
  BY <1>1 DEF TypeOK, Ordered, OrdersFor
<1>6. /\ OrdersHeld(q.ref) = 0
      /\ \A e \in Drafts : OrdersHeld(e)' = IF e = q.ref THEN 1 ELSE OrdersHeld(e)
  BY <1>2, <1>3, <1>5 DEF MappingInv
<1>7. [e \in Drafts |-> OrdersHeld(e)]' =
        [[e \in Drafts |-> OrdersHeld(e)] EXCEPT ![q.ref] = 1]
  BY <1>2, <1>6
<1>8. /\ [e \in Drafts |-> DecisionOn(e)]' = [e \in Drafts |-> DecisionOn(e)]
      /\ [e \in Drafts |-> ReportOf(drafts[e].state)]' =
           [e \in Drafts |-> ReportOf(drafts[e].state)]
  BY <1>1, SameDecisions, SameReports DEF SameStates
<1> QED
  BY <1>2, <1>4, <1>6, <1>7, <1>8 DEF Promise!Order

\* A move of one draft's state reports on it, or withdraws the report.
LEMMA MoveReports ==
  ASSUME TypeOK, IInv, MappingInv, MappingInv', UNCHANGED approvals, SameOrders,
         NEW d \in Drafts, OnlyDraft(d), MovesTo(d)
  PROVE  Promise!Report(d) \/ Promise!Withdraw(d)
<1> DEFINE To(r) == [e \in Drafts |-> ReportOf(drafts[e].state)]' =
             [[e \in Drafts |-> ReportOf(drafts[e].state)] EXCEPT ![d] = r]
<1>1. /\ [e \in Drafts |-> DecisionOn(e)]' = [e \in Drafts |-> DecisionOn(e)]
      /\ [e \in Drafts |-> OrdersHeld(e)]' = [e \in Drafts |-> OrdersHeld(e)]
  BY SameDecisions, SameOrdered
<1>2. \A e \in Drafts : e # d =>
        ReportOf(drafts'[e].state) = ReportOf(drafts[e].state)
  BY DEF OnlyDraft
<1>3. To(ReportOf(drafts'[d].state))
  BY <1>2
<1>4. CASE drafts'[d].state \notin {"PLACED", "REJECTED"}
  <2>1. To("open")
    BY <1>3, <1>4 DEF ReportOf
  <2> QED
    BY <1>1, <2>1 DEF Promise!Withdraw
<1>5. ASSUME NEW t \in Threads, At(t, "place"), threads[t].draft = d,
             drafts[d].state = "SUBMITTING", drafts'[d].state = "PLACED"
      PROVE  Promise!Report(d)
  <2>1. OrdersHeld(d) = 1
    BY <1>5 DEF IInv, ReportInv, At, MappingInv
  <2>2. ReportOf(drafts[d].state) = "open" /\ To("placed")
    BY <1>3, <1>5 DEF ReportOf
  <2> QED
    BY <1>1, <2>1, <2>2 DEF Promise!Report
<1>6. ASSUME NEW t \in Threads, At(t, "decide"), threads[t].draft = d,
             threads[t].verdict = "rejected",
             drafts[d].state = "AWAITING_APPROVAL", drafts'[d].state = "REJECTED"
      PROVE  Promise!Report(d)
  <2>1. DecisionOn(d) = "rejected"
    BY <1>6 DEF IInv, DecisionsInv, At, Holding, ApprovalsFor, MappingInv
  <2>2. ReportOf(drafts[d].state) = "open" /\ To("rejected")
    BY <1>3, <1>6 DEF ReportOf
  <2> QED
    BY <1>1, <2>1, <2>2 DEF Promise!Report
<1> QED
  BY <1>4, <1>5, <1>6 DEF MovesTo

\* Every step of the UI is a step of the promise or leaves it alone.
LEMMA PromiseNext ==
  TypeOK /\ IInv /\ MappingInv /\ MappingInv' /\ [Next]_vars
    => [Promise!Next]_(Promise!vars)
<1> SUFFICES ASSUME TypeOK, IInv, MappingInv, MappingInv', [Next]_vars
             PROVE  Promise!Next \/ UNCHANGED Promise!vars
  OBVIOUS
<1>1. ASSUME UNCHANGED approvals, SameOrders, SameStates
      PROVE  UNCHANGED Promise!vars
  BY <1>1, SameDecisions, SameOrdered, SameReports DEF Promise!vars
<1>2. CASE UNCHANGED vars
  BY <1>1, <1>2 DEF vars, tables, zoho, SameOrders, SameStates
<1>3. ASSUME NEW t \in Threads, RecordApproval(t), ~ Decided(threads[t].draft)
      PROVE  Promise!Next
  BY <1>3, RecordDecides DEF Promise!Next
<1>4. ASSUME NEW q \in wire, CreateArrives(q)
      PROVE  Promise!Next
  BY <1>4, ArrivalOrders DEF Promise!Next
<1>5. ASSUME Next, UNCHANGED approvals, SameOrders
      PROVE  Promise!Next \/ UNCHANGED Promise!vars
  <2>1. CASE SameStates
    BY <1>1, <1>5, <2>1
  <2>2. ASSUME NEW d \in Drafts, OnlyDraft(d), MovesTo(d)
        PROVE  Promise!Next
    BY <1>5, <2>2, MoveReports DEF Promise!Next
  <2> QED
    BY <1>5, <2>1, <2>2, StatesNext DEF IInv
<1>6. ASSUME Next,
             \/ \E t \in Threads : SendCreate(t)
             \/ \E q \in wire : CreateLost(q)
      PROVE  UNCHANGED approvals /\ SameOrders
  BY <1>6 DEF SendCreate, CreateLost, tables, SameOrders
<1>7. CASE Next
  BY <1>3, <1>4, <1>5, <1>6, <1>7, WhoTouchesZoho, HoldByApproval
<1> QED
  BY <1>2, <1>7

\* Nothing is decided, ordered or reported before the first click.
LEMMA PromiseInit == Init => Promise!Init
<1> SUFFICES ASSUME Init PROVE Promise!Init
  OBVIOUS
<1>1. TypeOK /\ IInv
  BY TypeInit, InvInit
<1>2. MappingInv
  BY <1>1, Mapping
<1>3. \A d \in Drafts : /\ ApprovalsFor(d) = {}
                        /\ ~ Ordered(d)
                        /\ drafts[d].state = "ABSENT"
  BY DEF Init, StoreInit, ApprovalsFor, Ordered, OrdersFor
<1>4. \A d \in Drafts : /\ DecisionOn(d) = "none"
                        /\ OrdersHeld(d) = 0
                        /\ ReportOf(drafts[d].state) = "open"
  BY <1>2, <1>3 DEF MappingInv, ReportOf
<1> QED
  BY <1>4 DEF Promise!Init

\* The purchasing UI implements the promise: one decision per draft, at most
\* one order and only after an approval, and a report that claims PLACED or
\* REJECTED only of what has happened (approve, reject, submit_approved_draft).
THEOREM UIKeepsPromise == Spec => KeepsPromise
<1>1. Spec => [](TypeOK /\ IInv /\ MappingInv)
  BY Inductive, Mapping, PTL
<1> QED
  BY <1>1, PromiseInit, PromiseNext, PTL DEF Spec, KeepsPromise, Promise!Spec

-----------------------------------------------------------------------------
(* A run's state and its drafts. *)

\* A run that has a draft keeps it, and no other run gets one.
SameProposals == \A d \in Drafts : /\ drafts'[d].run = drafts[d].run
                                   /\ Live(d)' <=> Live(d)

\* Nobody starts to hand a run over.
NoNewHandover ==
  \A t \in Threads :
    threads'[t].pc = "dispatch" => /\ threads[t].pc = "dispatch"
                                   /\ threads'[t].run = threads[t].run

\* What is not about runs at all keeps them in order.
LEMMA QuietKeepsRuns ==
  ASSUME RunsInv, UNCHANGED <<runs, workers>>, SameProposals, NoNewHandover
  PROVE  RunsInv'
<1>1. \A r : Proposed(r)' <=> Proposed(r)
  BY DEF SameProposals, Proposed
<1>2. HandoverInv'
  BY <1>1 DEF RunsInv, HandoverInv, NoNewHandover
<1>3. ProposalsInv'
  BY <1>1 DEF RunsInv, ProposalsInv, SameProposals
<1> QED
  BY <1>2, <1>3 DEF RunsInv

\* The update of a draft's state is not an update of its run.
LEMMA MoveDraftQuiet ==
  ASSUME TypeOK, NEW d \in Drafts, Live(d), NEW state, state # "ABSENT",
         MoveDraft(d, state)
  PROVE  SameProposals
  BY DEF MoveDraft, SameProposals, Live, TypeOK, StoreTypeOK, DraftRow

\* A thread that neither creates nor hands over nor closes a run leaves all
\* runs alone.
LEMMA ThreadQuiet ==
  ASSUME TypeOK, ThreadsInv, NEW t \in Threads, ThreadStep(t),
         ~ CreateRun(t), ~ Dispatch(t), ~ CloseRun(t)
  PROVE  UNCHANGED <<runs, workers>> /\ SameProposals /\ NoNewHandover
<1> DEFINE d == threads[t].draft
<1>1. UNCHANGED <<runs, workers>>
  BY DEF ThreadStep, CheckUnavailable, FlagForReview, RecordApproval, Decide,
     Recheck, ClaimSubmission, LookupReference, SendCreate, CreateReturns,
     SubmitOrder, FinishSubmission, Reconcile, Place, GiveUp, tables
<1>2. UNCHANGED drafts => SameProposals
  BY DEF SameProposals, Live
<1>3. threads[t].pc \in Holding \cup {"mistrust"} => d \in Drafts /\ Live(d)
  BY DEF ThreadsInv, ThreadOK
<1>4. SameProposals
  <2>1. CASE FlagForReview(t) \/ Decide(t) \/ Recheck(t) \/ Place(t) \/ GiveUp(t)
    BY <1>2, <1>3, <2>1, MoveDraftQuiet DEF FlagForReview, Decide, Recheck,
       Place, GiveUp, At, Holding, Submitting
  <2>2. CASE UNCHANGED drafts
    BY <1>2, <2>2
  <2> QED
    BY <2>1, <2>2 DEF ThreadStep, CheckUnavailable, RecordApproval,
       ClaimSubmission, LookupReference, SendCreate, CreateReturns, SubmitOrder,
       FinishSubmission, Reconcile, tables
<1>5. threads'[t].pc # "dispatch"
  <2>1. Done(t) => threads'[t].pc # "dispatch"
    BY DEF Done, TypeOK, IdleThread
  <2>2. \A pc : Goto(t, pc) => threads'[t].pc = pc
    BY GotoFields
  <2>3. Recheck(t) => Done(t) \/ threads'[t].pc = "claim"
    <3>1. ASSUME NEW c, threads' = [threads EXCEPT ![t] =
                          [@ EXCEPT !.pc = "claim", !.content = c]]
          PROVE  threads'[t].pc = "claim"
      BY <3>1 DEF TypeOK, Thread
    <3> QED
      BY <3>1 DEF Recheck
  <2> QED
    BY <2>1, <2>2, <2>3 DEF ThreadStep, CheckUnavailable, FlagForReview,
       RecordApproval, Decide, ClaimSubmission, LookupReference, SendCreate,
       CreateReturns, SubmitOrder, FinishSubmission, Reconcile, Place, GiveUp
<1> QED
  BY <1>1, <1>4, <1>5, OthersStay DEF NoNewHandover

\* A run is created, handed to a worker and closed in order.
LEMMA ThreadKeepsRuns ==
  ASSUME TypeOK, RowsInv, ThreadsInv, RunsInv, NEW t \in Threads, ThreadStep(t)
  PROVE  RunsInv'
<1> USE DEF RunsInv
<1>0. \A u \in Threads : u # t => threads'[u] = threads[u]
  BY OthersStay
<1>1. CASE CreateRun(t)
  <2>1. PICK r \in Runs : /\ InsertRun(r, threads[t].subject)
                          /\ threads' = [threads EXCEPT ![t] =
                               [@ EXCEPT !.pc = "dispatch", !.run = r]]
    BY <1>1 DEF CreateRun
  <2>2. /\ threads'[t].run = r
        /\ runs[r].state = "ABSENT" /\ runs'[r].state = "DRAFTING"
        /\ \A s \in Runs : s # r => runs'[s] = runs[s]
        /\ UNCHANGED <<drafts, workers>>
    BY <1>1, <2>1 DEF CreateRun, InsertRun, TypeOK, StoreTypeOK, Thread
  <2>3. \A s : Proposed(s)' <=> Proposed(s)
    BY <2>2 DEF Proposed
  <2>4. ~ Proposed(r)
    BY <2>2 DEF ProposalsInv
  <2>5. \A u \in Threads : threads[u].pc = "dispatch" =>
          threads[u].run \in Runs /\ threads[u].run # r
    BY <2>2 DEF HandoverInv, ThreadsInv, ThreadOK
  <2>6. \A w \in Workers : workers[w].pc \in Undrafted =>
          workers[w].run \in Runs /\ workers[w].run # r
    BY <2>2 DEF HandoverInv, RowsInv, Undrafted
  <2>7. HandoverInv'
    BY <1>0, <2>2, <2>3, <2>4, <2>5, <2>6 DEF HandoverInv
  <2>8. ProposalsInv'
    BY <2>2, <2>3, <2>4 DEF ProposalsInv, Live
  <2> QED
    BY <2>7, <2>8
<1>2. CASE Dispatch(t)
  <2> DEFINE r == threads[t].run
  <2>1. PICK w \in Workers :
          /\ workers[w].pc = "idle"
          /\ workers' = [workers EXCEPT ![w] =
               [pc |-> "read_run", run |-> r, spawned |-> TRUE]]
    BY <1>2 DEF Dispatch
  <2>2. /\ threads[t].pc = "dispatch" /\ threads'[t].pc # "dispatch"
        /\ workers'[w].pc = "read_run" /\ workers'[w].run = r
        /\ \A x \in Workers : x # w => workers'[x] = workers[x]
        /\ UNCHANGED <<drafts, runs>>
    BY <1>2, <2>1 DEF Dispatch, At, Done, IdleThread, TypeOK, tables
  <2>3. \A s : Proposed(s)' <=> Proposed(s)
    BY <2>2 DEF Proposed
  <2>4. HandoverInv'
    BY <1>0, <2>2, <2>3 DEF HandoverInv
  <2>5. ProposalsInv'
    BY <2>2, <2>3 DEF ProposalsInv, Live
  <2> QED
    BY <2>4, <2>5
<1>3. CASE CloseRun(t)
  <2> DEFINE r == drafts[threads[t].draft].run
  <2>1. /\ threads[t].draft \in Drafts /\ Live(threads[t].draft)
        /\ runs' = [runs EXCEPT ![r].state = "COMPLETE"]
        /\ threads'[t].pc # "dispatch"
        /\ UNCHANGED <<drafts, workers>>
    BY <1>3 DEF CloseRun, SetRunState, At, ThreadsInv, ThreadOK, Holding, Done,
       IdleThread, TypeOK
  <2>2. r \in Runs /\ Proposed(r)
    BY <2>1 DEF RowsInv, Proposed
  <2>3. /\ runs'[r].state = "COMPLETE"
        /\ \A s \in Runs : s # r => runs'[s] = runs[s]
    BY <2>1, <2>2 DEF TypeOK, StoreTypeOK, RunRow
  <2>4. \A s : Proposed(s)' <=> Proposed(s)
    BY <2>1 DEF Proposed
  <2>5. \A u \in Threads : threads[u].pc = "dispatch" =>
          threads[u].run \in Runs /\ threads[u].run # r
    BY <2>2 DEF HandoverInv, ThreadsInv, ThreadOK
  <2>6. \A w \in Workers : workers[w].pc \in Undrafted =>
          workers[w].run \in Runs /\ workers[w].run # r
    BY <2>2 DEF HandoverInv, RowsInv, Undrafted
  <2>7. HandoverInv'
    BY <1>0, <2>1, <2>3, <2>4, <2>5, <2>6 DEF HandoverInv
  <2>8. ProposalsInv'
    BY <2>1, <2>2, <2>3, <2>4 DEF ProposalsInv, Live
  <2> QED
    BY <2>7, <2>8
<1> QED
  BY <1>1, <1>2, <1>3, ThreadQuiet, QuietKeepsRuns

\* A worker that has its run to itself brings it to a draft or closes it.
LEMMA WorkerKeepsRuns ==
  ASSUME TypeOK, RowsInv, ThreadsInv, RunsInv, NEW w \in Workers, WorkerStep(w)
  PROVE  RunsInv'
<1> DEFINE r == workers[w].run
           Frame == /\ \A x \in Workers : x # w => workers'[x] = workers[x]
                    /\ \A s \in Runs : s # r => runs'[s] = runs[s]
           Served == workers'[w].pc \in Undrafted \cup {"publish"} =>
                       workers'[w].run = r
<1> USE DEF RunsInv
<1>1. UNCHANGED threads /\ workers[w].pc # "idle"
  BY DEF WorkerStep, ReadRun, ReadStock, CloseWithoutDraft, CreateDraft, Publish,
     WorkerAt
<1>2. r \in Runs
  BY <1>1 DEF RowsInv
<1>3. WorkerDone(w) => workers'[w].pc = "idle"
  BY DEF WorkerDone, IdleWorker, TypeOK
<1>4. \A pc : WorkerGoto(w, pc) => workers'[w].pc = pc /\ workers'[w].run = r
  BY DEF WorkerGoto, TypeOK, Worker
<1>5. \A state : SetRunState(r, state) => runs'[r].state = state
  BY <1>2 DEF SetRunState, TypeOK, StoreTypeOK, RunRow
<1>6. Frame
  BY <1>2 DEF WorkerStep, ReadRun, ReadStock, CloseWithoutDraft, CreateDraft,
     Publish, WorkerGoto, WorkerDone, SetRunState, TypeOK, StoreTypeOK, tables
<1>7. \A u \in Threads : threads[u].pc = "dispatch" => threads[u].run \in Runs
  BY DEF ThreadsInv, ThreadOK
<1>8. \A x \in Workers : workers[x].pc \in Undrafted => workers[x].run \in Runs
  BY DEF RowsInv, Undrafted
<1>9. ASSUME UNCHANGED drafts, workers[w].pc \in Undrafted, Served,
             \/ workers'[w].pc \in Undrafted /\ runs'[r].state = "DRAFTING"
             \/ workers'[w].pc = "idle"
                /\ runs'[r].state \in {"DRAFTING", "FAILED", "UNRESOLVED",
                                       "STOCK_SUFFICIENT"}
      PROVE  RunsInv'
  <2>1. \A s : Proposed(s)' <=> Proposed(s)
    BY <1>9 DEF Proposed
  <2>2. ~ Proposed(r)
    BY <1>9 DEF HandoverInv
  <2>3. \A x \in Workers : workers[x].pc \in Undrafted /\ workers[x].run = r => x = w
    BY <1>9 DEF HandoverInv
  <2>4. \A u \in Threads : threads[u].pc = "dispatch" => threads[u].run # r
    BY <1>9 DEF HandoverInv
  <2>5. "idle" \notin Undrafted \cup {"publish"}
    BY DEF Undrafted
  <2>6. HandoverInv'
    BY <1>1, <1>6, <1>7, <1>8, <1>9, <2>1, <2>2, <2>3, <2>4, <2>5 DEF HandoverInv
  <2>7. "publish" \notin Undrafted
    BY DEF Undrafted
  <2>8. ProposalsInv'
    BY <1>2, <1>6, <1>9, <2>1, <2>2, <2>5, <2>7 DEF ProposalsInv, Live
  <2> QED
    BY <2>6, <2>8
<1>10. CASE ReadRun(w)
  BY <1>3, <1>4, <1>9, <1>10 DEF ReadRun, WorkerAt, Undrafted, HandoverInv, tables
<1>11. CASE ReadStock(w)
  BY <1>3, <1>4, <1>5, <1>9, <1>11 DEF ReadStock, WorkerAt, Undrafted
<1>12. CASE CloseWithoutDraft(w)
  BY <1>3, <1>5, <1>9, <1>12 DEF CloseWithoutDraft, WorkerAt, Undrafted
<1>13. CASE CreateDraft(w)
  <2>1. PICK d \in Drafts, content \in Contents : InsertDraft(d, r, content)
    BY <1>13 DEF CreateDraft
  <2>2. /\ drafts'[d].run = r /\ drafts'[d].state # "ABSENT"
        /\ \A e \in Drafts : e # d => drafts'[e] = drafts[e]
        /\ ~ Live(d)
    BY <2>1 DEF InsertDraft, Live, TypeOK, StoreTypeOK
  <2>3. /\ workers[w].pc = "shortage" /\ UNCHANGED runs
        /\ workers'[w].pc = "publish" /\ workers'[w].run = r
    BY <1>4, <1>13 DEF CreateDraft, WorkerAt
  <2>4. runs[r].state = "DRAFTING" /\ workers[w].pc \in Undrafted
    BY <2>3 DEF HandoverInv, Undrafted
  <2>5. \A s \in Runs : s # r => (Proposed(s)' <=> Proposed(s))
    BY <2>2, NoneAssumption DEF Proposed, ProposalsInv
  <2>6. \A s : s = r => Proposed(s)'
    BY <2>2 DEF Proposed
  <2>7. \A x \in Workers : workers'[x].pc \in Undrafted =>
          /\ x # w /\ workers'[x] = workers[x]
          /\ workers[x].run \in Runs /\ workers[x].run # r
    <3>1. "publish" \notin Undrafted
      BY DEF Undrafted
    <3> QED
      BY <1>6, <1>8, <2>3, <2>4, <3>1 DEF HandoverInv
  <2>8. \A u \in Threads : threads[u].pc = "dispatch" =>
          threads[u].run \in Runs /\ threads[u].run # r
    BY <1>7, <2>4 DEF HandoverInv
  <2>9. HandoverInv'
    BY <1>1, <2>3, <2>5, <2>7, <2>8 DEF HandoverInv
  <2>10. \A x \in Workers : workers[x].pc = "publish" => workers[x].run \in Runs
    BY DEF RowsInv
  <2>11. ProposalsInv'
    BY <1>2, <1>6, <2>2, <2>3, <2>4, <2>5, <2>6, <2>10 DEF ProposalsInv, Live
  <2> QED
    BY <2>9, <2>11
<1>14. CASE Publish(w)
  <2>1. /\ workers[w].pc = "publish" /\ workers'[w].pc = "idle"
        /\ runs'[r].state = "AWAITING_APPROVAL" /\ UNCHANGED drafts
    BY <1>3, <1>5, <1>14 DEF Publish, WorkerAt
  <2>2. \A s : Proposed(s)' <=> Proposed(s)
    BY <2>1 DEF Proposed
  <2>3. Proposed(r)
    BY <2>1 DEF ProposalsInv
  <2>4. "idle" \notin Undrafted
    BY DEF Undrafted
  <2>5. HandoverInv'
    BY <1>1, <1>6, <1>7, <1>8, <2>1, <2>2, <2>3, <2>4 DEF HandoverInv
  <2>6. ProposalsInv'
    BY <1>2, <1>6, <2>1, <2>2, <2>3 DEF ProposalsInv, Live
  <2> QED
    BY <2>5, <2>6
<1> QED
  BY <1>10, <1>11, <1>12, <1>13, <1>14 DEF WorkerStep

\* Crashes, edits of a payload and the passing of time do not touch runs; a
\* second delivery and an exception of the store would.
LEMMA EnvironmentKeepsRuns ==
  ASSUME TypeOK, RunsInv, Faults \subseteq {"crash", "edit"}, Environment
  PROVE  RunsInv'
<1>1. UNCHANGED drafts => SameProposals
  BY DEF SameProposals, Live
<1>2. UNCHANGED threads => NoNewHandover
  BY DEF NoNewHandover
<1>3. ASSUME NEW t \in Threads, NEW s \in Subjects,
             \/ RequestCheck(t, s)
             \/ \E d \in Drafts, v \in Verdicts : LoadForDecision(t, s, d, v)
      PROVE  NoNewHandover
  <2>1. \A u \in Threads : u # t => threads'[u] = threads[u]
    BY <1>3 DEF RequestCheck, LoadForDecision, TypeOK
  <2>2. threads'[t] = threads[t] \/ threads'[t].pc \in {"create_run", "record", "mistrust"}
    BY <1>3 DEF RequestCheck, LoadForDecision, TypeOK, IdleThread
  <2> QED
    BY <2>1, <2>2 DEF NoNewHandover
<1>4. ASSUME NEW d \in Drafts, EditPayload(d)
      PROVE  SameProposals
  BY <1>4 DEF EditPayload, SameProposals, Live, TypeOK, StoreTypeOK, DraftRow
<1>5. CASE Crash
  <2>1. /\ \A t \in Threads : threads'[t].pc = "idle"
        /\ \A w \in Workers : workers'[w].pc = "idle"
        /\ UNCHANGED <<runs, drafts>>
    BY <1>5 DEF Crash, IdleThread, IdleWorker, tables
  <2>2. "idle" \notin Undrafted
    BY DEF Undrafted
  <2> QED
    BY <2>1, <2>2 DEF RunsInv, HandoverInv, ProposalsInv, Proposed, Live
<1> QED
  BY <1>1, <1>2, <1>3, <1>4, <1>5, QuietKeepsRuns DEF Environment, RequestCheck,
     LoadForDecision, Redeliver, CreateArrives, CreateLost, Tick,
     ThreadStoreFault, WorkerStoreFault, EditPayload, tables

\* A run that asks for a decision has a draft and one that ended without an
\* order has none, however workers and decisions interleave and the process
\* crashes, as long as no task is delivered twice and no statement of the store
\* raises (process_run, start_check).
THEOREM RunsMatchDrafts ==
  ASSUME Faults \subseteq {"crash", "edit"}
  PROVE  Spec => []RunMatchesItsDrafts
<1>1. Init => RunsInv
  <2> SUFFICES ASSUME Init PROVE RunsInv
    OBVIOUS
  <2>1. /\ \A t \in Threads : threads[t].pc = "idle"
        /\ \A w \in Workers : workers[w].pc = "idle"
    BY DEF Init, IdleThread, IdleWorker
  <2>2. /\ \A d \in Drafts : drafts[d].run = None
        /\ \A r \in Runs : runs[r].state = "ABSENT"
    BY DEF Init, StoreInit
  <2>3. "idle" \notin Undrafted
    BY DEF Undrafted
  <2>4. \A r \in Runs : ~ Proposed(r)
    BY <2>2, NoneAssumption DEF Proposed
  <2> QED
    BY <2>1, <2>2, <2>3, <2>4 DEF RunsInv, HandoverInv, ProposalsInv
<1>2. TypeOK /\ IInv /\ RunsInv /\ [Next]_vars => RunsInv'
  <2> SUFFICES ASSUME TypeOK, IInv, RunsInv, [Next]_vars PROVE RunsInv'
    OBVIOUS
  <2>1. CASE Next
    BY <2>1, ThreadKeepsRuns, WorkerKeepsRuns, EnvironmentKeepsRuns DEF Next, IInv
  <2>2. CASE UNCHANGED vars
    BY <2>2, QuietKeepsRuns DEF vars, tables, SameProposals, NoNewHandover, Live
  <2> QED
    BY <2>1, <2>2
<1>3. RunsInv => RunMatchesItsDrafts
  BY DEF RunsInv, ProposalsInv, Proposed, RunMatchesItsDrafts
<1> QED
  BY <1>1, <1>2, <1>3, Inductive, PTL DEF Spec
=============================================================================
