--------------------------- MODULE PurchasingStore ---------------------------
(***************************************************************************)
(* The SQLite tables of the purchasing UI (inventory_ui/store.py) and the  *)
(* statements that read and write them.  A statement, or a BEGIN IMMEDIATE *)
(* block, is one operator here, hence one atomic step of whoever uses it.  *)
(*                                                                         *)
(* `version` is left out: create_draft writes 1 and nothing ever changes   *)
(* it, so (draft_id, draft_version) is the draft.  A content hash is the   *)
(* content itself (SHA-256 is taken to be injective).                      *)
(***************************************************************************)
EXTENDS Naturals

CONSTANTS Runs, Drafts,   \* the ids uuid4 can hand out (bound the tables)
          Subjects,       \* signed-in users
          Contents,       \* purchase-affecting content of a draft
          TTL,            \* APPROVAL_TTL_SECONDS
          MaxTime,        \* bound of the clock
          None

ASSUME TimeAssumption == TTL \in Nat /\ MaxTime \in Nat
\* None is the NULL of a column, and no id is NULL.
ASSUME NoneAssumption == None \notin Runs

VARIABLES runs, drafts, approvals, submissions, now

tables == <<runs, drafts, approvals, submissions>>

RunStates == {"ABSENT", "DRAFTING", "STOCK_SUFFICIENT", "AWAITING_APPROVAL",
              "COMPLETE", "FAILED", "UNRESOLVED"}
ActiveStates == {"DRAFTING", "AWAITING_APPROVAL"}
DraftStates == {"ABSENT", "AWAITING_APPROVAL", "APPROVED", "SUBMITTING",
                "PLACED", "REJECTED", "FAILED", "NEEDS_REVIEW",
                "SUBMISSION_UNKNOWN"}
SubmissionStates == {"ABSENT", "CLAIMED", "COMPLETE", "RECONCILED", "UNKNOWN"}
Verdicts == {"approved", "rejected"}
Clock == 0 .. MaxTime

RunRow == [state : RunStates, subject : Subjects \cup {None}]
DraftRow == [state : DraftStates, run : Runs \cup {None},
             payload : Contents \cup {None}, hash : Contents \cup {None}]
ApprovalRow == [draft : Drafts, verdict : Verdicts, subject : Subjects,
                hash : Contents, expires : Nat]

StoreTypeOK ==
  /\ runs \in [Runs -> RunRow]
  /\ drafts \in [Drafts -> DraftRow]
  /\ approvals \subseteq ApprovalRow
  /\ submissions \in [Drafts -> SubmissionStates]
  /\ now \in Clock

StoreInit ==
  /\ runs = [r \in Runs |-> [state |-> "ABSENT", subject |-> None]]
  /\ drafts = [d \in Drafts |-> [state |-> "ABSENT", run |-> None,
                                 payload |-> None, hash |-> None]]
  /\ approvals = {}
  /\ submissions = [d \in Drafts |-> "ABSENT"]
  /\ now = 0

-----------------------------------------------------------------------------
(* runs *)

ActiveRuns(s) == {r \in Runs : /\ runs[r].subject = s
                               /\ runs[r].state \in ActiveStates}

\* Mutants of InsertRun: columns bound in the wrong order; INSERT OR REPLACE.
InsertRunSwapped(r, s) ==
  runs' = [runs EXCEPT ![r] = [state |-> s, subject |-> "DRAFTING"]]
InsertRunAgain(r, s) ==
  runs' = [runs EXCEPT ![r] = [state |-> "DRAFTING", subject |-> s]]

InsertRun(r, s) ==
  /\ runs[r].state = "ABSENT"
  /\ runs' = [runs EXCEPT ![r] = [state |-> "DRAFTING", subject |-> s]]

SetRunStateUncommitted(r, state) == UNCHANGED runs  \* mutant of SetRunState

\* The UPDATE has no condition on the state it replaces.
SetRunState(r, state) == runs' = [runs EXCEPT ![r].state = state]

-----------------------------------------------------------------------------
(* drafts *)

InsertDraft(d, r, content) ==
  /\ drafts[d].state = "ABSENT"
  /\ drafts' = [drafts EXCEPT ![d] =
                  [state |-> "AWAITING_APPROVAL", run |-> r,
                   payload |-> content, hash |-> content]]

InState(d, expected) == drafts[d].state = expected

MoveDraftUncommitted(d, new) == UNCHANGED drafts  \* mutant of MoveDraft

MoveDraft(d, new) == drafts' = [drafts EXCEPT ![d].state = new]

-----------------------------------------------------------------------------
(* approvals: insert only, UNIQUE (draft_id, draft_version) *)

ApprovalsFor(d) == {a \in approvals : a.draft = d}

NoUniqueIndex(d) == FALSE  \* mutant of Decided

Decided(d) == ApprovalsFor(d) # {}

InsertApproval(d, verdict, s) ==
  approvals' = approvals \cup
    {[draft |-> d, verdict |-> verdict, subject |-> s,
      hash |-> drafts[d].hash, expires |-> now + TTL]}

-----------------------------------------------------------------------------
(* submissions: UNIQUE (idempotency_key), the key is the draft *)

Claimed(d) == submissions[d] # "ABSENT"

SetSubmission(d, state) == submissions' = [submissions EXCEPT ![d] = state]
=============================================================================
