------------------------- MODULE WorkflowApprovals -------------------------
(***************************************************************************)
(* Approval workflows: creation (src/app/api/workflows/route.ts), the      *)
(* approve/reject and delegate transactions (workflows/[id]/approve and    *)
(* /delegate), and the escalation pass of the hourly cron                  *)
(* (src/lib/workflow/escalation.ts).                                       *)
(*                                                                         *)
(* A transaction is cut where another one can come in between when the     *)
(* database runs READ COMMITTED (PostgreSQL): the read of the approval,    *)
(* the update that locks its row, the read of the step's approvals, and    *)
(* the writes up to COMMIT.  On SQLite transactions run one at a time.     *)
(* The escalation pass is not a transaction: it reads the pending rows     *)
(* once and then updates them one by one.                                  *)
(*                                                                         *)
(* Every row the code creates has stepIndex 0 (creation writes step 0, a   *)
(* delegation copies the index), so the step index is left out and the     *)
(* branch that advances to a next step, which needs a row of a later step, *)
(* is not reachable.  No workflow with approvals has a definition, so      *)
(* escalation never finds a target to reassign to.                         *)
(***************************************************************************)
EXTENDS Integers, Sequences, FiniteSets

CONSTANTS
    Workflows,
    Users,                \* active users of the tenant
    Sessions,             \* concurrent requests; each belongs to a user
    UserOf,               \* UserOf[s]: the user a session is signed in as
    Plans,                \* what POST /api/workflows may be asked to create
    SerialTransactions,   \* TRUE on SQLite, FALSE on PostgreSQL
    MaxRows               \* bound: rows of table Approval

Modes          == {"any", "all"}
RowStatuses    == {"pending", "approved", "rejected", "delegated", "escalated"}
FlowStatuses   == {"none", "pending", "approved", "rejected"}
Decisions     == {"approve", "reject", "delegate"}
TxPcs          == {"idle", "read", "updated", "counted"}

ASSUME UserOfAssumption  == UserOf \in [Sessions -> Users]
ASSUME RequestAssumption ==
    \A q \in Plans : /\ q.approvers \in Seq(Users) \ {<<>>}
                        /\ q.mode \in Modes
                        /\ q.record \in BOOLEAN

VARIABLES
    workflow,   \* rows of table Workflow
    approval,   \* rows of table Approval, in the order they were created
    promoted,   \* workflows that made their document a record
    tx,         \* the transaction each session is in
    batch,      \* rows the running escalation pass still has to update
    contested   \* history: rows one request of their approver wrote while
                \* another that had read them was open, and their delegates'

workflowVars == <<workflow, approval, promoted, tx, batch, contested>>

NoTx == [pc |-> "idle", row |-> 0, op |-> "approve", to |-> CHOOSE u \in Users : TRUE,
         approved |-> 0, rejected |-> 0, total |-> 0]

ApprovalRows        == DOMAIN approval
RowsOf(w)   == {a \in ApprovalRows : approval[a].workflow = w}
PendingOf(w) == {a \in RowsOf(w) : approval[a].status = "pending"}

Idle(s)      == tx[s].pc = "idle"
MayBegin     == SerialTransactions => \A s \in Sessions : Idle(s)

(* A session that has updated a row holds its lock until it commits. *)
LockedBy(a, sessions) ==
    \E o \in sessions : tx[o].row = a /\ tx[o].pc \in {"updated", "counted"}

(* Room in the bounded table, kept for delegations that have begun. *)
Delegating == {s \in Sessions : ~Idle(s) /\ tx[s].op = "delegate"}
Fits(n)    == Len(approval) + Cardinality(Delegating) + n <= MaxRows

NewRow(w, u, mode) == [workflow |-> w, approver |-> u, status |-> "pending",
                       mode |-> mode, signed |-> "none", overdue |-> FALSE]

WorkflowInit ==
    /\ workflow = [w \in Workflows |-> [status |-> "none", record |-> FALSE]]
    /\ approval = <<>>
    /\ promoted = {}
    /\ tx = [s \in Sessions |-> NoTx]
    /\ batch = {}
    /\ contested = {}

-----------------------------------------------------------------------------
(* POST /api/workflows: the workflow and the approvals of its first step.  *)
CreateWorkflow(w) ==
    /\ MayBegin
    /\ workflow[w].status = "none"
    /\ \E q \in Plans :
          /\ Fits(Len(q.approvers))
          /\ workflow' = [workflow EXCEPT ![w] =
                 [status |-> "pending", record |-> q.record]]
          /\ approval' = approval \o
                 [i \in DOMAIN q.approvers |-> NewRow(w, q.approvers[i], q.mode)]
    /\ UNCHANGED <<promoted, tx, batch, contested>>

(* Operators named ...Bug are the definition after them with a mistake an  *)
(* edit of the code could make; no behaviour of the module uses them.      *)

BeginDecisionBug(s, a, decision) ==
    /\ Idle(s) /\ MayBegin
    /\ approval[a].approver = UserOf[s]
    /\ tx' = [tx EXCEPT ![s] = [NoTx EXCEPT !.pc = "read", !.row = a, !.op = decision]]
    /\ UNCHANGED <<workflow, approval, promoted, batch, contested>>

(* The read both transactions start with: a pending approval of the caller. *)
BeginDecision(s, a, decision) ==
    /\ Idle(s) /\ MayBegin
    /\ approval[a].status = "pending"
    /\ approval[a].approver = UserOf[s]
    /\ tx' = [tx EXCEPT ![s] = [NoTx EXCEPT !.pc = "read", !.row = a, !.op = decision]]
    /\ UNCHANGED <<workflow, approval, promoted, batch, contested>>

(* Delegation also checks that the delegate has no approval on the step. *)
BeginDelegation(s, a, u) ==
    /\ Idle(s) /\ MayBegin
    /\ approval[a].status = "pending"
    /\ approval[a].approver = UserOf[s]
    /\ u # UserOf[s]
    /\ \A b \in RowsOf(approval[a].workflow) : approval[b].approver # u
    /\ Fits(1)
    /\ tx' = [tx EXCEPT ![s] = [NoTx EXCEPT !.pc = "read", !.row = a,
                                            !.op = "delegate", !.to = u]]
    /\ UNCHANGED <<workflow, approval, promoted, batch, contested>>

(* tx.approval.update by id; the row stays locked and invisible to others. *)
UpdateOwnRow(s) ==
    /\ tx[s].pc = "read" /\ tx[s].op \in {"approve", "reject"}
    /\ ~LockedBy(tx[s].row, Sessions \ {s})
    /\ tx' = [tx EXCEPT ![s].pc = "updated"]
    /\ UNCHANGED <<workflow, approval, promoted, batch, contested>>

Decided(op) == IF op = "approve" THEN "approved" ELSE "rejected"

(* What this transaction sees of a row: its own update, else what others   *)
(* have committed.                                                         *)
Seen(s, a) == IF a = tx[s].row THEN Decided(tx[s].op) ELSE approval[a].status

(* tx.approval.findMany over the step, and the two counts.  Both counts    *)
(* add the decision and subtract one, so the one of the other kind is one  *)
(* short.                                                                  *)
CountStep(s) ==
    /\ tx[s].pc = "updated"
    /\ LET step     == RowsOf(approval[tx[s].row].workflow)
           with(st) == Cardinality({a \in step : Seen(s, a) = st})
           own(op)  == IF tx[s].op = op THEN 1 ELSE 0
       IN  tx' = [tx EXCEPT ![s] =
                     [@ EXCEPT !.pc = "counted", !.total = Cardinality(step),
                               !.approved = with("approved") + own("approve") - 1,
                               !.rejected = with("rejected") + own("reject") - 1]]
    /\ UNCHANGED <<workflow, approval, promoted, batch, contested>>

EnoughBug(t) == t.approved + 1 >= t.total

Enough(t) == t.approved >= t.total

(* What the counted decision makes of the workflow. *)
Outcome(s) ==
    LET t == tx[s]
    IN  IF t.op = "reject" \/ t.rejected > 0 THEN "rejected"
        ELSE IF approval[t.row].mode = "any" \/ Enough(t) THEN "approved" ELSE "unchanged"

(* Only an approval makes the document a record. *)
Promotes(s) == Outcome(s) = "approved"

(* mode 'any': the other pending approvals are closed as 'delegated'. *)
ClosesOthers(s) ==
    /\ Outcome(s) = "approved"
    /\ approval[tx[s].row].mode = "any"

OthersPending(s) == PendingOf(approval[tx[s].row].workflow) \ {tx[s].row}

Blocked(s) == /\ tx[s].pc = "counted"
              /\ ClosesOthers(s)
              /\ \E a \in OthersPending(s) : LockedBy(a, Sessions \ {s})

(* Another open request of the approver has read the row while it was      *)
(* pending, and will write to it by id as well.                            *)
Contests(s) == \E o \in Sessions \ {s} : ~Idle(o) /\ tx[o].row = tx[s].row

CommitDecision(s) ==
    /\ tx[s].pc = "counted"
    /\ ~Blocked(s)
    /\ LET row    == tx[s].row
           w      == approval[row].workflow
           result == Outcome(s)
       IN  /\ approval' = [a \in ApprovalRows |->
                 CASE a = row -> [approval[a] EXCEPT !.status = Decided(tx[s].op),
                                                     !.signed = tx[s].op]
                   [] a # row /\ ClosesOthers(s) /\ a \in PendingOf(w)
                          -> [approval[a] EXCEPT !.status = "delegated"]
                   [] OTHER -> approval[a]]
           /\ workflow' = IF result = "unchanged" THEN workflow
                          ELSE [workflow EXCEPT ![w].status = result]
           /\ promoted' = IF Promotes(s) /\ workflow[w].record
                          THEN promoted \cup {w} ELSE promoted
           /\ contested' = contested \cup (IF Contests(s) THEN {row} ELSE {})
    /\ tx' = [tx EXCEPT ![s] = NoTx]
    /\ UNCHANGED batch

(* Two transactions that wait for each other's rows. *)
Deadlocked(s) ==
    /\ Blocked(s)
    /\ \E o \in Sessions \ {s} :
          /\ Blocked(o)
          /\ tx[o].row \in OthersPending(s)
          /\ tx[s].row \in OthersPending(o)

(* A handler that begins its transaction again when it was aborted.        *)
AbortDeadlockedBug(s) ==
    /\ Deadlocked(s)
    /\ tx' = [tx EXCEPT ![s] = [NoTx EXCEPT !.pc = "read", !.row = tx[s].row, !.op = tx[s].op]]
    /\ UNCHANGED <<workflow, approval, promoted, batch, contested>>

(* The database aborts one of them, and its handler answers with an error. *)
AbortDeadlocked(s) ==
    /\ Deadlocked(s)
    /\ tx' = [tx EXCEPT ![s] = NoTx]
    /\ UNCHANGED <<workflow, approval, promoted, batch, contested>>

(* The rest of the delegate transaction: the row is marked, the delegate   *)
(* gets an approval of the same mode and due date.                         *)
CommitDelegation(s) ==
    /\ tx[s].pc = "read" /\ tx[s].op = "delegate"
    /\ ~LockedBy(tx[s].row, Sessions \ {s})
    /\ LET row == tx[s].row
           old == approval[row]
       IN  approval' = Append([approval EXCEPT ![row].status = "delegated"],
                              [NewRow(old.workflow, tx[s].to, old.mode)
                                  EXCEPT !.overdue = old.overdue])
           /\ contested' = contested \cup
                 (IF Contests(s) \/ row \in contested THEN {row, Len(approval) + 1} ELSE {})
    /\ tx' = [tx EXCEPT ![s] = NoTx]
    /\ UNCHANGED <<workflow, promoted, batch>>

-----------------------------------------------------------------------------
(* The due date of an approval passes. *)
PassDueDate(a) ==
    /\ ~approval[a].overdue
    /\ approval[a].status = "pending"
    /\ approval' = [approval EXCEPT ![a].overdue = TRUE]
    /\ UNCHANGED <<workflow, promoted, tx, batch, contested>>

(* processOverdueWorkflows: one read of the pending approvals. *)
StartEscalation ==
    /\ batch = {}
    /\ batch' = {a \in ApprovalRows : approval[a].status = "pending" /\ approval[a].overdue}
    /\ batch' # {}
    /\ UNCHANGED <<workflow, approval, promoted, tx, contested>>

(* Later, one update by id for each of them. *)
EscalateOne(a) ==
    /\ a \in batch
    /\ MayBegin
    /\ ~LockedBy(a, Sessions)
    /\ approval' = [approval EXCEPT ![a].status = "escalated"]
    /\ batch' = batch \ {a}
    /\ UNCHANGED <<workflow, promoted, tx, contested>>

(* The process running the pass stops; the rest waits for the next pass. *)
StopEscalation ==
    /\ batch # {}
    /\ batch' = {}
    /\ UNCHANGED <<workflow, approval, promoted, tx, contested>>

TxStep(s) == UpdateOwnRow(s) \/ CountStep(s) \/ CommitDecision(s)
             \/ AbortDeadlocked(s) \/ CommitDelegation(s)

WorkflowNext ==
    \/ \E w \in Workflows : CreateWorkflow(w)
    \/ \E s \in Sessions, a \in ApprovalRows, d \in {"approve", "reject"} : BeginDecision(s, a, d)
    \/ \E s \in Sessions, a \in ApprovalRows, u \in Users : BeginDelegation(s, a, u)
    \/ \E s \in Sessions : TxStep(s)
    \/ \E a \in ApprovalRows : PassDueDate(a) \/ EscalateOne(a)
    \/ StartEscalation
    \/ StopEscalation

(* A transaction that has begun goes on, and a waiter whose row is released *)
(* is the next to lock it: PostgreSQL queues the waiters of a row.         *)
WorkflowFairness == \A s \in Sessions : SF_workflowVars(TxStep(s))

WorkflowSpec == WorkflowInit /\ [][WorkflowNext]_workflowVars /\ WorkflowFairness

-----------------------------------------------------------------------------
(***************************************************************************)
(* Properties.                                                             *)
(***************************************************************************)
TxType == [pc : TxPcs, row : Nat, op : Decisions, to : Users,
           approved : Int, rejected : Int, total : Nat]

ApprovalType == [workflow : Workflows, approver : Users, status : RowStatuses,
            mode : Modes, signed : {"none", "approve", "reject"},
            overdue : BOOLEAN]

(* Types of the tables and of the transactions. *)
WorkflowTypeOK ==
    /\ workflow \in [Workflows -> [status : FlowStatuses, record : BOOLEAN]]
    /\ approval \in Seq(ApprovalType)
    /\ promoted \subseteq Workflows
    /\ tx \in [Sessions -> TxType]
    /\ \A s \in Sessions : tx[s].pc # "idle" => tx[s].row \in ApprovalRows
    /\ batch \subseteq ApprovalRows
    /\ contested \subseteq ApprovalRows

Approved(w) == workflow[w].status = "approved"

(* The mode of a workflow is that of its rows. *)
IsAll(w) == \A a \in RowsOf(w) : approval[a].mode = "all"

(* A workflow in mode 'all' is approved only over the attested approval of *)
(* each of its rows, whatever cron or other sessions write meanwhile; but  *)
(* for a row that two requests of its approver wrote at once, one of which *)
(* counted while the other decided otherwise or handed the row on.         *)
ApprovedIsUnanimous ==
    \A w \in Workflows :
        Approved(w) /\ IsAll(w) =>
            \A a \in RowsOf(w) \ contested : approval[a].signed = "approve"

(* A document becomes a record only through a workflow somebody attested,   *)
(* which a second request of that approver may have overwritten.            *)
PromotionIsSigned ==
    \A w \in promoted : /\ workflow[w].record
                        /\ \E a \in RowsOf(w) : approval[a].signed = "approve" \/ a \in contested

(* approve/route.ts:118 "mode='all': all approvers must approve": once all *)
(* have, and no transaction is open, the workflow is approved.             *)
UnanimityCompletes ==
    \A w \in Workflows :
        (/\ workflow[w].status # "none"
         /\ \A s \in Sessions : Idle(s)
         /\ \A a \in RowsOf(w) : approval[a].status = "approved")
        => Approved(w)

Rejecting(w) == {a \in RowsOf(w) : approval[a].signed = "reject"}

(* Rejection is final in mode 'all': no later or concurrent approval, and   *)
(* no approval of a delegate, turns the workflow to approved, unless a row  *)
(* is contested and nobody rejected but on contested rows.  (In mode 'any'  *)
(* an approval that had not seen the rejection does.)                       *)
RejectionIsFinal ==
    [][\A w \in Workflows :
          workflow[w].status = "rejected" /\ IsAll(w) /\ workflow'[w].status # "rejected"
              => RowsOf(w) \cap contested # {} /\ Rejecting(w) \subseteq contested]_workflowVars

(* A decision that was recorded is replaced only by a request of the same   *)
(* approver that had read the row before: two open at once, on PostgreSQL.  *)
DecisionIsKept ==
    [][\A a \in ApprovalRows :
          approval[a].signed # "none" /\ approval'[a].signed # approval[a].signed
              => a \in contested]_workflowVars

(* A request that began is answered: row locks never leave it waiting.     *)
TransactionsEnd == \A s \in Sessions : ~Idle(s) ~> Idle(s)

(* What the steps of a transaction wait for. *)
MayGoOn(s) ==
    \/ tx[s].pc = "read" /\ ~LockedBy(tx[s].row, Sessions \ {s})
    \/ tx[s].pc = "updated"
    \/ tx[s].pc = "counted" /\ ~Blocked(s)
    \/ Deadlocked(s)

FlowOf(s) == approval[tx[s].row].workflow

(* Row locks never bring a workflow to a standstill: however many decide   *)
(* on it at once, and whatever the escalation writes to their rows in      *)
(* between, one of them can go on, though the database only notices two    *)
(* that wait for each other and no longer circles.                         *)
SomebodyGoesOn ==
    \A s \in Sessions : ~Idle(s) =>
        \E o \in Sessions : MayGoOn(o) /\ FlowOf(o) = FlowOf(s)

(* The tables are well typed, records come from attested workflows, mode   *)
(* 'all' means all, and no workflow is locked up.                          *)
WorkflowInv ==
    WorkflowTypeOK /\ PromotionIsSigned /\ ApprovedIsUnanimous /\ SomebodyGoesOn

(* What a step may do to decisions that were made: a rejection and a       *)
(* recorded decision stand, but where two requests of one approver crossed. *)
WorkflowSteps == RejectionIsFinal /\ DecisionIsKept
=============================================================================
