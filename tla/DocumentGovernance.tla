------------------------- MODULE DocumentGovernance -------------------------
(***************************************************************************)
(* What may destroy one document and what protects it: legal holds         *)
(* (src/app/api/admin/legal-holds), dispositions requested by people and   *)
(* by the retention task of the hourly cron (admin/dispositions,           *)
(* cron/escalate), user deletion, crypto-shredding and the declaration as  *)
(* a record (documents/[id]).                                              *)
(*                                                                         *)
(* Nearly every handler reads, checks, and writes by id in a later         *)
(* statement, so another handler may run in between: each statement that   *)
(* matters is a step.  Placing a hold and releasing one are transactions.  *)
(* The release reads before it writes; on PostgreSQL at READ COMMITTED     *)
(* others may commit between the two, on SQLite nobody writes meanwhile.   *)
(*                                                                         *)
(* Document.state is left out, and with it what tells the actions archive  *)
(* and review apart: "keep" stands for both.                               *)
(***************************************************************************)
EXTENDS Naturals, Sequences

CONSTANTS
    Officers,             \* invocations of the handlers and of the cron task
    Holds,                \* legal holds that may be placed
    SerialReleases,   \* TRUE on SQLite, FALSE on PostgreSQL
    MaxDispositions,      \* bound: rows of table DispositionRecord
    NoHold

ASSUME NoHoldAssumption == NoHold \notin Holds
ASSUME ReleasesAssumption == SerialReleases \in BOOLEAN
ASSUME BoundAssumption  == MaxDispositions \in Nat

Actions    == {"delete", "keep"}
Operations == {"extend", "release", "request", "retention", "approve", "reject",
               "delete", "shred", "declare"}
RunningPcs == {"checked", "seen", "listed", "counted", "vacant", "keyless"}
OfficerPcs        == {"idle", "done", "crashed"} \cup RunningPcs

VARIABLES
    doc,           \* the row of table Document, and whether its data key exists
    hold,          \* rows of table LegalHold
    listed,        \* holds with a row in LegalHoldDocument for the document
    disposition,   \* rows of table DispositionRecord for the document
    officer,           \* the invocations: program counter and locals
    overtaken      \* history: what changed under a request after its check

governanceVars == <<doc, hold, listed, disposition, officer, overtaken>>

NotStarted == [pc |-> "idle", op |-> "delete", hold |-> NoHold, row |-> 0,
               flagSeen |-> FALSE, clears |-> FALSE]

Running(r) == officer[r].pc \in RunningPcs

(* The requests whose decision the change of kind k makes stale. *)
Overtake(k, rs) ==
    overtaken' = [r \in Officers |->
                    IF r \in rs /\ Running(r) THEN overtaken[r] \cup {k} ELSE overtaken[r]]

(* SQLite lets nobody write while a release is between its statements. *)
NoneCounts(rs) == SerialReleases => \A o \in rs : officer[o].pc # "counted"
MayWrite(r)    == NoneCounts(Officers \ {r})

Goto(r, pc)    == officer' = [officer EXCEPT ![r].pc = pc]
Start(r, call) == /\ officer[r].pc = "idle"
                  /\ officer' = [officer EXCEPT ![r] = call]
                  /\ UNCHANGED <<doc, hold, listed, disposition, overtaken>>

Checked(op) == [NotStarted EXCEPT !.pc = "checked", !.op = op]

GovernanceInit ==
    /\ doc = [deleted |-> FALSE, legalHold |-> FALSE, isRecord |-> FALSE, key |-> TRUE]
    /\ hold = [h \in Holds |-> "none"]
    /\ listed = {}
    /\ disposition = <<>>
    /\ officer = [r \in Officers |-> NotStarted]
    /\ overtaken = [r \in Officers |-> {}]

(* Operators named ...Bug are the definition after them with a mistake an  *)
(* edit of the code could make; no behaviour of the module uses them.      *)
ActiveOn(hs) == {h \in hs : hold[h] = "active"}

-----------------------------------------------------------------------------
(* POST legal-holds: the hold and, if the document is named, its row and   *)
(* the flag, in one transaction; a deleted document is not left out.       *)
PlaceHold(h, names) ==
    /\ hold[h] = "none"
    /\ NoneCounts(Officers)
    /\ hold' = [hold EXCEPT ![h] = "active"]
    /\ IF names
       THEN /\ listed' = listed \cup {h}
            /\ doc' = [doc EXCEPT !.legalHold = TRUE]
            /\ Overtake("hold", Officers)
       ELSE UNCHANGED <<listed, doc, overtaken>>
    /\ UNCHANGED <<disposition, officer>>

(* PATCH legal-holds/[id]: check the hold, read the document, upsert the   *)
(* row, and set the flag unless the read found it set.                     *)
BeginExtend(r, h) ==
    /\ hold[h] = "active"
    /\ Start(r, [Checked("extend") EXCEPT !.hold = h])

ReadFlag(r) ==
    /\ officer[r].pc = "checked" /\ officer[r].op = "extend"
    /\ officer' = [officer EXCEPT ![r].pc = "seen", ![r].flagSeen = doc.legalHold]
    /\ UNCHANGED <<doc, hold, listed, disposition, overtaken>>

ListDocument(r) ==
    /\ officer[r].pc = "seen" /\ MayWrite(r)
    /\ listed' = listed \cup {officer[r].hold}
    /\ Goto(r, IF officer[r].flagSeen THEN "done" ELSE "listed")
    /\ Overtake("hold", Officers \ {r})
    /\ UNCHANGED <<doc, hold, disposition>>

RaiseFlag(r) ==
    /\ officer[r].pc = "listed" /\ MayWrite(r)
    /\ doc' = [doc EXCEPT !.legalHold = TRUE]
    /\ Goto(r, "done")
    /\ Overtake("hold", Officers \ {r})
    /\ UNCHANGED <<hold, listed, disposition>>

(* DELETE legal-holds/[id]: check the hold; in a transaction mark it       *)
(* released and count the other active holds; clear the flag if there are  *)
(* none.                                                                   *)
BeginRelease(r, h) ==
    /\ hold[h] = "active"
    /\ Start(r, [Checked("release") EXCEPT !.hold = h])

OnlyHold(h) == ActiveOn(listed) \subseteq {h}

CountOtherHolds(r) ==
    /\ officer[r].pc = "checked" /\ officer[r].op = "release" /\ MayWrite(r)
    /\ officer' = [officer EXCEPT ![r].pc = "counted",
                  ![r].clears = /\ officer[r].hold \in listed
                                /\ OnlyHold(officer[r].hold)]
    /\ UNCHANGED <<doc, hold, listed, disposition, overtaken>>

CommitRelease(r) ==
    /\ officer[r].pc = "counted"
    /\ hold' = [hold EXCEPT ![officer[r].hold] = "released"]
    /\ doc' = IF officer[r].clears THEN [doc EXCEPT !.legalHold = FALSE] ELSE doc
    /\ Goto(r, "done")
    /\ UNCHANGED <<listed, disposition, overtaken>>

-----------------------------------------------------------------------------
PendingRows == {d \in DOMAIN disposition : disposition[d].status = "pending"}

(* POST dispositions, and the cron task, which looks for records only. *)
BeginRequest(r, op) ==
    /\ ~doc.deleted /\ ~doc.legalHold
    /\ op = "retention" => doc.isRecord
    /\ Start(r, Checked(op))

(* Both look for a pending disposition next, and give up if there is one. *)
FindPending(r) ==
    /\ officer[r].pc = "checked" /\ officer[r].op \in {"request", "retention"}
    /\ Goto(r, IF PendingRows = {} THEN "vacant" ELSE "done")
    /\ UNCHANGED <<doc, hold, listed, disposition, overtaken>>

CreateDisposition(r, action) ==
    /\ officer[r].pc = "vacant" /\ MayWrite(r)
    /\ Len(disposition) < MaxDispositions
    /\ disposition' = Append(disposition, [action |-> action, status |-> "pending"])
    /\ Goto(r, "done")
    /\ Overtake("pending", Officers \ {r})
    /\ UNCHANGED <<doc, hold, listed>>

(* POST dispositions/[id]/approve: the row must be pending and the         *)
(* document unheld; what follows writes by id.                             *)
BeginDecision(r, op, d) ==
    /\ d \in PendingRows
    /\ ~doc.legalHold
    /\ Start(r, [Checked(op) EXCEPT !.row = d])

SameRow(r) == {o \in Officers \ {r} : officer[o].row = officer[r].row}

Cancelled == "cancelled"

CancelDisposition(r) ==
    /\ officer[r].pc = "checked" /\ officer[r].op = "reject" /\ MayWrite(r)
    /\ disposition' = [disposition EXCEPT ![officer[r].row].status = Cancelled]
    /\ Goto(r, "done")
    /\ Overtake("decision", SameRow(r))
    /\ UNCHANGED <<doc, hold, listed>>

ExecuteDisposition(r) ==
    /\ officer[r].pc = "checked" /\ officer[r].op = "approve" /\ MayWrite(r)
    /\ doc' = IF disposition[officer[r].row].action = "delete"
              THEN [doc EXCEPT !.deleted = TRUE] ELSE doc
    /\ disposition' = [disposition EXCEPT ![officer[r].row].status = "executed"]
    /\ Goto(r, "done")
    /\ Overtake("decision", SameRow(r))
    /\ UNCHANGED <<hold, listed>>

-----------------------------------------------------------------------------
(* DELETE documents/[id] *)
BeginDelete(r) ==
    /\ ~doc.deleted /\ ~doc.legalHold /\ ~doc.isRecord
    /\ Start(r, Checked("delete"))

BeginShredBug(r) == Start(r, Checked("shred"))

(* POST crypto-shred: the key goes first, then the row is marked. *)
BeginShred(r) ==
    /\ ~doc.legalHold
    /\ Start(r, Checked("shred"))

DestroyKey(r) ==
    /\ officer[r].pc = "checked" /\ officer[r].op = "shred" /\ MayWrite(r)
    /\ doc' = [doc EXCEPT !.key = FALSE]
    /\ Goto(r, "keyless")
    /\ UNCHANGED <<hold, listed, disposition, overtaken>>

MarkDeleted(r) ==
    /\ \/ officer[r].pc = "keyless"
       \/ officer[r].pc = "checked" /\ officer[r].op = "delete"
    /\ MayWrite(r)
    /\ doc' = [doc EXCEPT !.deleted = TRUE]
    /\ Goto(r, "done")
    /\ UNCHANGED <<hold, listed, disposition, overtaken>>

(* POST declare-record *)
BeginDeclare(r) ==
    /\ ~doc.deleted /\ ~doc.isRecord
    /\ Start(r, Checked("declare"))

DeclareRecord(r) ==
    /\ officer[r].pc = "checked" /\ officer[r].op = "declare" /\ MayWrite(r)
    /\ doc' = [doc EXCEPT !.isRecord = TRUE]
    /\ Goto(r, "done")
    /\ Overtake("record", Officers \ {r})
    /\ UNCHANGED <<hold, listed, disposition>>

(* The process stops; an open transaction rolls back. *)
DropCall(r) ==
    /\ Running(r)
    /\ Goto(r, "crashed")
    /\ UNCHANGED <<doc, hold, listed, disposition, overtaken>>

Begin(r) ==
    \/ \E h \in Holds : BeginExtend(r, h) \/ BeginRelease(r, h)
    \/ \E op \in {"request", "retention"} : BeginRequest(r, op)
    \/ \E op \in {"approve", "reject"}, d \in DOMAIN disposition : BeginDecision(r, op, d)
    \/ BeginDelete(r)
    \/ BeginShred(r)
    \/ BeginDeclare(r)

Continue(r) ==
    \/ ReadFlag(r) \/ ListDocument(r) \/ RaiseFlag(r)
    \/ CountOtherHolds(r) \/ CommitRelease(r)
    \/ FindPending(r) \/ \E a \in Actions : CreateDisposition(r, a)
    \/ CancelDisposition(r) \/ ExecuteDisposition(r)
    \/ DestroyKey(r) \/ MarkDeleted(r) \/ DeclareRecord(r)

GovernanceNext ==
    \/ \E h \in Holds, names \in BOOLEAN : PlaceHold(h, names)
    \/ \E r \in Officers : Begin(r) \/ Continue(r) \/ DropCall(r)

GovernanceSpec == GovernanceInit /\ [][GovernanceNext]_governanceVars

-----------------------------------------------------------------------------
(***************************************************************************)
(* Properties.                                                             *)
(***************************************************************************)
CallType == [pc : OfficerPcs, op : Operations, hold : Holds \cup {NoHold}, row : Nat,
             flagSeen : BOOLEAN, clears : BOOLEAN]

RowType == [action : Actions, status : {"pending", "cancelled", "executed"}]

(* Types of the tables and of the invocations. *)
GovernanceTypeOK ==
    /\ doc \in [deleted : BOOLEAN, legalHold : BOOLEAN, isRecord : BOOLEAN, key : BOOLEAN]
    /\ hold \in [Holds -> {"none", "active", "released"}]
    /\ listed \subseteq Holds
    /\ disposition \in Seq(RowType)
    /\ officer \in [Officers -> CallType]
    /\ overtaken \in [Officers -> SUBSET {"hold", "pending", "decision", "record"}]

Held == ActiveOn(listed) # {}

(* The calls that were ever made, open ones included. *)
EverCalled(op) == \E r \in Officers : officer[r].pc # "idle" /\ officer[r].op = op

(* When the flag can be relied on: every hold named the document when it   *)
(* was placed, on a database that runs transactions one at a time; or no   *)
(* hold was released and every PATCH ran to its end.                       *)
FlagIsReliable ==
    \/ SerialReleases /\ ~EverCalled("extend")
    \/ /\ ~EverCalled("release")
       /\ \A r \in Officers : officer[r].op = "extend" => officer[r].pc = "done"

(* The denormalised flag agrees with the hold tables when it can be relied *)
(* on, whatever else runs: overlapping holds, releases of one of them.     *)
FlagFollowsHolds == FlagIsReliable => (doc.legalHold <=> Held)

Finishes(r) == officer[r].pc \in RunningPcs /\ officer'[r] # officer[r]

(* When the flag can be relied on, a document under an active hold is      *)
(* destroyed only by a request that had checked the flag before the hold   *)
(* was placed.                                                             *)
HeldIsDestroyedOnlyInARace ==
    [][FlagIsReliable /\ Held /\ ((~doc.deleted /\ doc'.deleted) \/ (doc.key /\ ~doc'.key))
         => \E r \in Officers : Finishes(r) /\ "hold" \in overtaken[r]]_governanceVars

(* A record leaves only by disposition or shredding, unless the DELETE had *)
(* checked before it was declared.                                         *)
RecordIsNotJustDeleted ==
    [][doc.isRecord /\ ~doc.deleted /\ doc'.deleted =>
         \E r \in Officers : /\ Finishes(r)
                             /\ officer[r].op = "delete" => "record" \in overtaken[r]]_governanceVars

(* A disposition that was cancelled or executed stays as it is, unless two *)
(* decisions on it overlapped.                                             *)
DecisionStands ==
    [][\A d \in DOMAIN disposition :
          disposition[d].status # "pending" /\ disposition'[d] # disposition[d] =>
              \E r \in Officers : Finishes(r) /\ "decision" \in overtaken[r]]_governanceVars

(* A second disposition is pending only if two requests looked for a       *)
(* pending one before either had created its own.                          *)
PendingIsSingle ==
    \A c, d \in PendingRows : c # d => \E r \in Officers : "pending" \in overtaken[r]

(* records-management.ts:126 "legalHold flag on Document, blocks deletion  *)
(* and disposition": when nothing is under way and no request has died on   *)
(* its way, a document on an active hold carries the flag that every       *)
(* destructive handler looks at.                                           *)
HeldIsFlagged ==
    Held /\ (\A r \in Officers : officer[r].pc \in {"idle", "done"}) => doc.legalHold

(* The flag agrees with the holds when it can be relied on, and pending    *)
(* dispositions are single unless requests overlapped.                     *)
GovernanceInv == GovernanceTypeOK /\ FlagFollowsHolds /\ PendingIsSingle

(* What destroys a document, or decides about it, did so by checks that    *)
(* were true, or was overtaken since.                                      *)
GovernanceSteps ==
    HeldIsDestroyedOnlyInARace /\ RecordIsNotJustDeleted /\ DecisionStands

(* The invariant of holds and dispositions, and what a step may do under   *)
(* them.                                                                   *)
GovernanceIsSound == []GovernanceInv /\ GovernanceSteps
=============================================================================
