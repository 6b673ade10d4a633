----------------------------- MODULE RecordFolders -----------------------------
(***************************************************************************)
(* A record folder of the file plan and its category                       *)
(* (src/lib/records/records-management.ts and api/records): creation,      *)
(* cutoff, disposal, the hold on the category, and the edits               *)
(* administrators make to the rows as they stand.                          *)
(*                                                                         *)
(* Cutoff and disposal read the folder, decide, and update it by id in a   *)
(* later statement.  The row a disposal then inserts into                  *)
(* DispositionRecord names the folder where the schema wants a document,   *)
(* so the insertion is refused and the request fails; nothing is undone.   *)
(***************************************************************************)
EXTENDS Naturals

CONSTANTS
    Clerks,         \* invocations of the handlers
    MaxEdits        \* bound: edits by administrators

ASSUME FolderAssumption == MaxEdits \in Nat

Methods == {"destroyed", "transferred"}

VARIABLES
    category,       \* the row of RecordCategory: there, and held
    folder,         \* the row of RecordFolder
    disposals,      \* history: how often the folder was disposed of
    clerk,          \* the invocations: program counter and locals
    edits,          \* how many edits there were
    passed,         \* history: what changed under a clerk after its check
    overwritten     \* history: an administrator set a status, or a clerk wrote
                    \* the folder over a write it had not read

folderVars == <<category, folder, disposals, clerk, edits, passed, overwritten>>

NoFolder == [status |-> "none", method |-> "none"]
Waiting  == [pc |-> "idle", method |-> "none"]

FolderInit ==
    /\ category = [there |-> TRUE, held |-> FALSE]
    /\ folder = NoFolder
    /\ disposals = 0
    /\ clerk = [c \in Clerks |-> Waiting]
    /\ edits = 0
    /\ passed = [c \in Clerks |-> {}]
    /\ overwritten = FALSE

GoTo(c, pc) == clerk' = [clerk EXCEPT ![c].pc = pc]

(* The clerks who have read the folder and not yet written it. *)
Examined(c) == clerk[c].pc \in {"cutting", "disposing"}

Pass(k, cs) ==
    passed' = [c \in Clerks |-> IF c \in cs /\ Examined(c) THEN passed[c] \cup {k}
                                ELSE passed[c]]

-----------------------------------------------------------------------------
(* createRecordFolder, if the category is there when it is read; a row     *)
(* whose category is gone is refused.                                      *)
CreateFolder ==
    /\ folder = NoFolder /\ category.there
    /\ folder' = [NoFolder EXCEPT !.status = "open"]
    /\ UNCHANGED <<category, disposals, clerk, edits, passed, overwritten>>

BeginClerk(c, pc, method) ==
    /\ clerk[c].pc = "idle"
    /\ clerk' = [clerk EXCEPT ![c] = [pc |-> pc, method |-> method]]
    /\ passed' = [passed EXCEPT ![c] = {}]
    /\ UNCHANGED <<category, folder, disposals, edits, overwritten>>

BeginCutoff(c) == folder.status = "open" /\ BeginClerk(c, "cutting", "none")

(* The definition after it without the question about the hold. *)
DisposableBug == folder.status = "cutoff"

Disposable == folder.status = "cutoff" /\ ~category.held

BeginDisposal(c) == Disposable /\ \E m \in Methods : BeginClerk(c, "disposing", m)

(* The update by id; a folder that is gone fails the request. *)
WriteFolder(c, row) ==
    /\ GoTo(c, "idle")
    /\ IF folder.status = "none"
       THEN UNCHANGED <<folder, passed, overwritten>>
       ELSE /\ folder' = row
            /\ overwritten' = (overwritten \/ "folder" \in passed[c])
            /\ Pass("folder", Clerks \ {c})
    /\ UNCHANGED <<category, edits>>

CutOff(c) ==
    /\ clerk[c].pc = "cutting"
    /\ WriteFolder(c, [folder EXCEPT !.status = "cutoff"])
    /\ UNCHANGED disposals

Dispose(c) ==
    /\ clerk[c].pc = "disposing"
    /\ WriteFolder(c, [status |-> "disposed", method |-> clerk[c].method])
    /\ disposals' = IF folder.status = "none" THEN disposals ELSE disposals + 1

StopClerk(c) ==
    /\ clerk[c].pc # "idle"
    /\ GoTo(c, "idle")
    /\ UNCHANGED <<category, folder, disposals, edits, passed, overwritten>>

-----------------------------------------------------------------------------
Edit == edits < MaxEdits /\ edits' = edits + 1

(* PATCH categories/[id] writes the body it gets: the hold, among others. *)
SetHold(held) ==
    /\ Edit /\ category.there
    /\ category' = [category EXCEPT !.held = held]
    /\ Pass("hold", Clerks)
    /\ UNCHANGED <<folder, disposals, clerk, overwritten>>

(* PATCH folders/[id] does the same, and any status is a status. *)
EditStatus(status) ==
    /\ Edit /\ folder.status # "none"
    /\ folder' = [folder EXCEPT !.status = status]
    /\ overwritten' = TRUE
    /\ Pass("folder", Clerks)
    /\ UNCHANGED <<category, disposals, clerk>>

(* DELETE categories/[id] takes its folders with it. *)
DeleteCategory ==
    /\ Edit /\ category.there
    /\ category' = [category EXCEPT !.there = FALSE]
    /\ folder' = NoFolder
    /\ UNCHANGED <<disposals, clerk, passed, overwritten>>

FolderNext ==
    \/ CreateFolder
    \/ \E c \in Clerks :
          \/ BeginCutoff(c) \/ BeginDisposal(c) \/ CutOff(c) \/ Dispose(c)
          \/ StopClerk(c)
    \/ \E held \in BOOLEAN : SetHold(held)
    \/ \E status \in {"open", "cutoff"} : EditStatus(status)
    \/ DeleteCategory

FolderSpec == FolderInit /\ [][FolderNext]_folderVars

-----------------------------------------------------------------------------
(* Types of the rows and of the invocations. *)
FolderTypeOK ==
    /\ category \in [there : BOOLEAN, held : BOOLEAN]
    /\ folder \in [status : {"none", "open", "cutoff", "disposed"},
                   method : Methods \cup {"none"}]
    /\ disposals \in Nat
    /\ clerk \in [Clerks -> [pc : {"idle", "cutting", "disposing"},
                             method : Methods \cup {"none"}]]
    /\ passed \in [Clerks -> SUBSET {"hold", "folder"}]
    /\ overwritten \in BOOLEAN

(* A folder is disposed of only when it was cut off and its category was   *)
(* not held, and is cut off only when open, unless a hold, another clerk   *)
(* or an administrator came in between the check and the write.            *)
DisposalIsChecked ==
    [][ \A c \in Clerks :
          Examined(c) /\ folder' # folder /\ clerk'[c] # clerk[c] =>
              \/ passed[c] # {}
              \/ /\ folder'.status = "disposed"
                 /\ folder.status = "cutoff" /\ ~category.held
              \/ folder'.status = "cutoff" /\ folder.status = "open" ]_folderVars

(* A folder is disposed of once, unless an administrator set its status or *)
(* a clerk wrote over what it had not read.                                *)
DisposedOnce == disposals > 1 => overwritten

(* The rows are well typed, and a disposal is not repeated for no reason. *)
FolderInv == FolderTypeOK /\ DisposedOnce

(* What the rows are, and what a clerk's step may do to them. *)
FoldersAreSound == []FolderInv /\ DisposalIsChecked
===============================================================================
