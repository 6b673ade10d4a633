---------------------------- MODULE DocumentEditing ----------------------------
(***************************************************************************)
(* The lock and the classification of a document: documents/[id] (PATCH),  *)
(* documents/[id]/lock and /close, folders/[id]/apply-classification, and  *)
(* the legal hold that these look at.                                      *)
(*                                                                         *)
(* Every handler reads the document, decides, and updates it by id in a    *)
(* later statement.  A change of class and its row of ClassificationChange *)
(* are one transaction, but the row says what the read saw.  A lock does   *)
(* not end with lockedUntil, which nothing reads.                          *)
(*                                                                         *)
(* The users may change security fields (document:read); a class is its    *)
(* level, and 0 no class.                                                  *)
(***************************************************************************)
EXTENDS Naturals, Sequences

CONSTANTS
    Editors,        \* invocations of the handlers
    Staff,          \* who calls them
    MayDowngrade,   \* users with document:classify.downgrade
    Admins,         \* users with admin:view, who unlock and classify folders
    Nobody,
    MaxLevel,       \* the highest level of a class
    MaxEditOps      \* bound: invocations, and changes of the hold, in all

ASSUME EditAssumption ==
    /\ MayDowngrade \cup Admins \subseteq Staff /\ Nobody \notin Staff
    /\ {MaxLevel, MaxEditOps} \subseteq Nat

Levels == 0 .. MaxLevel

VARIABLES
    docRow,         \* the row of Document: level, lock, hold, last editor
    log,            \* the rows of ClassificationChange
    editor,         \* the invocations: program counter and locals
    editOps,        \* how many invocations and changes of the hold there were
    firstLevel,     \* history: the level the document was created with
    lapsed          \* history: a class was written over one nobody had read

editVars == <<docRow, log, editor, editOps, firstLevel, lapsed>>

(* `given` says whether the body names a class, `saw` what the read saw. *)
NoEdit == [pc |-> "idle", user |-> Nobody, given |-> FALSE, saw |-> 0, level |-> 0,
           passed |-> {}]

EditInit ==
    /\ firstLevel \in Levels
    /\ docRow = [level |-> firstLevel, lockedBy |-> Nobody, held |-> FALSE, editedBy |-> Nobody]
    /\ log = <<>>
    /\ editor = [e \in Editors |-> NoEdit]
    /\ editOps = 0
    /\ lapsed = FALSE

-----------------------------------------------------------------------------
BeginEdit(e, pc, u, given, level) ==
    /\ editOps < MaxEditOps /\ editor[e].pc = "idle"
    /\ editOps' = editOps + 1
    /\ editor' = [editor EXCEPT ![e] = 
          [NoEdit EXCEPT !.pc = pc, !.user = u, !.given = given, !.saw = docRow.level,
                         !.level = level]]
    /\ UNCHANGED <<docRow, log, firstLevel, lapsed>>

Unlocked(u) == docRow.lockedBy \in {Nobody, u}

Downgrades(from, to) == from # 0 /\ to # 0 /\ to < from

(* The definition after it, if holds did not count. *)
MayPatchBug(u, level) ==
    /\ Unlocked(u)
    /\ Downgrades(docRow.level, level) => u \in MayDowngrade

(* A class may be taken away by anyone, hold or not: that is no downgrade. *)
MayPatch(u, level) ==
    /\ Unlocked(u)
    /\ Downgrades(docRow.level, level) => u \in MayDowngrade /\ ~docRow.held

BeginPatch(e, u, given, level) ==
    /\ ~given => level = docRow.level
    /\ MayPatch(u, level)
    /\ BeginEdit(e, "patching", u, given, level)

BeginClose(e, u) == Unlocked(u) /\ BeginEdit(e, "closing", u, FALSE, docRow.level)

BeginLock(e, u) == docRow.lockedBy = Nobody /\ BeginEdit(e, "locking", u, FALSE, 0)

BeginUnlock(e, u) ==
    /\ docRow.lockedBy # Nobody
    /\ docRow.lockedBy = u \/ u \in Admins
    /\ BeginEdit(e, "unlocking", u, FALSE, 0)

(* A folder's documents are listed without those under hold, whoever has   *)
(* locked them.                                                            *)
BeginApply(e, u, level) ==
    /\ u \in Admins /\ level # 0 /\ ~docRow.held
    /\ BeginEdit(e, "applying", u, level # docRow.level, level)

(* What e writes, others who have read the row did not see. *)
Change(e, row) ==
    LET new == {k \in {"level", "lockedBy", "held"} : row[k] # docRow[k]} IN
    /\ docRow' = row
    /\ editor' = [o \in Editors |->
          IF o = e \/ editor[o].pc = "idle" THEN NoEdit
          ELSE [editor[o] EXCEPT !.passed = @ \cup new]]

Row(e) == [from |-> editor[e].saw, to |-> editor[e].level,
           down |-> Downgrades(editor[e].saw, editor[e].level)]

Recorded(e) == IF editor[e].saw = editor[e].level THEN log ELSE Append(log, Row(e))

(* A body that names the class the read saw writes it, without a row. *)
Classify(e, by) ==
    /\ log' = Recorded(e)
    /\ lapsed' = (lapsed \/ (editor[e].given /\ "level" \in editor[e].passed))
    /\ Change(e, [docRow EXCEPT !.level = IF editor[e].given THEN editor[e].level ELSE @,
                             !.editedBy = by])
    /\ UNCHANGED <<editOps, firstLevel>>

Patch(e) == editor[e].pc = "patching" /\ Classify(e, editor[e].user)

ApplyClass(e) == editor[e].pc = "applying" /\ Classify(e, docRow.editedBy)

Close(e) ==
    /\ editor[e].pc = "closing"
    /\ Change(e, [docRow EXCEPT !.editedBy = editor[e].user])
    /\ UNCHANGED <<log, editOps, firstLevel, lapsed>>

Lock(e) ==
    /\ editor[e].pc = "locking"
    /\ Change(e, [docRow EXCEPT !.lockedBy = editor[e].user])
    /\ UNCHANGED <<log, editOps, firstLevel, lapsed>>

Unlock(e) ==
    /\ editor[e].pc = "unlocking"
    /\ Change(e, [docRow EXCEPT !.lockedBy = Nobody])
    /\ UNCHANGED <<log, editOps, firstLevel, lapsed>>

(* The legal-hold routes put a document under hold and release it. *)
SetDocumentHold ==
    /\ editOps < MaxEditOps
    /\ editOps' = editOps + 1
    /\ Change(Nobody, [docRow EXCEPT !.held = ~@])
    /\ UNCHANGED <<log, firstLevel, lapsed>>

EditNext ==
    \/ \E e \in Editors :
          \/ \E u \in Staff :
                \/ BeginClose(e, u) \/ BeginLock(e, u) \/ BeginUnlock(e, u)
                \/ \E level \in Levels :
                      \/ BeginApply(e, u, level)
                      \/ \E given \in BOOLEAN : BeginPatch(e, u, given, level)
          \/ Patch(e) \/ ApplyClass(e) \/ Close(e) \/ Lock(e) \/ Unlock(e)
    \/ SetDocumentHold

EditSpec == EditInit /\ [][EditNext]_editVars

-----------------------------------------------------------------------------
EditTypeOK ==
    /\ docRow \in [level : Levels, lockedBy : Staff \cup {Nobody}, held : BOOLEAN,
                editedBy : Staff \cup {Nobody}]
    /\ editor \in [Editors ->
          [pc : {"idle", "patching", "applying", "closing", "locking", "unlocking"},
           user : Staff \cup {Nobody}, given : BOOLEAN, saw : Levels, level : Levels,
           passed : SUBSET {"level", "lockedBy", "held"}]]
    /\ log \in Seq([from : Levels, to : Levels, down : BOOLEAN])
    /\ editOps \in 0 .. MaxEditOps
    /\ firstLevel \in Levels /\ lapsed \in BOOLEAN

ClassBefore(i) == IF i = 1 THEN firstLevel ELSE log[i - 1].to

(* The rows of ClassificationChange lead, one by one, from the class the   *)
(* document was created with to the class it has, and call a step a        *)
(* downgrade when it is one, unless a handler wrote its class over one it  *)
(* had not read (documents/[id]/route.ts:161-221,                          *)
(* apply-classification/route.ts:46-88).                                   *)
HistoryLeadsToTheClass ==
    ~lapsed =>
        /\ docRow.level = ClassBefore(Len(log) + 1)
        /\ \A i \in 1 .. Len(log) :
              /\ log[i].from = ClassBefore(i) /\ log[i].from # log[i].to
              /\ log[i].down <=> Downgrades(ClassBefore(i), log[i].to)

(* The row and its history agree. *)
EditInv == EditTypeOK /\ HistoryLeadsToTheClass

Writes(e) == editor[e].pc # "idle" /\ editor'[e].pc = "idle"

(* Races aside, nobody edits what another has locked, takes over a lock or *)
(* opens the lock of another without being an administrator; and the class *)
(* of a document under hold is not lowered, except by one who takes it     *)
(* away altogether (documents/[id]/route.ts:146-173, lock/route.ts:30,76). *)
EditsAreChecked ==
    [][ \A e \in Editors : Writes(e) =>
          LET u == editor[e].user IN
          /\ "lockedBy" \notin editor[e].passed =>
                /\ editor[e].pc \in {"patching", "closing"} => docRow.lockedBy \in {Nobody, u}
                /\ docRow'.lockedBy = u => docRow.lockedBy \in {Nobody, u}
                /\ docRow'.lockedBy # docRow.lockedBy => docRow.lockedBy \in {Nobody, u} \/ u \in Admins
          /\ editor[e].passed \cap {"level", "held"} = {} /\ Downgrades(docRow.level, docRow'.level) =>
                ~docRow.held /\ u \in MayDowngrade \cup Admins ]_editVars

(* The history leads to the row, and races aside every edit was checked.   *)
EditsAreSound == []EditInv /\ EditsAreChecked
===============================================================================
