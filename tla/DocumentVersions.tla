-------------------------- MODULE DocumentVersions --------------------------
(***************************************************************************)
(* The version history of one document: new versions                       *)
(* (src/app/api/documents/[id]/versions/route.ts), restores of old ones    *)
(* (versions/[vid]/restore), redactions (redact), and what destroys it     *)
(* (crypto-shred and DELETE), over the table DocumentVersion, the object   *)
(* storage, and the document's data key in DocumentEncryptionKey.          *)
(*                                                                         *)
(* Every write of a version is the same transaction: take a number, seal   *)
(* the bytes, put them in storage, insert the row, update the document.    *)
(* What is read before the transaction - the document, the source version, *)
(* the key - may be stale by the time it runs, and the key is read through *)
(* the other connection even inside it.  The steps are those another       *)
(* request can come between on PostgreSQL at READ COMMITTED; SQLite, which *)
(* keeps writers out while a transaction is open, allows fewer of them.    *)
(*                                                                         *)
(* The document's lock and its legal hold are left out: an unlocked        *)
(* document without a hold.                                                *)
(***************************************************************************)
EXTENDS Naturals, FiniteSets

CONSTANTS
    Writers,        \* invocations of the handlers
    Texts,          \* what an uploaded file may say
    FirstText,      \* what version 1 says
    MaxVersions     \* MAX_VERSIONS_PER_DOCUMENT

ASSUME TextAssumption == FirstText \in Texts
ASSUME CapAssumption  == MaxVersions \in Nat \ {0}
ASSUME FirstKeyAssumption == "first" \notin Writers

VersionOperations == {"upload", "restore", "redact", "shred", "delete"}
WaitingPcs == {"fetched", "ready", "open", "stored", "destroying", "keyless"}
VersionPcs        == {"idle", "done", "failed"} \cup WaitingPcs

VARIABLES
    version,    \* rows of table DocumentVersion
    object,     \* the object storage: bytes by storage key
    document,   \* the row of table Document
    dek,        \* whether the document's key is still there
    writer         \* the invocations: program counter and locals

versionVars == <<version, object, document, dek, writer>>

(* Bytes as somebody reads them: a text, how often it was redacted, and    *)
(* whether they are only the cipher text of it.                            *)
Body(t) == [text |-> t, marks |-> 0, cipher |-> FALSE]

Redacted(b) == [b EXCEPT !.marks = @ + 1]

(* Operators named ...Bug are the definition after them with a mistake an  *)
(* edit of the code could make; no behaviour of the module uses them.      *)

(* buildStorageKey puts random bytes into every key: one key per request.  *)
StorageKey(r, number) == r

StorageKeys == DOMAIN object

FirstRow == [number |-> 1, key |-> "first", checksum |-> Body(FirstText),
             sealed |-> TRUE, op |-> "upload", derivedFrom |-> 0]

NothingDone == [pc |-> "idle", op |-> "upload", body |-> Body(FirstText),
                source |-> FirstRow, key |-> FALSE, number |-> 0, sealed |-> FALSE]

(* POST /api/documents created the document, its key and version 1. *)
VersionInit ==
    /\ version = {FirstRow}
    /\ object = [k \in {"first"} |-> [body |-> Body(FirstText), sealed |-> TRUE]]
    /\ document = [state |-> "draft", currentVersion |-> 1]
    /\ dek = TRUE
    /\ writer = [r \in Writers |-> NothingDone]

-----------------------------------------------------------------------------
(* findFirst orderBy versionNumber desc *)
LatestRow == CHOOSE v \in version : \A w \in version : w.number <= v.number

(* The bytes of a stored version, opened if its row has an IV and the      *)
(* request has a key; else taken as they are.                              *)
Opened(row, key) ==
    LET o == object[row.key]
    IN  IF o.sealed /\ ~(row.sealed /\ key) THEN [o.body EXCEPT !.cipher = TRUE]
        ELSE o.body

StepTo(r, pc) == writer' = [writer EXCEPT ![r].pc = pc]

(* The handlers read the document first. *)
BeginUpload(r, t) ==
    /\ writer[r].pc = "idle"
    /\ document.state = "draft"
    /\ writer' = [writer EXCEPT ![r] = [NothingDone EXCEPT !.pc = "ready", !.op = "upload",
                                                     !.body = Body(t)]]
    /\ UNCHANGED <<version, object, document, dek>>

BeginRestore(r, source) ==
    /\ writer[r].pc = "idle"
    /\ document.state = "draft"
    /\ writer' = [writer EXCEPT ![r] = [NothingDone EXCEPT !.pc = "fetched", !.op = "restore",
                                                     !.source = source]]
    /\ UNCHANGED <<version, object, document, dek>>

BeginRedact(r) ==
    /\ writer[r].pc = "idle"
    /\ document.state = "draft"
    /\ writer' = [writer EXCEPT ![r] = [NothingDone EXCEPT !.pc = "fetched", !.op = "redact",
                                                     !.source = LatestRow]]
    /\ UNCHANGED <<version, object, document, dek>>

(* Crypto-shredding does not ask whether the document is deleted. *)
BeginShredding(r) ==
    /\ writer[r].pc = "idle"
    /\ writer' = [writer EXCEPT ![r] = [NothingDone EXCEPT !.pc = "destroying", !.op = "shred"]]
    /\ UNCHANGED <<version, object, document, dek>>

BeginDeletion(r) ==
    /\ writer[r].pc = "idle"
    /\ document.state = "draft"
    /\ writer' = [writer EXCEPT ![r] = [NothingDone EXCEPT !.pc = "destroying", !.op = "delete"]]
    /\ UNCHANGED <<version, object, document, dek>>

(* A restore reads the key and the source's bytes before its transaction.  *)
OpenForRestore(r) ==
    /\ writer[r].pc = "fetched" /\ writer[r].op = "restore"
    /\ writer' = [writer EXCEPT ![r].pc = "ready", ![r].key = dek,
                          ![r].body = Opened(writer[r].source, dek)]
    /\ UNCHANGED <<version, object, document, dek>>

(* So does a redaction; it refuses a version without an IV while there is  *)
(* a key, and bytes it cannot parse.                                       *)
Redactable(row) == (dek => row.sealed) /\ ~Opened(row, dek).cipher

OpenForRedact(r) ==
    /\ writer[r].pc = "fetched" /\ writer[r].op = "redact"
    /\ Redactable(writer[r].source)
    /\ writer' = [writer EXCEPT ![r].pc = "ready",
                          ![r].body = Redacted(Opened(writer[r].source, dek))]
    /\ UNCHANGED <<version, object, document, dek>>

RedactRefused(r) ==
    /\ writer[r].pc = "fetched" /\ writer[r].op = "redact"
    /\ ~Redactable(writer[r].source)
    /\ StepTo(r, "failed")
    /\ UNCHANGED <<version, object, document, dek>>

-----------------------------------------------------------------------------
(* The transaction takes the number after the latest row's; a redaction    *)
(* takes the one after its source, whatever was added since.               *)
NextNumber(r) ==
    IF writer[r].op = "redact" THEN writer[r].source.number + 1 ELSE LatestRow.number + 1

(* The cap is compared with the number before. *)
UploadRefusedBug(r) ==
    /\ writer[r].op = "upload"
    /\ LatestRow.number > MaxVersions \/ LatestRow.checksum = writer[r].body

(* An upload is refused at the cap, and when it changes nothing. *)
UploadRefused(r) ==
    /\ writer[r].op = "upload"
    /\ NextNumber(r) > MaxVersions \/ LatestRow.checksum = writer[r].body

OpenTransaction(r) ==
    /\ writer[r].pc = "ready"
    /\ IF UploadRefused(r)
       THEN StepTo(r, "failed")
       ELSE writer' = [writer EXCEPT ![r].pc = "open", ![r].number = NextNumber(r)]
    /\ UNCHANGED <<version, object, document, dek>>

(* Seal the bytes if there is a key and put them in storage.  A restore    *)
(* has its key already, the others read it now.                            *)
Store(r) ==
    /\ writer[r].pc = "open"
    /\ LET key == IF writer[r].op = "restore" THEN writer[r].key ELSE dek
           k   == StorageKey(r, writer[r].number)
       IN  /\ object' = [x \in StorageKeys \cup {k} |->
                IF x = k THEN [body |-> writer[r].body, sealed |-> key] ELSE object[x]]
           /\ writer' = [writer EXCEPT ![r].pc = "stored", ![r].sealed = key]
    /\ UNCHANGED <<version, document, dek>>

NumberTakenBug(n) == FALSE

NumberTaken(n) == \E v \in version : v.number = n

RowOf(r) ==
    [number |-> writer[r].number, key |-> StorageKey(r, writer[r].number),
     checksum |-> writer[r].body, sealed |-> writer[r].sealed, op |-> writer[r].op,
     derivedFrom |-> IF writer[r].op = "redact" THEN writer[r].source.number ELSE 0]

(* Insert the row, point the document at it, commit. *)
CommitVersion(r) ==
    /\ writer[r].pc = "stored"
    /\ ~NumberTaken(writer[r].number)
    /\ version' = version \cup {RowOf(r)}
    /\ document' = [document EXCEPT !.currentVersion = writer[r].number]
    /\ StepTo(r, "done")
    /\ UNCHANGED <<object, dek>>

(* The unique index on (documentId, versionNumber) refuses the row. *)
LoseNumber(r) ==
    /\ writer[r].pc = "stored"
    /\ NumberTaken(writer[r].number)
    /\ StepTo(r, "failed")
    /\ UNCHANGED <<version, object, document, dek>>

(* A process dies, or the transaction runs into its time limit while the   *)
(* storage is slow: the rows roll back, the object stays.                  *)
Fail(r) ==
    /\ writer[r].pc \in WaitingPcs
    /\ StepTo(r, "failed")
    /\ UNCHANGED <<version, object, document, dek>>

-----------------------------------------------------------------------------
(* cryptoShredDocument *)
DeleteKey(r) ==
    /\ writer[r].pc = "destroying" /\ writer[r].op = "shred"
    /\ dek' = FALSE
    /\ StepTo(r, "keyless")
    /\ UNCHANGED <<version, object, document>>

(* Document.state of a document whose deletedAt is set. *)
FinalState(r) == IF writer[r].op = "shred" THEN "disposed" ELSE "archived"

(* The update that ends both handlers. *)
MarkState(r) ==
    /\ \/ writer[r].pc = "keyless"
       \/ writer[r].pc = "destroying" /\ writer[r].op = "delete"
    /\ document' = [document EXCEPT !.state = FinalState(r)]
    /\ StepTo(r, "done")
    /\ UNCHANGED <<version, object, dek>>

ContinueWrite(r) ==
    OpenForRestore(r) \/ OpenForRedact(r) \/ RedactRefused(r) \/ OpenTransaction(r)
    \/ Store(r) \/ CommitVersion(r) \/ LoseNumber(r) \/ DeleteKey(r) \/ MarkState(r)

BeginWrite(r) ==
    \/ \E t \in Texts : BeginUpload(r, t)
    \/ \E source \in version : BeginRestore(r, source)
    \/ BeginRedact(r)
    \/ BeginShredding(r)
    \/ BeginDeletion(r)

VersionNext == \E r \in Writers : BeginWrite(r) \/ ContinueWrite(r) \/ Fail(r)

VersionSpec == VersionInit /\ [][VersionNext]_versionVars

-----------------------------------------------------------------------------
(***************************************************************************)
(* Properties.                                                             *)
(***************************************************************************)
Bodies == [text : Texts, marks : Nat, cipher : BOOLEAN]

Rows == [number : Nat \ {0}, key : Writers \cup {"first"}, checksum : Bodies,
         sealed : BOOLEAN, op : {"upload", "restore", "redact"}, derivedFrom : Nat]

(* Types of the tables, the storage and the invocations. *)
VersionTypeOK ==
    /\ version \subseteq Rows
    /\ StorageKeys \subseteq Writers \cup {"first"}
    /\ object \in [StorageKeys -> [body : Bodies, sealed : BOOLEAN]]
    /\ document \in [state : {"draft", "archived", "disposed"}, currentVersion : Nat \ {0}]
    /\ dek \in BOOLEAN
    /\ writer \in [Writers -> [pc : VersionPcs, op : VersionOperations, body : Bodies, source : Rows,
                             key : BOOLEAN, number : Nat, sealed : BOOLEAN]]

(* Whatever uploads, restores and redactions race, the history is numbered *)
(* 1, 2, 3, ... with no number missing or used twice, and the document     *)
(* points at its end, although redact/route.ts:127 numbers from a version  *)
(* it read before its transaction.                                         *)
HistoryIsDense ==
    /\ \A v, w \in version : v.number = w.number => v = w
    /\ {v.number : v \in version} = 1 .. document.currentVersion

(* Every row of the history has its bytes in storage, and opening them the *)
(* way the row says gives what its checksum was taken of: a failed         *)
(* transaction, a lost race or a shredding never leaves a row that does    *)
(* not match its object.                                                   *)
RowMatchesObject ==
    \A v \in version :
        /\ v.key \in StorageKeys
        /\ object[v.key].sealed = v.sealed
        /\ object[v.key].body = v.checksum

(* A redaction is made of the version right before it: nothing uploaded    *)
(* while redact/route.ts worked on its source is buried under it.          *)
RedactionFollowsSource ==
    \A v \in version : v.op = "redact" =>
        \E s \in version : /\ s.number = v.derivedFrom
                           /\ v.number = s.number + 1
                           /\ v.checksum = Redacted(s.checksum)

(* versions/route.ts:114 "Reject no-op versions (identical checksum)": two *)
(* concurrent uploads of one file do not get past the check either.        *)
UploadsChangeContent ==
    \A v, w \in version :
        (v.number = w.number + 1 /\ v.op = "upload") => v.checksum # w.checksum

(* README.md:193 "Versioning - immutable history": a committed version     *)
(* stays, and so do its bytes.                                             *)
HistoryIsKept ==
    [][\A v \in version : /\ v \in version'
                          /\ object'[v.key] = object[v.key]]_versionVars

(* The history as its readers have it: what storage holds of each number.  *)
Numbered(n) == CHOOSE v \in version : v.number = n

History == INSTANCE VersionHistory WITH
    history  <- [n \in 1 .. document.currentVersion |-> object[Numbered(n).key]],
    shredded <- ~dek

(* Rows, storage and key implement an append-only history, whatever        *)
(* overtakes what: uploads differ from the version they end up behind and  *)
(* stay below the cap, redactions hide the version before them, restores   *)
(* copy one that is there, and unsealed bytes are written and garbled ones *)
(* copied only once the key is gone; rows and bytes stay.                  *)
ImplementsHistory == HistoryIsKept /\ History!HistorySpec

(* docs/SECURITY.md:111 "delete the DEK -> content is permanently          *)
(* unrecoverable": once the key is gone and every request has ended, no    *)
(* version can be read from storage without a key.                         *)
ShreddedIsUnreadable ==
    (~dek /\ \A r \in Writers : writer[r].pc \notin WaitingPcs) =>
        \A v \in version : object[v.key].sealed \/ object[v.key].body.cipher

(* The history is well typed and dense, matches the storage, grows by      *)
(* files that differ, and every redaction follows its source.                                 *)
VersionInv == /\ VersionTypeOK /\ HistoryIsDense /\ RowMatchesObject
              /\ RedactionFollowsSource /\ UploadsChangeContent
=============================================================================
