-------------------------- MODULE DocumentsProofs ---------------------------
(*************************************************************************)
(* A document: its versions, its class and lock, its holds and           *)
(* dispositions, and the tree of the folders it is filed in.             *)
(*************************************************************************)
EXTENDS DocumentVersions, DocumentEditing, DocumentGovernance, FolderTree,
        Sequences, TLAPS

-----------------------------------------------------------------------------
(*************************************************************************)
(* The safety properties of DocumentVersions, for any number of concurrent *)
(* requests, any texts and any cap.                                      *)
(*                                                                       *)
(* A number is taken as one more than that of a version that is there, and *)
(* versions never go away; so a number that is still free when the row is *)
(* inserted can only be the next one, however old the read behind it is. *)
(*************************************************************************)

WriterType ==
    [pc : VersionPcs, op : VersionOperations, body : Bodies, source : Rows,
     key : BOOLEAN, number : Nat, sealed : BOOLEAN]

DocumentType == [state : {"draft", "archived", "disposed"}, currentVersion : Nat \ {0}]

Writing == {"upload", "restore", "redact"}

(* What invocation r, in state w, may rely on while it waits. *)
Sound(r, w) ==
    /\ w \in WriterType
    /\ w.pc # "done" => \A v \in version : v.key # r
    /\ w.pc \in {"fetched", "ready", "open", "stored"} =>
          /\ w.op \in Writing
          /\ w.op # "upload" => w.source \in version
    /\ w.pc \in {"ready", "open", "stored"} /\ w.op = "redact" =>
          w.body = Redacted(w.source.checksum)
    /\ w.pc \in {"open", "stored"} =>
          /\ \E v \in version : w.number = v.number + 1
          /\ w.op = "redact" => w.number = w.source.number + 1
          /\ w.op = "upload" =>
                \A v \in version : w.number = v.number + 1 => v.checksum # w.body
    /\ w.pc = "stored" =>
          r \in StorageKeys /\ object[r] = [body |-> w.body, sealed |-> w.sealed]

VersionChecks == VersionInv /\ \A r \in Writers : Sound(r, writer[r])

LEMMA FirstFacts ==
    /\ FirstRow \in Rows /\ NothingDone \in WriterType
    /\ NothingDone.pc = "idle" /\ FirstRow.number = 1 /\ FirstRow.key = "first"
    /\ FirstRow.op = "upload" /\ FirstRow.checksum = Body(FirstText) /\ FirstRow.sealed = TRUE
  <1>1. Body(FirstText) \in Bodies
    BY TextAssumption DEF Body, Bodies
  <1> QED
    BY <1>1 DEF FirstRow, Rows, NothingDone, WriterType, VersionPcs, VersionOperations

LEMMA VersionsStart == VersionInit => VersionChecks
  <1> SUFFICES ASSUME VersionInit PROVE VersionChecks
    OBVIOUS
  <1>1. /\ version = {FirstRow} /\ dek = TRUE
        /\ object = [k \in {"first"} |-> [body |-> Body(FirstText), sealed |-> TRUE]]
        /\ document = [state |-> "draft", currentVersion |-> 1]
        /\ writer = [r \in Writers |-> NothingDone]
    BY DEF VersionInit
  <1>2. Body(FirstText) \in Bodies
    BY TextAssumption DEF Body, Bodies
  <1>3. VersionTypeOK
    <2>1. object \in [StorageKeys -> [body : Bodies, sealed : BOOLEAN]]
          /\ StorageKeys = {"first"}
      BY <1>1, <1>2 DEF StorageKeys
    <2>2. writer \in [Writers -> WriterType] /\ version \subseteq Rows
      BY <1>1, FirstFacts
    <2>3. dek \in BOOLEAN
      BY <1>1
    <2> QED
      BY <1>1, <2>1, <2>2, <2>3 DEF VersionTypeOK, WriterType
  <1>4. HistoryIsDense
    <2>1. {v.number : v \in version} = {1} /\ 1 .. document.currentVersion = {1}
      BY <1>1, FirstFacts
    <2> QED
      BY <1>1, <2>1 DEF HistoryIsDense
  <1>5. RowMatchesObject
    BY <1>1, FirstFacts DEF RowMatchesObject, StorageKeys
  <1>6. RedactionFollowsSource /\ UploadsChangeContent
    BY <1>1, FirstFacts DEF RedactionFollowsSource, UploadsChangeContent
  <1>7. ASSUME NEW r \in Writers PROVE Sound(r, writer[r])
    BY <1>1, FirstFacts, FirstKeyAssumption DEF Sound
  <1> QED
    BY <1>3, <1>4, <1>5, <1>6, <1>7 DEF VersionChecks, VersionInv

(* The latest row bears the number the document points at. *)
LEMMA LatestFacts ==
    ASSUME VersionChecks
    PROVE  /\ LatestRow \in version /\ LatestRow \in Rows
           /\ LatestRow.number = document.currentVersion
           /\ document.currentVersion \in Nat \ {0}
           /\ \A v \in version : v.number \in 1 .. document.currentVersion
           /\ \A v, w \in version : v.number = w.number => v = w
  <1>1. /\ document.currentVersion \in Nat \ {0} /\ version \subseteq Rows
        /\ {v.number : v \in version} = 1 .. document.currentVersion
        /\ \A v, w \in version : v.number = w.number => v = w
    BY DEF VersionChecks, VersionInv, VersionTypeOK, HistoryIsDense
  <1>2. \A v \in version : v.number \in 1 .. document.currentVersion
    BY <1>1
  <1>3. PICK last \in version : last.number = document.currentVersion
    <2>1. document.currentVersion \in 1 .. document.currentVersion
      BY <1>1
    <2> QED
      BY <1>1, <2>1
  <1>4. \A w \in version : w.number <= last.number
    BY <1>1, <1>2, <1>3
  <1>5. LatestRow \in version /\ \A w \in version : w.number <= LatestRow.number
    BY <1>4 DEF LatestRow
  <1>6. LatestRow.number = document.currentVersion
    BY <1>1, <1>2, <1>3, <1>5
  <1> QED
    BY <1>1, <1>2, <1>5, <1>6

(* A step that leaves the history and the storage alone. *)
Steps(r, w) ==
    /\ Sound(r, w) /\ writer' = [writer EXCEPT ![r] = w]
    /\ version' = version /\ object' = object
    /\ document' \in DocumentType /\ document'.currentVersion = document.currentVersion
    /\ dek' \in BOOLEAN

LEMMA StepsPreserve ==
    ASSUME VersionChecks, NEW r \in Writers, NEW w, Steps(r, w) PROVE VersionChecks'
  <1>1. writer \in [Writers -> WriterType] /\ w \in WriterType
    BY DEF VersionChecks, VersionInv, VersionTypeOK, Steps, Sound, WriterType
  <1>2. /\ writer' \in [Writers -> WriterType] /\ writer'[r] = w
        /\ \A o \in Writers \ {r} : writer'[o] = writer[o]
    BY <1>1 DEF Steps
  <1>3. VersionTypeOK'
    BY <1>2
    DEF Steps, VersionChecks, VersionInv, VersionTypeOK, WriterType, DocumentType, StorageKeys
  <1>4. HistoryIsDense' /\ RowMatchesObject' /\ RedactionFollowsSource' /\ UploadsChangeContent'
    BY DEF Steps, VersionChecks, VersionInv, HistoryIsDense, RowMatchesObject,
           RedactionFollowsSource, UploadsChangeContent, StorageKeys
  <1>5. ASSUME NEW o \in Writers PROVE Sound(o, writer[o])'
    <2>1. CASE o = r
      BY <1>2, <2>1 DEF Steps, Sound, StorageKeys
    <2>2. CASE o # r
      BY <1>2, <2>2 DEF Steps, VersionChecks, Sound, StorageKeys
    <2> QED
      BY <2>1, <2>2
  <1> QED
    BY <1>3, <1>4, <1>5 DEF VersionChecks, VersionInv

(* What the invariant says of one invocation. *)
LEMMA WriterFacts ==
    ASSUME VersionChecks, NEW r \in Writers
    PROVE  /\ writer[r] \in WriterType /\ Sound(r, writer[r])
           /\ document \in DocumentType /\ dek \in BOOLEAN /\ version \subseteq Rows
  BY DEF VersionChecks, VersionInv, VersionTypeOK, WriterType, DocumentType

LEMMA VersionBeginPreserves ==
    ASSUME VersionChecks, NEW r \in Writers, BeginWrite(r) PROVE VersionChecks'
  <1>1. /\ writer[r].pc = "idle" /\ Sound(r, writer[r])
        /\ document \in DocumentType /\ dek \in BOOLEAN /\ version \subseteq Rows
    BY WriterFacts
    DEF BeginWrite, BeginUpload, BeginRestore, BeginRedact, BeginShredding, BeginDeletion
  <1>2. \A v \in version : v.key # r
    BY <1>1 DEF Sound
  <1>3. ASSUME NEW t \in Texts, BeginUpload(r, t) PROVE VersionChecks'
    <2> DEFINE w == [NothingDone EXCEPT !.pc = "ready", !.op = "upload", !.body = Body(t)]
    <2>1. Body(t) \in Bodies
      BY DEF Body, Bodies
    <2>2. w \in WriterType /\ w.pc = "ready" /\ w.op = "upload"
      BY <2>1, FirstFacts DEF WriterType, VersionPcs, VersionOperations, WaitingPcs
    <2>3. writer' = [writer EXCEPT ![r] = w] /\ UNCHANGED <<version, object, document, dek>>
      BY <1>3 DEF BeginUpload
    <2> HIDE DEF w
    <2>4. Steps(r, w)
      BY <1>1, <1>2, <2>2, <2>3 DEF Steps, Sound, Writing
    <2> QED
      BY <2>4, StepsPreserve
  <1>4. ASSUME NEW op \in {"restore", "redact"}, NEW source \in version,
               writer' = [writer EXCEPT ![r] = [NothingDone EXCEPT !.pc = "fetched",
                                                    !.op = op, !.source = source]],
               UNCHANGED <<version, object, document, dek>>
        PROVE  VersionChecks'
    <2> DEFINE w == [NothingDone EXCEPT !.pc = "fetched", !.op = op, !.source = source]
    <2>1. source \in Rows
      BY <1>1
    <2>2. w \in WriterType /\ w.pc = "fetched" /\ w.op = op /\ w.source = source
      BY <2>1, FirstFacts DEF WriterType, VersionPcs, VersionOperations, WaitingPcs
    <2>3. writer' = [writer EXCEPT ![r] = w] /\ UNCHANGED <<version, object, document, dek>>
      BY <1>4
    <2> HIDE DEF w
    <2>4. Steps(r, w)
      BY <1>1, <1>2, <2>2, <2>3 DEF Steps, Sound, Writing
    <2> QED
      BY <2>4, StepsPreserve
  <1>5. ASSUME NEW op \in {"shred", "delete"},
               writer' = [writer EXCEPT ![r] = [NothingDone EXCEPT !.pc = "destroying",
                                                    !.op = op]],
               UNCHANGED <<version, object, document, dek>>
        PROVE  VersionChecks'
    <2> DEFINE w == [NothingDone EXCEPT !.pc = "destroying", !.op = op]
    <2>1. w \in WriterType /\ w.pc = "destroying"
      BY FirstFacts DEF WriterType, VersionPcs, VersionOperations, WaitingPcs
    <2>2. writer' = [writer EXCEPT ![r] = w] /\ UNCHANGED <<version, object, document, dek>>
      BY <1>5
    <2> HIDE DEF w
    <2>3. Steps(r, w)
      BY <1>1, <1>2, <2>1, <2>2 DEF Steps, Sound, Writing
    <2> QED
      BY <2>3, StepsPreserve
  <1>6. ASSUME NEW source \in version, BeginRestore(r, source) PROVE VersionChecks'
    BY <1>4, <1>6 DEF BeginRestore
  <1>7. CASE BeginRedact(r)
    BY <1>4, <1>7, LatestFacts DEF BeginRedact
  <1>8. CASE BeginShredding(r) \/ BeginDeletion(r)
    BY <1>5, <1>8 DEF BeginShredding, BeginDeletion
  <1> QED
    BY <1>3, <1>6, <1>7, <1>8 DEF BeginWrite

(* The bytes of a version in the history open to what was put in, or to    *)
(* cipher text.                                                            *)
LEMMA OpenedFacts ==
    ASSUME VersionChecks, NEW row \in version, NEW key \in BOOLEAN
    PROVE  /\ Opened(row, key) \in Bodies
           /\ ~Opened(row, key).cipher => Opened(row, key) = row.checksum
  <1>1. /\ row.key \in StorageKeys /\ object[row.key].body = row.checksum
        /\ row.checksum \in Bodies
    BY DEF VersionChecks, VersionInv, RowMatchesObject, VersionTypeOK, Rows
  <1>2. \/ Opened(row, key) = row.checksum
        \/ Opened(row, key) = [row.checksum EXCEPT !.cipher = TRUE]
    BY <1>1 DEF Opened
  <1> QED
    BY <1>1, <1>2 DEF Bodies

LEMMA OpeningPreserves ==
    ASSUME VersionChecks, NEW r \in Writers, OpenForRestore(r) \/ OpenForRedact(r)
    PROVE  VersionChecks'
  <1>1. /\ writer[r] \in WriterType /\ Sound(r, writer[r]) /\ writer[r].pc = "fetched"
        /\ document \in DocumentType /\ dek \in BOOLEAN
        /\ writer[r].op \in {"restore", "redact"}
        /\ UNCHANGED <<version, object, document, dek>>
    BY WriterFacts DEF OpenForRestore, OpenForRedact
  <1>2. writer[r].source \in version /\ \A v \in version : v.key # r
    BY <1>1 DEF Sound
  <1>3. CASE OpenForRestore(r)
    <2> DEFINE w == [writer[r] EXCEPT !.pc = "ready", !.key = dek,
                                      !.body = Opened(writer[r].source, dek)]
    <2>1. w \in WriterType /\ w.pc = "ready" /\ w.op = "restore" /\ w.source = writer[r].source
      BY <1>1, <1>2, <1>3, OpenedFacts
      DEF OpenForRestore, WriterType, VersionPcs, WaitingPcs
    <2>2. writer' = [writer EXCEPT ![r] = w]
      BY <1>3 DEF OpenForRestore
    <2> HIDE DEF w
    <2>3. Steps(r, w)
      BY <1>1, <1>2, <2>1, <2>2 DEF Steps, Sound, Writing
    <2> QED
      BY <2>3, StepsPreserve
  <1>4. CASE OpenForRedact(r)
    <2> DEFINE b == Redacted(Opened(writer[r].source, dek))
               w == [writer[r] EXCEPT !.pc = "ready", !.body = b]
    <2>1. Opened(writer[r].source, dek) = writer[r].source.checksum
          /\ writer[r].source.checksum \in Bodies
      BY <1>1, <1>2, <1>4, OpenedFacts DEF OpenForRedact, Redactable
    <2>2. b \in Bodies /\ b = Redacted(writer[r].source.checksum)
      BY <2>1 DEF Redacted, Bodies
    <2>3. writer' = [writer EXCEPT ![r] = w]
      BY <1>4 DEF OpenForRedact
    <2> HIDE DEF b
    <2>4. w \in WriterType /\ w.pc = "ready" /\ w.op = "redact" /\ w.body = b
          /\ w.source = writer[r].source
      BY <1>1, <1>4, <2>2 DEF OpenForRedact, WriterType, VersionPcs, WaitingPcs
    <2> HIDE DEF w
    <2>5. Steps(r, w)
      BY <1>1, <1>2, <2>2, <2>3, <2>4 DEF Steps, Sound, Writing
    <2> QED
      BY <2>5, StepsPreserve
  <1> QED
    BY <1>3, <1>4

(* The number that is taken follows one that is there. *)
LEMMA TransactionPreserves ==
    ASSUME VersionChecks, NEW r \in Writers, OpenTransaction(r), ~UploadRefused(r)
    PROVE  VersionChecks'
  <1> DEFINE n == NextNumber(r)
             w == [writer[r] EXCEPT !.pc = "open", !.number = n]
  <1>1. /\ writer[r] \in WriterType /\ Sound(r, writer[r]) /\ writer[r].pc = "ready"
        /\ document \in DocumentType /\ dek \in BOOLEAN /\ version \subseteq Rows
        /\ UNCHANGED <<version, object, document, dek>>
        /\ writer' = [writer EXCEPT ![r] = w]
    BY WriterFacts DEF OpenTransaction
  <1>2. PICK last \in version :
          /\ n = last.number + 1
          /\ writer[r].op = "redact" => last = writer[r].source
          /\ writer[r].op = "upload" => last.checksum # writer[r].body
    <2>1. CASE writer[r].op = "redact"
      BY <1>1, <2>1 DEF NextNumber, Sound
    <2>2. CASE writer[r].op # "redact"
      BY <2>2, LatestFacts DEF NextNumber, UploadRefused
    <2> QED
      BY <2>1, <2>2
  <1>3. last \in Rows /\ last.number \in Nat /\ n \in Nat
    BY <1>1, <1>2 DEF Rows
  <1>4. \A v \in version : n = v.number + 1 => v = last
    <2> SUFFICES ASSUME NEW v \in version, n = v.number + 1 PROVE v = last
      OBVIOUS
    <2>1. v.number \in Nat
      BY <1>1 DEF Rows
    <2>2. v.number = last.number
      BY <1>2, <1>3, <2>1
    <2> QED
      BY <2>2, LatestFacts
  <1> HIDE DEF n
  <1>5. /\ w \in WriterType /\ w.pc = "open" /\ w.op = writer[r].op /\ w.number = n
        /\ w.source = writer[r].source /\ w.body = writer[r].body
    BY <1>1, <1>3 DEF WriterType, VersionPcs, WaitingPcs
  <1> HIDE DEF w
  <1>6. Steps(r, w)
    BY <1>1, <1>2, <1>4, <1>5 DEF Steps, Sound, Writing
  <1> QED
    BY <1>6, StepsPreserve

(* Requests that end. *)
LEMMA EndingPreserves ==
    ASSUME VersionChecks, NEW r \in Writers,
           \/ RedactRefused(r) \/ LoseNumber(r) \/ Fail(r) \/ DeleteKey(r) \/ MarkState(r)
           \/ OpenTransaction(r) /\ UploadRefused(r)
    PROVE  VersionChecks'
  <1>1. /\ writer[r] \in WriterType /\ Sound(r, writer[r])
        /\ document \in DocumentType /\ dek \in BOOLEAN
    BY WriterFacts
  <1>2. PICK pc \in {"failed", "keyless", "done"} : StepTo(r, pc)
    BY DEF RedactRefused, LoseNumber, Fail, DeleteKey, MarkState, OpenTransaction
  <1> DEFINE w == [writer[r] EXCEPT !.pc = pc]
  <1>3. w \in WriterType /\ w.pc = pc
    BY <1>1 DEF WriterType, VersionPcs, WaitingPcs
  <1>4. writer' = [writer EXCEPT ![r] = w]
    BY <1>2 DEF StepTo
  <1> HIDE DEF w
  <1>5. writer[r].pc # "done"
    BY DEF RedactRefused, LoseNumber, Fail, WaitingPcs, DeleteKey, MarkState, OpenTransaction
  <1>6. version' = version /\ object' = object
    BY DEF RedactRefused, LoseNumber, Fail, DeleteKey, MarkState, OpenTransaction
  <1>7. document' \in DocumentType /\ document'.currentVersion = document.currentVersion
    BY <1>1 DEF RedactRefused, LoseNumber, Fail, DeleteKey, MarkState, OpenTransaction,
                DocumentType, FinalState
  <1>8. dek' \in BOOLEAN
    BY <1>1 DEF RedactRefused, LoseNumber, Fail, DeleteKey, MarkState, OpenTransaction
  <1>9. Sound(r, w)
    BY <1>1, <1>3, <1>5 DEF Sound
  <1>10. Steps(r, w)
    BY <1>4, <1>6, <1>7, <1>8, <1>9 DEF Steps
  <1> QED
    BY <1>10, StepsPreserve

(* A new object is under a key of the request's own. *)
LEMMA StorePreserves ==
    ASSUME VersionChecks, NEW r \in Writers, Store(r) PROVE VersionChecks'
  <1> DEFINE key == IF writer[r].op = "restore" THEN writer[r].key ELSE dek
             new == [body |-> writer[r].body, sealed |-> key]
             w == [writer[r] EXCEPT !.pc = "stored", !.sealed = key]
  <1>1. /\ writer[r] \in WriterType /\ Sound(r, writer[r]) /\ writer[r].pc = "open"
        /\ dek \in BOOLEAN /\ writer \in [Writers -> WriterType]
        /\ UNCHANGED <<version, document, dek>>
    BY WriterFacts DEF Store, VersionChecks, VersionInv, VersionTypeOK, WriterType
  <1>2. key \in BOOLEAN
    BY <1>1 DEF WriterType
  <1>3. /\ object' = [x \in StorageKeys \cup {r} |-> IF x = r THEN new ELSE object[x]]
        /\ writer' = [writer EXCEPT ![r] = w]
    BY DEF Store, StorageKey
  <1>4. new \in [body : Bodies, sealed : BOOLEAN]
    BY <1>1, <1>2 DEF WriterType
  <1>5. /\ w \in WriterType /\ w.pc = "stored" /\ w.op = writer[r].op
        /\ w.source = writer[r].source /\ w.body = writer[r].body
        /\ w.number = writer[r].number /\ new = [body |-> w.body, sealed |-> w.sealed]
    BY <1>1, <1>2 DEF WriterType, VersionPcs, WaitingPcs
  <1> HIDE DEF key, new, w
  <1>6. /\ StorageKeys' = StorageKeys \cup {r} /\ object'[r] = new
        /\ \A x \in StorageKeys \ {r} : object'[x] = object[x]
    BY <1>3 DEF StorageKeys
  <1>7. /\ writer' \in [Writers -> WriterType] /\ writer'[r] = w
        /\ \A o \in Writers \ {r} : writer'[o] = writer[o]
    BY <1>1, <1>3, <1>5
  <1>8. \A v \in version : v.key # r
    BY <1>1 DEF Sound
  <1>9. VersionTypeOK'
    <2>1. object' \in [StorageKeys' -> [body : Bodies, sealed : BOOLEAN]]
      BY <1>3, <1>4, <1>6 DEF VersionChecks, VersionInv, VersionTypeOK
    <2> QED
      BY <1>1, <1>6, <1>7, <2>1 DEF VersionChecks, VersionInv, VersionTypeOK, WriterType
  <1>10. RowMatchesObject'
    BY <1>1, <1>6, <1>8 DEF VersionChecks, VersionInv, RowMatchesObject
  <1>11. HistoryIsDense' /\ RedactionFollowsSource' /\ UploadsChangeContent'
    BY <1>1 DEF VersionChecks, VersionInv, HistoryIsDense, RedactionFollowsSource,
                UploadsChangeContent
  <1>12. ASSUME NEW o \in Writers PROVE Sound(o, writer[o])'
    <2>1. CASE o = r
      BY <1>1, <1>5, <1>6, <1>7, <2>1 DEF Sound
    <2>2. CASE o # r
      BY <1>1, <1>6, <1>7, <2>2 DEF VersionChecks, Sound
    <2> QED
      BY <2>1, <2>2
  <1> QED
    BY <1>9, <1>10, <1>11, <1>12 DEF VersionChecks, VersionInv

(* A row that is not refused is the next one. *)
LEMMA CommitPreserves ==
    ASSUME VersionChecks, NEW r \in Writers, CommitVersion(r) PROVE VersionChecks'
  <1> DEFINE cur == document.currentVersion
             n == writer[r].number
             row == RowOf(r)
             w == [writer[r] EXCEPT !.pc = "done"]
  <1>1. /\ writer[r] \in WriterType /\ Sound(r, writer[r]) /\ writer[r].pc = "stored"
        /\ document \in DocumentType /\ writer \in [Writers -> WriterType]
        /\ version \subseteq Rows
    BY WriterFacts DEF CommitVersion, VersionChecks, VersionInv, VersionTypeOK, WriterType
  <1>2. /\ version' = version \cup {row} /\ writer' = [writer EXCEPT ![r] = w]
        /\ document' = [document EXCEPT !.currentVersion = n]
        /\ UNCHANGED <<object, dek>>
        /\ \A v \in version : v.number # n
    BY DEF CommitVersion, StepTo, NumberTaken
  <1>3. /\ writer[r].op \in Writing /\ \A v \in version : v.key # r
        /\ writer[r].op # "upload" => writer[r].source \in version
        /\ r \in StorageKeys
        /\ object[r] = [body |-> writer[r].body, sealed |-> writer[r].sealed]
    BY <1>1 DEF Sound
  <1>4. /\ row.number = n /\ row.key = r /\ row.checksum = writer[r].body
        /\ row.sealed = writer[r].sealed /\ row.op = writer[r].op
        /\ row.op = "redact" => row.derivedFrom = writer[r].source.number
    BY DEF RowOf, StorageKey
  <1>5. cur \in Nat \ {0} /\ n = cur + 1
    <2>1. PICK v \in version : n = v.number + 1
      BY <1>1 DEF Sound
    <2>2. v.number \in 1 .. cur /\ cur \in Nat \ {0}
      BY LatestFacts
    <2>3. n \notin 1 .. cur
      <3>1. {u.number : u \in version} = 1 .. cur
        BY DEF VersionChecks, VersionInv, HistoryIsDense
      <3> QED
        BY <1>2, <3>1
    <2> QED
      BY <2>1, <2>2, <2>3
  <1>6. row \in Rows
    <2>1. writer[r].source.number \in Nat
      BY <1>1 DEF WriterType, Rows
    <2>2. n \in Nat \ {0}
      BY <1>5
    <2> QED
      BY <1>1, <1>3, <2>1, <2>2 DEF RowOf, StorageKey, Rows, WriterType, Writing
  <1>7. \A v \in version : v.number \in 1 .. cur /\ v.number # n /\ v.number # n + 1
    BY <1>2, <1>5, LatestFacts
  <1>8. w \in WriterType /\ w.pc = "done"
    BY <1>1 DEF WriterType, VersionPcs
  <1> HIDE DEF w, row, n, cur
  <1>9. /\ writer' \in [Writers -> WriterType] /\ writer'[r] = w
        /\ \A o \in Writers \ {r} : writer'[o] = writer[o]
    BY <1>1, <1>2, <1>8
  <1>10. VersionTypeOK'
    <2>1. document' \in DocumentType /\ version' \subseteq Rows
      BY <1>1, <1>2, <1>5, <1>6 DEF DocumentType
    <2> QED
      BY <1>2, <1>9, <2>1
      DEF VersionChecks, VersionInv, VersionTypeOK, DocumentType, WriterType, StorageKeys
  <1>11. HistoryIsDense'
    <2>1. \A u, v \in version' : u.number = v.number => u = v
      BY <1>2, <1>4, <1>7, LatestFacts
    <2>2. document'.currentVersion = n
      BY <1>1, <1>2 DEF DocumentType
    <2>3. {v.number : v \in version} = 1 .. cur
      BY DEF VersionChecks, VersionInv, HistoryIsDense, cur
    <2>4. {v.number : v \in version'} = {v.number : v \in version} \cup {n}
      BY <1>2, <1>4
    <2>5. (1 .. cur) \cup {n} = 1 .. n
      BY <1>5
    <2> QED
      BY <2>1, <2>2, <2>3, <2>4, <2>5 DEF HistoryIsDense
  <1>12. RowMatchesObject'
    BY <1>2, <1>3, <1>4 DEF VersionChecks, VersionInv, RowMatchesObject, StorageKeys
  <1>13. RedactionFollowsSource'
    <2>1. row.op = "redact" =>
            /\ writer[r].source \in version' /\ writer[r].source.number = row.derivedFrom
            /\ row.number = writer[r].source.number + 1
            /\ row.checksum = Redacted(writer[r].source.checksum)
      BY <1>1, <1>2, <1>3, <1>4 DEF Sound, n
    <2> QED
      BY <1>2, <2>1 DEF VersionChecks, VersionInv, RedactionFollowsSource
  <1>14. UploadsChangeContent'
    <2> SUFFICES ASSUME NEW u \in version', NEW v \in version', u.number = v.number + 1,
                        u.op = "upload"
                 PROVE  u.checksum # v.checksum
      BY DEF UploadsChangeContent
    <2>1. CASE u \in version /\ v \in version
      BY <2>1 DEF VersionChecks, VersionInv, UploadsChangeContent
    <2>2. CASE u = row /\ v \in version
      BY <1>1, <1>4, <2>2 DEF Sound, n
    <2>3. CASE v = row
      BY <1>2, <1>4, <1>5, <1>7, <2>3
    <2> QED
      BY <1>2, <2>1, <2>2, <2>3
  <1>15. ASSUME NEW o \in Writers PROVE Sound(o, writer[o])'
    <2>1. CASE o = r
      BY <1>8, <1>9, <2>1 DEF Sound
    <2>2. CASE o # r
      <3>1. Sound(o, writer[o]) /\ writer'[o] = writer[o] /\ writer[o] \in WriterType
        BY <1>9, <2>2, WriterFacts
      <3>2. writer[o].pc \in {"open", "stored"} => writer[o].number # n + 1
        <4> SUFFICES ASSUME writer[o].pc \in {"open", "stored"}
                     PROVE  writer[o].number # n + 1
          OBVIOUS
        <4>1. PICK v \in version : writer[o].number = v.number + 1
          BY <3>1 DEF Sound
        <4>2. v.number \in 1 .. cur /\ v.number # n
          BY <1>7
        <4> QED
          BY <1>5, <4>1, <4>2
      <3>3. row.key # o /\ object' = object /\ StorageKeys' = StorageKeys
        BY <1>2, <1>4, <2>2 DEF StorageKeys
      <3>4. writer[o].pc # "done" => \A v \in version' : v.key # o
        BY <1>2, <3>1, <3>3 DEF Sound
      <3>5. writer[o].pc \in {"open", "stored"} =>
              /\ \E v \in version' : writer[o].number = v.number + 1
              /\ writer[o].op = "redact" => writer[o].number = writer[o].source.number + 1
              /\ writer[o].op = "upload" =>
                    \A v \in version' :
                        writer[o].number = v.number + 1 => v.checksum # writer[o].body
        BY <1>2, <1>4, <3>1, <3>2 DEF Sound
      <3>6. /\ writer[o].pc \in {"fetched", "ready", "open", "stored"} =>
                  /\ writer[o].op \in Writing
                  /\ writer[o].op # "upload" => writer[o].source \in version'
            /\ writer[o].pc \in {"ready", "open", "stored"} /\ writer[o].op = "redact" =>
                  writer[o].body = Redacted(writer[o].source.checksum)
            /\ writer[o].pc = "stored" =>
                  /\ o \in StorageKeys'
                  /\ object'[o] = [body |-> writer[o].body, sealed |-> writer[o].sealed]
        BY <1>2, <3>1, <3>3 DEF Sound
      <3> QED
        BY <3>1, <3>4, <3>5, <3>6 DEF Sound
    <2> QED
      BY <2>1, <2>2
  <1> QED
    BY <1>10, <1>11, <1>12, <1>13, <1>14, <1>15 DEF VersionChecks, VersionInv

LEMMA VersionStep == VersionChecks /\ [VersionNext]_versionVars => VersionChecks'
  <1> SUFFICES ASSUME VersionChecks, [VersionNext]_versionVars PROVE VersionChecks'
    OBVIOUS
  <1>1. CASE UNCHANGED versionVars
    BY <1>1
    DEF versionVars, VersionChecks, VersionInv, VersionTypeOK, HistoryIsDense,
        RowMatchesObject, RedactionFollowsSource, UploadsChangeContent, Sound, StorageKeys
  <1>2. ASSUME NEW r \in Writers, BeginWrite(r) \/ ContinueWrite(r) \/ Fail(r)
        PROVE  VersionChecks'
    BY <1>2, VersionBeginPreserves, OpeningPreserves, TransactionPreserves, EndingPreserves,
       StorePreserves, CommitPreserves
    DEF ContinueWrite
  <1> QED
    BY <1>1, <1>2 DEF VersionNext

(* For any requests, texts and cap: the history is numbered without a gap, *)
(* its rows match the storage, redactions follow their sources and uploads *)
(* change the content.                                                     *)
THEOREM HistoryIsSound == VersionSpec => []VersionInv
  <1>1. VersionChecks => VersionInv
    BY DEF VersionChecks
  <1> QED
    BY <1>1, VersionsStart, VersionStep, PTL DEF VersionSpec

(* A committed version and its bytes are not touched by a step. *)
Kept ==
    \A v \in version : /\ v \in version'
                       /\ object'[v.key] = object[v.key]

(* For any requests, texts and cap: a committed version and its bytes are  *)
(* never touched again.                                                    *)
THEOREM HistoryStays == VersionSpec => HistoryIsKept
  <1>1. VersionChecks /\ [VersionNext]_versionVars => [Kept]_versionVars
    <2> SUFFICES ASSUME VersionChecks, VersionNext, NEW v \in version
                 PROVE  v \in version' /\ object'[v.key] = object[v.key]
      BY DEF Kept
    <2>1. PICK r \in Writers : BeginWrite(r) \/ ContinueWrite(r) \/ Fail(r)
      BY DEF VersionNext
    <2>2. CASE Store(r)
      <3>1. v.key # r /\ v.key \in StorageKeys
        BY <2>2, WriterFacts
        DEF Store, Sound, VersionChecks, VersionInv, RowMatchesObject
      <3> QED
        BY <2>2, <3>1 DEF Store, StorageKey
    <2>3. CASE ~Store(r)
      BY <2>1, <2>3
      DEF BeginWrite, BeginUpload, BeginRestore, BeginRedact, BeginShredding, BeginDeletion,
          ContinueWrite, OpenForRestore, OpenForRedact, RedactRefused, OpenTransaction,
          CommitVersion, LoseNumber, DeleteKey, MarkState, Fail
    <2> QED
      BY <2>2, <2>3
  <1>2. VersionSpec => [][Kept]_versionVars
    BY <1>1, VersionsStart, VersionStep, PTL DEF VersionSpec
  <1> QED
    BY <1>2 DEF HistoryIsKept, Kept

-----------------------------------------------------------------------------
(*************************************************************************)
(* The refinement of VersionHistory, for any requests, texts and cap.    *)
(*                                                                       *)
(* The row that is inserted is the next, so what its writer compared it  *)
(* with, or took it from, however long ago, is the end of the history, or *)
(* a version in it; and the key, once gone, does not come back.          *)
(*************************************************************************)

(* What invocation r, in state w, is about to write. *)
Fits(w) ==
    /\ w.pc \in {"ready", "open", "stored"} =>
          /\ w.op = "upload" => \E t \in Texts : w.body = Body(t)
          /\ w.op = "redact" => ~w.source.checksum.cipher
          /\ w.op = "restore" =>
                /\ w.key \/ ~dek
                /\ \/ w.body = w.source.checksum
                   \/ /\ ~dek /\ w.source.sealed
                      /\ w.body = [w.source.checksum EXCEPT !.cipher = TRUE]
    /\ w.pc \in {"open", "stored"} /\ w.op = "upload" => w.number <= MaxVersions
    /\ w.pc = "stored" => w.sealed \/ ~dek

WritesFit == \A r \in Writers : Fits(writer[r])

(* A step of one invocation that brings back no key. *)
LEMMA OneWriterMoves ==
    ASSUME VersionChecks, WritesFit, NEW r \in Writers, NEW w,
           writer' = [writer EXCEPT ![r] = w], dek' => dek, Fits(w)'
    PROVE  WritesFit'
  <1>1. \A o \in Writers : writer'[o] = IF o = r THEN w ELSE writer[o]
    BY DEF VersionChecks, VersionInv, VersionTypeOK
  <1>2. ASSUME NEW o \in Writers, o # r PROVE Fits(writer[o])'
    <2>1. writer'[o] = writer[o] /\ Fits(writer[o])
      BY <1>1, <1>2 DEF WritesFit
    <2> QED
      BY <2>1 DEF Fits
  <1>3. Fits(writer[r])'
    BY <1>1 DEF Fits
  <1> QED
    BY <1>2, <1>3 DEF WritesFit

LEMMA BeginFits ==
    ASSUME VersionChecks, WritesFit, NEW r \in Writers, BeginWrite(r)
    PROVE  WritesFit'
  <1>1. \E w : /\ writer' = [writer EXCEPT ![r] = w] /\ dek' = dek
               /\ w.pc \in {"ready", "fetched", "destroying"}
               /\ w.pc = "ready" => w.op = "upload" /\ \E t \in Texts : w.body = Body(t)
    <2>1. CASE \E t \in Texts : BeginUpload(r, t)
      <3>1. PICK t \in Texts : BeginUpload(r, t)
        BY <2>1
      <3>2. PICK w : w = [NothingDone EXCEPT !.pc = "ready", !.op = "upload", !.body = Body(t)]
        OBVIOUS
      <3>3. w.pc = "ready" /\ w.op = "upload" /\ w.body = Body(t)
        BY <3>2 DEF NothingDone
      <3> QED
        BY <3>1, <3>2, <3>3 DEF BeginUpload
    <2>2. CASE \E source \in version : BeginRestore(r, source)
      <3>1. PICK source \in version : BeginRestore(r, source)
        BY <2>2
      <3>2. PICK w : w = [NothingDone EXCEPT !.pc = "fetched", !.op = "restore",
                                             !.source = source]
        OBVIOUS
      <3>3. w.pc = "fetched"
        BY <3>2 DEF NothingDone
      <3> QED
        BY <3>1, <3>2, <3>3 DEF BeginRestore
    <2>3. CASE BeginRedact(r)
      <3>1. PICK w : w = [NothingDone EXCEPT !.pc = "fetched", !.op = "redact",
                                             !.source = LatestRow]
        OBVIOUS
      <3>2. w.pc = "fetched"
        BY <3>1 DEF NothingDone
      <3> QED
        BY <2>3, <3>1, <3>2 DEF BeginRedact
    <2>4. CASE BeginShredding(r) \/ BeginDeletion(r)
      <3>1. PICK op \in {"shred", "delete"} :
               /\ writer' = [writer EXCEPT ![r] = [NothingDone EXCEPT !.pc = "destroying",
                                                                      !.op = op]]
               /\ dek' = dek
        BY <2>4 DEF BeginShredding, BeginDeletion
      <3>2. PICK w : w = [NothingDone EXCEPT !.pc = "destroying", !.op = op]
        OBVIOUS
      <3>3. w.pc = "destroying"
        BY <3>2 DEF NothingDone
      <3> QED
        BY <3>1, <3>2, <3>3
    <2> QED
      BY <2>1, <2>2, <2>3, <2>4 DEF BeginWrite
  <1>2. PICK w : /\ writer' = [writer EXCEPT ![r] = w] /\ dek' = dek
                 /\ w.pc \in {"ready", "fetched", "destroying"}
                 /\ w.pc = "ready" => w.op = "upload" /\ \E t \in Texts : w.body = Body(t)
    BY <1>1
  <1>3. Fits(w)'
    BY <1>2 DEF Fits
  <1> QED
    BY <1>2, <1>3, OneWriterMoves

(* Reading the source: what comes out is its text, or without a key the    *)
(* cipher text of it.                                                      *)
LEMMA OpeningFits ==
    ASSUME VersionChecks, WritesFit, NEW r \in Writers, OpenForRestore(r) \/ OpenForRedact(r)
    PROVE  WritesFit'
  <1>1. PICK m : m = writer[r]
    OBVIOUS
  <1>2. /\ m \in WriterType /\ m.pc = "fetched" /\ m.source \in version /\ dek' = dek
        /\ dek \in BOOLEAN
    BY <1>1, WriterFacts DEF OpenForRestore, OpenForRedact, Sound
  <1>3. PICK s \in version : s = m.source
    BY <1>2
  <1>4. /\ s.key \in StorageKeys /\ object[s.key].body = s.checksum
        /\ object[s.key].sealed = s.sealed /\ s.checksum \in Bodies
    BY DEF VersionChecks, VersionInv, RowMatchesObject, VersionTypeOK, Rows
  <1>5. \/ Opened(s, dek) = s.checksum
        \/ ~dek /\ s.sealed /\ Opened(s, dek) = [s.checksum EXCEPT !.cipher = TRUE]
    BY <1>4 DEF Opened
  <1>6. CASE OpenForRestore(r)
    <2>1. PICK b : b = Opened(s, dek)
      OBVIOUS
    <2>2. PICK w : w = [m EXCEPT !.pc = "ready", !.key = dek, !.body = b]
      OBVIOUS
    <2>3. /\ w.pc = "ready" /\ w.op = "restore" /\ w.key = dek /\ w.body = b /\ w.source = s
      BY <1>1, <1>2, <1>3, <1>6, <2>2 DEF OpenForRestore, WriterType
    <2>4. writer' = [writer EXCEPT ![r] = w]
      BY <1>1, <1>3, <1>6, <2>1, <2>2 DEF OpenForRestore
    <2>5. Fits(w)'
      BY <1>2, <1>5, <2>1, <2>3 DEF Fits
    <2> QED
      BY <1>2, <2>4, <2>5, OneWriterMoves
  <1>7. CASE OpenForRedact(r)
    <2>1. PICK b : b = Redacted(Opened(s, dek))
      OBVIOUS
    <2>2. PICK w : w = [m EXCEPT !.pc = "ready", !.body = b]
      OBVIOUS
    <2>3. /\ w.pc = "ready" /\ w.op = "redact" /\ w.source = s
      BY <1>1, <1>2, <1>3, <1>7, <2>2 DEF OpenForRedact, WriterType
    <2>4. writer' = [writer EXCEPT ![r] = w]
      BY <1>1, <1>3, <1>7, <2>1, <2>2 DEF OpenForRedact
    <2>5. ~s.checksum.cipher
      <3>1. ~Opened(s, dek).cipher
        BY <1>1, <1>3, <1>7 DEF OpenForRedact, Redactable
      <3>2. [s.checksum EXCEPT !.cipher = TRUE].cipher
        BY <1>4 DEF Bodies
      <3>3. Opened(s, dek) = s.checksum
        BY <1>5, <3>1, <3>2
      <3> QED
        BY <3>1, <3>3
    <2>6. Fits(w)'
      BY <1>2, <2>3, <2>5 DEF Fits
    <2> QED
      BY <1>2, <2>4, <2>6, OneWriterMoves
  <1> QED
    BY <1>6, <1>7

LEMMA TransactionFits ==
    ASSUME VersionChecks, WritesFit, NEW r \in Writers, OpenTransaction(r), ~UploadRefused(r)
    PROVE  WritesFit'
  <1>1. PICK m : m = writer[r]
    OBVIOUS
  <1>2. /\ m \in WriterType /\ m.pc = "ready" /\ Fits(m) /\ dek' = dek
    BY <1>1, WriterFacts DEF OpenTransaction, WritesFit
  <1>3. PICK n : n = NextNumber(r)
    OBVIOUS
  <1>4. PICK w : w = [m EXCEPT !.pc = "open", !.number = n]
    OBVIOUS
  <1>5. /\ w.pc = "open" /\ w.op = m.op /\ w.body = m.body /\ w.source = m.source
        /\ w.key = m.key /\ w.number = n
    BY <1>2, <1>4 DEF WriterType
  <1>6. w.op = "upload" => n <= MaxVersions
    <2>1. SUFFICES ASSUME w.op = "upload" PROVE n <= MaxVersions
      OBVIOUS
    <2>2. n = LatestRow.number + 1 /\ LatestRow.number \in Nat
      BY <1>1, <1>3, <1>5, <2>1, LatestFacts DEF NextNumber
    <2>3. ~(n > MaxVersions)
      BY <1>1, <1>3, <1>5, <2>1 DEF UploadRefused
    <2> QED
      BY <2>2, <2>3, CapAssumption
  <1>7. Fits(w)'
    BY <1>2, <1>5, <1>6 DEF Fits
  <1>8. writer' = [writer EXCEPT ![r] = w]
    BY <1>1, <1>3, <1>4 DEF OpenTransaction
  <1> QED
    BY <1>2, <1>7, <1>8, OneWriterMoves

LEMMA StoreFits ==
    ASSUME VersionChecks, WritesFit, NEW r \in Writers, Store(r)
    PROVE  WritesFit'
  <1>1. PICK m : m = writer[r]
    OBVIOUS
  <1>2. /\ m \in WriterType /\ m.pc = "open" /\ Fits(m) /\ dek' = dek
    BY <1>1, WriterFacts DEF Store, WritesFit
  <1>3. PICK key : key = IF m.op = "restore" THEN m.key ELSE dek
    OBVIOUS
  <1>4. PICK w : w = [m EXCEPT !.pc = "stored", !.sealed = key]
    OBVIOUS
  <1>5. /\ w.pc = "stored" /\ w.op = m.op /\ w.body = m.body /\ w.source = m.source
        /\ w.key = m.key /\ w.number = m.number /\ w.sealed = key
    BY <1>2, <1>4 DEF WriterType
  <1>6. key \/ ~dek
    BY <1>2, <1>3 DEF Fits
  <1>7. Fits(w)'
    BY <1>2, <1>5, <1>6 DEF Fits
  <1>8. writer' = [writer EXCEPT ![r] = w]
    BY <1>1, <1>3, <1>4 DEF Store
  <1> QED
    BY <1>2, <1>7, <1>8, OneWriterMoves

LEMMA EndingFits ==
    ASSUME VersionChecks, WritesFit, NEW r \in Writers,
           \/ RedactRefused(r) \/ LoseNumber(r) \/ Fail(r) \/ DeleteKey(r) \/ MarkState(r)
           \/ CommitVersion(r) \/ (OpenTransaction(r) /\ UploadRefused(r))
    PROVE  WritesFit'
  <1>1. PICK pc \in {"failed", "keyless", "done"} : StepTo(r, pc)
    BY DEF RedactRefused, LoseNumber, Fail, DeleteKey, MarkState, OpenTransaction, CommitVersion
  <1>2. PICK w : w = [writer[r] EXCEPT !.pc = pc]
    OBVIOUS
  <1>3. w.pc = pc
    BY <1>2, WriterFacts DEF WriterType
  <1>4. dek' => dek
    BY DEF RedactRefused, LoseNumber, Fail, DeleteKey, MarkState, OpenTransaction, CommitVersion
  <1>5. Fits(w)'
    BY <1>3 DEF Fits
  <1>6. writer' = [writer EXCEPT ![r] = w]
    BY <1>1, <1>2 DEF StepTo
  <1> QED
    BY <1>4, <1>5, <1>6, OneWriterMoves

LEMMA WritesKeepFitting ==
    VersionChecks /\ WritesFit /\ [VersionNext]_versionVars => WritesFit'
  <1> SUFFICES ASSUME VersionChecks, WritesFit, [VersionNext]_versionVars PROVE WritesFit'
    OBVIOUS
  <1>1. CASE UNCHANGED versionVars
    BY <1>1 DEF versionVars, WritesFit, Fits
  <1>2. ASSUME NEW r \in Writers, BeginWrite(r) \/ ContinueWrite(r) \/ Fail(r)
        PROVE  WritesFit'
    BY <1>2, BeginFits, OpeningFits, TransactionFits, StoreFits, EndingFits
    DEF ContinueWrite
  <1> QED
    BY <1>1, <1>2 DEF VersionNext

-----------------------------------------------------------------------------
(* The row of a number. *)
RowIn(rows, n) == CHOOSE v \in rows : v.number = n

StoredAs(rows, storage, last) == [n \in 1 .. last |-> storage[RowIn(rows, n).key]]

HistoryOf == StoredAs(version, object, document.currentVersion)

Entries == [body : Bodies, sealed : BOOLEAN]

LEMMA RowInIsTheRow ==
    ASSUME NEW rows, \A v, w \in rows : v.number = w.number => v = w, NEW v \in rows
    PROVE  RowIn(rows, v.number) = v
  BY DEF RowIn

(* What readers have: for each number the bytes of its row. *)
LEMMA HistoryFacts ==
    ASSUME VersionChecks
    PROVE  /\ HistoryOf \in Seq(Entries) /\ Len(HistoryOf) = document.currentVersion
           /\ document.currentVersion \in Nat \ {0}
           /\ \A v \in version :
                 /\ v.number \in 1 .. document.currentVersion
                 /\ HistoryOf[v.number] = object[v.key]
                 /\ object[v.key].body = v.checksum /\ object[v.key].sealed = v.sealed
           /\ \A n \in 1 .. document.currentVersion : \E v \in version : v.number = n
  <1>1. /\ document.currentVersion \in Nat \ {0}
        /\ \A v \in version : v.number \in 1 .. document.currentVersion
        /\ \A v, w \in version : v.number = w.number => v = w
    BY LatestFacts
  <1>2. ASSUME NEW n \in 1 .. document.currentVersion
        PROVE  \E v \in version : v.number = n
    <2>1. {v.number : v \in version} = 1 .. document.currentVersion
      BY DEF VersionChecks, VersionInv, HistoryIsDense
    <2> QED
      BY <2>1
  <1>3. ASSUME NEW v \in version
        PROVE  /\ HistoryOf[v.number] = object[v.key]
               /\ object[v.key].body = v.checksum /\ object[v.key].sealed = v.sealed
               /\ object[v.key] \in Entries
    <2>1. RowIn(version, v.number) = v
      BY <1>1, RowInIsTheRow
    <2>2. HistoryOf[v.number] = object[v.key]
      BY <1>1, <2>1 DEF HistoryOf, StoredAs
    <2> QED
      BY <2>2 DEF VersionChecks, VersionInv, RowMatchesObject, VersionTypeOK, Entries
  <1>4. ASSUME NEW n \in 1 .. document.currentVersion PROVE HistoryOf[n] \in Entries
    BY <1>2, <1>3
  <1>5. HistoryOf = [n \in 1 .. document.currentVersion |-> HistoryOf[n]]
    BY DEF HistoryOf, StoredAs
  <1> HIDE DEF HistoryOf
  <1>6. HistoryOf \in [1 .. document.currentVersion -> Entries]
    BY <1>4, <1>5
  <1>7. HistoryOf \in Seq(Entries) /\ Len(HistoryOf) = document.currentVersion
    BY <1>1, <1>6
  <1> QED
    BY <1>1, <1>2, <1>3, <1>7

(* Steps that leave the rows and their bytes leave the history. *)
LEMMA HistoryUntouched ==
    ASSUME VersionChecks, version' = version,
           document'.currentVersion = document.currentVersion,
           \A v \in version : object'[v.key] = object[v.key]
    PROVE  HistoryOf' = HistoryOf
  <1>1. HistoryOf' = StoredAs(version', object', document'.currentVersion)
    BY DEF HistoryOf
  <1>2. ASSUME NEW n \in 1 .. document.currentVersion
        PROVE  object'[RowIn(version, n).key] = object[RowIn(version, n).key]
    <2>1. PICK v \in version : v.number = n
      BY HistoryFacts
    <2>2. RowIn(version, n) = v
      BY <2>1, RowInIsTheRow, LatestFacts
    <2> QED
      BY <2>2
  <1> QED
    BY <1>1, <1>2 DEF HistoryOf, StoredAs

(* The row of a commit goes to the end. *)
LEMMA CommitAppends ==
    ASSUME VersionChecks, VersionChecks', NEW r \in Writers, CommitVersion(r)
    PROVE  /\ writer[r].number = document.currentVersion + 1
           /\ HistoryOf' = Append(HistoryOf, [body |-> writer[r].body,
                                              sealed |-> writer[r].sealed])
  <1>1. PICK row : row = RowOf(r)
    OBVIOUS
  <1>2. /\ row.number = writer[r].number /\ row.key = r
    BY <1>1 DEF RowOf, StorageKey
  <1>3. /\ version' = version \cup {row} /\ object' = object /\ Sound(r, writer[r])
        /\ document' = [document EXCEPT !.currentVersion = writer[r].number]
        /\ \A v \in version : v.number # writer[r].number
        /\ writer[r].pc = "stored" /\ document \in DocumentType
    BY <1>1, WriterFacts DEF CommitVersion, NumberTaken
  <1>4. object[r] = [body |-> writer[r].body, sealed |-> writer[r].sealed]
    BY <1>3 DEF Sound
  <1>5. PICK cur \in Nat : cur = document.currentVersion
    BY HistoryFacts
  <1>6. writer[r].number = cur + 1
    <2>1. PICK v \in version : writer[r].number = v.number + 1
      BY <1>3 DEF Sound
    <2>2. v.number \in 1 .. cur
      BY <1>5, HistoryFacts
    <2>3. \A n \in 1 .. cur : n # writer[r].number
      BY <1>3, <1>5, HistoryFacts
    <2> QED
      BY <2>1, <2>2, <2>3
  <1>7. document'.currentVersion = cur + 1
    BY <1>3, <1>6 DEF DocumentType
  <1>8. PICK g : g = HistoryOf'
    OBVIOUS
  <1>9. g = [n \in 1 .. cur + 1 |-> object[RowIn(version', n).key]]
    BY <1>3, <1>7, <1>8 DEF HistoryOf, StoredAs
  <1>10. \A v, w \in version' : v.number = w.number => v = w
    BY DEF VersionChecks, VersionInv, HistoryIsDense
  <1>11. ASSUME NEW n \in 1 .. cur PROVE g[n] = HistoryOf[n]
    <2>1. PICK v \in version : v.number = n
      BY <1>5, HistoryFacts
    <2>2. v \in version'
      BY <1>3
    <2>3. RowIn(version', v.number) = v
      BY <1>10, <2>2, RowInIsTheRow
    <2>4. HistoryOf[v.number] = object[v.key]
      BY HistoryFacts
    <2> QED
      BY <1>9, <2>1, <2>3, <2>4
  <1>12. g[cur + 1] = object[r]
    <2>1. row \in version'
      BY <1>3
    <2>2. RowIn(version', row.number) = row
      BY <1>10, <2>1, RowInIsTheRow
    <2> QED
      BY <1>2, <1>6, <1>9, <2>2
  <1>13. g \in Seq(Entries) /\ Len(g) = cur + 1
    <2>1. object[r] \in Entries
      BY <1>4, WriterFacts DEF WriterType, Entries
    <2>2. ASSUME NEW n \in 1 .. cur PROVE HistoryOf[n] \in Entries
      BY <1>5, HistoryFacts
    <2>3. \A n \in 1 .. cur + 1 : g[n] \in Entries
      BY <1>11, <1>12, <2>1, <2>2
    <2>4. g \in [1 .. cur + 1 -> Entries]
      BY <1>9, <2>3
    <2> QED
      BY <2>4
  <1>14. PICK h : h = HistoryOf
    OBVIOUS
  <1>15. h \in Seq(Entries) /\ Len(h) = cur
    BY <1>5, <1>14, HistoryFacts
  <1>16. PICK e : e = object[r]
    OBVIOUS
  <1>17. e \in Entries
    BY <1>12, <1>13, <1>16
  <1>18. Append(h, e) = g
    BY <1>11, <1>12, <1>13, <1>14, <1>15, <1>16, <1>17
  <1> QED
    BY <1>4, <1>5, <1>6, <1>8, <1>14, <1>16, <1>18

-----------------------------------------------------------------------------
(* A step of the handlers is a step of the history, or none. *)
HistoryMoves == [History!HistoryNext]_(History!historyVars)

LEMMA MappedHistory ==
    /\ History!historyVars = <<HistoryOf, ~dek>>
    /\ (History!historyVars)' = <<HistoryOf', ~dek'>>
    /\ History!Latest = HistoryOf[Len(HistoryOf)]
  BY DEF History!historyVars, History!Latest, HistoryOf, StoredAs, RowIn, Numbered

(* A version that is added: its bytes, sealed unless the key is gone. *)
LEMMA MappedAddition ==
    ASSUME NEW body, NEW sealed \in BOOLEAN, sealed \/ ~dek, dek' = dek,
           HistoryOf' = Append(HistoryOf, [body |-> body, sealed |-> sealed])
    PROVE  History!AddVersion(body)
  BY DEF History!AddVersion, HistoryOf, StoredAs, RowIn, Numbered

LEMMA MappedRestore ==
    ASSUME NEW n \in 1 .. Len(HistoryOf),
           \/ History!AddVersion(HistoryOf[n].body)
           \/ /\ ~dek /\ HistoryOf[n].sealed
              /\ History!AddVersion([HistoryOf[n].body EXCEPT !.cipher = TRUE])
    PROVE  History!Restore
  BY Zenon DEF History!Restore, HistoryOf, StoredAs, RowIn, Numbered

(* The commit of a version: an upload, a redaction or a restore.           *)
LEMMA CommitMoves ==
    ASSUME VersionChecks, VersionChecks', WritesFit, NEW r \in Writers, CommitVersion(r)
    PROVE  HistoryMoves
  <1>1. PICK w : w = writer[r]
    OBVIOUS
  <1>2. /\ w \in WriterType /\ w.pc = "stored" /\ Sound(r, w) /\ Fits(w) /\ dek' = dek
    BY <1>1, WriterFacts DEF CommitVersion, WritesFit
  <1>3. PICK h : h = HistoryOf
    OBVIOUS
  <1>4. PICK cur \in Nat \ {0} : cur = document.currentVersion
    BY HistoryFacts
  <1>5. /\ w.number = cur + 1 /\ Len(h) = cur
        /\ HistoryOf' = Append(HistoryOf, [body |-> w.body, sealed |-> w.sealed])
    BY <1>1, <1>3, <1>4, CommitAppends, HistoryFacts
  <1>6. \A v \in version : /\ v.number \in 1 .. cur /\ h[v.number].body = v.checksum
                           /\ h[v.number].sealed = v.sealed
    BY <1>3, <1>4, HistoryFacts
  <1>7. History!AddVersion(w.body)
    BY <1>2, <1>5, MappedAddition DEF WriterType, Fits
  <1>8. PICK last \in version : last.number = cur
    BY <1>4, HistoryFacts
  <1>9. History!Latest.body = last.checksum
    BY <1>3, <1>5, <1>6, <1>8, MappedHistory
  <1>10. CASE w.op = "upload"
    <2>1. PICK t \in Texts : w.body = Body(t)
      BY <1>2, <1>10 DEF Fits
    <2>2. cur < MaxVersions
      BY <1>2, <1>5, <1>10, CapAssumption DEF Fits
    <2>3. last.checksum # w.body
      BY <1>2, <1>5, <1>8, <1>10 DEF Sound
    <2>4. History!File(t) = Body(t)
      BY DEF History!File, Body
    <2>5. Len(HistoryOf) < MaxVersions
      BY <1>3, <1>5, <2>2
    <2>6. History!Upload
      BY <1>7, <1>9, <2>1, <2>3, <2>4, <2>5
      DEF History!Upload, HistoryOf, StoredAs, RowIn, Numbered
    <2> QED
      BY <2>6 DEF HistoryMoves, History!HistoryNext
  <1>11. CASE w.op = "redact"
    <2>1. w.source \in version /\ w.number = w.source.number + 1
          /\ w.body = Redacted(w.source.checksum) /\ ~w.source.checksum.cipher
      BY <1>2, <1>11 DEF Sound, Fits
    <2>2. w.source.number \in 1 .. cur
      BY <1>6, <2>1
    <2>3. w.source = last
      BY <1>5, <1>8, <2>1, <2>2, LatestFacts
    <2>4. w.body = [History!Latest.body EXCEPT !.marks = @ + 1]
      BY <1>9, <2>1, <2>3 DEF Redacted
    <2>5. History!Redact
      BY <1>7, <1>9, <2>1, <2>3, <2>4 DEF History!Redact
    <2> QED
      BY <2>5 DEF HistoryMoves, History!HistoryNext
  <1>12. CASE w.op = "restore"
    <2>1. PICK s \in version : s = w.source
      BY <1>2, <1>12 DEF Sound
    <2>2. PICK n \in 1 .. cur : n = s.number
      BY <1>6
    <2>3. h[n].body = s.checksum /\ h[n].sealed = s.sealed
      BY <1>6, <2>2
    <2>4. \/ w.body = h[n].body
          \/ ~dek /\ h[n].sealed /\ w.body = [h[n].body EXCEPT !.cipher = TRUE]
      BY <1>2, <1>12, <2>1, <2>3 DEF Fits
    <2>5. n \in 1 .. Len(HistoryOf)
      BY <1>3, <1>5
    <2>6. \/ History!AddVersion(HistoryOf[n].body)
          \/ /\ ~dek /\ HistoryOf[n].sealed
             /\ History!AddVersion([HistoryOf[n].body EXCEPT !.cipher = TRUE])
      BY <1>3, <1>7, <2>4, Zenon
    <2>7. History!Restore
      BY <2>5, <2>6, MappedRestore
    <2> QED
      BY <2>7 DEF HistoryMoves, History!HistoryNext
  <1> QED
    BY <1>2, <1>10, <1>11, <1>12 DEF Sound, Writing

LEMMA HistorySteps ==
    ASSUME VersionChecks, VersionChecks', WritesFit, [VersionNext]_versionVars
    PROVE  HistoryMoves
  <1>1. ASSUME HistoryOf' = HistoryOf, dek' = dek PROVE HistoryMoves
    BY <1>1, MappedHistory DEF HistoryMoves
  <1>2. ASSUME HistoryOf' = HistoryOf, dek' = FALSE, dek \in BOOLEAN PROVE HistoryMoves
    BY <1>2 DEF HistoryMoves, History!HistoryNext, History!Shred, HistoryOf, StoredAs,
                RowIn, Numbered
  <1>3. CASE UNCHANGED versionVars
    <2>1. HistoryOf' = HistoryOf
      BY <1>3, HistoryUntouched DEF versionVars
    <2> QED
      BY <1>1, <1>3, <2>1 DEF versionVars
  <1>4. ASSUME NEW r \in Writers, BeginWrite(r) \/ ContinueWrite(r) \/ Fail(r)
        PROVE  HistoryMoves
    <2>1. CASE CommitVersion(r)
      BY <2>1, CommitMoves
    <2>2. CASE Store(r)
      <3>0. \A v \in version : v.key # r
        BY <2>2, WriterFacts DEF Store, Sound
      <3>1. \A v \in version : v.key # r /\ v.key \in StorageKeys
        BY <3>0 DEF VersionChecks, VersionInv, RowMatchesObject
      <3>2. \A v \in version : object'[v.key] = object[v.key]
        BY <2>2, <3>1 DEF Store, StorageKey
      <3>3. HistoryOf' = HistoryOf
        BY <2>2, <3>2, HistoryUntouched DEF Store
      <3> QED
        BY <1>1, <2>2, <3>3 DEF Store
    <2>3. CASE DeleteKey(r)
      <3>1. HistoryOf' = HistoryOf
        BY <2>3, HistoryUntouched DEF DeleteKey
      <3> QED
        BY <1>2, <2>3, <3>1, WriterFacts DEF DeleteKey
    <2>4. CASE MarkState(r)
      <3>1. document'.currentVersion = document.currentVersion
        BY <2>4, WriterFacts DEF MarkState, DocumentType
      <3>2. HistoryOf' = HistoryOf
        BY <2>4, <3>1, HistoryUntouched DEF MarkState
      <3> QED
        BY <1>1, <2>4, <3>2 DEF MarkState
    <2>5. CASE ~(CommitVersion(r) \/ Store(r) \/ DeleteKey(r) \/ MarkState(r))
      <3>1. UNCHANGED <<version, object, document, dek>>
        BY <1>4, <2>5
        DEF BeginWrite, BeginUpload, BeginRestore, BeginRedact, BeginShredding, BeginDeletion,
            ContinueWrite, OpenForRestore, OpenForRedact, RedactRefused, OpenTransaction,
            LoseNumber, Fail
      <3>2. HistoryOf' = HistoryOf
        BY <3>1, HistoryUntouched
      <3> QED
        BY <1>1, <3>1, <3>2
    <2> QED
      BY <2>1, <2>2, <2>3, <2>4, <2>5
  <1> QED
    BY <1>3, <1>4 DEF VersionNext

(* For any requests, texts and cap: rows, storage and key implement the    *)
(* append-only history, and rows and bytes stay.                           *)
THEOREM HistoryIsImplemented == VersionSpec => ImplementsHistory
  <1>1. VersionInit => WritesFit
    BY FirstFacts DEF VersionInit, WritesFit, Fits
  <1>2. VersionInit => History!HistoryInit
    <2> SUFFICES ASSUME VersionInit PROVE History!HistoryInit
      OBVIOUS
    <2>1. version = {FirstRow} /\ dek = TRUE /\ document.currentVersion = 1
          /\ object["first"] = [body |-> Body(FirstText), sealed |-> TRUE]
      BY DEF VersionInit
    <2>2. RowIn(version, 1) = FirstRow
      BY <2>1, FirstFacts DEF RowIn
    <2>3. PICK e : e = [body |-> Body(FirstText), sealed |-> TRUE]
      OBVIOUS
    <2>4. HistoryOf = [n \in 1 .. 1 |-> object[RowIn(version, n).key]]
      BY <2>1 DEF HistoryOf, StoredAs
    <2>5. \A n \in 1 .. 1 : object[RowIn(version, n).key] = e
      BY <2>1, <2>2, <2>3, FirstFacts
    <2>6. HistoryOf = [n \in 1 .. 1 |-> e]
      BY <2>4, <2>5
    <2>7. HistoryOf = <<e>>
      BY <2>6
    <2>8. History!File(FirstText) = Body(FirstText)
      BY DEF History!File, Body
    <2> QED
      BY <2>1, <2>3, <2>7, <2>8
      DEF History!HistoryInit, HistoryOf, StoredAs, RowIn, Numbered
  <1>3. VersionChecks /\ VersionChecks' /\ WritesFit /\ [VersionNext]_versionVars
           => HistoryMoves
    BY HistorySteps
  <1>4. VersionSpec => [][History!HistoryNext]_(History!historyVars)
    BY <1>1, <1>3, VersionsStart, VersionStep, WritesKeepFitting, PTL
    DEF VersionSpec, HistoryMoves
  <1>5. VersionSpec => History!HistoryInit
    BY <1>2, PTL DEF VersionSpec
  <1>6. History!HistoryInit /\ [][History!HistoryNext]_(History!historyVars)
           => History!HistorySpec
    BY DEF History!HistorySpec
  <1> QED
    BY <1>4, <1>5, <1>6, HistoryStays, PTL DEF ImplementsHistory

-----------------------------------------------------------------------------
(*************************************************************************)
(* The safety properties of DocumentEditing, for any editors, users and  *)
(* levels.                                                               *)
(*                                                                       *)
(* Both properties rest on what a check is worth later: whatever an editor *)
(* saw is still so unless a change of it passed the editor.              *)
(*************************************************************************)

Busy(e) == editor[e].pc # "idle"

(* The class an editor saw is the class, and one that gives none repeats   *)
(* what it saw.                                                            *)
ClassIsCurrent ==
    \A e \in Editors : Busy(e) =>
        /\ "level" \notin editor[e].passed => editor[e].saw = docRow.level
        /\ editor[e].pc \in {"patching", "applying"} /\ ~editor[e].given
              => editor[e].level = editor[e].saw

(* The lock is as the editor's check wants it. *)
LockIsCurrent ==
    \A e \in Editors : Busy(e) =>
        /\ editor[e].user \in Staff
        /\ "lockedBy" \notin editor[e].passed =>
              /\ editor[e].pc \in {"patching", "closing"}
                    => docRow.lockedBy \in {Nobody, editor[e].user}
              /\ editor[e].pc = "locking" => docRow.lockedBy = Nobody
              /\ editor[e].pc = "unlocking"
                    => docRow.lockedBy = editor[e].user \/ editor[e].user \in Admins

(* So is the hold, for whom it matters: an editor who lowers the class,    *)
(* and an administrator who classifies a folder.                           *)
HoldIsCurrent ==
    \A e \in Editors :
        /\ editor[e].pc = "applying" => editor[e].user \in Admins
        /\ editor[e].pc = "applying" /\ "held" \notin editor[e].passed => ~docRow.held
        /\ editor[e].pc = "patching" /\ Downgrades(editor[e].saw, editor[e].level)
              => /\ editor[e].user \in MayDowngrade
                 /\ "held" \notin editor[e].passed => ~docRow.held

EditChecks == EditInv /\ ClassIsCurrent /\ LockIsCurrent /\ HoldIsCurrent

EditorType ==
    [pc : {"idle", "patching", "applying", "closing", "locking", "unlocking"},
     user : Staff \cup {Nobody}, given : BOOLEAN, saw : Levels, level : Levels,
     passed : SUBSET {"level", "lockedBy", "held"}]

DocRowType ==
    [level : Levels, lockedBy : Staff \cup {Nobody}, held : BOOLEAN,
     editedBy : Staff \cup {Nobody}]

LogType == [from : Levels, to : Levels, down : BOOLEAN]

LEMMA IdleFacts ==
    NoEdit \in EditorType /\ NoEdit.pc = "idle" /\ 0 \in Levels /\ Levels \subseteq Nat
  BY EditAssumption DEF NoEdit, EditorType, Levels

LEMMA EditingStarts == EditInit => EditChecks
  <1> SUFFICES ASSUME EditInit PROVE EditChecks
    OBVIOUS
  <1>1. /\ firstLevel \in Levels /\ docRow.level = firstLevel /\ docRow \in DocRowType
        /\ log = <<>> /\ Len(log) = 0 /\ editOps = 0 /\ lapsed = FALSE
        /\ editor = [e \in Editors |-> NoEdit]
    BY DEF EditInit, DocRowType
  <1>2. EditTypeOK
    <2>1. editor \in [Editors -> EditorType]
      BY <1>1, IdleFacts
    <2>2. log \in Seq(LogType)
      BY <1>1
    <2>3. lapsed \in BOOLEAN
      BY <1>1
    <2>4. MaxEditOps \in Nat
      BY EditAssumption
    <2>5. editOps \in 0 .. MaxEditOps
      BY <1>1, <2>4
    <2> QED
      BY <1>1, <2>1, <2>2, <2>3, <2>5 DEF EditTypeOK, EditorType, DocRowType, LogType
  <1>3. HistoryLeadsToTheClass
    BY <1>1 DEF HistoryLeadsToTheClass, ClassBefore
  <1>4. ClassIsCurrent /\ LockIsCurrent /\ HoldIsCurrent
    BY <1>1, IdleFacts DEF ClassIsCurrent, LockIsCurrent, HoldIsCurrent, Busy
  <1> QED
    BY <1>2, <1>3, <1>4 DEF EditChecks, EditInv

(* A check succeeds, and the editor keeps what it saw. *)
Admitted(e, pc, u, given, level) ==
    /\ BeginEdit(e, pc, u, given, level)
    /\ pc \in {"patching", "applying"} /\ ~given => level = docRow.level
    /\ pc \in {"patching", "closing"} => docRow.lockedBy \in {Nobody, u}
    /\ pc = "locking" => docRow.lockedBy = Nobody
    /\ pc = "unlocking" => docRow.lockedBy = u \/ u \in Admins
    /\ pc = "applying" => u \in Admins /\ ~docRow.held
    /\ pc = "patching" /\ Downgrades(docRow.level, level)
          => u \in MayDowngrade /\ ~docRow.held

LEMMA AdmittedPreserves ==
    ASSUME EditChecks, NEW e \in Editors, NEW u \in Staff, NEW given \in BOOLEAN,
           NEW level \in Levels,
           NEW pc \in {"patching", "applying", "closing", "locking", "unlocking"},
           Admitted(e, pc, u, given, level)
    PROVE  EditChecks'
  <1> DEFINE new == [NoEdit EXCEPT !.pc = pc, !.user = u, !.given = given,
                                   !.saw = docRow.level, !.level = level]
  <1>1. docRow \in DocRowType /\ editor \in [Editors -> EditorType]
    BY DEF EditChecks, EditInv, EditTypeOK, DocRowType, EditorType
  <1>2. /\ new \in EditorType /\ new.pc = pc /\ new.user = u /\ new.given = given
        /\ new.saw = docRow.level /\ new.level = level /\ new.passed = {}
    BY <1>1 DEF NoEdit, EditorType, DocRowType
  <1>3. /\ editor' = [editor EXCEPT ![e] = new]
        /\ editOps < MaxEditOps /\ editOps' = editOps + 1
        /\ UNCHANGED <<docRow, log, firstLevel, lapsed>>
    BY DEF Admitted, BeginEdit
  <1> HIDE DEF new
  <1>4. /\ editor' \in [Editors -> EditorType] /\ editor'[e] = new
        /\ \A o \in Editors \ {e} : editor'[o] = editor[o]
    BY <1>1, <1>2, <1>3
  <1>5. EditTypeOK'
    BY <1>3, <1>4, EditAssumption DEF EditChecks, EditInv, EditTypeOK, EditorType
  <1>6. HistoryLeadsToTheClass'
    BY <1>3 DEF EditChecks, EditInv, HistoryLeadsToTheClass, ClassBefore
  <1>7. ClassIsCurrent'
    BY <1>2, <1>3, <1>4 DEF Admitted, EditChecks, ClassIsCurrent, Busy
  <1>8. LockIsCurrent'
    BY <1>2, <1>3, <1>4 DEF Admitted, EditChecks, LockIsCurrent, Busy
  <1>9. HoldIsCurrent'
    BY <1>2, <1>3, <1>4 DEF Admitted, EditChecks, HoldIsCurrent
  <1> QED
    BY <1>5, <1>6, <1>7, <1>8, <1>9 DEF EditChecks, EditInv

LEMMA EditBeginPreserves ==
    ASSUME EditChecks, NEW e \in Editors, NEW u \in Staff,
           \/ BeginClose(e, u) \/ BeginLock(e, u) \/ BeginUnlock(e, u)
           \/ \E level \in Levels :
                 \/ BeginApply(e, u, level)
                 \/ \E given \in BOOLEAN : BeginPatch(e, u, given, level)
    PROVE  EditChecks'
  <1>1. docRow.level \in Levels /\ 0 \in Levels
    BY IdleFacts DEF EditChecks, EditInv, EditTypeOK
  <1>2. CASE BeginClose(e, u)
    <2>1. Admitted(e, "closing", u, FALSE, docRow.level)
      BY <1>2 DEF BeginClose, Unlocked, Admitted
    <2> QED
      BY <1>1, <2>1, AdmittedPreserves
  <1>3. CASE BeginLock(e, u)
    <2>1. Admitted(e, "locking", u, FALSE, 0)
      BY <1>3 DEF BeginLock, Admitted
    <2> QED
      BY <1>1, <2>1, AdmittedPreserves
  <1>4. CASE BeginUnlock(e, u)
    <2>1. Admitted(e, "unlocking", u, FALSE, 0)
      BY <1>4 DEF BeginUnlock, Admitted
    <2> QED
      BY <1>1, <2>1, AdmittedPreserves
  <1>5. ASSUME NEW level \in Levels, BeginApply(e, u, level) PROVE EditChecks'
    <2>1. Admitted(e, "applying", u, level # docRow.level, level)
      BY <1>5 DEF BeginApply, Admitted
    <2> QED
      BY <2>1, AdmittedPreserves
  <1>6. ASSUME NEW level \in Levels, NEW given \in BOOLEAN, BeginPatch(e, u, given, level)
        PROVE  EditChecks'
    <2>1. Admitted(e, "patching", u, given, level)
      BY <1>6 DEF BeginPatch, MayPatch, Unlocked, Admitted
    <2> QED
      BY <2>1, AdmittedPreserves
  <1> QED
    BY <1>2, <1>3, <1>4, <1>5, <1>6

(* A change of the row leaves what the others know of it as sound as it    *)
(* was: what changed has passed them.                                      *)
LEMMA ChangePreserves ==
    ASSUME EditChecks, NEW e, NEW row \in DocRowType, Change(e, row)
    PROVE  /\ docRow' = row
           /\ editor' \in [Editors -> EditorType]
           /\ ClassIsCurrent' /\ LockIsCurrent' /\ HoldIsCurrent'
  <1> DEFINE new == {k \in {"level", "lockedBy", "held"} : row[k] # docRow[k]}
  <1>1. docRow \in DocRowType /\ editor \in [Editors -> EditorType]
    BY DEF EditChecks, EditInv, EditTypeOK, DocRowType, EditorType
  <1>2. /\ docRow' = row
        /\ editor' = [o \in Editors |-> IF o = e \/ editor[o].pc = "idle" THEN NoEdit
                                        ELSE [editor[o] EXCEPT !.passed = @ \cup new]]
    BY DEF Change
  <1>3. /\ new \subseteq {"level", "lockedBy", "held"}
        /\ "level" \notin new => row.level = docRow.level
        /\ "lockedBy" \notin new => row.lockedBy = docRow.lockedBy
        /\ "held" \notin new => row.held = docRow.held
    OBVIOUS
  <1> HIDE DEF new
  <1>4. ASSUME NEW o \in Editors
        PROVE  \/ editor'[o] = NoEdit
               \/ /\ editor[o].pc # "idle" /\ editor'[o] \in EditorType
                  /\ editor'[o].pc = editor[o].pc /\ editor'[o].user = editor[o].user
                  /\ editor'[o].given = editor[o].given
                  /\ editor'[o].saw = editor[o].saw /\ editor'[o].level = editor[o].level
                  /\ editor'[o].passed = editor[o].passed \cup new
    <2>1. editor[o] \in EditorType
      BY <1>1
    <2>2. CASE o = e \/ editor[o].pc = "idle"
      BY <1>2, <2>2
    <2>3. CASE ~(o = e \/ editor[o].pc = "idle")
      <3>1. editor'[o] = [editor[o] EXCEPT !.passed = @ \cup new]
        BY <1>2, <2>3
      <3> QED
        BY <1>3, <2>1, <2>3, <3>1 DEF EditorType
    <2> QED
      BY <2>2, <2>3
  <1>5. editor' \in [Editors -> EditorType]
    BY <1>2, <1>4, IdleFacts
  <1>6. ClassIsCurrent'
    BY <1>2, <1>3, <1>4, IdleFacts DEF EditChecks, ClassIsCurrent, Busy
  <1>7. LockIsCurrent'
    BY <1>2, <1>3, <1>4, IdleFacts DEF EditChecks, LockIsCurrent, Busy
  <1>8. HoldIsCurrent'
    BY <1>2, <1>3, <1>4, IdleFacts DEF EditChecks, HoldIsCurrent
  <1> QED
    BY <1>2, <1>5, <1>6, <1>7, <1>8

(* Lock, unlock, close, and the hold: the class stays and so does its      *)
(* history.                                                                *)
LEMMA SameClassPreserves ==
    ASSUME EditChecks, NEW by, NEW row \in DocRowType, Change(by, row),
           row.level = docRow.level, UNCHANGED <<log, firstLevel, lapsed>>,
           editOps' \in 0 .. MaxEditOps
    PROVE  EditChecks'
  <1>1. /\ docRow' = row /\ editor' \in [Editors -> EditorType]
        /\ ClassIsCurrent' /\ LockIsCurrent' /\ HoldIsCurrent'
    BY ChangePreserves
  <1>2. EditTypeOK'
    BY <1>1 DEF EditChecks, EditInv, EditTypeOK, DocRowType, EditorType
  <1>3. HistoryLeadsToTheClass'
    BY <1>1 DEF EditChecks, EditInv, HistoryLeadsToTheClass, ClassBefore
  <1> QED
    BY <1>1, <1>2, <1>3 DEF EditChecks, EditInv

LEMMA LockingPreserves ==
    ASSUME EditChecks, NEW e \in Editors, Close(e) \/ Lock(e) \/ Unlock(e)
    PROVE  EditChecks'
  <1>1. /\ docRow \in DocRowType /\ editor[e] \in EditorType
        /\ editOps \in 0 .. MaxEditOps
    BY DEF EditChecks, EditInv, EditTypeOK, DocRowType, EditorType
  <1>2. PICK row \in DocRowType : Change(e, row) /\ row.level = docRow.level
    <2>1. CASE Close(e)
      BY <1>1, <2>1 DEF Close, DocRowType, EditorType
    <2>2. CASE Lock(e)
      BY <1>1, <2>2 DEF Lock, DocRowType, EditorType
    <2>3. CASE Unlock(e)
      BY <1>1, <2>3 DEF Unlock, DocRowType
    <2> QED
      BY <2>1, <2>2, <2>3
  <1>3. UNCHANGED <<log, firstLevel, lapsed>> /\ editOps' \in 0 .. MaxEditOps
    BY <1>1 DEF Close, Lock, Unlock
  <1> QED
    BY <1>2, <1>3, SameClassPreserves

LEMMA HoldPreserves ==
    ASSUME EditChecks, SetDocumentHold PROVE EditChecks'
  <1> DEFINE row == [docRow EXCEPT !.held = ~@]
  <1>1. docRow \in DocRowType /\ editOps \in 0 .. MaxEditOps
    BY DEF EditChecks, EditInv, EditTypeOK, DocRowType
  <1>2. row \in DocRowType /\ row.level = docRow.level /\ Change(Nobody, row)
    BY <1>1 DEF SetDocumentHold, DocRowType
  <1>3. UNCHANGED <<log, firstLevel, lapsed>> /\ editOps' \in 0 .. MaxEditOps
    BY <1>1, EditAssumption DEF SetDocumentHold
  <1> HIDE DEF row
  <1> QED
    BY <1>2, <1>3, SameClassPreserves

(* A change of the class, with its row of the history or without one. *)
LEMMA ClassifyPreserves ==
    ASSUME EditChecks, NEW e \in Editors, Patch(e) \/ ApplyClass(e) PROVE EditChecks'
  <1>1. /\ docRow \in DocRowType /\ editor[e] \in EditorType
        /\ log \in Seq(LogType) /\ firstLevel \in Levels
    BY DEF EditChecks, EditInv, EditTypeOK, DocRowType, EditorType, LogType
  <1>2. PICK by \in Staff \cup {Nobody} : Classify(e, by)
    BY <1>1 DEF Patch, ApplyClass, DocRowType, EditorType
  <1>3. editor[e].pc \in {"patching", "applying"}
    BY DEF Patch, ApplyClass
  <1> DEFINE old == editor[e]
             row == [docRow EXCEPT !.level = IF old.given THEN old.level ELSE @,
                                   !.editedBy = by]
  <1>4. /\ row \in DocRowType
        /\ row.level = IF old.given THEN old.level ELSE docRow.level
    BY <1>1 DEF DocRowType, EditorType
  <1>5. /\ log' = IF old.saw = old.level THEN log ELSE Append(log, Row(e))
        /\ lapsed' = (lapsed \/ (old.given /\ "level" \in old.passed))
        /\ Change(e, row) /\ UNCHANGED <<editOps, firstLevel>>
    BY <1>2 DEF Classify, Recorded
  <1> HIDE DEF row
  <1>6. /\ docRow' = row /\ editor' \in [Editors -> EditorType]
        /\ ClassIsCurrent' /\ LockIsCurrent' /\ HoldIsCurrent'
    BY <1>4, <1>5, ChangePreserves
  <1>7. /\ Row(e) \in LogType /\ Row(e).from = old.saw /\ Row(e).to = old.level
        /\ Row(e).down = Downgrades(old.saw, old.level)
    BY <1>1 DEF Row, LogType, EditorType, Downgrades
  <1>8. EditTypeOK'
    <2>1. log' \in Seq(LogType)
      BY <1>1, <1>5, <1>7
    <2>2. lapsed' \in BOOLEAN
      BY <1>5
    <2> QED
      BY <1>4, <1>5, <1>6, <2>1, <2>2
      DEF EditChecks, EditInv, EditTypeOK, DocRowType, EditorType, LogType
  <1>9. HistoryLeadsToTheClass'
    <2>1. ~lapsed' => /\ HistoryLeadsToTheClass /\ ~lapsed
                      /\ old.given => old.saw = docRow.level
      BY <1>3, <1>5 DEF EditChecks, EditInv, ClassIsCurrent, Busy
    <2>2. ~old.given => old.level = old.saw
      BY <1>3 DEF EditChecks, ClassIsCurrent, Busy
    <2>3. CASE old.saw = old.level
      <3>1. log' = log /\ firstLevel' = firstLevel
            /\ (~lapsed' => docRow'.level = docRow.level)
        BY <1>4, <1>5, <1>6, <2>1, <2>3
      <3> QED
        BY <2>1, <3>1 DEF HistoryLeadsToTheClass, ClassBefore
    <2>4. CASE old.saw # old.level
      <3> DEFINE n == Len(log)
      <3>1. old.given /\ docRow'.level = old.level
        BY <1>4, <1>6, <2>2, <2>4
      <3>2. /\ n \in Nat /\ log' = Append(log, Row(e)) /\ Len(log') = n + 1
            /\ log'[n + 1] = Row(e) /\ \A i \in 1 .. n : log'[i] = log[i]
        BY <1>1, <1>5, <1>7, <2>4
      <3> HIDE DEF n
      <3>3. \A i \in 1 .. n + 1 : ClassBefore(i)' = ClassBefore(i)
        BY <1>5, <3>2 DEF ClassBefore
      <3>4. docRow'.level = ClassBefore(Len(log) + 1)'
        <4>1. Len(log') + 1 # 1 /\ (Len(log') + 1) - 1 = n + 1
          BY <3>2
        <4>2. log'[(Len(log') + 1) - 1].to = old.level
          BY <1>7, <3>2, <4>1
        <4> QED
          BY <3>1, <4>1, <4>2 DEF ClassBefore
      <3>5. ASSUME ~lapsed', NEW i \in 1 .. n + 1
            PROVE  /\ log'[i].from = ClassBefore(i) /\ log'[i].from # log'[i].to
                   /\ log'[i].down <=> Downgrades(ClassBefore(i), log'[i].to)
        <4>1. CASE i = n + 1
          <5>1. old.saw = ClassBefore(i)
            BY <2>1, <3>1, <3>5, <4>1 DEF HistoryLeadsToTheClass, n
          <5> QED
            BY <1>7, <2>4, <3>2, <4>1, <5>1
        <4>2. CASE i # n + 1
          <5>1. i \in 1 .. n /\ log'[i] = log[i]
            BY <3>2, <4>2
          <5> QED
            BY <2>1, <3>5, <5>1 DEF HistoryLeadsToTheClass, n
        <4> QED
          BY <4>1, <4>2
      <3>6. ASSUME ~lapsed', NEW i \in 1 .. Len(log')
            PROVE  /\ log'[i].from = ClassBefore(i)' /\ log'[i].from # log'[i].to
                   /\ log'[i].down <=> Downgrades(ClassBefore(i)', log'[i].to)
        BY <3>2, <3>3, <3>5, <3>6
      <3> QED
        BY <3>4, <3>6 DEF HistoryLeadsToTheClass, Downgrades
    <2> QED
      BY <2>3, <2>4
  <1> QED
    BY <1>6, <1>8, <1>9 DEF EditChecks, EditInv

LEMMA EditStep == EditChecks /\ [EditNext]_editVars => EditChecks'
  <1> SUFFICES ASSUME EditChecks, [EditNext]_editVars PROVE EditChecks'
    OBVIOUS
  <1>1. CASE UNCHANGED editVars
    BY <1>1 DEF editVars, EditChecks, EditInv, EditTypeOK, HistoryLeadsToTheClass,
                ClassBefore, ClassIsCurrent, LockIsCurrent, HoldIsCurrent, Busy
  <1>2. CASE SetDocumentHold
    BY <1>2, HoldPreserves
  <1>3. ASSUME NEW e \in Editors, Patch(e) \/ ApplyClass(e) \/ Close(e) \/ Lock(e) \/ Unlock(e)
        PROVE  EditChecks'
    BY <1>3, ClassifyPreserves, LockingPreserves
  <1> QED
    BY <1>1, <1>2, <1>3, EditBeginPreserves DEF EditNext

(* For any editors, users and levels: the history of the class leads to    *)
(* the class, unless a class was written over one nobody had read.         *)
THEOREM HistoryLeads == EditSpec => []EditInv
  <1>1. EditChecks => EditInv
    BY DEF EditChecks
  <1> QED
    BY <1>1, EditingStarts, EditStep, PTL DEF EditSpec

EditChecked(e) ==
    LET u == editor[e].user IN
    /\ "lockedBy" \notin editor[e].passed =>
          /\ editor[e].pc \in {"patching", "closing"} => docRow.lockedBy \in {Nobody, u}
          /\ docRow'.lockedBy = u => docRow.lockedBy \in {Nobody, u}
          /\ docRow'.lockedBy # docRow.lockedBy => docRow.lockedBy \in {Nobody, u} \/ u \in Admins
    /\ editor[e].passed \cap {"level", "held"} = {} /\ Downgrades(docRow.level, docRow'.level) =>
          ~docRow.held /\ u \in MayDowngrade \cup Admins

(* What the row was and becomes when the editor ends. *)
LEMMA EditStepIsChecked ==
    ASSUME EditChecks, EditNext, NEW e \in Editors, Writes(e) PROVE EditChecked(e)
  <1>1. /\ docRow \in DocRowType /\ editor \in [Editors -> EditorType]
        /\ editor[e] \in EditorType
    BY DEF EditChecks, EditInv, EditTypeOK, DocRowType, EditorType
  <1>2. /\ Busy(e) /\ editor[e].user \in Staff /\ Nobody \notin Staff
        /\ docRow.level \in Nat
    BY <1>1, EditAssumption, IdleFacts DEF EditChecks, LockIsCurrent, Busy, Writes, DocRowType
  <1>3. \/ Patch(e) \/ ApplyClass(e) \/ Lock(e) \/ Unlock(e)
        \/ docRow'.lockedBy = docRow.lockedBy /\ docRow'.level = docRow.level
    <2>1. ASSUME NEW o \in Editors, o # e, NEW row, Change(o, row) PROVE FALSE
      BY <1>1, <1>2, <2>1 DEF Change, Writes, EditorType, Busy
    <2>2. ASSUME NEW o \in Editors,
                 Patch(o) \/ ApplyClass(o) \/ Close(o) \/ Lock(o) \/ Unlock(o)
          PROVE  o = e
      BY <2>1, <2>2 DEF Patch, ApplyClass, Classify, Close, Lock, Unlock
    <2>3. CASE SetDocumentHold
      BY <1>1, <2>3 DEF SetDocumentHold, Change, DocRowType
    <2>4. CASE Close(e)
      BY <1>1, <2>4 DEF Close, Change, DocRowType
    <2>5. CASE UNCHANGED docRow
      BY <2>5
    <2> QED
      BY <2>2, <2>3, <2>4, <2>5
      DEF EditNext, BeginClose, BeginLock, BeginUnlock, BeginApply, BeginPatch, BeginEdit
  <1>4. CASE docRow'.lockedBy = docRow.lockedBy /\ docRow'.level = docRow.level
    BY <1>2, <1>4 DEF EditChecked, Downgrades, EditChecks, LockIsCurrent
  <1>5. CASE Patch(e) \/ ApplyClass(e)
    <2>1. /\ docRow'.lockedBy = docRow.lockedBy
          /\ docRow'.level = IF editor[e].given THEN editor[e].level ELSE docRow.level
      BY <1>1, <1>5 DEF Patch, ApplyClass, Classify, Change, DocRowType
    <2>2. "lockedBy" \notin editor[e].passed /\ editor[e].pc = "patching"
              => docRow.lockedBy \in {Nobody, editor[e].user}
      BY <1>2 DEF EditChecks, LockIsCurrent
    <2>3. editor[e].pc \in {"patching", "applying"}
      BY <1>5 DEF Patch, ApplyClass
    <2>4. ASSUME editor[e].passed \cap {"level", "held"} = {},
                 Downgrades(docRow.level, docRow'.level)
          PROVE  ~docRow.held /\ editor[e].user \in MayDowngrade \cup Admins
      <3>1. docRow.level = editor[e].saw /\ docRow'.level = editor[e].level
        BY <1>2, <2>1, <2>4 DEF EditChecks, ClassIsCurrent, Downgrades
      <3> QED
        BY <2>3, <2>4, <3>1 DEF EditChecks, HoldIsCurrent
    <2> QED
      BY <2>1, <2>2, <2>3, <2>4 DEF EditChecked
  <1>6. CASE Lock(e)
    <2>1. docRow'.level = docRow.level /\ editor[e].pc = "locking"
      BY <1>1, <1>6 DEF Lock, Change, DocRowType
    <2> QED
      BY <1>2, <2>1 DEF EditChecked, Downgrades, EditChecks, LockIsCurrent
  <1>7. CASE Unlock(e)
    <2>1. docRow'.level = docRow.level /\ editor[e].pc = "unlocking"
          /\ docRow'.lockedBy = Nobody
      BY <1>1, <1>7 DEF Unlock, Change, DocRowType
    <2> QED
      BY <1>2, <2>1 DEF EditChecked, Downgrades, EditChecks, LockIsCurrent
  <1> QED
    BY <1>3, <1>4, <1>5, <1>6, <1>7

(* For any editors, users and levels: races aside, no one edits what       *)
(* another has locked, opens another's lock without being an               *)
(* administrator, or lowers the class of what is on hold.                  *)
THEOREM EditsChecked == EditSpec => EditsAreChecked
  <1>1. EditChecks /\ [EditNext]_editVars
            => [\A e \in Editors : Writes(e) => EditChecked(e)]_editVars
    BY EditStepIsChecked
  <1>2. EditSpec => [][\A e \in Editors : Writes(e) => EditChecked(e)]_editVars
    BY <1>1, EditingStarts, EditStep, PTL DEF EditSpec
  <1> QED
    BY <1>2 DEF EditsAreChecked, EditChecked

(* For any editors, users and levels: the history leads to the row, and    *)
(* races aside every edit was checked.                                     *)
THEOREM EditsHold == EditSpec => EditsAreSound
  BY HistoryLeads, EditsChecked, PTL DEF EditsAreSound

-----------------------------------------------------------------------------
(*************************************************************************)
(* The properties of DocumentGovernance, for any number of officers: what *)
(* a call has checked still holds, or the call has been overtaken.       *)
(*************************************************************************)

Destroys(op) == op \in {"approve", "delete", "shred"}

(* What the program counter of a call says of it, and what it knows: what  *)
(* it has checked still holds, or it has been overtaken.                   *)
CallIsSound(r) ==
    /\ officer[r].pc = "idle" => officer[r] = NotStarted
    /\ officer[r].pc = "counted" => officer[r].op = "release"
    /\ officer[r].pc \in {"seen", "listed"} => officer[r].op = "extend"
    /\ officer[r].pc = "vacant" => officer[r].op \in {"request", "retention"}
    /\ officer[r].pc = "keyless" => officer[r].op = "shred"
    /\ officer[r].op \in {"extend", "release"} =>
          officer[r].hold \in Holds /\ hold[officer[r].hold] # "none"
    /\ officer[r].pc = "listed" => officer[r].hold \in listed
    /\ Running(r) /\ Destroys(officer[r].op) /\ doc.legalHold => "hold" \in overtaken[r]
    /\ Running(r) /\ officer[r].op = "delete" /\ doc.isRecord => "record" \in overtaken[r]
    /\ Running(r) /\ officer[r].op \in {"approve", "reject"} =>
          /\ officer[r].row \in DOMAIN disposition
          /\ \/ disposition[officer[r].row].status = "pending"
             \/ "decision" \in overtaken[r]
    /\ officer[r].pc = "vacant" /\ PendingRows # {} => "pending" \in overtaken[r]

ListedWerePlaced == \A h \in listed : hold[h] # "none"

(* Where transactions run one at a time, and no PATCH extends a hold.      *)
SerialFlag ==
    SerialReleases =>
       /\ \A r, o \in Officers :
             officer[r].pc = "counted" /\ officer[o].pc = "counted" => r = o
       /\ \A r \in Officers : officer[r].pc = "counted" =>
             (officer[r].clears <=> officer[r].hold \in listed /\ OnlyHold(officer[r].hold))
       /\ ~EverCalled("extend") => (doc.legalHold <=> Held)

(* Until a hold is released, the flag lags behind only while a PATCH is    *)
(* between its statements, or died there.                                  *)
UnreleasedFlag ==
    ~EverCalled("release") =>
       /\ \A h \in Holds : hold[h] # "released"
       /\ doc.legalHold => Held
       /\ Held /\ ~doc.legalHold =>
             \E r \in Officers : officer[r].op = "extend" /\ officer[r].pc \in {"listed", "crashed"}
       /\ \A r \in Officers : officer[r].pc = "seen" /\ officer[r].flagSeen => doc.legalHold

GovernanceIInv ==
    /\ GovernanceInv /\ ListedWerePlaced /\ SerialFlag /\ UnreleasedFlag
    /\ \A r \in Officers : CallIsSound(r)

(* Nothing is destroyed, and no disposition there is changes. *)
NothingGoes ==
    /\ doc'.deleted = doc.deleted /\ doc'.key = doc.key
    /\ \A d \in DOMAIN disposition : disposition'[d] = disposition[d]

(* What the three action properties say of one step. *)
GovernanceStepIsChecked ==
    /\ FlagIsReliable /\ Held /\ ((~doc.deleted /\ doc'.deleted) \/ (doc.key /\ ~doc'.key))
         => \E r \in Officers : Finishes(r) /\ "hold" \in overtaken[r]
    /\ doc.isRecord /\ ~doc.deleted /\ doc'.deleted =>
         \E r \in Officers : /\ Finishes(r)
                             /\ officer[r].op = "delete" => "record" \in overtaken[r]
    /\ \A d \in DOMAIN disposition :
          disposition[d].status # "pending" /\ disposition'[d] # disposition[d] =>
              \E r \in Officers : Finishes(r) /\ "decision" \in overtaken[r]

DocType == [deleted : BOOLEAN, legalHold : BOOLEAN, isRecord : BOOLEAN, key : BOOLEAN]
Kinds   == {"hold", "pending", "decision", "record"}

LEMMA GovernanceTypes ==
    ASSUME GovernanceIInv
    PROVE  /\ doc \in DocType /\ hold \in [Holds -> {"none", "active", "released"}]
           /\ listed \subseteq Holds /\ disposition \in Seq(RowType)
           /\ officer \in [Officers -> CallType] /\ overtaken \in [Officers -> SUBSET Kinds]
           /\ \A r \in Officers : officer[r] \in CallType /\ CallIsSound(r)
           /\ ListedWerePlaced /\ SerialFlag /\ UnreleasedFlag /\ PendingIsSingle
  BY DEF GovernanceIInv, GovernanceInv, GovernanceTypeOK, DocType, Kinds

LEMMA NothingGoesIsChecked == NothingGoes => GovernanceStepIsChecked
  BY DEF NothingGoes, GovernanceStepIsChecked

LEMMA NotStartedIsACall ==
    /\ NotStarted \in CallType
    /\ NotStarted = [pc |-> "idle", op |-> "delete", hold |-> NoHold, row |-> 0,
                     flagSeen |-> FALSE, clears |-> FALSE]
  BY DEF NotStarted, CallType, OfficerPcs, Operations

(* What is noted of those that run is never forgotten. *)
LEMMA OvertakeNotes ==
    ASSUME GovernanceIInv, NEW k \in Kinds, NEW rs, Overtake(k, rs)
    PROVE  /\ overtaken' \in [Officers -> SUBSET Kinds]
           /\ \A o \in Officers : overtaken[o] \subseteq overtaken'[o]
           /\ \A o \in Officers : o \in rs /\ Running(o) => k \in overtaken'[o]
  BY GovernanceTypes DEF Overtake

(* What a call knows stays true while it rests, if what is lost is noted.  *)
LEMMA CallStays ==
    ASSUME NEW o \in Officers, CallIsSound(o), officer'[o] = officer[o],
           DOMAIN disposition \subseteq DOMAIN disposition',
           \A h \in Holds : hold[h] # "none" => hold'[h] # "none",
           listed \subseteq listed', overtaken[o] \subseteq overtaken'[o],
           Running(o) /\ doc'.legalHold => doc.legalHold \/ "hold" \in overtaken'[o],
           Running(o) /\ doc'.isRecord => doc.isRecord \/ "record" \in overtaken'[o],
           Running(o) => \A d \in DOMAIN disposition :
              d = officer[o].row /\ disposition[d].status = "pending" =>
                 disposition'[d].status = "pending" \/ "decision" \in overtaken'[o],
           Running(o) /\ PendingRows' # {} => PendingRows # {} \/ "pending" \in overtaken'[o]
    PROVE  CallIsSound(o)'
  <1>1. Running(o)' = Running(o)
    BY DEF Running
  <1>2. officer[o].pc = "vacant" => Running(o)
    BY DEF Running, RunningPcs
  <1> QED
    BY <1>1, <1>2 DEF CallIsSound, Destroys

(* How a call that was made moves on. *)
Moves(r) ==
    /\ officer' \in [Officers -> CallType]
    /\ \A o \in Officers \ {r} : officer'[o] = officer[o]
    /\ officer'[r].pc # "idle"
    /\ officer[r].pc # "idle" => officer'[r].op = officer[r].op

LEMMA CallsAreRemembered ==
    ASSUME NEW r \in Officers, Moves(r), NEW op, EverCalled(op) PROVE EverCalled(op)'
  <1>1. PICK o \in Officers : officer[o].pc # "idle" /\ officer[o].op = op
    BY DEF EverCalled
  <1>2. officer'[o].pc # "idle" /\ officer'[o].op = op
    BY <1>1 DEF Moves
  <1> QED
    BY <1>2 DEF EverCalled

(* A step that leaves holds and flag alone, and begins or ends no statement *)
(* of the handlers of holds.                                               *)
LEMMA FlagStays ==
    ASSUME SerialFlag, UnreleasedFlag, NEW r \in Officers, Moves(r),
           UNCHANGED <<hold, listed>>, doc'.legalHold = doc.legalHold,
           officer'[r].pc \notin {"counted", "seen"},
           officer[r].op = "extend" /\ officer[r].pc \in {"listed", "crashed"} =>
              officer'[r].pc = "crashed"
    PROVE  SerialFlag' /\ UnreleasedFlag'
  <1>0. Held' = Held /\ \A h : OnlyHold(h)' = OnlyHold(h)
    BY DEF Held, OnlyHold, ActiveOn
  <1>1. \A op : ~EverCalled(op)' => ~EverCalled(op)
    BY CallsAreRemembered
  <1>2. \A o \in Officers : officer'[o].pc \in {"counted", "seen"} => officer'[o] = officer[o]
    BY DEF Moves
  <1>3. SerialFlag'
    BY <1>0, <1>1, <1>2 DEF SerialFlag
  <1>4. ASSUME ~EverCalled("release")', Held', ~doc'.legalHold
        PROVE  \E o \in Officers : officer'[o].op = "extend" /\ officer'[o].pc \in {"listed", "crashed"}
    <2>1. PICK o \in Officers : officer[o].op = "extend" /\ officer[o].pc \in {"listed", "crashed"}
      BY <1>0, <1>1, <1>4 DEF UnreleasedFlag
    <2>2. officer'[o].op = "extend" /\ officer'[o].pc \in {"listed", "crashed"}
      BY <2>1 DEF Moves
    <2> QED
      BY <2>2
  <1>5. UnreleasedFlag'
    BY <1>0, <1>1, <1>2, <1>4 DEF UnreleasedFlag
  <1> QED
    BY <1>3, <1>5

(* What every step has in common. *)
LEMMA GovernanceStep ==
    ASSUME doc' \in DocType, hold' \in [Holds -> {"none", "active", "released"}],
           listed' \subseteq Holds, disposition' \in Seq(RowType),
           officer' \in [Officers -> CallType], overtaken' \in [Officers -> SUBSET Kinds],
           ListedWerePlaced', SerialFlag', UnreleasedFlag', PendingIsSingle',
           \A r \in Officers : CallIsSound(r)'
    PROVE  GovernanceIInv'
  <1>1. GovernanceTypeOK'
    BY DEF GovernanceTypeOK, DocType, Kinds
  <1>2. doc'.legalHold \in BOOLEAN
    BY DEF DocType
  <1>3. FlagFollowsHolds'
    BY <1>2 DEF FlagFollowsHolds, FlagIsReliable, SerialFlag, UnreleasedFlag
  <1> QED
    BY <1>1, <1>3 DEF GovernanceIInv, GovernanceInv

LEMMA StartKeeps ==
    ASSUME GovernanceIInv, NEW r \in Officers, NEW c \in CallType, Start(r, c),
           c.pc = "checked",
           c.op \in {"extend", "release"} => c.hold \in Holds /\ hold[c.hold] # "none",
           Destroys(c.op) => ~doc.legalHold, c.op = "delete" => ~doc.isRecord,
           c.op \in {"approve", "reject"} => c.row \in PendingRows
    PROVE  GovernanceIInv' /\ GovernanceStepIsChecked
  <1>0. /\ officer \in [Officers -> CallType] /\ officer[r].pc = "idle"
        /\ officer' = [officer EXCEPT ![r] = c] /\ officer'[r] = c
        /\ UNCHANGED <<doc, hold, listed, disposition, overtaken>>
    BY GovernanceTypes DEF Start
  <1>1. Moves(r)
    BY <1>0 DEF Moves
  <1>2. SerialFlag' /\ UnreleasedFlag'
    BY <1>0, <1>1, FlagStays, GovernanceTypes
  <1>3. \A o \in Officers \ {r} : CallIsSound(o)'
    BY <1>0, <1>1, CallStays, GovernanceTypes DEF Moves, PendingRows
  <1>4. CallIsSound(r)'
    BY <1>0 DEF CallIsSound, Running, PendingRows, Destroys
  <1>5. ListedWerePlaced' /\ PendingIsSingle'
    BY <1>0, GovernanceTypes DEF ListedWerePlaced, PendingIsSingle, PendingRows
  <1>6. GovernanceIInv'
    BY <1>0, <1>1, <1>2, <1>3, <1>4, <1>5, GovernanceTypes, GovernanceStep DEF Moves
  <1> QED
    BY <1>0, <1>6, NothingGoesIsChecked DEF NothingGoes

LEMMA CheckedIsACall ==
    ASSUME NEW op \in Operations
    PROVE  Checked(op) \in CallType /\ Checked(op).pc = "checked" /\ Checked(op).op = op
  <1>1. PICK c : c = [NotStarted EXCEPT !.pc = "checked", !.op = op]
    OBVIOUS
  <1>2. c \in CallType /\ c.pc = "checked" /\ c.op = op
    BY <1>1, NotStartedIsACall DEF CallType, OfficerPcs, RunningPcs
  <1> QED
    BY <1>1, <1>2 DEF Checked

LEMMA BeginKeeps ==
    ASSUME GovernanceIInv, NEW r \in Officers, Begin(r) PROVE GovernanceIInv' /\ GovernanceStepIsChecked
  <1>2. ASSUME NEW h \in Holds, BeginExtend(r, h) \/ BeginRelease(r, h)
        PROVE  GovernanceIInv' /\ GovernanceStepIsChecked
    <2>1. PICK op \in {"extend", "release"} : Start(r, [Checked(op) EXCEPT !.hold = h])
      BY <1>2 DEF BeginExtend, BeginRelease
    <2>2. PICK c : c = [Checked(op) EXCEPT !.hold = h]
      OBVIOUS
    <2>3. c \in CallType /\ c.pc = "checked" /\ c.op = op /\ c.hold = h
      BY <2>2, CheckedIsACall DEF Operations, CallType
    <2>4. hold[h] # "none" /\ Start(r, c)
      BY <1>2, <2>1, <2>2 DEF BeginExtend, BeginRelease
    <2> QED
      BY <2>3, <2>4, StartKeeps DEF Destroys
  <1>3. ASSUME NEW op \in {"request", "retention"}, BeginRequest(r, op)
        PROVE  GovernanceIInv' /\ GovernanceStepIsChecked
    BY <1>3, CheckedIsACall, StartKeeps DEF BeginRequest, Operations, Destroys
  <1>4. ASSUME NEW op \in {"approve", "reject"}, NEW d \in DOMAIN disposition,
               BeginDecision(r, op, d)
        PROVE  GovernanceIInv' /\ GovernanceStepIsChecked
    <2>1. d \in Nat
      BY <1>4, GovernanceTypes
    <2>2. PICK c : c = [Checked(op) EXCEPT !.row = d]
      OBVIOUS
    <2>3. c \in CallType /\ c.pc = "checked" /\ c.op = op /\ c.row = d
      BY <2>1, <2>2, CheckedIsACall DEF Operations, CallType
    <2>4. Start(r, c) /\ d \in PendingRows /\ ~doc.legalHold
      BY <1>4, <2>2 DEF BeginDecision
    <2> QED
      BY <2>3, <2>4, StartKeeps DEF Destroys
  <1>5. ASSUME BeginDelete(r) \/ BeginShred(r) \/ BeginDeclare(r)
        PROVE  GovernanceIInv' /\ GovernanceStepIsChecked
    <2>1. PICK op \in {"delete", "shred", "declare"} :
             /\ Start(r, Checked(op)) /\ (Destroys(op) => ~doc.legalHold)
             /\ op = "delete" => ~doc.isRecord
      BY <1>5 DEF BeginDelete, BeginShred, BeginDeclare, Destroys
    <2> QED
      BY <2>1, CheckedIsACall, StartKeeps DEF Operations
  <1> QED
    BY <1>2, <1>3, <1>4, <1>5 DEF Begin

LEMMA GotoMoves ==
    ASSUME GovernanceIInv, NEW r \in Officers, NEW pc \in OfficerPcs \ {"idle"}, Goto(r, pc)
    PROVE  /\ Moves(r) /\ officer'[r].pc = pc /\ officer'[r].op = officer[r].op
           /\ officer'[r].hold = officer[r].hold /\ officer'[r].row = officer[r].row
  <1>0. officer \in [Officers -> CallType] /\ officer[r] \in CallType
    BY GovernanceTypes
  <1>1. PICK c : c = [officer[r] EXCEPT !.pc = pc]
    OBVIOUS
  <1>2. /\ c \in CallType /\ c.pc = pc /\ c.op = officer[r].op /\ c.hold = officer[r].hold
        /\ c.row = officer[r].row
    BY <1>0, <1>1 DEF CallType
  <1>3. officer' = [officer EXCEPT ![r] = c]
    BY <1>1 DEF Goto
  <1> QED
    BY <1>0, <1>2, <1>3 DEF Moves

(* A step of one call that leaves holds and flag alone. *)
LEMMA WorkKeeps ==
    ASSUME GovernanceIInv, NEW r \in Officers, Moves(r), CallIsSound(r)',
           UNCHANGED <<hold, listed>>, doc'.legalHold = doc.legalHold, doc' \in DocType,
           officer'[r].pc \notin {"counted", "seen"},
           officer[r].op = "extend" /\ officer[r].pc \in {"listed", "crashed"} =>
              officer'[r].pc = "crashed",
           disposition' \in Seq(RowType), DOMAIN disposition \subseteq DOMAIN disposition',
           overtaken' \in [Officers -> SUBSET Kinds],
           \A o \in Officers : overtaken[o] \subseteq overtaken'[o],
           \A o \in Officers \ {r} :
              /\ Running(o) /\ doc'.isRecord => doc.isRecord \/ "record" \in overtaken'[o]
              /\ Running(o) => \A d \in DOMAIN disposition :
                    d = officer[o].row /\ disposition[d].status = "pending" =>
                       disposition'[d].status = "pending" \/ "decision" \in overtaken'[o]
              /\ Running(o) /\ PendingRows' # {} => PendingRows # {} \/ "pending" \in overtaken'[o],
           PendingIsSingle'
    PROVE  GovernanceIInv'
  <1>1. SerialFlag' /\ UnreleasedFlag'
    BY FlagStays, GovernanceTypes
  <1>2. ASSUME NEW o \in Officers \ {r} PROVE CallIsSound(o)'
    <2>1. officer'[o] = officer[o] /\ CallIsSound(o)
      BY GovernanceTypes DEF Moves
    <2> QED
      BY <2>1, CallStays
  <1>3. ListedWerePlaced'
    BY GovernanceTypes DEF ListedWerePlaced
  <1> QED
    BY <1>1, <1>2, <1>3, GovernanceTypes, GovernanceStep DEF Moves

(* A step that changes the call alone. *)
LEMMA StepOfCallKeeps ==
    ASSUME GovernanceIInv, NEW r \in Officers, Moves(r), CallIsSound(r)',
           UNCHANGED <<doc, hold, listed, disposition, overtaken>>,
           officer'[r].pc \notin {"counted", "seen"},
           officer[r].op = "extend" /\ officer[r].pc \in {"listed", "crashed"} =>
              officer'[r].pc = "crashed"
    PROVE  GovernanceIInv' /\ GovernanceStepIsChecked
  <1>1. PendingIsSingle' /\ PendingRows' = PendingRows
    BY GovernanceTypes DEF PendingIsSingle, PendingRows
  <1>2. GovernanceIInv'
    BY <1>1, GovernanceTypes, WorkKeeps
  <1> QED
    BY <1>2, NothingGoesIsChecked DEF NothingGoes

LEMMA FindPendingKeeps ==
    ASSUME GovernanceIInv, NEW r \in Officers, FindPending(r) PROVE GovernanceIInv' /\ GovernanceStepIsChecked
  <1>1. PICK pc \in {"vacant", "done"} : Goto(r, pc) /\ (pc = "vacant" => PendingRows = {})
    BY DEF FindPending
  <1>2. /\ Moves(r) /\ officer'[r].pc = pc /\ officer'[r].op = officer[r].op
        /\ officer[r].op \in {"request", "retention"} /\ PendingRows' = PendingRows
    BY <1>1, GotoMoves DEF FindPending, OfficerPcs, RunningPcs, PendingRows
  <1>3. CallIsSound(r)'
    BY <1>1, <1>2 DEF CallIsSound, Running, RunningPcs, Destroys
  <1> QED
    BY <1>2, <1>3, StepOfCallKeeps DEF FindPending

LEMMA DropCallKeeps ==
    ASSUME GovernanceIInv, NEW r \in Officers, DropCall(r) PROVE GovernanceIInv' /\ GovernanceStepIsChecked
  <1>1. /\ Moves(r) /\ officer'[r].pc = "crashed" /\ officer'[r].op = officer[r].op
        /\ officer'[r].hold = officer[r].hold
    BY GotoMoves DEF DropCall, OfficerPcs
  <1>2. CallIsSound(r)'
    BY <1>1, GovernanceTypes DEF CallIsSound, Running, RunningPcs, Destroys, DropCall
  <1> QED
    BY <1>1, <1>2, StepOfCallKeeps DEF DropCall

LEMMA CreateDispositionKeeps ==
    ASSUME GovernanceIInv, NEW r \in Officers, NEW action \in Actions, CreateDisposition(r, action)
    PROVE  GovernanceIInv' /\ GovernanceStepIsChecked
  <1>0. disposition \in Seq(RowType) /\ CallIsSound(r) /\ PendingIsSingle /\ doc \in DocType
    BY GovernanceTypes
  <1>1. /\ Moves(r) /\ officer'[r].pc = "done" /\ officer'[r].op = officer[r].op
        /\ officer'[r].hold = officer[r].hold /\ officer[r].pc = "vacant"
    BY GotoMoves DEF CreateDisposition, OfficerPcs
  <1>2. PICK row : row = [action |-> action, status |-> "pending"]
    OBVIOUS
  <1>3. row \in RowType /\ row.status = "pending" /\ disposition' = Append(disposition, row)
    BY <1>2 DEF RowType, CreateDisposition
  <1>4. /\ disposition' \in Seq(RowType) /\ DOMAIN disposition \subseteq DOMAIN disposition'
        /\ \A d \in DOMAIN disposition : disposition'[d] = disposition[d]
        /\ \A d \in DOMAIN disposition' : d \in DOMAIN disposition \/ d = Len(disposition) + 1
    BY <1>0, <1>3
  <1>5. /\ overtaken' \in [Officers -> SUBSET Kinds]
        /\ \A o \in Officers : overtaken[o] \subseteq overtaken'[o]
        /\ \A o \in Officers \ {r} : Running(o) => "pending" \in overtaken'[o]
    BY OvertakeNotes DEF CreateDisposition, Kinds
  <1>6. CallIsSound(r)'
    BY <1>0, <1>1 DEF CallIsSound, Running, RunningPcs, Destroys, CreateDisposition
  <1>7. PendingIsSingle'
    <2> SUFFICES ASSUME NEW c \in PendingRows', NEW d \in PendingRows', c # d
                 PROVE  \E o \in Officers : "pending" \in overtaken'[o]
      BY DEF PendingIsSingle
    <2>1. CASE PendingRows = {}
      BY <1>4, <2>1 DEF PendingRows
    <2>2. CASE PendingRows # {}
      BY <1>0, <1>1, <1>5, <2>2 DEF CallIsSound
    <2> QED
      BY <2>1, <2>2
  <1>8. GovernanceIInv'
    BY <1>0, <1>1, <1>4, <1>5, <1>6, <1>7, WorkKeeps DEF CreateDisposition
  <1> QED
    BY <1>4, <1>8, NothingGoesIsChecked DEF NothingGoes, CreateDisposition

(* What a decision makes of the dispositions. *)
LEMMA DecisionOnRow ==
    ASSUME GovernanceIInv, NEW r \in Officers, NEW s \in {"cancelled", "executed"},
           officer[r].pc = "checked", officer[r].op \in {"approve", "reject"}, Goto(r, "done"),
           disposition' = [disposition EXCEPT ![officer[r].row].status = s],
           Overtake("decision", SameRow(r)), UNCHANGED <<hold, listed>>,
           doc' \in DocType, doc'.legalHold = doc.legalHold, doc'.isRecord = doc.isRecord,
           doc'.key = doc.key, ~doc.deleted /\ doc'.deleted => officer[r].op = "approve"
    PROVE  GovernanceIInv' /\ GovernanceStepIsChecked
  <1>0. /\ disposition \in Seq(RowType) /\ CallIsSound(r) /\ PendingIsSingle
        /\ officer[r] \in CallType /\ officer \in [Officers -> CallType]
        /\ SerialFlag /\ UnreleasedFlag
    BY GovernanceTypes
  <1>1. /\ Moves(r) /\ officer'[r].pc = "done" /\ officer'[r].op = officer[r].op
    BY GotoMoves DEF OfficerPcs
  <1>2. PICK w : w = officer[r].row
    OBVIOUS
  <1>3. /\ w \in DOMAIN disposition /\ Running(r)
        /\ disposition[w].status = "pending" \/ "decision" \in overtaken[r]
    BY <1>0, <1>2 DEF CallIsSound, Running, RunningPcs
  <1>4. PICK row : row = [disposition[w] EXCEPT !.status = s]
    OBVIOUS
  <1>5. row \in RowType /\ row.status = s
    <2>1. disposition[w] \in RowType
      BY <1>0, <1>3
    <2> QED
      BY <1>4, <2>1 DEF RowType
  <1>6. disposition' = [disposition EXCEPT ![w] = row]
    BY <1>2, <1>4
  <1>7. /\ disposition' \in Seq(RowType) /\ DOMAIN disposition' = DOMAIN disposition
        /\ \A d \in DOMAIN disposition : disposition'[d] = IF d = w THEN row ELSE disposition[d]
    <2>1. PICK m \in Nat : m = Len(disposition)
      BY <1>0
    <2>2. disposition \in [1 .. m -> RowType]
      BY <1>0, <2>1
    <2>3. disposition' \in [1 .. m -> RowType]
      BY <1>5, <1>6, <2>2
    <2>4. /\ disposition' = [k \in 1 .. m |-> disposition'[k]]
          /\ \A k \in 1 .. m : disposition'[k] \in RowType
      BY <2>3
    <2>5. [k \in 1 .. m |-> disposition'[k]] \in Seq(RowType)
      BY <2>4
    <2> QED
      BY <1>6, <2>2, <2>4, <2>5
  <1>8. PendingRows' \subseteq PendingRows
    BY <1>5, <1>7 DEF PendingRows
  <1>9. /\ overtaken' \in [Officers -> SUBSET Kinds]
        /\ \A o \in Officers : overtaken[o] \subseteq overtaken'[o]
        /\ \A o \in Officers \ {r} : Running(o) /\ officer[o].row = w => "decision" \in overtaken'[o]
    BY <1>2, OvertakeNotes DEF Kinds, SameRow
  <1>10. CallIsSound(r)'
    BY <1>0, <1>1 DEF CallIsSound, Running, RunningPcs
  <1>11. PendingIsSingle'
    BY <1>0, <1>8, <1>9 DEF PendingIsSingle
  <1>12. GovernanceIInv'
    <2>1. officer[r].op # "extend"
      OBVIOUS
    <2>2. \A o \in Officers \ {r} : Running(o) => \A d \in DOMAIN disposition :
                    d = officer[o].row /\ disposition[d].status = "pending" =>
                       disposition'[d].status = "pending" \/ "decision" \in overtaken'[o]
      BY <1>7, <1>9
    <2> QED
      BY <1>1, <1>7, <1>8, <1>9, <1>10, <1>11, <2>1, <2>2, WorkKeeps
  <1>13. Finishes(r)
    BY <1>1, <1>3 DEF Finishes, Running
  <1>14. FlagIsReliable /\ Held /\ ~doc.deleted /\ doc'.deleted => "hold" \in overtaken[r]
    BY <1>0, <1>3 DEF CallIsSound, Destroys, FlagIsReliable, SerialFlag, UnreleasedFlag
  <1>15. \A d \in DOMAIN disposition :
            disposition[d].status # "pending" /\ disposition'[d] # disposition[d] =>
               "decision" \in overtaken[r]
    BY <1>3, <1>7
  <1>16. GovernanceStepIsChecked
    BY <1>13, <1>14, <1>15 DEF GovernanceStepIsChecked
  <1> QED
    BY <1>12, <1>16

LEMMA DecideKeeps ==
    ASSUME GovernanceIInv, NEW r \in Officers, CancelDisposition(r) \/ ExecuteDisposition(r)
    PROVE  GovernanceIInv' /\ GovernanceStepIsChecked
  <1>0. doc \in DocType
    BY GovernanceTypes
  <1>1. CASE CancelDisposition(r)
    BY <1>0, <1>1, DecisionOnRow DEF CancelDisposition, Cancelled
  <1>2. CASE ExecuteDisposition(r)
    <2>1. PICK deletes : deletes = (disposition[officer[r].row].action = "delete")
      OBVIOUS
    <2>2. doc' = IF deletes THEN [doc EXCEPT !.deleted = TRUE] ELSE doc
      BY <1>2, <2>1 DEF ExecuteDisposition
    <2>3. /\ doc' \in DocType /\ doc'.legalHold = doc.legalHold /\ doc'.isRecord = doc.isRecord
          /\ doc'.key = doc.key
      BY <1>0, <2>2 DEF DocType
    <2> QED
      BY <1>2, <2>3, DecisionOnRow DEF ExecuteDisposition
  <1> QED
    BY <1>1, <1>2

(* A call that destroys, or declares, the document. *)
LEMMA WorkOnDocumentKeeps ==
    ASSUME GovernanceIInv, NEW r \in Officers, Running(r), doc' \in DocType,
           doc'.legalHold = doc.legalHold, UNCHANGED <<hold, listed, disposition>>,
           NEW pc \in {"keyless", "done"}, Goto(r, pc), pc = "keyless" => officer[r].op = "shred",
           officer[r].pc # pc, officer[r].op # "extend", overtaken' \in [Officers -> SUBSET Kinds],
           \A o \in Officers : overtaken[o] \subseteq overtaken'[o],
           \A o \in Officers \ {r} :
              Running(o) /\ doc'.isRecord => doc.isRecord \/ "record" \in overtaken'[o],
           ~doc.deleted /\ doc'.deleted => officer[r].op \in {"delete", "shred"},
           doc.key /\ ~doc'.key => officer[r].op = "shred"
    PROVE  GovernanceIInv' /\ GovernanceStepIsChecked
  <1>0. /\ CallIsSound(r) /\ PendingIsSingle /\ officer \in [Officers -> CallType]
        /\ SerialFlag /\ UnreleasedFlag /\ disposition \in Seq(RowType)
    BY GovernanceTypes
  <1>1. /\ Moves(r) /\ officer'[r].pc = pc /\ officer'[r].op = officer[r].op
        /\ officer'[r].hold = officer[r].hold
    BY GotoMoves DEF OfficerPcs, RunningPcs
  <1>2. PendingRows' = PendingRows
    BY DEF PendingRows
  <1>3. CallIsSound(r)'
    BY <1>0, <1>1 DEF CallIsSound, Running, RunningPcs, Destroys
  <1>4. PendingIsSingle'
    BY <1>0, <1>2 DEF PendingIsSingle
  <1>5. GovernanceIInv'
    BY <1>0, <1>1, <1>2, <1>3, <1>4, WorkKeeps
  <1>6. Finishes(r)
    BY <1>1 DEF Finishes, Running
  <1>7. /\ FlagIsReliable /\ Held /\ ((~doc.deleted /\ doc'.deleted) \/ (doc.key /\ ~doc'.key))
              => "hold" \in overtaken[r]
        /\ doc.isRecord /\ ~doc.deleted /\ doc'.deleted /\ officer[r].op = "delete"
              => "record" \in overtaken[r]
    BY <1>0 DEF CallIsSound, Destroys, FlagIsReliable, SerialFlag, UnreleasedFlag
  <1>8. /\ FlagIsReliable /\ Held /\ ((~doc.deleted /\ doc'.deleted) \/ (doc.key /\ ~doc'.key))
              => \E o \in Officers : Finishes(o) /\ "hold" \in overtaken[o]
        /\ doc.isRecord /\ ~doc.deleted /\ doc'.deleted =>
              \E o \in Officers : /\ Finishes(o)
                                  /\ officer[o].op = "delete" => "record" \in overtaken[o]
    BY <1>6, <1>7
  <1>9. \A d \in DOMAIN disposition : disposition'[d] = disposition[d]
    OBVIOUS
  <1>10. GovernanceStepIsChecked
    BY <1>8, <1>9 DEF GovernanceStepIsChecked
  <1> QED
    BY <1>5, <1>10

LEMMA DocumentKeeps ==
    ASSUME GovernanceIInv, NEW r \in Officers, DestroyKey(r) \/ MarkDeleted(r) \/ DeclareRecord(r)
    PROVE  GovernanceIInv' /\ GovernanceStepIsChecked
  <1>0. /\ doc \in DocType /\ CallIsSound(r) /\ overtaken \in [Officers -> SUBSET Kinds]
        /\ disposition \in Seq(RowType)
    BY GovernanceTypes
  <1>1. Running(r)
    BY DEF DestroyKey, MarkDeleted, DeclareRecord, Running, RunningPcs
  <1>2. CASE DestroyKey(r)
    <2>1. doc' \in DocType /\ doc' = [doc EXCEPT !.key = FALSE]
      BY <1>0, <1>2 DEF DestroyKey, DocType
    <2>2. /\ doc'.legalHold = doc.legalHold /\ doc'.isRecord = doc.isRecord
          /\ doc'.deleted = doc.deleted
      BY <1>0, <2>1 DEF DocType
    <2>3. /\ Goto(r, "keyless") /\ officer[r].op = "shred" /\ officer[r].pc = "checked"
          /\ UNCHANGED <<hold, listed, disposition, overtaken>>
      BY <1>2 DEF DestroyKey
    <2> QED
      BY <1>0, <1>1, <2>1, <2>2, <2>3, WorkOnDocumentKeeps
  <1>3. CASE MarkDeleted(r)
    <2>1. doc' \in DocType /\ doc' = [doc EXCEPT !.deleted = TRUE]
      BY <1>0, <1>3 DEF MarkDeleted, DocType
    <2>2. /\ doc'.legalHold = doc.legalHold /\ doc'.isRecord = doc.isRecord /\ doc'.key = doc.key
      BY <1>0, <2>1 DEF DocType
    <2>3. /\ Goto(r, "done") /\ officer[r].op \in {"delete", "shred"} /\ officer[r].pc # "done"
          /\ UNCHANGED <<hold, listed, disposition, overtaken>>
      BY <1>0, <1>3 DEF MarkDeleted, CallIsSound
    <2> QED
      BY <1>0, <1>1, <2>1, <2>2, <2>3, WorkOnDocumentKeeps
  <1>4. CASE DeclareRecord(r)
    <2>1. doc' \in DocType /\ doc' = [doc EXCEPT !.isRecord = TRUE]
      BY <1>0, <1>4 DEF DeclareRecord, DocType
    <2>2. /\ doc'.legalHold = doc.legalHold /\ doc'.deleted = doc.deleted /\ doc'.key = doc.key
      BY <1>0, <2>1 DEF DocType
    <2>3. /\ Goto(r, "done") /\ officer[r].op = "declare" /\ officer[r].pc # "done"
          /\ UNCHANGED <<hold, listed, disposition>>
      BY <1>4 DEF DeclareRecord
    <2>4. /\ overtaken' \in [Officers -> SUBSET Kinds]
          /\ \A o \in Officers : overtaken[o] \subseteq overtaken'[o]
          /\ \A o \in Officers \ {r} : Running(o) => "record" \in overtaken'[o]
      BY <1>4, OvertakeNotes DEF DeclareRecord, Kinds
    <2> QED
      BY <1>1, <2>1, <2>2, <2>3, <2>4, WorkOnDocumentKeeps
  <1> QED
    BY <1>2, <1>3, <1>4

(* A step of the handlers of holds, once the flag is seen to. *)
LEMMA HoldStepKeeps ==
    ASSUME GovernanceIInv, NEW r \in Officers, Moves(r), CallIsSound(r)',
           disposition' = disposition, doc' \in DocType,
           doc'.deleted = doc.deleted, doc'.key = doc.key, doc'.isRecord = doc.isRecord,
           hold' \in [Holds -> {"none", "active", "released"}], listed' \subseteq Holds,
           \A h \in Holds : hold[h] # "none" => hold'[h] # "none", listed \subseteq listed',
           ListedWerePlaced', overtaken' \in [Officers -> SUBSET Kinds],
           \A o \in Officers : overtaken[o] \subseteq overtaken'[o],
           \A o \in Officers \ {r} :
              Running(o) /\ doc'.legalHold => doc.legalHold \/ "hold" \in overtaken'[o],
           SerialFlag', UnreleasedFlag'
    PROVE  GovernanceIInv' /\ GovernanceStepIsChecked
  <1>1. PendingRows' = PendingRows
    BY DEF PendingRows
  <1>2. PendingIsSingle'
    BY <1>1, GovernanceTypes DEF PendingIsSingle
  <1>3. ASSUME NEW o \in Officers \ {r} PROVE CallIsSound(o)'
    <2>1. officer'[o] = officer[o] /\ CallIsSound(o)
      BY GovernanceTypes DEF Moves
    <2> QED
      BY <1>1, <2>1, CallStays
  <1>4. GovernanceIInv'
    BY <1>2, <1>3, GovernanceTypes, GovernanceStep DEF Moves
  <1> QED
    BY <1>4, NothingGoesIsChecked DEF NothingGoes

LEMMA ReadFlagKeeps ==
    ASSUME GovernanceIInv, NEW r \in Officers, ReadFlag(r) PROVE GovernanceIInv' /\ GovernanceStepIsChecked
  <1>0. /\ officer \in [Officers -> CallType] /\ officer[r] \in CallType /\ CallIsSound(r)
        /\ doc \in DocType /\ SerialFlag /\ UnreleasedFlag
    BY GovernanceTypes
  <1>1. PICK c : c = [officer[r] EXCEPT !.pc = "seen", !.flagSeen = doc.legalHold]
    OBVIOUS
  <1>2. /\ c \in CallType /\ c.pc = "seen" /\ c.flagSeen = doc.legalHold
        /\ c.op = "extend" /\ c.hold = officer[r].hold
    BY <1>0, <1>1 DEF CallType, DocType, OfficerPcs, RunningPcs, ReadFlag
  <1>3. officer' = [officer EXCEPT ![r] = c]
    BY <1>0, <1>1 DEF ReadFlag
  <1>4. /\ Moves(r) /\ officer'[r] = c /\ officer[r].op = "extend" /\ officer[r].pc = "checked"
        /\ UNCHANGED <<doc, hold, listed, disposition, overtaken>>
    BY <1>0, <1>2, <1>3 DEF Moves, ReadFlag
  <1>5. CallIsSound(r)'
    BY <1>0, <1>2, <1>4 DEF CallIsSound, Running, RunningPcs, Destroys
  <1>6. Held' = Held /\ \A h : OnlyHold(h)' = OnlyHold(h)
    BY <1>4 DEF Held, OnlyHold, ActiveOn
  <1>7. \A op : ~EverCalled(op)' => ~EverCalled(op)
    BY <1>4, CallsAreRemembered
  <1>8. SerialFlag'
    <2>1. \A o \in Officers : officer'[o].pc = "counted" => officer'[o] = officer[o]
      BY <1>2, <1>4 DEF Moves
    <2> QED
      BY <1>0, <1>4, <1>6, <1>7, <2>1 DEF SerialFlag
  <1>9. UnreleasedFlag'
    <2>1. \A o \in Officers : officer'[o].pc = "seen" /\ officer'[o].flagSeen =>
             o = r \/ officer'[o] = officer[o]
      BY <1>2, <1>4 DEF Moves
    <2>2. ASSUME ~EverCalled("release"), Held, ~doc.legalHold
          PROVE  \E o \in Officers : officer'[o].op = "extend" /\ officer'[o].pc \in {"listed", "crashed"}
      <3>1. PICK o \in Officers : officer[o].op = "extend" /\ officer[o].pc \in {"listed", "crashed"}
        BY <1>0, <2>2 DEF UnreleasedFlag
      <3>2. officer'[o] = officer[o]
        BY <1>4, <3>1 DEF Moves
      <3> QED
        BY <3>1, <3>2
    <2> QED
      BY <1>0, <1>2, <1>4, <1>6, <1>7, <2>1, <2>2 DEF UnreleasedFlag
  <1>10. ListedWerePlaced'
    BY <1>4, GovernanceTypes DEF ListedWerePlaced
  <1> QED
    BY <1>0, <1>4, <1>5, <1>8, <1>9, <1>10, GovernanceTypes, HoldStepKeeps

LEMMA ListDocumentKeeps ==
    ASSUME GovernanceIInv, NEW r \in Officers, ListDocument(r) PROVE GovernanceIInv' /\ GovernanceStepIsChecked
  <1>0. /\ officer \in [Officers -> CallType] /\ CallIsSound(r) /\ officer[r].pc = "seen"
        /\ doc \in DocType /\ SerialFlag /\ UnreleasedFlag /\ ListedWerePlaced
        /\ hold \in [Holds -> {"none", "active", "released"}]
    BY GovernanceTypes DEF ListDocument
  <1>1. PICK h \in Holds : h = officer[r].hold /\ hold[h] # "none" /\ officer[r].op = "extend"
    BY <1>0 DEF CallIsSound
  <1>2. PICK pc \in {"done", "listed"} : pc = IF officer[r].flagSeen THEN "done" ELSE "listed"
    OBVIOUS
  <1>3. /\ Moves(r) /\ officer'[r].pc = pc /\ officer'[r].op = "extend" /\ officer'[r].hold = h
    BY <1>1, <1>2, GotoMoves DEF ListDocument, OfficerPcs, RunningPcs
  <1>4. listed' = listed \cup {h} /\ UNCHANGED <<doc, hold, disposition>>
    BY <1>1 DEF ListDocument
  <1>5. /\ overtaken' \in [Officers -> SUBSET Kinds]
        /\ \A o \in Officers : overtaken[o] \subseteq overtaken'[o]
    BY OvertakeNotes DEF ListDocument, Kinds
  <1>6. CallIsSound(r)'
    BY <1>1, <1>3, <1>4 DEF CallIsSound, Running, RunningPcs, Destroys
  <1>7. \A op : ~EverCalled(op)' => ~EverCalled(op)
    BY <1>3, CallsAreRemembered
  <1>8. EverCalled("extend")'
    BY <1>3 DEF EverCalled, Moves
  <1>9. SerialFlag'
    <2>1. SerialReleases => \A o \in Officers : officer'[o].pc # "counted"
      BY <1>3, <1>2 DEF ListDocument, MayWrite, NoneCounts, Moves
    <2> QED
      BY <1>8, <2>1 DEF SerialFlag
  <1>10. UnreleasedFlag'
    <2> SUFFICES ASSUME ~EverCalled("release")' PROVE UnreleasedFlag'
      BY DEF UnreleasedFlag
    <2>1. ~EverCalled("release") /\ \A g \in Holds : hold[g] # "released"
      BY <1>0, <1>7 DEF UnreleasedFlag
    <2>2. hold[h] = "active" /\ Held'
      BY <1>0, <1>1, <1>4, <2>1 DEF Held, ActiveOn
    <2>3. ~doc.legalHold => officer'[r].op = "extend" /\ officer'[r].pc \in {"listed", "crashed"}
      BY <1>0, <1>2, <1>3, <2>1 DEF UnreleasedFlag
    <2>4. \A o \in Officers : officer'[o].pc = "seen" => officer'[o] = officer[o]
      BY <1>2, <1>3 DEF Moves
    <2> QED
      BY <1>0, <1>4, <2>1, <2>2, <2>3, <2>4 DEF UnreleasedFlag
  <1>11. ListedWerePlaced'
    BY <1>0, <1>1, <1>4 DEF ListedWerePlaced
  <1> QED
    BY <1>0, <1>3, <1>4, <1>5, <1>6, <1>9, <1>10, <1>11, GovernanceTypes, HoldStepKeeps

LEMMA RaiseFlagKeeps ==
    ASSUME GovernanceIInv, NEW r \in Officers, RaiseFlag(r) PROVE GovernanceIInv' /\ GovernanceStepIsChecked
  <1>0. /\ officer \in [Officers -> CallType] /\ CallIsSound(r) /\ officer[r].pc = "listed"
        /\ doc \in DocType /\ SerialFlag /\ UnreleasedFlag /\ ListedWerePlaced
        /\ hold \in [Holds -> {"none", "active", "released"}]
    BY GovernanceTypes DEF RaiseFlag
  <1>1. PICK h \in Holds : h = officer[r].hold /\ hold[h] # "none" /\ h \in listed
                           /\ officer[r].op = "extend"
    BY <1>0 DEF CallIsSound
  <1>2. /\ Moves(r) /\ officer'[r].pc = "done" /\ officer'[r].op = "extend" /\ officer'[r].hold = h
    BY <1>1, GotoMoves DEF RaiseFlag, OfficerPcs
  <1>3. /\ UNCHANGED <<hold, listed, disposition>> /\ doc' \in DocType /\ doc'.legalHold = TRUE
        /\ doc'.deleted = doc.deleted /\ doc'.key = doc.key /\ doc'.isRecord = doc.isRecord
    BY <1>0 DEF RaiseFlag, DocType
  <1>4. /\ overtaken' \in [Officers -> SUBSET Kinds]
        /\ \A o \in Officers : overtaken[o] \subseteq overtaken'[o]
        /\ \A o \in Officers \ {r} : Running(o) => "hold" \in overtaken'[o]
    BY OvertakeNotes DEF RaiseFlag, Kinds
  <1>5. CallIsSound(r)'
    BY <1>1, <1>2, <1>3 DEF CallIsSound, Running, RunningPcs, Destroys
  <1>6. \A op : ~EverCalled(op)' => ~EverCalled(op)
    BY <1>2, CallsAreRemembered
  <1>7. EverCalled("extend")'
    BY <1>2 DEF EverCalled, Moves
  <1>8. SerialFlag'
    <2>1. SerialReleases => \A o \in Officers : officer'[o].pc # "counted"
      BY <1>2 DEF RaiseFlag, MayWrite, NoneCounts, Moves
    <2> QED
      BY <1>7, <2>1 DEF SerialFlag
  <1>9. UnreleasedFlag'
    <2> SUFFICES ASSUME ~EverCalled("release")' PROVE UnreleasedFlag'
      BY DEF UnreleasedFlag
    <2>1. ~EverCalled("release") /\ \A g \in Holds : hold[g] # "released"
      BY <1>0, <1>6 DEF UnreleasedFlag
    <2>2. Held'
      BY <1>0, <1>1, <1>3, <2>1 DEF Held, ActiveOn
    <2> QED
      BY <1>3, <2>1, <2>2 DEF UnreleasedFlag
  <1>10. ListedWerePlaced'
    BY <1>0, <1>3 DEF ListedWerePlaced
  <1> QED
    BY <1>0, <1>2, <1>3, <1>4, <1>5, <1>8, <1>9, <1>10, GovernanceTypes, HoldStepKeeps

LEMMA CountOtherHoldsKeeps ==
    ASSUME GovernanceIInv, NEW r \in Officers, CountOtherHolds(r)
    PROVE  GovernanceIInv' /\ GovernanceStepIsChecked
  <1>0. /\ officer \in [Officers -> CallType] /\ officer[r] \in CallType /\ CallIsSound(r)
        /\ doc \in DocType /\ SerialFlag /\ UnreleasedFlag
    BY GovernanceTypes
  <1>1. PICK clears : clears = (officer[r].hold \in listed /\ OnlyHold(officer[r].hold))
    OBVIOUS
  <1>2. clears \in BOOLEAN
    BY <1>1
  <1>3. PICK c : c = [officer[r] EXCEPT !.pc = "counted", !.clears = clears]
    OBVIOUS
  <1>4. /\ c \in CallType /\ c.pc = "counted" /\ c.clears = clears
        /\ c.op = "release" /\ c.hold = officer[r].hold
    BY <1>0, <1>2, <1>3 DEF CallType, OfficerPcs, RunningPcs, CountOtherHolds
  <1>5. officer' = [officer EXCEPT ![r] = c]
    BY <1>0, <1>1, <1>3 DEF CountOtherHolds
  <1>6. /\ Moves(r) /\ officer'[r] = c /\ officer[r].op = "release" /\ officer[r].pc = "checked"
        /\ UNCHANGED <<doc, hold, listed, disposition, overtaken>>
    BY <1>0, <1>4, <1>5 DEF Moves, CountOtherHolds
  <1>7. CallIsSound(r)'
    BY <1>0, <1>4, <1>6 DEF CallIsSound, Running, RunningPcs, Destroys
  <1>8. Held' = Held /\ \A h : OnlyHold(h)' = OnlyHold(h)
    BY <1>6 DEF Held, OnlyHold, ActiveOn
  <1>9. ~EverCalled("extend")' => ~EverCalled("extend")
    BY <1>6, CallsAreRemembered
  <1>10. SerialFlag'
    <2> SUFFICES ASSUME SerialReleases PROVE SerialFlag'
      BY DEF SerialFlag
    <2>1. \A o \in Officers : officer'[o].pc = "counted" => o = r
      BY <1>6 DEF CountOtherHolds, MayWrite, NoneCounts, Moves
    <2> QED
      BY <1>0, <1>1, <1>4, <1>6, <1>8, <1>9, <2>1 DEF SerialFlag
  <1>11. EverCalled("release")'
    BY <1>4, <1>6 DEF EverCalled
  <1>12. UnreleasedFlag' /\ ListedWerePlaced'
    BY <1>6, <1>11, GovernanceTypes DEF UnreleasedFlag, ListedWerePlaced
  <1> QED
    BY <1>0, <1>6, <1>7, <1>10, <1>12, GovernanceTypes, HoldStepKeeps

LEMMA CommitReleaseKeeps ==
    ASSUME GovernanceIInv, NEW r \in Officers, CommitRelease(r)
    PROVE  GovernanceIInv' /\ GovernanceStepIsChecked
  <1>0. /\ officer \in [Officers -> CallType] /\ CallIsSound(r) /\ officer[r].pc = "counted"
        /\ doc \in DocType /\ SerialFlag /\ ListedWerePlaced /\ listed \subseteq Holds
        /\ hold \in [Holds -> {"none", "active", "released"}]
    BY GovernanceTypes DEF CommitRelease
  <1>1. PICK h \in Holds : h = officer[r].hold /\ officer[r].op = "release"
    BY <1>0 DEF CallIsSound
  <1>2. /\ Moves(r) /\ officer'[r].pc = "done" /\ officer'[r].op = "release" /\ officer'[r].hold = h
    BY <1>1, GotoMoves DEF CommitRelease, OfficerPcs
  <1>3. /\ hold' = [hold EXCEPT ![h] = "released"]
        /\ UNCHANGED <<listed, disposition, overtaken>>
    BY <1>1 DEF CommitRelease
  <1>4. /\ hold' \in [Holds -> {"none", "active", "released"}]
        /\ \A g \in Holds : hold'[g] = IF g = h THEN "released" ELSE hold[g]
    BY <1>0, <1>3
  <1>5. /\ doc' \in DocType /\ doc'.deleted = doc.deleted /\ doc'.key = doc.key
        /\ doc'.isRecord = doc.isRecord
        /\ doc'.legalHold = IF officer[r].clears THEN FALSE ELSE doc.legalHold
    BY <1>0 DEF CommitRelease, DocType
  <1>6. CallIsSound(r)'
    BY <1>1, <1>2, <1>4 DEF CallIsSound, Running, RunningPcs, Destroys
  <1>7. ~EverCalled("extend")' => ~EverCalled("extend")
    BY <1>2, CallsAreRemembered
  <1>8. SerialFlag'
    <2> SUFFICES ASSUME SerialReleases PROVE SerialFlag'
      BY DEF SerialFlag
    <2>1. \A o \in Officers : officer'[o].pc # "counted"
      BY <1>0, <1>2 DEF SerialFlag, Moves
    <2>2. ~EverCalled("extend")' => (doc'.legalHold <=> Held')
      <3> SUFFICES ASSUME ~EverCalled("extend") PROVE doc'.legalHold <=> Held'
        BY <1>7
      <3>1. /\ doc.legalHold <=> Held
            /\ officer[r].clears <=> h \in listed /\ OnlyHold(h)
        BY <1>0, <1>1 DEF SerialFlag
      <3>2. Held' <=> \E g \in listed : g # h /\ hold[g] = "active"
        BY <1>0, <1>3, <1>4 DEF Held, ActiveOn
      <3>3. Held <=> \E g \in listed : hold[g] = "active"
        BY DEF Held, ActiveOn
      <3>4. OnlyHold(h) <=> ~\E g \in listed : g # h /\ hold[g] = "active"
        BY DEF OnlyHold, ActiveOn
      <3> QED
        BY <1>5, <3>1, <3>2, <3>3, <3>4
    <2> QED
      BY <2>1, <2>2 DEF SerialFlag
  <1>9. EverCalled("release")'
    BY <1>2 DEF EverCalled
  <1>10. UnreleasedFlag' /\ ListedWerePlaced'
    BY <1>0, <1>3, <1>4, <1>9 DEF UnreleasedFlag, ListedWerePlaced
  <1>11. \A o \in Officers \ {r} :
            Running(o) /\ doc'.legalHold => doc.legalHold \/ "hold" \in overtaken'[o]
    BY <1>5
  <1> QED
    BY <1>0, <1>2, <1>3, <1>4, <1>5, <1>6, <1>8, <1>10, <1>11, GovernanceTypes, HoldStepKeeps

LEMMA PlaceHoldKeeps ==
    ASSUME GovernanceIInv, NEW h \in Holds, NEW names \in BOOLEAN, PlaceHold(h, names)
    PROVE  GovernanceIInv' /\ GovernanceStepIsChecked
  <1>0. /\ officer \in [Officers -> CallType] /\ disposition \in Seq(RowType)
        /\ doc \in DocType /\ SerialFlag /\ UnreleasedFlag /\ ListedWerePlaced /\ PendingIsSingle
        /\ listed \subseteq Holds /\ hold \in [Holds -> {"none", "active", "released"}]
        /\ hold[h] = "none" /\ UNCHANGED <<disposition, officer>>
    BY GovernanceTypes DEF PlaceHold
  <1>1. /\ hold' \in [Holds -> {"none", "active", "released"}]
        /\ \A g \in Holds : hold'[g] = IF g = h THEN "active" ELSE hold[g]
    BY <1>0 DEF PlaceHold
  <1>2. /\ doc' \in DocType /\ doc'.deleted = doc.deleted /\ doc'.key = doc.key
        /\ doc'.isRecord = doc.isRecord
        /\ doc'.legalHold = IF names THEN TRUE ELSE doc.legalHold
        /\ listed' = IF names THEN listed \cup {h} ELSE listed
    BY <1>0 DEF PlaceHold, DocType
  <1>3. /\ overtaken' \in [Officers -> SUBSET Kinds]
        /\ \A o \in Officers : overtaken[o] \subseteq overtaken'[o]
        /\ names => \A o \in Officers : Running(o) => "hold" \in overtaken'[o]
    <2>1. CASE names
      BY <2>1, OvertakeNotes DEF PlaceHold, Kinds
    <2>2. CASE ~names
      BY <2>2, GovernanceTypes DEF PlaceHold
    <2> QED
      BY <2>1, <2>2
  <1>4. PendingRows' = PendingRows /\ \A op : EverCalled(op)' = EverCalled(op)
    BY <1>0 DEF PendingRows, EverCalled
  <1>5. \A o \in Officers : CallIsSound(o)'
    <2> SUFFICES ASSUME NEW o \in Officers PROVE CallIsSound(o)'
      OBVIOUS
    <2>1. CallIsSound(o)
      BY GovernanceTypes
    <2> QED
      BY <1>0, <1>1, <1>2, <1>3, <1>4, <2>1, CallStays
  <1>6. h \notin listed
    BY <1>0 DEF ListedWerePlaced
  <1>7. Held' <=> names \/ Held
    BY <1>0, <1>1, <1>2, <1>6 DEF Held, ActiveOn
  <1>8. SerialFlag'
    BY <1>0, <1>2, <1>4, <1>7 DEF SerialFlag, PlaceHold, NoneCounts
  <1>9. UnreleasedFlag'
    <2> SUFFICES ASSUME ~EverCalled("release") PROVE UnreleasedFlag'
      BY <1>4 DEF UnreleasedFlag
    <2>1. \A g \in Holds : hold'[g] # "released"
      BY <1>0, <1>1 DEF UnreleasedFlag
    <2> QED
      BY <1>0, <1>2, <1>7, <2>1 DEF UnreleasedFlag
  <1>10. ListedWerePlaced' /\ listed' \subseteq Holds
    BY <1>0, <1>1, <1>2 DEF ListedWerePlaced
  <1>11. PendingIsSingle'
    BY <1>0, <1>3, <1>4 DEF PendingIsSingle
  <1>12. GovernanceIInv'
    BY <1>0, <1>1, <1>2, <1>3, <1>5, <1>8, <1>9, <1>10, <1>11, GovernanceStep
  <1> QED
    BY <1>0, <1>2, <1>12, NothingGoesIsChecked DEF NothingGoes

LEMMA GovernanceBegins == GovernanceInit => GovernanceIInv
  <1> SUFFICES ASSUME GovernanceInit PROVE GovernanceIInv
    OBVIOUS
  <1>1. officer \in [Officers -> CallType] /\ \A r \in Officers : officer[r] = NotStarted
    BY NotStartedIsACall DEF GovernanceInit
  <1>2. /\ doc \in DocType /\ ~doc.legalHold /\ listed = {} /\ ~Held /\ PendingRows = {}
        /\ disposition = <<>> /\ hold \in [Holds -> {"none", "active", "released"}]
        /\ \A h \in Holds : hold[h] = "none"
        /\ overtaken \in [Officers -> SUBSET Kinds]
    BY DEF GovernanceInit, DocType, Held, ActiveOn, PendingRows
  <1>3. \A r \in Officers : officer[r].pc = "idle" /\ officer[r].op = "delete" /\ ~Running(r)
    <2>1. NotStarted.pc = "idle" /\ NotStarted.op = "delete"
      BY NotStartedIsACall
    <2> QED
      BY <1>1, <2>1 DEF Running, RunningPcs
  <1>4. GovernanceTypeOK
    BY <1>1, <1>2 DEF GovernanceTypeOK, DocType, Kinds
  <1>5. SerialFlag /\ UnreleasedFlag /\ ListedWerePlaced /\ PendingIsSingle
    BY <1>2, <1>3 DEF SerialFlag, UnreleasedFlag, ListedWerePlaced, PendingIsSingle
  <1>6. FlagFollowsHolds
    BY <1>2 DEF FlagFollowsHolds
  <1>7. \A r \in Officers : CallIsSound(r)
    BY <1>1, <1>3 DEF CallIsSound
  <1> QED
    BY <1>4, <1>5, <1>6, <1>7 DEF GovernanceIInv, GovernanceInv

LEMMA GovernanceStepsKeep ==
    ASSUME GovernanceIInv, [GovernanceNext]_governanceVars PROVE GovernanceIInv' /\ [GovernanceStepIsChecked]_governanceVars
  <1>1. CASE UNCHANGED governanceVars
    <2>1. UNCHANGED <<doc, hold, listed, disposition, officer, overtaken>>
      BY <1>1 DEF governanceVars
    <2> QED
      BY <1>1, <2>1 DEF GovernanceIInv, GovernanceInv, GovernanceTypeOK, FlagFollowsHolds,
         FlagIsReliable, PendingIsSingle, PendingRows, Held, ActiveOn, EverCalled,
         ListedWerePlaced, SerialFlag, OnlyHold, UnreleasedFlag, CallIsSound, Running, Destroys
  <1>2. ASSUME NEW r \in Officers, Continue(r) PROVE GovernanceIInv' /\ GovernanceStepIsChecked
    BY <1>2, ReadFlagKeeps, ListDocumentKeeps, RaiseFlagKeeps, CountOtherHoldsKeeps,
       CommitReleaseKeeps, FindPendingKeeps, CreateDispositionKeeps, DecideKeeps, DocumentKeeps
       DEF Continue
  <1> QED
    BY <1>1, <1>2, PlaceHoldKeeps, BeginKeeps, DropCallKeeps DEF GovernanceNext

(* The flag follows the holds when it can be relied on, pending            *)
(* dispositions are single unless requests overlapped, and what destroys a *)
(* held document, deletes a record or changes a decision was overtaken     *)
(* after its checks.                                                       *)
THEOREM GovernanceHolds == GovernanceSpec => GovernanceIsSound
  <1>1. GovernanceIInv /\ [GovernanceNext]_governanceVars =>
           GovernanceIInv' /\ [GovernanceStepIsChecked]_governanceVars
    BY GovernanceStepsKeep
  <1>2. /\ [GovernanceStepIsChecked]_governanceVars =>
             [FlagIsReliable /\ Held /\ ((~doc.deleted /\ doc'.deleted) \/ (doc.key /\ ~doc'.key))
                => \E r \in Officers : Finishes(r) /\ "hold" \in overtaken[r]]_governanceVars
        /\ [GovernanceStepIsChecked]_governanceVars =>
             [doc.isRecord /\ ~doc.deleted /\ doc'.deleted =>
                \E r \in Officers : /\ Finishes(r)
                                    /\ officer[r].op = "delete" => "record" \in overtaken[r]]_governanceVars
        /\ [GovernanceStepIsChecked]_governanceVars =>
             [\A d \in DOMAIN disposition :
                disposition[d].status # "pending" /\ disposition'[d] # disposition[d] =>
                  \E r \in Officers : Finishes(r) /\ "decision" \in overtaken[r]]_governanceVars
    BY DEF GovernanceStepIsChecked
  <1>3. GovernanceIInv => GovernanceInv
    BY DEF GovernanceIInv
  <1> QED
    BY <1>1, <1>2, <1>3, GovernanceBegins, PTL
       DEF GovernanceSpec, GovernanceIsSound, GovernanceSteps, HeldIsDestroyedOnlyInARace,
           RecordIsNotJustDeleted, DecisionStands

-----------------------------------------------------------------------------
(*************************************************************************)
(* TreeInv of FolderTree, for folders and depths of any number: behind a *)
(* walk that nothing has passed lie folders that lead up to where it is, and *)
(* none of them is the folder that moves.                                *)
(*************************************************************************)

MoveState == [pc : {"idle", "walking", "moving", "deleting", "creating", "filing"},
              folder : Folders \cup {Root}, target : Folders \cup {Root},
              at : Folders \cup {Root}, depth : 0 .. MaxFolderDepth, stale : BOOLEAN]

(* What a walk has left behind it when it is at a: folders of the tree, the *)
(* new parent first, none of them the folder that moves.                    *)
Passed(P, w, a) ==
    /\ P \subseteq There /\ w.folder \notin P
    /\ w.target \in P \cup {a}
    /\ \A g \in P : parent[g] \in P \cup {a}

(* What an invocation that has read this tree knows of it. *)
ReadsTree(w) ==
    /\ w.pc = "walking" => \E P \in SUBSET There : Passed(P, w, w.at)
    /\ w.pc = "moving" => \/ w.target \notin There \cup {Root}
                          \/ \E P \in SUBSET There : Passed(P, w, Root)
    /\ w.pc = "deleting" => w.folder \in There /\ w.target = parent[w.folder]
    /\ w.pc = "walking" => w.at \in There \cup {Root, w.target}

MoversKnow == \A m \in Movers : mover[m].stale \/ ReadsTree(mover[m])

TreeIInv == TreeTypeOK /\ TreeIsATree /\ MoversKnow

-----------------------------------------------------------------------------
(* Rows in which every folder of a set is under one of the set: a cycle.   *)
LEMMA Cyclic ==
    ASSUME NEW rows, NEW S \in SUBSET DOMAIN rows, S # {}, \A f \in S : rows[f] \in S
    PROVE  HasCycle(rows)
  BY DEF HasCycle

(* A folder that moves under one from which it is not reached. *)
LEMMA MovesApart ==
    ASSUME TreeTypeOK, ~HasCycle(parent), NEW f \in There, NEW t \in There \cup {Root},
           NEW P \in SUBSET There, f \notin P, t \in P \cup {Root},
           \A g \in P : parent[g] \in P \cup {Root}
    PROVE  ~HasCycle([parent EXCEPT ![f] = t])
  <1> DEFINE rows == [parent EXCEPT ![f] = t]
  <1>0. There \subseteq Folders /\ Root \notin There
    BY TreeAssumption DEF TreeTypeOK
  <1>1. SUFFICES ASSUME NEW S \in SUBSET DOMAIN rows, S # {}, \A g \in S : rows[g] \in S
                 PROVE  FALSE
    BY DEF HasCycle
  <1>2. DOMAIN rows = There /\ rows[f] = t /\ \A g \in There \ {f} : rows[g] = parent[g]
    BY DEF There
  <1> HIDE DEF rows
  <1>3. CASE f \notin S
    <2>1. \A g \in S : parent[g] \in S
      BY <1>1, <1>2, <1>3
    <2> QED
      BY <1>1, <1>2, <2>1, Cyclic DEF There
  <1>4. CASE f \in S
    <2>1. t \in S \cap P
      BY <1>0, <1>1, <1>2, <1>4
    <2>2. \A g \in S \cap P : parent[g] \in S \cap P
      BY <1>0, <1>1, <1>2
    <2>3. S \cap P \in SUBSET DOMAIN parent
      BY DEF There
    <2> QED
      BY <2>1, <2>2, <2>3, Cyclic
  <1> QED
    BY <1>3, <1>4

(* A folder that goes, and hands its children to its own parent. *)
LEMMA GoesApart ==
    ASSUME TreeTypeOK, ~HasCycle(parent), NEW f \in There, NEW t, t = parent[f],
           NEW rows, rows = [g \in There \ {f} |-> IF parent[g] = f THEN t ELSE parent[g]]
    PROVE  ~HasCycle(rows)
  <1>1. SUFFICES ASSUME NEW S \in SUBSET DOMAIN rows, S # {}, \A g \in S : rows[g] \in S
                 PROVE  FALSE
    BY DEF HasCycle
  <1>2. S \subseteq There \ {f}
    BY <1>1
  <1>3. \A g \in S : rows[g] = IF parent[g] = f THEN t ELSE parent[g]
    BY <1>2
  <1>4. CASE \E g \in S : parent[g] = f
    <2>1. t \in S
      BY <1>1, <1>3, <1>4
    <2>2. \A g \in S \cup {f} : parent[g] \in S \cup {f}
      BY <1>1, <1>3, <2>1
    <2>3. S \cup {f} \in SUBSET DOMAIN parent
      BY <1>2 DEF There
    <2> QED
      BY <2>2, <2>3, Cyclic
  <1>5. CASE \A g \in S : parent[g] # f
    <2>1. \A g \in S : parent[g] \in S
      BY <1>1, <1>3, <1>5
    <2>2. S \in SUBSET DOMAIN parent
      BY <1>2 DEF There
    <2> QED
      BY <1>1, <2>1, <2>2, Cyclic
  <1> QED
    BY <1>4, <1>5

(* A new folder under one that is there. *)
LEMMA ComesApart ==
    ASSUME TreeTypeOK, ~HasCycle(parent), NEW f \in unborn, NEW t \in There \cup {Root},
           NEW rows, rows = [g \in There \cup {f} |-> IF g = f THEN t ELSE parent[g]]
    PROVE  ~HasCycle(rows)
  <1>0. Root \notin There \cup {f} /\ f \notin There /\ \A g \in There : parent[g] # f
    BY TreeAssumption DEF TreeTypeOK
  <1>1. SUFFICES ASSUME NEW S \in SUBSET DOMAIN rows, S # {}, \A g \in S : rows[g] \in S
                 PROVE  FALSE
    BY DEF HasCycle
  <1>2. S \subseteq There \cup {f}
    BY <1>1
  <1>3. \A g \in S : rows[g] = IF g = f THEN t ELSE parent[g]
    BY <1>2
  <1>4. \A g \in S \ {f} : parent[g] \in S \ {f}
    BY <1>0, <1>1, <1>2, <1>3 DEF TreeTypeOK
  <1>5. S \ {f} # {}
    BY <1>0, <1>1, <1>3
  <1>6. S \ {f} \in SUBSET DOMAIN parent
    BY <1>2 DEF There
  <1> QED
    BY <1>4, <1>5, <1>6, Cyclic

-----------------------------------------------------------------------------
LEMMA NoMoveIsIdle ==
    NoMove \in MoveState /\ NoMove.pc = "idle"
  <1>1. 0 \in 0 .. MaxFolderDepth
    BY TreeAssumption
  <1>2. NoMove = [pc |-> "idle", folder |-> Root, target |-> Root, at |-> Root,
                  depth |-> 0, stale |-> FALSE]
    BY DEF NoMove
  <1>3. "idle" \in {"idle", "walking", "moving", "deleting", "creating", "filing"}
    OBVIOUS
  <1> QED
    BY <1>1, <1>2, <1>3 DEF MoveState

(* What an invocation knows depends on the tree and on the invocation.     *)
LEMMA KnowsStill ==
    ASSUME NEW w \in MoveState, NEW v \in MoveState, ReadsTree(w), UNCHANGED parent,
           v.pc = w.pc, v.folder = w.folder, v.target = w.target, v.at = w.at
    PROVE  ReadsTree(v)'
  <1>1. There' = There
    BY DEF There
  <1>2. \A P, a : Passed(P, w, a) => Passed(P, v, a)'
    BY <1>1 DEF Passed
  <1> QED
    BY <1>1, <1>2 DEF ReadsTree

(* The tree is as it was, and one invocation goes on. *)
LEMMA Reading ==
    ASSUME TreeIInv, NEW m \in Movers, NEW w \in MoveState,
           mover' = [mover EXCEPT ![m] = w], w.stale \/ ReadsTree(w),
           treeOps' \in 0 .. MaxTreeOps,
           UNCHANGED <<parent, unborn, filed, unchecked>>
    PROVE  TreeIInv'
  <1>0. There' = There /\ TreeTypeOK /\ TreeIsATree /\ MoversKnow
    BY DEF There, TreeIInv
  <1>1. mover \in [Movers -> MoveState]
    BY <1>0 DEF TreeTypeOK, MoveState
  <1>2. mover' \in [Movers -> MoveState]
    BY <1>1
  <1>3. TreeTypeOK'
    BY <1>0, <1>2 DEF TreeTypeOK, MoveState
  <1>4. ASSUME NEW o \in Movers PROVE (mover[o].stale \/ ReadsTree(mover[o]))'
    <2>1. CASE o = m
      <3>1. mover'[o] = w
        BY <1>1, <2>1
      <3> QED
        BY <3>1, KnowsStill
    <2>2. CASE o # m
      <3>1. mover'[o] = mover[o] /\ mover[o] \in MoveState
        BY <1>1, <2>2
      <3> QED
        BY <1>0, <3>1, KnowsStill DEF MoversKnow
    <2> QED
      BY <2>1, <2>2
  <1> QED
    BY <1>0, <1>3, <1>4 DEF TreeIInv, MoversKnow, TreeIsATree

(* An invocation ends and leaves these rows. *)
LEMMA WritingIsState ==
    ASSUME TreeIInv, NEW m \in Movers, NEW rows, WriteTree(m, rows),
           \/ rows = parent
           \/ mover[m].stale
           \/ ~HasCycle(parent) => ~HasCycle(rows),
           There' \subseteq Folders, unborn' \subseteq Folders \ There',
           \A f \in There' : parent'[f] \in There' \cup {Root},
           filed' \in There' \cup {Root}
    PROVE  TreeIInv'
  <1>0. TreeTypeOK /\ TreeIsATree /\ MoversKnow
    BY DEF TreeIInv
  <1>1. mover \in [Movers -> MoveState] /\ unchecked \in BOOLEAN
    BY <1>0 DEF TreeTypeOK, MoveState
  <1>2. \A o \in Movers :
           \/ mover'[o] = NoMove
           \/ mover'[o] = [mover[o] EXCEPT !.stale = mover[o].stale \/ rows # parent]
    BY DEF WriteTree
  <1>3. \A o \in Movers : [mover[o] EXCEPT !.stale = mover[o].stale \/ rows # parent] \in MoveState
    <2> SUFFICES ASSUME NEW o \in Movers
                 PROVE  [mover[o] EXCEPT !.stale = mover[o].stale \/ rows # parent] \in MoveState
      OBVIOUS
    <2>1. mover[o] \in MoveState
      BY <1>1
    <2>2. (mover[o].stale \/ rows # parent) \in BOOLEAN
      OBVIOUS
    <2> HIDE DEF MoveState
    <2>3. PICK b \in BOOLEAN : b = (mover[o].stale \/ rows # parent)
      BY <2>2
    <2>4. [mover[o] EXCEPT !.stale = b] \in MoveState
      BY <2>1 DEF MoveState
    <2> QED
      BY <2>3, <2>4
  <1>4. mover' \in [Movers -> MoveState]
    <2>1. \A o \in Movers : mover'[o] \in MoveState
      BY <1>2, <1>3, NoMoveIsIdle
    <2> QED
      BY <2>1 DEF WriteTree
  <1>5. unchecked' \in BOOLEAN
    BY DEF WriteTree
  <1>6. TreeTypeOK'
    BY <1>0, <1>4, <1>5 DEF TreeTypeOK, MoveState, WriteTree
  <1>7. TreeIsATree'
    BY <1>0 DEF TreeIsATree, WriteTree
  <1>8. ASSUME NEW o \in Movers PROVE (mover[o].stale \/ ReadsTree(mover[o]))'
    <2>1. CASE mover'[o] = NoMove
      BY <2>1, NoMoveIsIdle DEF ReadsTree
    <2>2. CASE mover'[o] = [mover[o] EXCEPT !.stale = mover[o].stale \/ rows # parent]
      <3>1. mover[o] \in MoveState /\ mover'[o] \in MoveState
        BY <1>1, <1>4
      <3>2. mover'[o].stale <=> (mover[o].stale \/ rows # parent)
        BY <2>2, <3>1 DEF MoveState
      <3>3. /\ mover'[o].pc = mover[o].pc /\ mover'[o].folder = mover[o].folder
            /\ mover'[o].target = mover[o].target /\ mover'[o].at = mover[o].at
        BY <2>2, <3>1 DEF MoveState
      <3>4. CASE mover[o].stale \/ rows # parent
        BY <3>2, <3>4
      <3>5. CASE ~mover[o].stale /\ rows = parent
        <4>1. ReadsTree(mover[o]) /\ parent' = parent
          BY <1>0, <3>5 DEF MoversKnow, WriteTree
        <4>2. PICK w \in MoveState : w = mover[o]
          BY <3>1
        <4>3. PICK v \in MoveState : v = mover'[o]
          BY <3>1
        <4>4. ReadsTree(v)'
          BY <3>3, <4>1, <4>2, <4>3, KnowsStill
        <4> QED
          BY <4>3, <4>4 DEF ReadsTree, Passed, There
      <3> QED
        BY <3>4, <3>5
    <2> QED
      BY <1>2, <2>1, <2>2
  <1> QED
    BY <1>6, <1>7, <1>8 DEF TreeIInv, MoversKnow

-----------------------------------------------------------------------------
LEMMA TreeStarts == TreeInit => TreeIInv
  <1> SUFFICES ASSUME TreeInit PROVE TreeIInv
    OBVIOUS
  <1>1. PICK born \in SUBSET Folders : unborn = Folders \ born /\ born = Folders \ unborn
    BY DEF TreeInit
  <1>2. parent \in [born -> born \cup {Root}]
    BY <1>1 DEF TreeInit
  <1>3. There = born /\ \A f \in There : parent[f] \in There \cup {Root}
    BY <1>2 DEF There
  <1>4. mover \in [Movers -> MoveState] /\ \A m \in Movers : mover[m] = NoMove
    BY NoMoveIsIdle DEF TreeInit
  <1>5. filed = Root /\ treeOps = 0 /\ 0 \in 0 .. MaxTreeOps /\ unchecked = FALSE
    BY TreeAssumption DEF TreeInit
  <1>6. TreeTypeOK
    BY <1>1, <1>3, <1>4, <1>5 DEF TreeTypeOK, MoveState
  <1>7. TreeIsATree
    BY DEF TreeInit, TreeIsATree
  <1>8. MoversKnow
    BY <1>4, NoMoveIsIdle DEF MoversKnow, ReadsTree
  <1> QED
    BY <1>6, <1>7, <1>8 DEF TreeIInv

LEMMA OneMoreOp ==
    ASSUME TreeIInv, NEW m \in Movers, NEW w \in MoveState, BeginOp(m, w), ReadsTree(w)
    PROVE  TreeIInv'
  <1>1. treeOps' \in 0 .. MaxTreeOps
    BY TreeAssumption DEF TreeIInv, TreeTypeOK, BeginOp
  <1> QED
    BY <1>1, Reading DEF BeginOp

LEMMA BeginMoveKeeps ==
    ASSUME TreeIInv, NEW m \in Movers, NEW f \in Folders, NEW target \in Folders \cup {Root},
           BeginMove(m, f, target)
    PROVE  TreeIInv'
  <1>1. PICK w : w = [NoMove EXCEPT !.pc = "walking", !.folder = f, !.target = target, !.at = target]
    OBVIOUS
  <1>2. /\ w \in MoveState /\ w.pc = "walking" /\ w.folder = f /\ w.target = target
        /\ w.at = target
    BY <1>1, NoMoveIsIdle DEF MoveState
  <1>3. Passed({}, w, w.at)
    BY <1>2 DEF Passed
  <1>4. ReadsTree(w)
    BY <1>2, <1>3 DEF ReadsTree
  <1> QED
    BY <1>1, <1>2, <1>4, OneMoreOp DEF BeginMove

LEMMA BeginDeleteFolderKeeps ==
    ASSUME TreeIInv, NEW m \in Movers, NEW f \in Folders, BeginDeleteFolder(m, f)
    PROVE  TreeIInv'
  <1>1. PICK w : w = [NoMove EXCEPT !.pc = "deleting", !.folder = f, !.target = parent[f]]
    OBVIOUS
  <1>2. f \in There /\ parent[f] \in Folders \cup {Root}
    BY DEF BeginDeleteFolder, TreeIInv, TreeTypeOK
  <1>3. w \in MoveState /\ w.pc = "deleting" /\ w.folder = f /\ w.target = parent[f]
    BY <1>1, <1>2, NoMoveIsIdle DEF MoveState
  <1>4. ReadsTree(w)
    BY <1>2, <1>3 DEF ReadsTree
  <1> QED
    BY <1>1, <1>3, <1>4, OneMoreOp DEF BeginDeleteFolder

LEMMA BeginCreateKeeps ==
    ASSUME TreeIInv, NEW m \in Movers, NEW f \in Folders, NEW target \in Folders \cup {Root},
           BeginCreate(m, f, target)
    PROVE  TreeIInv'
  <1>1. PICK w : w = [NoMove EXCEPT !.pc = "creating", !.folder = f, !.target = target]
    OBVIOUS
  <1>2. w \in MoveState /\ w.pc = "creating"
    BY <1>1, NoMoveIsIdle DEF MoveState
  <1>3. ReadsTree(w)
    BY <1>2 DEF ReadsTree
  <1> QED
    BY <1>1, <1>2, <1>3, OneMoreOp DEF BeginCreate

LEMMA BeginFileKeeps ==
    ASSUME TreeIInv, NEW m \in Movers, NEW target \in Folders \cup {Root}, BeginFile(m, target)
    PROVE  TreeIInv'
  <1>1. PICK w : w = [NoMove EXCEPT !.pc = "filing", !.target = target]
    OBVIOUS
  <1>2. w \in MoveState /\ w.pc = "filing"
    BY <1>1, NoMoveIsIdle DEF MoveState
  <1>3. ReadsTree(w)
    BY <1>2 DEF ReadsTree
  <1> QED
    BY <1>1, <1>2, <1>3, OneMoreOp DEF BeginFile

(* One level up: the folder that was looked at is passed. *)
LEMMA WalkKeeps ==
    ASSUME TreeIInv, NEW m \in Movers, Walk(m)
    PROVE  TreeIInv'
  <1>0. TreeTypeOK /\ MoversKnow /\ treeOps' \in 0 .. MaxTreeOps
    BY DEF TreeIInv, TreeTypeOK, Walk
  <1>1. PICK w \in MoveState : w = mover[m]
    BY <1>0 DEF TreeTypeOK, MoveState
  <1>2. w.pc = "walking" /\ (w.stale \/ ReadsTree(w))
    BY <1>0, <1>1 DEF Walk, MoversKnow
  <1>3. UNCHANGED <<parent, unborn, filed, unchecked>>
    BY DEF Walk
  <1>4. CASE w.at = Root \/ w.depth = MaxFolderDepth
    <2>1. PICK b \in BOOLEAN : b <=> (w.stale \/ w.at # Root)
      BY Zenon
    <2>2. PICK v : v = [w EXCEPT !.pc = "moving", !.stale = b]
      OBVIOUS
    <2>3. v \in MoveState
      BY <2>2 DEF MoveState
    <2>4. /\ v.pc = "moving" /\ v.folder = w.folder /\ v.target = w.target
          /\ v.stale <=> (w.stale \/ w.at # Root)
      BY <2>1, <2>2 DEF MoveState
    <2>5. mover' = [mover EXCEPT ![m] = v]
      <3>1. w.stale \in BOOLEAN
        BY DEF MoveState
      <3>2. b = (w.stale \/ w.at # Root)
        BY <2>1, <3>1
      <3> QED
        BY <1>1, <1>4, <2>2, <3>2 DEF Walk
    <2>6. v.stale \/ ReadsTree(v)
      <3>1. SUFFICES ASSUME ~v.stale PROVE ReadsTree(v)
        OBVIOUS
      <3>2. w.at = Root /\ ReadsTree(w)
        BY <1>2, <2>4, <3>1
      <3>3. PICK P \in SUBSET There : Passed(P, w, Root)
        BY <1>2, <3>2 DEF ReadsTree
      <3>4. Passed(P, v, Root)
        BY <2>4, <3>3 DEF Passed
      <3> QED
        BY <2>4, <3>4 DEF ReadsTree
    <2> QED
      BY <1>0, <1>3, <2>3, <2>5, <2>6, Reading
  <1>5. CASE ~(w.at = Root \/ w.depth = MaxFolderDepth) /\ w.at = w.folder
    <2>1. mover' = [mover EXCEPT ![m] = NoMove]
      BY <1>1, <1>5 DEF Walk
    <2>2. ReadsTree(NoMove)
      BY NoMoveIsIdle DEF ReadsTree
    <2> QED
      BY <1>0, <1>3, <2>1, <2>2, NoMoveIsIdle, Reading
  <1>6. CASE /\ ~(w.at = Root \/ w.depth = MaxFolderDepth) /\ w.at # w.folder
             /\ w.at \notin There
    <2>1. PICK v : v = [w EXCEPT !.pc = "moving"]
      OBVIOUS
    <2>2. v \in MoveState /\ v.pc = "moving" /\ v.target = w.target /\ v.stale = w.stale
      BY <2>1 DEF MoveState
    <2>3. mover' = [mover EXCEPT ![m] = v]
      BY <1>1, <1>6, <2>1 DEF Walk
    <2>4. v.stale \/ ReadsTree(v)
      BY <1>2, <1>6, <2>2 DEF ReadsTree
    <2> QED
      BY <1>0, <1>3, <2>2, <2>3, <2>4, Reading
  <1>7. CASE /\ ~(w.at = Root \/ w.depth = MaxFolderDepth) /\ w.at # w.folder
             /\ w.at \in There
    <2>1. parent[w.at] \in There \cup {Root} /\ There \subseteq Folders
      BY <1>0, <1>7 DEF TreeTypeOK
    <2>2. PICK d \in 0 .. MaxFolderDepth : d = w.depth + 1
      <3>1. w.depth \in 0 .. MaxFolderDepth
        BY DEF MoveState
      <3> QED
        BY <1>7, <3>1, TreeAssumption
    <2>3. PICK v : v = [w EXCEPT !.at = parent[w.at], !.depth = d]
      OBVIOUS
    <2>4. v \in MoveState
      BY <2>1, <2>3 DEF MoveState
    <2>5. /\ v.pc = "walking" /\ v.target = w.target /\ v.stale = w.stale
          /\ v.folder = w.folder /\ v.at = parent[w.at]
      BY <1>2, <2>3 DEF MoveState
    <2>6. mover' = [mover EXCEPT ![m] = v]
      BY <1>1, <1>7, <2>2, <2>3 DEF Walk
    <2>7. v.stale \/ ReadsTree(v)
      <3>1. SUFFICES ASSUME ~v.stale PROVE ReadsTree(v)
        OBVIOUS
      <3>2. PICK P \in SUBSET There : Passed(P, w, w.at)
        BY <1>2, <2>5, <3>1 DEF ReadsTree
      <3>3. P \cup {w.at} \in SUBSET There
        BY <1>7
      <3>4. Passed(P \cup {w.at}, v, v.at)
        BY <1>7, <2>5, <3>2, <3>3 DEF Passed
      <3> QED
        BY <2>1, <2>5, <3>3, <3>4 DEF ReadsTree
    <2> QED
      BY <1>0, <1>3, <2>4, <2>6, <2>7, Reading
  <1> QED
    BY <1>4, <1>5, <1>6, <1>7

-----------------------------------------------------------------------------
LEMMA MoveFolderKeeps ==
    ASSUME TreeIInv, NEW m \in Movers, MoveFolder(m)
    PROVE  TreeIInv'
  <1>0. TreeTypeOK /\ MoversKnow
    BY DEF TreeIInv
  <1>1. PICK w \in MoveState : w = mover[m]
    BY <1>0 DEF TreeTypeOK, MoveState
  <1>2. w.pc = "moving" /\ (w.stale \/ ReadsTree(w))
    BY <1>0, <1>1 DEF MoveFolder, MoversKnow
  <1>3. unborn' = unborn /\ filed' = filed
    BY DEF MoveFolder
  <1>4. CASE w.folder \in There /\ w.target \in There \cup {Root}
    <2>1. PICK rows : rows = [parent EXCEPT ![w.folder] = w.target]
      OBVIOUS
    <2>2. WriteTree(m, rows)
      BY <1>1, <1>4, <2>1 DEF MoveFolder
    <2>3. parent' = rows
      BY <2>2 DEF WriteTree
    <2>4. There' = There
      BY <2>1, <2>3 DEF There
    <2>5. \A f \in There : rows[f] \in There \cup {Root}
      BY <1>0, <1>4, <2>1 DEF TreeTypeOK, There
    <2>6. w.stale \/ (~HasCycle(parent) => ~HasCycle(rows))
      <3> SUFFICES ASSUME ~w.stale, ~HasCycle(parent) PROVE ~HasCycle(rows)
        OBVIOUS
      <3>1. PICK P \in SUBSET There : Passed(P, w, Root)
        BY <1>2, <1>4 DEF ReadsTree
      <3>2. /\ w.folder \notin P /\ w.target \in P \cup {Root}
            /\ \A g \in P : parent[g] \in P \cup {Root}
        BY <3>1 DEF Passed
      <3> QED
        BY <1>0, <1>4, <2>1, <3>2, MovesApart
    <2> QED
      BY <1>0, <1>1, <1>3, <2>2, <2>3, <2>4, <2>5, <2>6, WritingIsState DEF TreeTypeOK
  <1>5. CASE ~(w.folder \in There /\ w.target \in There \cup {Root})
    <2>1. WriteTree(m, parent)
      BY <1>1, <1>5 DEF MoveFolder
    <2>2. parent' = parent /\ There' = There
      BY <2>1 DEF WriteTree, There
    <2> QED
      BY <1>0, <1>3, <2>1, <2>2, WritingIsState DEF TreeTypeOK
  <1> QED
    BY <1>4, <1>5

LEMMA DeleteFolderKeeps ==
    ASSUME TreeIInv, NEW m \in Movers, DeleteFolder(m)
    PROVE  TreeIInv'
  <1>0. TreeTypeOK /\ MoversKnow /\ Root \notin There
    BY TreeAssumption DEF TreeIInv, TreeTypeOK
  <1>1. PICK w \in MoveState : w = mover[m]
    BY <1>0 DEF TreeTypeOK, MoveState
  <1>2. w.pc = "deleting" /\ (w.stale \/ ReadsTree(w)) /\ unborn' = unborn
    BY <1>0, <1>1 DEF DeleteFolder, MoversKnow
  <1> DEFINE f == w.folder
             children == {g \in There \ {f} : parent[g] = f}
             heir == IF w.target = f THEN Root ELSE w.target
             fits == f \in There /\ (children = {} \/ heir \in There \cup {Root})
             rows == [g \in There \ {f} |-> IF g \in children THEN heir ELSE parent[g]]
  <1>3. CASE fits
    <2>1. WriteTree(m, rows) /\ filed' = IF filed = f THEN Root ELSE filed
      BY <1>1, <1>3 DEF DeleteFolder
    <2>2. parent' = rows
      BY <2>1 DEF WriteTree
    <2>3. There' = There \ {f}
      BY <2>2 DEF There
    <2>4. \A g \in There \ {f} : rows[g] \in (There \ {f}) \cup {Root}
      BY <1>0, <1>3 DEF TreeTypeOK
    <2>5. w.stale \/ (~HasCycle(parent) => ~HasCycle(rows))
      <3>0. SUFFICES ASSUME ~w.stale, ~HasCycle(parent) PROVE ~HasCycle(rows)
        OBVIOUS
      <3>1. f \in There /\ w.target = parent[f]
        BY <1>2, <3>0 DEF ReadsTree
      <3>2. parent[f] # f
        <4>1. SUFFICES ASSUME parent[f] = f PROVE FALSE
          OBVIOUS
        <4>2. {f} \in SUBSET DOMAIN parent /\ {f} # {} /\ \A g \in {f} : parent[g] \in {f}
          BY <3>1, <4>1 DEF There
        <4> QED
          BY <3>0, <4>2, Cyclic
      <3>3. rows = [g \in There \ {f} |-> IF parent[g] = f THEN parent[f] ELSE parent[g]]
        BY <3>1, <3>2
      <3> QED
        BY <1>0, <3>0, <3>1, <3>3, GoesApart
    <2>6. There' \subseteq Folders /\ unborn' \subseteq Folders \ There'
      BY <1>0, <1>2, <2>3 DEF TreeTypeOK
    <2>7. filed' \in There' \cup {Root}
      BY <1>0, <2>1, <2>3 DEF TreeTypeOK
    <2>8. \A g \in There' : parent'[g] \in There' \cup {Root}
      BY <2>2, <2>3, <2>4
    <2> HIDE DEF rows
    <2> QED
      BY <1>1, <2>1, <2>5, <2>6, <2>7, <2>8, WritingIsState
  <1>4. CASE ~fits
    <2>1. WriteTree(m, parent) /\ filed' = filed
      BY <1>1, <1>4 DEF DeleteFolder
    <2>2. parent' = parent /\ There' = There
      BY <2>1 DEF WriteTree, There
    <2> QED
      BY <1>0, <1>2, <2>1, <2>2, WritingIsState DEF TreeTypeOK
  <1> QED
    BY <1>3, <1>4

LEMMA CreateTreeFolderKeeps ==
    ASSUME TreeIInv, NEW m \in Movers, CreateTreeFolder(m)
    PROVE  TreeIInv'
  <1>0. TreeTypeOK
    BY DEF TreeIInv
  <1> DEFINE f == mover[m].folder
             target == mover[m].target
             rows == [g \in There \cup {f} |-> IF g = f THEN target ELSE parent[g]]
  <1>1. filed' = filed
    BY DEF CreateTreeFolder
  <1>2. CASE f \in unborn /\ target \in There \cup {Root}
    <2>1. WriteTree(m, rows) /\ unborn' = unborn \ {f}
      BY <1>2 DEF CreateTreeFolder
    <2>2. parent' = rows
      BY <2>1 DEF WriteTree
    <2>3. There' = There \cup {f}
      BY <2>2 DEF There
    <2>4. \A g \in There \cup {f} : rows[g] \in There \cup {f} \cup {Root}
      BY <1>0, <1>2 DEF TreeTypeOK
    <2>5. ~HasCycle(parent) => ~HasCycle(rows)
      BY <1>0, <1>2, ComesApart
    <2>6. There' \subseteq Folders /\ unborn' \subseteq Folders \ There'
      BY <1>0, <1>2, <2>1, <2>3 DEF TreeTypeOK
    <2>7. filed' \in There' \cup {Root}
      BY <1>0, <1>1, <2>3 DEF TreeTypeOK
    <2>8. \A g \in There' : parent'[g] \in There' \cup {Root}
      BY <2>2, <2>3, <2>4
    <2> HIDE DEF rows
    <2> QED
      BY <2>1, <2>5, <2>6, <2>7, <2>8, WritingIsState
  <1>3. CASE ~(f \in unborn /\ target \in There \cup {Root})
    <2>1. WriteTree(m, parent) /\ unborn' = unborn
      BY <1>3 DEF CreateTreeFolder
    <2>2. parent' = parent /\ There' = There
      BY <2>1 DEF WriteTree, There
    <2> QED
      BY <1>0, <1>1, <2>1, <2>2, WritingIsState DEF TreeTypeOK
  <1> QED
    BY <1>2, <1>3

LEMMA FileDocumentKeeps ==
    ASSUME TreeIInv, NEW m \in Movers, FileDocument(m)
    PROVE  TreeIInv'
  <1>0. TreeTypeOK
    BY DEF TreeIInv
  <1>1. WriteTree(m, parent) /\ unborn' = unborn
    BY DEF FileDocument
  <1>2. parent' = parent /\ There' = There
    BY <1>1 DEF WriteTree, There
  <1>3. filed' \in There \cup {Root}
    BY <1>0 DEF FileDocument, TreeTypeOK
  <1> QED
    BY <1>0, <1>1, <1>2, <1>3, WritingIsState DEF TreeTypeOK

LEMMA TreeStandsStill ==
    ASSUME TreeIInv, UNCHANGED treeVars PROVE TreeIInv'
  <1>1. There' = There /\ parent' = parent /\ mover' = mover
    BY DEF treeVars, There
  <1>2. TreeTypeOK' /\ TreeIsATree'
    BY <1>1 DEF TreeIInv, TreeTypeOK, TreeIsATree, treeVars
  <1>3. \A w : ReadsTree(w) => ReadsTree(w)'
    BY <1>1 DEF ReadsTree, Passed
  <1> QED
    BY <1>1, <1>2, <1>3 DEF TreeIInv, MoversKnow

LEMMA TreeSteps == TreeIInv /\ [TreeNext]_treeVars => TreeIInv'
  <1> SUFFICES ASSUME TreeIInv, [TreeNext]_treeVars PROVE TreeIInv'
    OBVIOUS
  <1>1. CASE UNCHANGED treeVars
    BY <1>1, TreeStandsStill
  <1>2. ASSUME NEW m \in Movers, NEW f \in Folders, BeginDeleteFolder(m, f) PROVE TreeIInv'
    BY <1>2, BeginDeleteFolderKeeps
  <1>3. ASSUME NEW m \in Movers, NEW f \in Folders, NEW target \in Folders \cup {Root},
               BeginMove(m, f, target) \/ BeginCreate(m, f, target)
        PROVE  TreeIInv'
    BY <1>3, BeginMoveKeeps, BeginCreateKeeps
  <1>4. ASSUME NEW m \in Movers, NEW target \in Folders \cup {Root}, BeginFile(m, target)
        PROVE  TreeIInv'
    BY <1>4, BeginFileKeeps
  <1>5. ASSUME NEW m \in Movers, Walk(m) PROVE TreeIInv'
    BY <1>5, WalkKeeps
  <1>6. ASSUME NEW m \in Movers,
               MoveFolder(m) \/ DeleteFolder(m) \/ CreateTreeFolder(m) \/ FileDocument(m)
        PROVE  TreeIInv'
    BY <1>6, MoveFolderKeeps, DeleteFolderKeeps, CreateTreeFolderKeeps, FileDocumentKeeps
  <1> QED
    BY <1>1, <1>2, <1>3, <1>4, <1>5, <1>6 DEF TreeNext

(* No folder is its own ancestor, however moves, deletions and creations   *)
(* of folders cross, unless a walk was cut short at MAX_FOLDER_DEPTH or a   *)
(* write rested on a tree that had changed: whatever the depth of the tree *)
(* (folders/[id]/route.ts, isInParentChain).                               *)
THEOREM FoldersFormATree == TreeSpec => []TreeInv
  <1>1. TreeIInv => TreeInv
    BY DEF TreeIInv, TreeInv
  <1> QED
    BY <1>1, TreeStarts, TreeSteps, PTL DEF TreeSpec

=============================================================================
