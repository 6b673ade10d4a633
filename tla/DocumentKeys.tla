----------------------------- MODULE DocumentKeys -----------------------------
(***************************************************************************)
(* The keys of documents and what is served under them: upload, copy and   *)
(* shredding, the rotation of the key that wraps them (KEK), and download  *)
(* by signed address (lib/storage, api/admin/key-rotation, documents/copy, *)
(* api/storage/resolve).                                                   *)
(*                                                                         *)
(* A process takes its KEK from the environment when it starts and keeps   *)
(* it.  A wrapped key can be opened with the KEK that wrapped it, and with *)
(* any other KEK opening fails (AES-GCM).  Each document has one key of    *)
(* its own; bytes are known by what they decrypt to under it.  What comes  *)
(* out when a key is opened with another KEK than its own is not the key:  *)
(* who wraps that up again spoils the row.                                 *)
(***************************************************************************)
EXTENDS Naturals, FiniteSets

CONSTANTS
    Processes, Documents, Requests, Users,
    Anyone,         \* the reader of an address that is bound to nobody
    Text,           \* what was uploaded
    NoBytes, NoUrl,
    Drivers,        \* STORAGE_DRIVER: "local", "s3"
    MaxKek          \* bound: KEKs there are in the course of time

ASSUME KeyBounds ==
    /\ MaxKek \in Nat \ {0} /\ Drivers \subseteq {"local", "s3"}
    /\ {Text, NoBytes, "refused"} \cap Documents = {} /\ Anyone \notin Users
    /\ NoBytes \notin {Text, "refused"}

VARIABLES
    driver,
    configured,     \* SMART_EDMS_KEK in the environment
    kek,            \* the KEK each process runs with
    wrapped,        \* DocumentEncryptionKey: the KEK, 0 without a row
    spoilt,         \* documents whose row wraps something else than their key
    contents,       \* what the object of a document decrypts to: the text,
                    \* or the sealed bytes of another document
    deleted,        \* documents with deletedAt
    request,        \* copies, shreddings and rotations under way
    url             \* an address handed out, and what it answered

keyVars == <<driver, configured, kek, wrapped, spoilt, contents, deleted, request, url>>

NoRequest == [pc |-> "idle", at |-> NoBytes, doc |-> NoBytes, bytes |-> NoBytes,
              opened |-> FALSE, todo |-> {}, listed |-> {}]

KeyInit ==
    /\ driver \in Drivers
    /\ configured = 1
    /\ kek = [p \in Processes |-> 1]
    /\ wrapped = [d \in Documents |-> 0]
    /\ spoilt = {}
    /\ contents = [d \in Documents |-> NoBytes]
    /\ deleted = {}
    /\ request = [t \in Requests |-> NoRequest]
    /\ url = NoUrl

Stored(d) == contents[d] # NoBytes
At(t, pc) == request[t].pc = pc
Kek(t)    == kek[request[t].at]
Rest(t)   == request[t].pc \in {"idle", "rotated", "refused"}

(* createDocumentDek and the object, in the transaction of the document.   *)
Store(d, p, bytes) ==
    /\ ~Stored(d)
    /\ wrapped' = [wrapped EXCEPT ![d] = kek[p]]
    /\ contents' = [contents EXCEPT ![d] = bytes]

Upload(p) ==
    /\ \E d \in Documents : Store(d, p, Text)
    /\ UNCHANGED <<driver, configured, kek, spoilt, deleted, request, url>>

-----------------------------------------------------------------------------
(* getDocumentDek: without a row there is no key, and with the wrong KEK   *)
(* it throws.                                                              *)
Opens(t, d) == wrapped[d] = Kek(t)

Keyless(t, d) == wrapped[d] = 0

Refuse(t) == request' = [request EXCEPT ![t] = [NoRequest EXCEPT !.pc = "refused"]]

(* POST copy: the source and its object are read, then its key; without a  *)
(* key the bytes are copied as they are.  The copy gets a key of its own.  *)
BeginCopy(t, p) ==
    /\ Rest(t)
    /\ \E d \in Documents : /\ Stored(d) /\ d \notin deleted
                            /\ request' = [request EXCEPT ![t] =
                                  [NoRequest EXCEPT !.pc = "copying", !.at = p, !.doc = d]]
    /\ UNCHANGED <<driver, configured, kek, wrapped, spoilt, contents, deleted, url>>

ReadSource(t) ==
    /\ At(t, "copying")
    /\ LET source == request[t].doc
           Read(bytes) == request' = [request EXCEPT ![t] =
                              [@ EXCEPT !.pc = "storing", !.bytes = bytes]]
       IN  \/ Keyless(t, source) /\ Read(source)
           \/ ~Keyless(t, source) /\ Opens(t, source) /\ Read(contents[source])
           \/ ~Keyless(t, source) /\ ~Opens(t, source) /\ Refuse(t)
    /\ UNCHANGED <<driver, configured, kek, wrapped, spoilt, contents, deleted, url>>

StoreCopy(t) ==
    /\ At(t, "storing")
    /\ \E d \in Documents : Store(d, request[t].at, request[t].bytes)
    /\ request' = [request EXCEPT ![t] = NoRequest]
    /\ UNCHANGED <<driver, configured, kek, spoilt, deleted, url>>

(* POST crypto-shred: the row of the key goes, then the document is marked. *)
ShredKey(t, p) ==
    /\ Rest(t)
    /\ \E d \in Documents :
          /\ Stored(d)
          /\ wrapped' = [wrapped EXCEPT ![d] = 0]
          /\ request' = [request EXCEPT ![t] =
                [NoRequest EXCEPT !.pc = "marking", !.at = p, !.doc = d]]
    /\ UNCHANGED <<driver, configured, kek, spoilt, contents, deleted, url>>

MarkDeleted(t) ==
    /\ At(t, "marking")
    /\ deleted' = deleted \cup {request[t].doc}
    /\ request' = [request EXCEPT ![t] = NoRequest]
    /\ UNCHANGED <<driver, configured, kek, wrapped, spoilt, contents, url>>

-----------------------------------------------------------------------------
(* POST key-rotation: all rows are listed; each key is read again, opened, *)
(* and its row updated by id, which fails if the row has gone.             *)
BeginRotation(t, p) ==
    /\ Rest(t)
    /\ LET rows == {d \in Documents : wrapped[d] # 0} IN
       request' = [request EXCEPT ![t] =
          [NoRequest EXCEPT !.pc = "rotating", !.at = p, !.todo = rows, !.listed = rows]]
    /\ UNCHANGED <<driver, configured, kek, wrapped, spoilt, contents, deleted, url>>

Passed(t, d) == [request EXCEPT ![t] =
                   [@ EXCEPT !.todo = request[t].todo \ {d}, !.pc = "rotating", !.doc = NoBytes,
                             !.opened = FALSE]]

Unwrap(t, d) ==
    \/ Keyless(t, d) /\ request' = Passed(t, d)
    \/ Opens(t, d) /\ request' = [request EXCEPT ![t] =
                                     [@ EXCEPT !.pc = "wrapping", !.doc = d,
                                               !.opened = wrapped[d] = Kek(t) /\ d \notin spoilt]]
    \/ ~Keyless(t, d) /\ ~Opens(t, d) /\ Refuse(t)

NextKey(t) ==
    /\ At(t, "rotating") /\ \E d \in request[t].todo : Unwrap(t, d)
    /\ UNCHANGED <<driver, configured, kek, wrapped, spoilt, contents, deleted, url>>

(* The definition after it, for a row that is inserted again (an upsert).  *)
KeyIsGoneBug(t) == FALSE

KeyIsGone(t) == wrapped[request[t].doc] = 0

Wrap(t) ==
    /\ At(t, "wrapping")
    /\ LET d == request[t].doc IN
       IF KeyIsGone(t)
       THEN request' = [request EXCEPT ![t] = NoRequest] /\ UNCHANGED <<wrapped, spoilt>>
       ELSE /\ wrapped' = [wrapped EXCEPT ![d] = Kek(t)]
            /\ spoilt' = IF request[t].opened THEN spoilt \ {d} ELSE spoilt \cup {d}
            /\ request' = Passed(t, d)
    /\ UNCHANGED <<driver, configured, kek, contents, deleted, url>>

EndRotation(t) ==
    /\ At(t, "rotating") /\ request[t].todo = {}
    /\ request' = [request EXCEPT ![t].pc = "rotated"]
    /\ UNCHANGED <<driver, configured, kek, wrapped, spoilt, contents, deleted, url>>

-----------------------------------------------------------------------------
(* An operator sets a new KEK, which a process finds when it starts.       *)
Configure ==
    /\ configured < MaxKek /\ configured' = configured + 1
    /\ UNCHANGED <<driver, kek, wrapped, spoilt, contents, deleted, request, url>>

RestartProcess(p) ==
    /\ kek' = [kek EXCEPT ![p] = configured]
    /\ request' = [t \in Requests |-> IF request[t].at = p THEN NoRequest ELSE request[t]]
    /\ UNCHANGED <<driver, configured, wrapped, spoilt, contents, deleted, url>>

-----------------------------------------------------------------------------
(* GET download, for a user, and GET shares/[token], for anyone.           *)
SignAddress(reader) ==
    /\ \E d \in Documents \ deleted :
          Stored(d) /\ url' = [doc |-> d, to |-> reader, got |-> NoBytes]
    /\ UNCHANGED <<driver, configured, kek, wrapped, spoilt, contents, deleted, request>>

(* getSignedDownloadUrl of the local driver signs key|exp|name|user, also   *)
(* with an empty user; resolve expects key|exp|name without one.           *)
SignedFields(u)  == IF driver = "local" \/ u.to # Anyone THEN {"key", "user"} ELSE {"key"}
CheckedFields(u) == IF u.to # Anyone THEN {"key", "user"} ELSE {"key"}

(* GET storage/resolve: the object as it is stored.                        *)
Follow(reader) ==
    /\ url # NoUrl /\ url.got = NoBytes
    /\ url' = [url EXCEPT !.got =
          IF url.to \in {Anyone, reader} /\ SignedFields(url) = CheckedFields(url)
          THEN url.doc ELSE "refused"]
    /\ UNCHANGED <<driver, configured, kek, wrapped, spoilt, contents, deleted, request>>

(* After a minute the address is worth nothing. *)
Lapse ==
    /\ url # NoUrl /\ url' = NoUrl
    /\ UNCHANGED <<driver, configured, kek, wrapped, spoilt, contents, deleted, request>>

KeyNext ==
    \/ \E p \in Processes :
          \/ Upload(p) \/ RestartProcess(p)
          \/ \E t \in Requests : BeginCopy(t, p) \/ ShredKey(t, p) \/ BeginRotation(t, p)
    \/ \E t \in Requests :
          \/ ReadSource(t) \/ StoreCopy(t) \/ MarkDeleted(t)
          \/ NextKey(t) \/ Wrap(t) \/ EndRotation(t)
    \/ \E reader \in Users \cup {Anyone} : SignAddress(reader) \/ Follow(reader)
    \/ Configure \/ Lapse

KeySpec == KeyInit /\ [][KeyNext]_keyVars

-----------------------------------------------------------------------------
KeyTypeOK ==
    /\ driver \in Drivers /\ configured \in 1 .. MaxKek
    /\ kek \in [Processes -> 1 .. MaxKek]
    /\ wrapped \in [Documents -> 0 .. MaxKek]
    /\ contents \in [Documents -> Documents \cup {Text, NoBytes}]
    /\ spoilt \subseteq Documents /\ deleted \subseteq Documents
    /\ request \in [Requests ->
          [pc : {"idle", "copying", "storing", "marking", "rotating", "wrapping", "rotated",
                 "refused"},
           at : Processes \cup {NoBytes}, doc : Documents \cup {NoBytes},
           bytes : Documents \cup {Text, NoBytes}, opened : BOOLEAN,
           todo : SUBSET Documents, listed : SUBSET Documents]]

(* A copy holds the text of its source, whatever keys were changed in the  *)
(* meantime; the sealed bytes only of a document that was shredded.        *)
CopiesAreWhole == \A d, s \in Documents : contents[d] = s => wrapped[s] = 0

(* Once a rotation has answered, the keys it listed are wrapped under the  *)
(* KEK of its process, but for those that were destroyed.                  *)
SuccessMeansWrapped ==
    \A t \in Requests : At(t, "rotated") =>
        \A d \in request[t].listed : wrapped[d] \in {0, Kek(t)}

(* An address for anyone is refused only if the local driver signed it: S3 *)
(* and the route agree on the fields they sign and check.                  *)
RefusedOnlyLocally ==
    url # NoUrl /\ url.to = Anyone /\ url.got = "refused" => driver = "local"

(* However rotations overlap, on processes with different KEKs, and         *)
(* whatever is shredded or restarted between their steps: what the row of  *)
(* a document wraps is its key, as it was made; ...                        *)
NoKeyIsSpoilt == spoilt = {}

KeyInv ==
    KeyTypeOK /\ CopiesAreWhole /\ SuccessMeansWrapped /\ RefusedOnlyLocally /\ NoKeyIsSpoilt

(* ... it is moved to another KEK only by a rotation that has it in hand,  *)
(* and that is the KEK of its process; and once destroyed it is not        *)
(* brought back, not even by a rotation that had opened it before.         *)
KeysMoveByRotation ==
    [][\A d \in Documents : Stored(d) /\ wrapped'[d] \notin {wrapped[d], 0} =>
          /\ wrapped[d] # 0
          /\ \E t \in Requests :
                At(t, "wrapping") /\ request[t].doc = d /\ wrapped'[d] = Kek(t)]_keyVars

(* key-rotation/route.ts:5: "Re-wraps all document DEKs with the current   *)
(* KEK. Use after rotating the SMART_EDMS_KEK environment variable."  A    *)
(* rotation is not refused for the KEK the keys were wrapped with before.  *)
RotationRewraps ==
    [][\A t \in Requests : At(t, "rotating") => request'[t].pc # "refused"]_keyVars

(* download/route.ts:5: the address is "for downloading the latest version *)
(* of a document", not the bytes it is sealed in.                          *)
DownloadIsContent == url # NoUrl => url.got \notin Documents

(* file-storage.ts:43: "omit [userId] to get a bearer-token URL as before":*)
(* who has the address gets the file.                                      *)
BearerIsServed ==
    url # NoUrl /\ url.to = Anyone => url.got # "refused"

(* Copies and rotations are what they say, and keys are kept, moved or     *)
(* destroyed.                                                              *)
KeysAreSound == []KeyInv /\ KeysMoveByRotation
===============================================================================
