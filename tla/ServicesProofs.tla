--------------------------- MODULE ServicesProofs ---------------------------
(*************************************************************************)
(* Services around the documents: the keys of their bytes, the desktop's *)
(* licence, the webhooks, the search indexes and the passkeys.           *)
(*************************************************************************)
EXTENDS DocumentKeys, DesktopLicence, WebhookDelivery, SearchIndex, Passkeys,
        SequenceTheorems, FiniteSetTheorems, TLAPS

-----------------------------------------------------------------------------
(*************************************************************************)
(* The properties of DocumentKeys, for any documents, users and numbers of *)
(* rotations: a key belongs to a stored document, and a rotation that has *)
(* answered has passed each of them.                                     *)
(*************************************************************************)

UrlIsSound ==
    url # NoUrl => url \in [doc : Documents, to : Users \cup {Anyone},
                            got : Documents \cup {NoBytes, "refused"}]

(* A key belongs to a stored document, and sealed bytes to a stored one     *)
(* whose key is gone.                                                       *)
KeysAreStored ==
    /\ \A d \in Documents : wrapped[d] # 0 => Stored(d)
    /\ \A d, s \in Documents : contents[d] = s => Stored(s) /\ wrapped[s] = 0

(* What a request has made sure of, and what of it stays true.              *)
RequestIsSound(t) ==
    /\ request[t].pc \notin {"idle", "refused"} => request[t].at \in Processes
    /\ request[t].pc \in {"copying", "marking", "wrapping"} =>
          request[t].doc \in Documents /\ Stored(request[t].doc)
    /\ At(t, "storing") =>
          /\ request[t].bytes # NoBytes
          /\ request[t].bytes \in Documents =>
                Stored(request[t].bytes) /\ wrapped[request[t].bytes] = 0
    /\ request[t].pc \in {"rotating", "wrapping", "rotated"} =>
          \A d \in request[t].listed :
             Stored(d) /\ (d \in request[t].todo \/ wrapped[d] \in {0, Kek(t)})
    /\ At(t, "wrapping") => request[t].opened /\ wrapped[request[t].doc] \in {0, Kek(t)}
    /\ At(t, "rotated") => request[t].todo = {}

KeyIInv ==
    /\ KeyInv
    /\ UrlIsSound
    /\ KeysAreStored
    /\ \A t \in Requests : RequestIsSound(t)


ReqType == [pc : {"idle", "copying", "storing", "marking", "rotating", "wrapping", "rotated",
                  "refused"},
            at : Processes \cup {NoBytes}, doc : Documents \cup {NoBytes},
            bytes : Documents \cup {Text, NoBytes}, opened : BOOLEAN,
            todo : SUBSET Documents, listed : SUBSET Documents]

(* What no step does: lose or change a stored object, or touch its key but  *)
(* to destroy it.                                                           *)
KeysKept ==
    \A d \in Documents : Stored(d) => contents'[d] = contents[d] /\ wrapped'[d] \in {wrapped[d], 0}

LEMMA KeyTypes ==
    ASSUME KeyIInv
    PROVE  /\ KeyTypeOK /\ KeysAreStored /\ UrlIsSound /\ RefusedOnlyLocally
           /\ \A t \in Requests : request[t] \in ReqType /\ RequestIsSound(t)
           /\ request \in [Requests -> ReqType]
           /\ spoilt = {}
           /\ MaxKek \in Nat /\ Text \notin Documents /\ NoBytes \notin Documents
  BY KeyBounds DEF KeyIInv, KeyInv, KeyTypeOK, NoKeyIsSpoilt, ReqType

LEMMA NoRequestIsSound ==
    /\ NoRequest \in ReqType
    /\ NoRequest = [pc |-> "idle", at |-> NoBytes, doc |-> NoBytes,
                    bytes |-> NoBytes, opened |-> FALSE, todo |-> {}, listed |-> {}]
  BY DEF NoRequest, ReqType

(* What a request knows stays true while it rests and its process runs.     *)
LEMMA RequestStays ==
    ASSUME KeyIInv, KeysKept, NEW t \in Requests, request'[t] = request[t],
           request[t].at \in Processes => kek'[request[t].at] = kek[request[t].at]
    PROVE  RequestIsSound(t)'
  <1>0. request[t] \in ReqType /\ RequestIsSound(t) /\ NoBytes \notin Documents
    BY KeyTypes
  <1>1. \A d \in Documents : Stored(d) => Stored(d)'
    BY DEF KeysKept, Stored
  <1>2. \A d \in Documents : \A k : Stored(d) /\ wrapped[d] \in {0, k} => wrapped'[d] \in {0, k}
    BY DEF KeysKept
  <1>3. request[t].pc \notin {"idle", "refused"} => request[t].at \in Processes /\ Kek(t)' = Kek(t)
    BY <1>0 DEF RequestIsSound, Kek
  <1>4. At(t, "storing")' =>
           /\ request'[t].bytes # NoBytes
           /\ request'[t].bytes \in Documents =>
                Stored(request[t].bytes)' /\ wrapped'[request[t].bytes] = 0
    BY <1>0, <1>1, <1>2 DEF RequestIsSound, At
  <1>5. request'[t].pc \in {"rotating", "wrapping", "rotated"} =>
          \A d \in request'[t].listed :
             Stored(d)' /\ (d \in request'[t].todo \/ wrapped'[d] \in {0, Kek(t)'})
    <2> SUFFICES ASSUME request[t].pc \in {"rotating", "wrapping", "rotated"},
                        NEW d \in request[t].listed
                 PROVE  Stored(d)' /\ (d \in request[t].todo \/ wrapped'[d] \in {0, Kek(t)'})
      OBVIOUS
    <2>1. d \in Documents /\ Stored(d) /\ (d \in request[t].todo \/ wrapped[d] \in {0, Kek(t)})
      BY <1>0 DEF RequestIsSound, ReqType
    <2> QED
      BY <1>1, <1>2, <1>3, <2>1
  <1>6. At(t, "wrapping")' => request[t].opened /\ wrapped'[request[t].doc] \in {0, Kek(t)'}
    BY <1>0, <1>2, <1>3 DEF RequestIsSound, At
  <1>7. request'[t].pc \in {"copying", "marking", "wrapping"} =>
          request[t].doc \in Documents /\ Stored(request[t].doc)'
    BY <1>0, <1>1 DEF RequestIsSound
  <1> QED
    BY <1>0, <1>3, <1>4, <1>5, <1>6, <1>7 DEF RequestIsSound, At, Stored

(* What every step has in common. *)
LEMMA KeyStep ==
    ASSUME KeyIInv, KeyTypeOK', spoilt' = {}, KeysKept, UrlIsSound', RefusedOnlyLocally', KeysAreStored',
           \A t \in Requests : RequestIsSound(t)'
    PROVE  KeyIInv'
  <1>1. CopiesAreWhole'
    BY DEF KeysAreStored, CopiesAreWhole
  <1>2. SuccessMeansWrapped'
    BY DEF SuccessMeansWrapped, RequestIsSound, At
  <1> QED
    BY <1>1, <1>2 DEF KeyIInv, KeyInv, NoKeyIsSpoilt

(* A request changes nothing but itself. *)
LEMMA RequestStep ==
    ASSUME KeyIInv, NEW t \in Requests, NEW r \in ReqType, request' = [request EXCEPT ![t] = r],
           RequestIsSound(t)',
           UNCHANGED <<driver, configured, kek, wrapped, spoilt, contents, deleted, url>>
    PROVE  KeyIInv' /\ KeysKept
  <1>0. KeyTypeOK /\ KeysAreStored /\ UrlIsSound /\ RefusedOnlyLocally /\ request \in [Requests -> ReqType]
    BY KeyTypes
  <1>1. KeysKept
    BY DEF KeysKept
  <1>2. request' \in [Requests -> ReqType] /\ \A o \in Requests : o # t => request'[o] = request[o]
    BY <1>0
  <1>3. KeyTypeOK'
    BY <1>0, <1>2 DEF KeyTypeOK, ReqType
  <1>4. KeysAreStored' /\ UrlIsSound' /\ RefusedOnlyLocally'
    BY <1>0 DEF KeysAreStored, UrlIsSound, RefusedOnlyLocally, Stored
  <1>5. (\A o \in Requests : RequestIsSound(o)') /\ spoilt' = {}
    BY <1>1, <1>2, RequestStays, KeyTypes
  <1> QED
    BY <1>1, <1>3, <1>4, <1>5, KeyStep

(* Keys, objects and deletions change, and at most the request that did it, *)
(* which rests.                                                             *)
LEMMA ObjectStep ==
    ASSUME KeyIInv, KeysKept, KeysAreStored',
           request' \in [Requests -> ReqType],
           \A t \in Requests : request'[t] = request[t] \/ RequestIsSound(t)',
           wrapped' \in [Documents -> 0 .. MaxKek],
           contents' \in [Documents -> Documents \cup {Text, NoBytes}],
           deleted' \subseteq Documents,
           UNCHANGED <<driver, configured, kek, url>>, spoilt' = {}
    PROVE  KeyIInv'
  <1>0. KeyTypeOK /\ UrlIsSound /\ RefusedOnlyLocally
    BY KeyTypes
  <1>1. KeyTypeOK'
    BY <1>0 DEF KeyTypeOK, ReqType
  <1>2. UrlIsSound' /\ RefusedOnlyLocally'
    BY <1>0 DEF UrlIsSound, RefusedOnlyLocally
  <1>3. \A t \in Requests : RequestIsSound(t)'
    BY RequestStays
  <1> QED
    BY <1>1, <1>2, <1>3, KeyStep

LEMMA RestsSound ==
    ASSUME NEW t \in Requests, request'[t] = NoRequest \/ request'[t].pc = "refused"
    PROVE  RequestIsSound(t)'
  BY NoRequestIsSound DEF RequestIsSound, At

(* A new object, with a key of its own. *)
LEMMA StoreKeeps ==
    ASSUME KeyIInv, NEW d \in Documents, NEW p \in Processes,
           NEW bytes \in Documents \cup {Text}, Store(d, p, bytes),
           bytes \in Documents => Stored(bytes) /\ wrapped[bytes] = 0
    PROVE  /\ KeysKept /\ KeysAreStored'
           /\ wrapped' \in [Documents -> 0 .. MaxKek]
           /\ contents' \in [Documents -> Documents \cup {Text, NoBytes}]
  <1>0. KeyTypeOK /\ KeysAreStored /\ MaxKek \in Nat /\ bytes # NoBytes /\ kek[p] \in 1 .. MaxKek
    BY KeyTypes, KeyBounds DEF KeyTypeOK
  <1>1. /\ \A e \in Documents : wrapped'[e] = IF e = d THEN kek[p] ELSE wrapped[e]
        /\ \A e \in Documents : contents'[e] = IF e = d THEN bytes ELSE contents[e]
        /\ ~Stored(d)
    BY <1>0 DEF Store, KeyTypeOK
  <1>2. KeysKept
    BY <1>1 DEF KeysKept
  <1>3. wrapped' \in [Documents -> 0 .. MaxKek]
    <2>1. kek[p] \in 0 .. MaxKek
      BY <1>0
    <2> QED
      BY <1>0, <2>1 DEF Store, KeyTypeOK
  <1>4. contents' \in [Documents -> Documents \cup {Text, NoBytes}]
    BY <1>0 DEF Store, KeyTypeOK
  <1>5. KeysAreStored'
    <2>1. \A e \in Documents : wrapped'[e] # 0 => Stored(e)'
      BY <1>0, <1>1 DEF KeysAreStored, Stored
    <2>2. ASSUME NEW e \in Documents, NEW s \in Documents, contents'[e] = s
          PROVE  Stored(s)' /\ wrapped'[s] = 0
      <3>1. Stored(s) /\ wrapped[s] = 0
        BY <1>0, <1>1, <2>2 DEF KeysAreStored
      <3> QED
        BY <1>1, <3>1 DEF Stored
    <2> QED
      BY <2>1, <2>2 DEF KeysAreStored
  <1> QED
    BY <1>2, <1>3, <1>4, <1>5

LEMMA KeyUploadKeeps ==
    ASSUME KeyIInv, NEW p \in Processes, Upload(p) PROVE KeyIInv' /\ KeysKept
  <1>1. PICK d \in Documents : Store(d, p, Text)
    BY DEF Upload
  <1>2. /\ KeysKept /\ KeysAreStored' /\ wrapped' \in [Documents -> 0 .. MaxKek]
        /\ contents' \in [Documents -> Documents \cup {Text, NoBytes}]
    BY <1>1, KeyTypes, StoreKeeps
  <1>3. request' = request /\ deleted' \subseteq Documents /\ request' \in [Requests -> ReqType]
        /\ spoilt' = {}
    BY KeyTypes DEF Upload, KeyTypeOK
  <1> QED
    BY <1>2, <1>3, ObjectStep DEF Upload

LEMMA BeginCopyKeeps ==
    ASSUME KeyIInv, NEW t \in Requests, NEW p \in Processes, BeginCopy(t, p)
    PROVE  KeyIInv' /\ KeysKept
  <1>1. PICK d \in Documents :
          /\ Stored(d)
          /\ request' = [request EXCEPT ![t] =
                [NoRequest EXCEPT !.pc = "copying", !.at = p, !.doc = d]]
    BY DEF BeginCopy
  <1>2. PICK r : r = [NoRequest EXCEPT !.pc = "copying", !.at = p, !.doc = d]
    OBVIOUS
  <1>3. r \in ReqType /\ r.pc = "copying" /\ r.at = p /\ r.doc = d
    BY <1>2, NoRequestIsSound DEF ReqType
  <1>4. request' = [request EXCEPT ![t] = r] /\ request'[t] = r
    BY <1>1, <1>2, KeyTypes
  <1>5. RequestIsSound(t)'
    BY <1>1, <1>3, <1>4 DEF RequestIsSound, At, Stored, BeginCopy
  <1> QED
    BY <1>3, <1>4, <1>5, RequestStep DEF BeginCopy

LEMMA RefuseKeeps ==
    ASSUME KeyIInv, NEW t \in Requests, Refuse(t),
           UNCHANGED <<driver, configured, kek, wrapped, spoilt, contents, deleted, url>>
    PROVE  KeyIInv' /\ KeysKept
  <1>1. PICK r : r = [NoRequest EXCEPT !.pc = "refused"]
    OBVIOUS
  <1>2. r \in ReqType /\ r.pc = "refused"
    BY <1>1, NoRequestIsSound DEF ReqType
  <1>3. request' = [request EXCEPT ![t] = r] /\ request'[t] = r
    BY <1>1, KeyTypes DEF Refuse
  <1> QED
    BY <1>2, <1>3, RestsSound, RequestStep

LEMMA ReadSourceKeeps ==
    ASSUME KeyIInv, NEW t \in Requests, ReadSource(t) PROVE KeyIInv' /\ KeysKept
  <1>0. PICK source : source = request[t].doc
    OBVIOUS
  <1>1. /\ source \in Documents /\ Stored(source) /\ request[t] \in ReqType
        /\ request[t].at \in Processes /\ KeysAreStored /\ KeyTypeOK
    BY <1>0, KeyTypes DEF ReadSource, RequestIsSound, At
  <1>2. CASE Refuse(t)
    BY <1>2, RefuseKeeps DEF ReadSource
  <1>3. CASE ~Refuse(t)
    <2>1. PICK bytes : /\ \/ bytes = source /\ wrapped[source] = 0
                          \/ bytes = contents[source]
                       /\ request' = [request EXCEPT ![t] =
                             [@ EXCEPT !.pc = "storing", !.bytes = bytes]]
      BY <1>0, <1>3 DEF ReadSource, Keyless
    <2>2. /\ bytes \in Documents \cup {Text} /\ bytes # NoBytes
          /\ bytes \in Documents => Stored(bytes) /\ wrapped[bytes] = 0
      BY <1>1, <2>1, KeyTypes DEF KeysAreStored, KeyTypeOK, Stored
    <2>3. PICK r : r = [request[t] EXCEPT !.pc = "storing", !.bytes = bytes]
      OBVIOUS
    <2>4. r \in ReqType /\ r.pc = "storing" /\ r.at = request[t].at /\ r.bytes = bytes
      BY <1>1, <2>2, <2>3 DEF ReqType
    <2>5. request' = [request EXCEPT ![t] = r] /\ request'[t] = r
      BY <2>1, <2>3, KeyTypes
    <2>6. RequestIsSound(t)'
      BY <1>1, <2>2, <2>4, <2>5 DEF RequestIsSound, At, Stored, ReadSource
    <2> QED
      BY <2>4, <2>5, <2>6, RequestStep DEF ReadSource
  <1> QED
    BY <1>2, <1>3

LEMMA StoreCopyKeeps ==
    ASSUME KeyIInv, NEW t \in Requests, StoreCopy(t) PROVE KeyIInv' /\ KeysKept
  <1>0. /\ request[t] \in ReqType /\ RequestIsSound(t) /\ At(t, "storing")
        /\ request \in [Requests -> ReqType]
    BY KeyTypes DEF StoreCopy
  <1>1. PICK d \in Documents : Store(d, request[t].at, request[t].bytes)
    BY DEF StoreCopy
  <1>2. /\ request[t].at \in Processes /\ request[t].bytes \in Documents \cup {Text}
        /\ request[t].bytes \in Documents =>
              Stored(request[t].bytes) /\ wrapped[request[t].bytes] = 0
    BY <1>0 DEF RequestIsSound, At, ReqType
  <1>3. /\ KeysKept /\ KeysAreStored' /\ wrapped' \in [Documents -> 0 .. MaxKek]
        /\ contents' \in [Documents -> Documents \cup {Text, NoBytes}]
    BY <1>1, <1>2, StoreKeeps
  <1>4. /\ request' \in [Requests -> ReqType]
        /\ \A o \in Requests : request'[o] = IF o = t THEN NoRequest ELSE request[o]
    BY <1>0, NoRequestIsSound DEF StoreCopy
  <1>5. RequestIsSound(t)' /\ deleted' \subseteq Documents /\ spoilt' = {}
    BY <1>4, RestsSound, KeyTypes DEF StoreCopy, KeyTypeOK
  <1> QED
    BY <1>3, <1>4, <1>5, ObjectStep DEF StoreCopy

LEMMA ShredKeyKeeps ==
    ASSUME KeyIInv, NEW t \in Requests, NEW p \in Processes, ShredKey(t, p)
    PROVE  KeyIInv' /\ KeysKept
  <1>0. KeyTypeOK /\ KeysAreStored /\ request \in [Requests -> ReqType] /\ MaxKek \in Nat
    BY KeyTypes
  <1>1. PICK d \in Documents :
          /\ Stored(d)
          /\ wrapped' = [wrapped EXCEPT ![d] = 0]
          /\ request' = [request EXCEPT ![t] =
                [NoRequest EXCEPT !.pc = "marking", !.at = p, !.doc = d]]
    BY DEF ShredKey
  <1>2. PICK r : r = [NoRequest EXCEPT !.pc = "marking", !.at = p, !.doc = d]
    OBVIOUS
  <1>3. r \in ReqType /\ r.pc = "marking" /\ r.at = p /\ r.doc = d
    BY <1>2, NoRequestIsSound DEF ReqType
  <1>4. /\ request' \in [Requests -> ReqType]
        /\ \A o \in Requests : request'[o] = IF o = t THEN r ELSE request[o]
    BY <1>0, <1>1, <1>2, <1>3
  <1>5. \A e \in Documents : wrapped'[e] = IF e = d THEN 0 ELSE wrapped[e]
    BY <1>0, <1>1 DEF KeyTypeOK
  <1>6. KeysKept /\ KeysAreStored'
    BY <1>0, <1>5 DEF KeysKept, KeysAreStored, Stored, ShredKey
  <1>7. RequestIsSound(t)'
    BY <1>1, <1>3, <1>4 DEF RequestIsSound, At, Stored, ShredKey
  <1>8. /\ wrapped' \in [Documents -> 0 .. MaxKek]
        /\ contents' \in [Documents -> Documents \cup {Text, NoBytes}] /\ deleted' \subseteq Documents
    <2>1. 0 \in 0 .. MaxKek
      BY <1>0
    <2> QED
      BY <1>0, <1>1, <2>1 DEF KeyTypeOK, ShredKey
  <1>9. spoilt' = {}
    BY KeyTypes DEF ShredKey
  <1> QED
    BY <1>4, <1>6, <1>7, <1>8, <1>9, ObjectStep DEF ShredKey

LEMMA MarkDeletedKeeps ==
    ASSUME KeyIInv, NEW t \in Requests, MarkDeleted(t) PROVE KeyIInv' /\ KeysKept
  <1>0. /\ KeyTypeOK /\ KeysAreStored /\ request \in [Requests -> ReqType]
        /\ RequestIsSound(t) /\ At(t, "marking")
    BY KeyTypes DEF MarkDeleted
  <1>1. request[t].doc \in Documents
    BY <1>0 DEF RequestIsSound, At
  <1>2. /\ request' \in [Requests -> ReqType]
        /\ \A o \in Requests : request'[o] = IF o = t THEN NoRequest ELSE request[o]
    BY <1>0, NoRequestIsSound DEF MarkDeleted
  <1>3. RequestIsSound(t)'
    BY <1>2, RestsSound
  <1>4. KeysKept /\ KeysAreStored' /\ deleted' \subseteq Documents
    BY <1>0, <1>1 DEF KeysKept, KeysAreStored, Stored, KeyTypeOK, MarkDeleted
  <1>5. /\ wrapped' \in [Documents -> 0 .. MaxKek]
        /\ contents' \in [Documents -> Documents \cup {Text, NoBytes}]
    BY <1>0 DEF KeyTypeOK, MarkDeleted
  <1>6. spoilt' = {}
    BY KeyTypes DEF MarkDeleted
  <1> QED
    BY <1>2, <1>3, <1>4, <1>5, <1>6, ObjectStep DEF MarkDeleted

LEMMA BeginRotationKeeps ==
    ASSUME KeyIInv, NEW t \in Requests, NEW p \in Processes, BeginRotation(t, p)
    PROVE  KeyIInv' /\ KeysKept
  <1>1. PICK rows : rows = {d \in Documents : wrapped[d] # 0}
    OBVIOUS
  <1>2. rows \in SUBSET Documents /\ \A d \in rows : Stored(d)
    BY <1>1, KeyTypes DEF KeysAreStored
  <1>3. PICK r : r = [NoRequest EXCEPT !.pc = "rotating", !.at = p, !.todo = rows, !.listed = rows]
    OBVIOUS
  <1>4. r \in ReqType /\ r.pc = "rotating" /\ r.at = p /\ r.todo = rows /\ r.listed = rows
    BY <1>2, <1>3, NoRequestIsSound DEF ReqType
  <1>5. request' = [request EXCEPT ![t] = r] /\ request'[t] = r
    BY <1>1, <1>3, KeyTypes DEF BeginRotation
  <1>6. RequestIsSound(t)'
    BY <1>2, <1>4, <1>5 DEF RequestIsSound, At, Stored, BeginRotation
  <1> QED
    BY <1>4, <1>5, <1>6, RequestStep DEF BeginRotation

(* What becomes of a rotation that is done with a key. *)
LEMMA PassedIsSound ==
    ASSUME KeyIInv, KeysKept, NEW t \in Requests, NEW d \in Documents,
           At(t, "rotating") \/ At(t, "wrapping"),
           wrapped'[d] \in {0, Kek(t)}, kek' = kek, request' = Passed(t, d)
    PROVE  /\ RequestIsSound(t)' /\ request' \in [Requests -> ReqType]
           /\ request'[t] \in ReqType /\ request' = [request EXCEPT ![t] = request'[t]]
  <1>0. request \in [Requests -> ReqType] /\ request[t] \in ReqType /\ RequestIsSound(t)
    BY KeyTypes
  <1>1. PICK todo : todo = request[t].todo \ {d}
    OBVIOUS
  <1>2. todo \in SUBSET Documents
    BY <1>0, <1>1 DEF ReqType
  <1>3. PICK r : r = [request[t] EXCEPT !.todo = todo, !.pc = "rotating", !.doc = NoBytes,
                                        !.opened = FALSE]
    OBVIOUS
  <1>4. /\ r \in ReqType /\ r.pc = "rotating" /\ r.at = request[t].at /\ r.todo = todo
        /\ r.listed = request[t].listed
    BY <1>0, <1>2, <1>3 DEF ReqType
  <1>5. request' = [request EXCEPT ![t] = r]
    BY <1>1, <1>3 DEF Passed
  <1>6. request'[t] = r /\ request' \in [Requests -> ReqType]
    BY <1>0, <1>4, <1>5
  <1>7. \A e \in r.listed : Stored(e)' /\ (e \in r.todo \/ wrapped'[e] \in {0, Kek(t)'})
    <2> SUFFICES ASSUME NEW e \in r.listed
                 PROVE  Stored(e)' /\ (e \in r.todo \/ wrapped'[e] \in {0, Kek(t)'})
      OBVIOUS
    <2>1. /\ e \in Documents /\ Stored(e)
          /\ (e \in request[t].todo \/ wrapped[e] \in {0, Kek(t)})
      BY <1>0, <1>4 DEF RequestIsSound, At, ReqType
    <2>2. Stored(e)' /\ wrapped'[e] \in {wrapped[e], 0}
      BY <2>1 DEF KeysKept, Stored
    <2>3. Kek(t)' = Kek(t)
      BY <1>4, <1>6 DEF Kek
    <2> QED
      BY <1>1, <1>4, <2>1, <2>2, <2>3
  <1>8. r.at \in Processes
    BY <1>0, <1>4 DEF RequestIsSound, At
  <1>9. RequestIsSound(t)'
    BY <1>4, <1>6, <1>7, <1>8 DEF RequestIsSound, At
  <1> QED
    BY <1>4, <1>5, <1>6, <1>9

LEMMA NextKeyKeeps ==
    ASSUME KeyIInv, NEW t \in Requests, NextKey(t) PROVE KeyIInv' /\ KeysKept
  <1>0. /\ request \in [Requests -> ReqType] /\ request[t] \in ReqType /\ RequestIsSound(t)
        /\ At(t, "rotating")
    BY KeyTypes DEF NextKey
  <1>1. KeysKept
    BY DEF KeysKept, NextKey
  <1>2. PICK d \in request[t].todo : Unwrap(t, d)
    BY DEF NextKey
  <1>3. d \in Documents
    BY <1>0 DEF ReqType
  <1>4. CASE Keyless(t, d) /\ request' = Passed(t, d)
    <2>1. wrapped'[d] \in {0, Kek(t)} /\ kek' = kek
      BY <1>4 DEF Keyless, NextKey
    <2>2. /\ RequestIsSound(t)' /\ request'[t] \in ReqType
          /\ request' = [request EXCEPT ![t] = request'[t]]
      BY <1>0, <1>1, <1>3, <1>4, <2>1, PassedIsSound
    <2> QED
      BY <2>2, RequestStep DEF NextKey
  <1>5. CASE Opens(t, d) /\ request' = [request EXCEPT ![t] =
                                     [@ EXCEPT !.pc = "wrapping", !.doc = d,
                                               !.opened = wrapped[d] = Kek(t) /\ d \notin spoilt]]
    <2>0. (wrapped[d] = Kek(t) /\ d \notin spoilt) = TRUE
      BY <1>5, KeyTypes DEF Opens
    <2>1. PICK r : r = [request[t] EXCEPT !.pc = "wrapping", !.doc = d, !.opened = TRUE]
      OBVIOUS
    <2>2. /\ r \in ReqType /\ r.pc = "wrapping" /\ r.doc = d /\ r.at = request[t].at /\ r.opened
          /\ r.listed = request[t].listed /\ r.todo = request[t].todo
      BY <1>0, <1>3, <2>1 DEF ReqType
    <2>3. request' = [request EXCEPT ![t] = r] /\ request'[t] = r
      BY <1>0, <1>5, <2>0, <2>1
    <2>4. Kek(t)' = Kek(t) /\ Kek(t) \in 1 .. MaxKek /\ r.at \in Processes
      BY <1>0, <2>2, <2>3, KeyTypes DEF Kek, NextKey, RequestIsSound, At, KeyTypeOK
    <2>5. Stored(d)
      BY <1>3, <1>5, <2>4, KeyTypes DEF Opens, KeysAreStored
    <2>6. \A e \in r.listed : Stored(e)' /\ (e \in r.todo \/ wrapped'[e] \in {0, Kek(t)'})
      BY <1>0, <2>2, <2>4 DEF RequestIsSound, At, Stored, NextKey
    <2>7. wrapped'[d] \in {0, Kek(t)'}
      BY <1>5, <2>4 DEF Opens, NextKey
    <2>8. RequestIsSound(t)'
      BY <1>3, <2>2, <2>3, <2>4, <2>5, <2>6, <2>7 DEF RequestIsSound, At, Stored, NextKey
    <2> QED
      BY <2>2, <2>3, <2>8, RequestStep DEF NextKey
  <1>6. CASE Refuse(t)
    BY <1>6, RefuseKeeps DEF NextKey
  <1> QED
    BY <1>2, <1>4, <1>5, <1>6 DEF Unwrap

LEMMA WrapKeeps ==
    ASSUME KeyIInv, NEW t \in Requests, Wrap(t) PROVE KeyIInv' /\ KeysKept
  <1>0. /\ KeyTypeOK /\ KeysAreStored /\ request \in [Requests -> ReqType]
        /\ request[t] \in ReqType /\ RequestIsSound(t) /\ At(t, "wrapping") /\ MaxKek \in Nat
    BY KeyTypes DEF Wrap, KeyIsGone
  <1>1. PICK d : d = request[t].doc
    OBVIOUS
  <1>2. /\ d \in Documents /\ Stored(d) /\ wrapped[d] \in {0, Kek(t)} /\ request[t].at \in Processes
        /\ request[t].opened
    BY <1>0, <1>1 DEF RequestIsSound, At
  <1>3. /\ contents' \in [Documents -> Documents \cup {Text, NoBytes}] /\ deleted' \subseteq Documents
        /\ kek' = kek /\ (\A e \in Documents : Stored(e)' = Stored(e)) /\ spoilt' = {}
    <2>1. spoilt' = {}
      BY <1>1, <1>2, KeyTypes DEF Wrap, KeyIsGone
    <2> QED
      BY <1>0, <2>1 DEF KeyTypeOK, Wrap, Stored, KeyIsGone
  <1>4. CASE wrapped[d] = 0
    <2>1. /\ request' \in [Requests -> ReqType] /\ wrapped' = wrapped
          /\ \A o \in Requests : request'[o] = IF o = t THEN NoRequest ELSE request[o]
      BY <1>0, <1>1, <1>4, NoRequestIsSound DEF Wrap, KeyIsGone
    <2>2. KeysKept /\ KeysAreStored' /\ wrapped' \in [Documents -> 0 .. MaxKek]
      BY <1>0, <1>3, <2>1 DEF KeysKept, KeysAreStored, KeyTypeOK, Wrap, KeyIsGone
    <2>3. RequestIsSound(t)'
      BY <2>1, RestsSound
    <2> QED
      BY <1>3, <2>1, <2>2, <2>3, ObjectStep DEF Wrap, KeyIsGone
  <1>5. CASE wrapped[d] # 0
    <2>1. wrapped' = [wrapped EXCEPT ![d] = Kek(t)] /\ request' = Passed(t, d)
      BY <1>1, <1>5 DEF Wrap, KeyIsGone
    <2>2. wrapped' = wrapped
      BY <1>0, <1>2, <1>5, <2>1 DEF KeyTypeOK
    <2>3. KeysKept /\ KeysAreStored' /\ wrapped' \in [Documents -> 0 .. MaxKek]
      BY <1>0, <1>3, <2>2 DEF KeysKept, KeysAreStored, KeyTypeOK, Wrap, KeyIsGone
    <2>4. /\ RequestIsSound(t)' /\ request' \in [Requests -> ReqType]
          /\ request' = [request EXCEPT ![t] = request'[t]]
      BY <1>0, <1>2, <1>3, <2>1, <2>2, <2>3, PassedIsSound
    <2>5. \A o \in Requests : request'[o] = request[o] \/ RequestIsSound(o)'
      BY <1>0, <2>4
    <2> QED
      BY <1>3, <2>3, <2>4, <2>5, ObjectStep DEF Wrap, KeyIsGone
  <1> QED
    BY <1>4, <1>5

LEMMA EndRotationKeeps ==
    ASSUME KeyIInv, NEW t \in Requests, EndRotation(t) PROVE KeyIInv' /\ KeysKept
  <1>0. /\ request \in [Requests -> ReqType] /\ request[t] \in ReqType
        /\ RequestIsSound(t) /\ At(t, "rotating") /\ request[t].todo = {}
    BY KeyTypes DEF EndRotation
  <1>1. PICK r : r = [request[t] EXCEPT !.pc = "rotated"]
    OBVIOUS
  <1>2. /\ r \in ReqType /\ r.pc = "rotated" /\ r.at = request[t].at
        /\ r.todo = {} /\ r.listed = request[t].listed
    BY <1>0, <1>1 DEF ReqType
  <1>3. request' = [request EXCEPT ![t] = r] /\ request'[t] = r
    BY <1>0, <1>1 DEF EndRotation
  <1>4. Kek(t)' = Kek(t)
    BY <1>2, <1>3 DEF Kek, EndRotation
  <1>5. RequestIsSound(t)'
    BY <1>0, <1>2, <1>3, <1>4 DEF RequestIsSound, At, Stored, EndRotation
  <1> QED
    BY <1>2, <1>3, <1>5, RequestStep DEF EndRotation

LEMMA RestartProcessKeeps ==
    ASSUME KeyIInv, NEW p \in Processes, RestartProcess(p) PROVE KeyIInv' /\ KeysKept
  <1>0. /\ KeyTypeOK /\ KeysAreStored /\ UrlIsSound /\ RefusedOnlyLocally
        /\ request \in [Requests -> ReqType]
    BY KeyTypes
  <1>1. KeysKept
    BY DEF KeysKept, RestartProcess
  <1>2. /\ request' \in [Requests -> ReqType]
        /\ \A t \in Requests :
              request'[t] = IF request[t].at = p THEN NoRequest ELSE request[t]
    BY <1>0, NoRequestIsSound DEF RestartProcess
  <1>3. /\ kek' \in [Processes -> 1 .. MaxKek]
        /\ \A q \in Processes : q # p => kek'[q] = kek[q]
    BY <1>0 DEF KeyTypeOK, RestartProcess
  <1>4. KeyTypeOK'
    BY <1>0, <1>2, <1>3 DEF KeyTypeOK, ReqType, RestartProcess
  <1>5. UrlIsSound' /\ RefusedOnlyLocally' /\ KeysAreStored'
    BY <1>0 DEF UrlIsSound, RefusedOnlyLocally, KeysAreStored, Stored, RestartProcess
  <1>6. ASSUME NEW t \in Requests PROVE RequestIsSound(t)'
    <2>1. CASE request[t].at = p
      BY <1>2, <2>1, RestsSound
    <2>2. CASE request[t].at # p
      BY <1>1, <1>2, <1>3, <2>2, RequestStays
    <2> QED
      BY <2>1, <2>2
  <1>7. spoilt' = {}
    BY KeyTypes DEF RestartProcess
  <1> QED
    BY <1>1, <1>4, <1>5, <1>6, <1>7, KeyStep

(* An address, or the KEK to come, changes nothing else. *)
LEMMA AddressStep ==
    ASSUME KeyIInv, UNCHANGED <<driver, kek, wrapped, spoilt, contents, deleted, request>>,
           configured' \in 1 .. MaxKek, UrlIsSound', RefusedOnlyLocally'
    PROVE  KeyIInv' /\ KeysKept
  <1>1. KeysKept
    BY DEF KeysKept
  <1>2. KeyTypeOK' /\ KeysAreStored'
    BY KeyTypes DEF KeyTypeOK, KeysAreStored, Stored
  <1>3. (\A t \in Requests : RequestIsSound(t)') /\ spoilt' = {}
    BY <1>1, RequestStays, KeyTypes
  <1> QED
    BY <1>1, <1>2, <1>3, KeyStep

LEMMA ConfigureKeeps ==
    ASSUME KeyIInv, Configure PROVE KeyIInv' /\ KeysKept
  <1>1. configured' \in 1 .. MaxKek /\ UrlIsSound' /\ RefusedOnlyLocally'
    BY KeyTypes DEF Configure, KeyTypeOK, UrlIsSound, RefusedOnlyLocally
  <1> QED
    BY <1>1, AddressStep DEF Configure

LEMMA SignAddressKeeps ==
    ASSUME KeyIInv, NEW reader \in Users \cup {Anyone}, SignAddress(reader)
    PROVE  KeyIInv' /\ KeysKept
  <1>1. PICK d \in Documents : url' = [doc |-> d, to |-> reader, got |-> NoBytes]
    BY DEF SignAddress
  <1>2. UrlIsSound' /\ RefusedOnlyLocally'
    BY <1>1, KeyBounds DEF UrlIsSound, RefusedOnlyLocally
  <1> QED
    BY <1>2, KeyTypes, AddressStep DEF SignAddress, KeyTypeOK

LEMMA FollowKeeps ==
    ASSUME KeyIInv, NEW reader \in Users \cup {Anyone}, Follow(reader)
    PROVE  KeyIInv' /\ KeysKept
  <1>1. url # NoUrl /\ UrlIsSound /\ KeyTypeOK
    BY KeyTypes DEF Follow
  <1>2. url \in [doc : Documents, to : Users \cup {Anyone}, got : Documents \cup {NoBytes, "refused"}]
    BY <1>1 DEF UrlIsSound
  <1>3. PICK got : got = IF url.to \in {Anyone, reader} /\ SignedFields(url) = CheckedFields(url)
                         THEN url.doc ELSE "refused"
    OBVIOUS
  <1>4. got \in Documents \cup {NoBytes, "refused"}
    BY <1>2, <1>3
  <1>5. url' = [url EXCEPT !.got = got]
    BY <1>3 DEF Follow
  <1>6. /\ url' \in [doc : Documents, to : Users \cup {Anyone},
                     got : Documents \cup {NoBytes, "refused"}]
        /\ url'.to = url.to /\ url'.got = got
    BY <1>2, <1>4, <1>5
  <1>7. url.to = Anyone /\ got = "refused" => driver = "local"
    <2> SUFFICES ASSUME url.to = Anyone, driver # "local" PROVE got # "refused"
      OBVIOUS
    <2>1. SignedFields(url) = CheckedFields(url)
      BY DEF SignedFields, CheckedFields
    <2> QED
      BY <1>2, <1>3, <2>1, KeyBounds
  <1>8. UrlIsSound' /\ RefusedOnlyLocally'
    BY <1>6, <1>7 DEF UrlIsSound, RefusedOnlyLocally, Follow
  <1> QED
    BY <1>1, <1>8, AddressStep DEF Follow, KeyTypeOK

LEMMA LapseKeeps ==
    ASSUME KeyIInv, Lapse PROVE KeyIInv' /\ KeysKept
  <1>1. UrlIsSound' /\ RefusedOnlyLocally'
    BY DEF Lapse, UrlIsSound, RefusedOnlyLocally
  <1> QED
    BY <1>1, KeyTypes, AddressStep DEF Lapse, KeyTypeOK

LEMMA KeysBeginSound == KeyInit => KeyIInv
  <1> SUFFICES ASSUME KeyInit PROVE KeyIInv
    OBVIOUS
  <1>1. \A t \in Requests : request[t] = NoRequest
    BY DEF KeyInit
  <1>2. KeyTypeOK
    BY KeyBounds, NoRequestIsSound DEF KeyInit, KeyTypeOK, ReqType
  <1>3. \A t \in Requests : RequestIsSound(t) /\ ~At(t, "rotated")
    BY <1>1, NoRequestIsSound DEF RequestIsSound, At
  <1>4. KeysAreStored /\ UrlIsSound /\ RefusedOnlyLocally
    BY KeyBounds DEF KeyInit, KeysAreStored, UrlIsSound, RefusedOnlyLocally, Stored
  <1>5. NoKeyIsSpoilt
    BY DEF KeyInit, NoKeyIsSpoilt
  <1> QED
    BY <1>2, <1>3, <1>4, <1>5
       DEF KeyIInv, KeyInv, CopiesAreWhole, KeysAreStored, SuccessMeansWrapped

LEMMA KeyStepsKeep ==
    ASSUME KeyIInv, [KeyNext]_keyVars PROVE KeyIInv' /\ KeysKept
  <1>1. ASSUME UNCHANGED keyVars PROVE KeyIInv' /\ KeysKept
    <2>1. UrlIsSound' /\ RefusedOnlyLocally'
      BY <1>1, KeyTypes DEF keyVars, UrlIsSound, RefusedOnlyLocally
    <2> QED
      BY <1>1, <2>1, KeyTypes, AddressStep DEF keyVars, KeyTypeOK
  <1> QED
    BY <1>1, KeyUploadKeeps, RestartProcessKeeps, BeginCopyKeeps, ShredKeyKeeps, BeginRotationKeeps,
       ReadSourceKeeps, StoreCopyKeeps, MarkDeletedKeeps, NextKeyKeeps, WrapKeeps,
       EndRotationKeeps, SignAddressKeeps, FollowKeeps, ConfigureKeeps, LapseKeeps DEF KeyNext

MovedByRotation ==
    [\A d \in Documents : Stored(d) /\ wrapped'[d] \notin {wrapped[d], 0} =>
        /\ wrapped[d] # 0
        /\ \E t \in Requests :
              At(t, "wrapping") /\ request[t].doc = d /\ wrapped'[d] = Kek(t)]_keyVars

(* Copies are whole, a rotation that answered wrapped what it listed, only *)
(* the local driver's addresses for anyone are refused, no row wraps       *)
(* anything else than its document's key, and a key is moved only by the   *)
(* rotation that has it in hand, and not brought back once destroyed.      *)
THEOREM KeysStaySound == KeySpec => KeysAreSound
  <1>1. KeyIInv /\ [KeyNext]_keyVars => KeyIInv'
    BY KeyStepsKeep
  <1>2. KeyIInv /\ [KeyNext]_keyVars => MovedByRotation
    BY KeyStepsKeep DEF KeysKept, MovedByRotation
  <1>3. KeyIInv => KeyInv
    BY DEF KeyIInv
  <1> QED
    BY <1>1, <1>2, <1>3, KeysBeginSound, PTL
       DEF KeySpec, KeysAreSound, KeysMoveByRotation, MovedByRotation

-----------------------------------------------------------------------------
(*************************************************************************)
(* DesktopInv of DesktopLicence, for any keys and days: what the desktop *)
(* keeps was issued once, for the hardware of an installation, and an    *)
(* answer under way was true when it was given.                          *)
(*************************************************************************)

RegistryRow == [status : {"active", "revoked", "replaced"}, expires : 0 .. LastDay,
                grace : {0, Grace}]
BeatState == [pc : {"none", "asked", "answered"}, key : LicenceKeys \cup {Nothing, Broken},
              action : {"none", "read_only", "lock"}]

DeskTypes ==
    /\ DesktopTypeOK
    /\ day \in 0 .. LastDay /\ hardware \in 1 .. 2 /\ boundTo \in 0 .. 2
    /\ renewing \in Issued \cup {Nothing}

CondemnedInTime == \A k \in Issued : ShouldLock(registry[k], day) => k \in condemned

AnswersAreTrue == \A b \in Beats : beat[b].action = "lock" => beat[b].key \in condemned

BoundOnce ==
    /\ licenceRow.fingerprint \in {Nothing, boundTo}
    /\ ~licenceRow.there => licenceRow.fingerprint = Nothing

DeskIInv ==
    /\ DeskTypes /\ CondemnedInTime /\ AnswersAreTrue /\ BoundOnce
    /\ LockHasACause /\ LockedOutForACause

LicenceRowType == [there : BOOLEAN, fingerprint : 0 .. 2,
                   status : {"active", "grace_period", "locked"}]

LEMMA DeskConstants ==
    /\ Grace \in Nat /\ MaxKeys \in Nat /\ LastDay \in Nat
    /\ \A t \in Terms : t \in 0 .. LastDay
  BY DesktopBounds

LEMMA RegistryFacts ==
    ASSUME DeskTypes
    PROVE  /\ registry \in Seq(RegistryRow) /\ Len(registry) \in Nat /\ Len(registry) <= MaxKeys
           /\ Issued = 1 .. Len(registry) /\ Issued \subseteq LicenceKeys
           /\ \A k \in Issued : registry[k] \in RegistryRow
  <1>1. registry \in Seq(RegistryRow) /\ Len(registry) <= MaxKeys
    BY DEF DeskTypes, DesktopTypeOK, RegistryRow
  <1>2. PICK n \in Nat : n = Len(registry)
    BY <1>1
  <1>3. Issued = 1 .. n
    BY <1>1, <1>2 DEF Issued
  <1>4. 1 .. n \subseteq 1 .. MaxKeys
    BY <1>1, <1>2, DeskConstants
  <1>5. \A k \in 1 .. n : registry[k] \in RegistryRow
    BY <1>1, <1>2
  <1> QED
    BY <1>1, <1>2, <1>3, <1>4, <1>5 DEF LicenceKeys

LEMMA RegistryAppends ==
    ASSUME DeskTypes, Len(registry) < MaxKeys, NEW row \in RegistryRow,
           registry' = Append(registry, row)
    PROVE  /\ registry' \in Seq(RegistryRow) /\ Len(registry') <= MaxKeys
           /\ Issued \subseteq Issued'
           /\ \A k \in Issued : registry'[k] = registry[k]
           /\ \A k \in Issued' : k \in Issued \/ registry'[k] = row
  <1>1. PICK n \in Nat : n = Len(registry) /\ registry \in Seq(RegistryRow) /\ Issued = 1 .. n
    BY RegistryFacts
  <1>2. /\ registry' \in Seq(RegistryRow) /\ Len(registry') = n + 1
        /\ \A k \in 1 .. n : registry'[k] = registry[k]
        /\ registry'[n + 1] = row
    BY <1>1, AppendProperties
  <1>3. Issued' = 1 .. n + 1
    BY <1>2 DEF Issued
  <1>4. n + 1 <= MaxKeys
    BY <1>1, DeskConstants
  <1> QED
    BY <1>1, <1>2, <1>3, <1>4

LEMMA RegistryMarks ==
    ASSUME DeskTypes, NEW k \in Issued, NEW s \in {"active", "revoked", "replaced"},
           registry' = [registry EXCEPT ![k].status = s]
    PROVE  /\ registry' \in Seq(RegistryRow) /\ Len(registry') <= MaxKeys
           /\ Issued' = Issued
           /\ \A j \in Issued : registry'[j].expires = registry[j].expires
                               /\ registry'[j].grace = registry[j].grace
           /\ \A j \in Issued \ {k} : registry'[j] = registry[j]
           /\ registry'[k].status = s
  <1>1. PICK n \in Nat : /\ n = Len(registry) /\ registry \in Seq(RegistryRow)
                         /\ Issued = 1 .. n /\ n <= MaxKeys
                         /\ \A j \in 1 .. n : registry[j] \in RegistryRow
    BY RegistryFacts
  <1>2. PICK r : r = [registry[k] EXCEPT !.status = s]
    OBVIOUS
  <1>3. /\ r \in RegistryRow /\ r.status = s /\ r.expires = registry[k].expires
        /\ r.grace = registry[k].grace
    BY <1>1, <1>2 DEF RegistryRow
  <1>4. registry' = [registry EXCEPT ![k] = r]
    BY <1>2
  <1>5. registry' \in Seq(RegistryRow) /\ Len(registry') = n
    BY <1>1, <1>3, <1>4, ExceptSeq
  <1>6. Issued' = 1 .. n
    BY <1>5 DEF Issued
  <1>7. \A j \in 1 .. n : registry'[j] = IF j = k THEN r ELSE registry[j]
    BY <1>1, <1>4
  <1> QED
    BY <1>1, <1>3, <1>5, <1>6, <1>7

LEMMA SilentBeat ==
    Silent \in BeatState /\ Silent.action = "none" /\ Silent.pc = "none"
  BY DEF Silent, BeatState, Nothing

LEMMA DeskParts ==
    DeskIInv <=> /\ DeskTypes /\ CondemnedInTime /\ AnswersAreTrue /\ BoundOnce
                 /\ LockHasACause /\ LockedOutForACause
  BY DEF DeskIInv

-----------------------------------------------------------------------------
(* The vendor acts: the registry grows, no licence gets another term.      *)
LEMMA VendorActs ==
    ASSUME DeskIInv, registry' \in Seq(RegistryRow), Len(registry') <= MaxKeys,
           renewing' \in Issued' \cup {Nothing},
           Issued \subseteq Issued',
           \A k \in Issued : registry'[k].expires = registry[k].expires,
           condemned \subseteq condemned', CondemnedInTime',
           UNCHANGED <<day, keychain, licenceRow, boundTo, hardware, window, beat, told>>
    PROVE  DeskIInv'
  <1>0. DeskTypes
    BY DEF DeskIInv
  <1>1. keychain' \in Issued' \cup {Nothing, Broken}
    BY <1>0 DEF DeskTypes, DesktopTypeOK
  <1>2. DeskTypes'
    <2>1. Issued' \subseteq LicenceKeys
      BY DeskConstants DEF Issued, LicenceKeys
    <2> QED
      BY <1>0, <1>1, <2>1 DEF DeskTypes, DesktopTypeOK, RegistryRow
  <1>3. AnswersAreTrue' /\ BoundOnce' /\ LockHasACause'
    BY DeskParts DEF AnswersAreTrue, BoundOnce, LockHasACause
  <1>4. LockedOutForACause'
    BY DeskParts DEF LockedOutForACause
  <1> QED
    BY <1>2, <1>3, <1>4 DEF DeskIInv

(* The machine acts, and nobody else. *)
LEMMA MachineActs ==
    ASSUME DeskIInv, keychain' \in Issued \cup {Nothing, Broken},
           licenceRow' \in LicenceRowType, licenceRow'.status = licenceRow.status,
           boundTo' \in 0 .. 2, hardware' \in 1 .. 2, window' \in {"off", "main", "locked"},
           BoundOnce', LockedOutForACause',
           UNCHANGED <<day, registry, renewing, beat, condemned, told>>
    PROVE  DeskIInv'
  <1>0. DeskTypes
    BY DEF DeskIInv
  <1>1. DeskTypes'
    BY <1>0 DEF DeskTypes, DesktopTypeOK, Issued, LicenceRowType
  <1>2. CondemnedInTime' /\ AnswersAreTrue' /\ LockHasACause'
    BY DeskParts DEF CondemnedInTime, ShouldLock, Issued, AnswersAreTrue, LockHasACause
  <1> QED
    BY <1>1, <1>2 DEF DeskIInv

(* A heartbeat goes on. *)
LEMMA BeatActs ==
    ASSUME DeskIInv, NEW b \in Beats, NEW r \in BeatState, beat' = [beat EXCEPT ![b] = r],
           r.action = "lock" => r.key \in condemned,
           licenceRow' \in LicenceRowType, licenceRow'.fingerprint = licenceRow.fingerprint,
           licenceRow'.there = licenceRow.there,
           told' \subseteq condemned, licenceRow'.status = "locked" => told' # {},
           UNCHANGED <<day, registry, renewing, keychain, boundTo, hardware, window, condemned>>
    PROVE  DeskIInv'
  <1>0. DeskTypes
    BY DEF DeskIInv
  <1>1. beat \in [Beats -> BeatState]
    BY <1>0 DEF DeskTypes, DesktopTypeOK, BeatState
  <1>2. beat' \in [Beats -> BeatState] /\ \A c \in Beats : beat'[c] = IF c = b THEN r ELSE beat[c]
    BY <1>1
  <1>3. DeskTypes'
    BY <1>0, <1>2 DEF DeskTypes, DesktopTypeOK, Issued, LicenceRowType, BeatState
  <1>4. CondemnedInTime' /\ BoundOnce' /\ LockedOutForACause'
    BY DeskParts DEF CondemnedInTime, ShouldLock, Issued, BoundOnce, LockedOutForACause
  <1>5. AnswersAreTrue' /\ LockHasACause'
    BY <1>2, DeskParts DEF AnswersAreTrue, LockHasACause
  <1> QED
    BY <1>3, <1>4, <1>5 DEF DeskIInv

-----------------------------------------------------------------------------
LEMMA NewLicence ==
    ASSUME NEW t \in Terms, NEW g \in {0, Grace}, day \in 0 .. LastDay, t >= day
    PROVE  Licence(t, g) \in RegistryRow /\ ~ShouldLock(Licence(t, g), day)
  <1>1. PICK r : r = [status |-> "active", expires |-> t, grace |-> g]
    OBVIOUS
  <1>2. t \in 0 .. LastDay
    BY DeskConstants
  <1>3. r \in RegistryRow /\ r.status = "active" /\ r.expires = t
    BY <1>1, <1>2 DEF RegistryRow
  <1>4. ~(day > t)
    BY <1>2
  <1> QED
    BY <1>1, <1>3, <1>4 DEF Licence, ShouldLock

LEMMA GrowsWith ==
    ASSUME DeskIInv, Len(registry) < MaxKeys, NEW row \in RegistryRow, ~ShouldLock(row, day),
           registry' = Append(registry, row), renewing' \in Issued \cup {Nothing},
           UNCHANGED <<day, keychain, licenceRow, boundTo, hardware, window, beat, told, condemned>>
    PROVE  DeskIInv'
  <1>1. /\ registry' \in Seq(RegistryRow) /\ Len(registry') <= MaxKeys
        /\ Issued \subseteq Issued'
        /\ \A k \in Issued : registry'[k] = registry[k]
        /\ \A k \in Issued' : k \in Issued \/ registry'[k] = row
    BY RegistryAppends, DeskParts
  <1>2. CondemnedInTime'
    BY <1>1, DeskParts DEF CondemnedInTime, ShouldLock
  <1> QED
    BY <1>1, <1>2, VendorActs

LEMMA IssueKeeps ==
    ASSUME DeskIInv, Issue PROVE DeskIInv'
  <1>0. DeskTypes /\ day \in 0 .. LastDay /\ renewing \in Issued \cup {Nothing}
    BY DEF DeskIInv, DeskTypes
  <1>1. PICK t \in Terms, g \in {0, Grace} :
           t >= day /\ registry' = Append(registry, Licence(t, g))
    BY DEF Issue
  <1>2. PICK row : row = Licence(t, g)
    OBVIOUS
  <1>3. row \in RegistryRow /\ ~ShouldLock(row, day)
    BY <1>0, <1>1, <1>2, NewLicence
  <1> QED
    BY <1>0, <1>1, <1>2, <1>3, GrowsWith DEF Issue, machineVars

LEMMA FinishRenewKeeps ==
    ASSUME DeskIInv, FinishRenew PROVE DeskIInv'
  <1>0. DeskTypes /\ day \in 0 .. LastDay /\ renewing' = Nothing
    BY DEF DeskIInv, DeskTypes, FinishRenew
  <1>1. UNCHANGED <<day, keychain, licenceRow, boundTo, hardware, window, beat, told, condemned>>
    BY DEF FinishRenew, machineVars
  <1>2. CASE UNCHANGED registry
    <2>1. Issued' = Issued
      BY <1>2 DEF Issued
    <2>2. CondemnedInTime'
      BY <1>1, <1>2, <2>1, DeskParts DEF CondemnedInTime, ShouldLock
    <2> QED
      BY <1>0, <1>1, <1>2, <2>1, <2>2, RegistryFacts, VendorActs
  <1>3. CASE /\ Len(registry) < MaxKeys
             /\ \E expires \in {t \in Terms : t >= day} :
                   registry' = Append(registry, Licence(expires, registry[renewing].grace))
    <2>1. PICK t \in Terms :
             t >= day /\ registry' = Append(registry, Licence(t, registry[renewing].grace))
      BY <1>3
    <2>2. PICK g : g = registry[renewing].grace
      OBVIOUS
    <2>3. renewing \in Issued
      BY DEF DeskIInv, DeskTypes, FinishRenew
    <2>4. g \in {0, Grace}
      BY <1>0, <2>2, <2>3, RegistryFacts DEF RegistryRow
    <2>5. PICK row : row = Licence(t, g)
      OBVIOUS
    <2>6. row \in RegistryRow /\ ~ShouldLock(row, day)
      BY <1>0, <2>1, <2>4, <2>5, NewLicence
    <2> QED
      BY <1>0, <1>1, <1>3, <2>1, <2>2, <2>5, <2>6, GrowsWith
  <1> QED
    BY <1>2, <1>3 DEF FinishRenew

LEMMA RevokeKeeps ==
    ASSUME DeskIInv, NEW k \in LicenceKeys, Revoke(k) PROVE DeskIInv'
  <1>1. k \in Issued /\ registry' = [registry EXCEPT ![k].status = "revoked"] /\ DeskTypes
        /\ renewing' \in Issued \cup {Nothing}
    BY DEF Revoke, DeskIInv, DeskTypes
  <1>2. /\ registry' \in Seq(RegistryRow) /\ Len(registry') <= MaxKeys
        /\ Issued' = Issued
        /\ \A j \in Issued : registry'[j].expires = registry[j].expires
    BY <1>1, RegistryMarks
  <1>3. condemned' = condemned \cup {j \in Issued' : ShouldLock(registry'[j], day)}
    BY DEF Revoke, Condemn, Issued
  <1>4. condemned \subseteq condemned' /\ CondemnedInTime'
    BY <1>3 DEF CondemnedInTime, Revoke, ShouldLock
  <1> QED
    BY <1>1, <1>2, <1>4, VendorActs DEF Revoke, machineVars

LEMMA BeginRenewKeeps ==
    ASSUME DeskIInv, NEW k \in LicenceKeys, BeginRenew(k) PROVE DeskIInv'
  <1>1. k \in Issued /\ registry' = [registry EXCEPT ![k].status = "replaced"] /\ DeskTypes
        /\ renewing' \in Issued \cup {Nothing} /\ condemned' = condemned /\ day' = day
    BY DEF BeginRenew, DeskIInv
  <1>2. /\ registry' \in Seq(RegistryRow) /\ Len(registry') <= MaxKeys
        /\ Issued' = Issued
        /\ \A j \in Issued : registry'[j].expires = registry[j].expires
                            /\ registry'[j].grace = registry[j].grace
        /\ \A j \in Issued \ {k} : registry'[j] = registry[j]
        /\ registry'[k].status = "replaced"
    BY <1>1, RegistryMarks
  <1>3. \A j \in Issued : ShouldLock(registry'[j], day) => ShouldLock(registry[j], day)
    BY <1>2 DEF ShouldLock
  <1>4. CondemnedInTime'
    BY <1>1, <1>2, <1>3, DeskParts DEF CondemnedInTime, ShouldLock
  <1> QED
    BY <1>1, <1>2, <1>4, VendorActs DEF BeginRenew, machineVars

-----------------------------------------------------------------------------
LEMMA VerdictLocks ==
    ASSUME DeskIInv, Verdict = "locked"
    PROVE  /\ keychain \in Issued
           /\ \/ day >= registry[keychain].expires + Grace
              \/ hardware # boundTo /\ licenceRow.fingerprint # Nothing
  <1>0. keychain \in Issued \cup {Nothing, Broken} /\ BoundOnce /\ DeskTypes
    BY DEF DeskIInv, DeskTypes, DesktopTypeOK
  <1>1. keychain # Nothing
    BY DEF Verdict
  <1>2. keychain # Broken
    BY <1>1 DEF Verdict
  <1>3. keychain \in Issued /\ registry[keychain].expires \in 0 .. LastDay /\ day \in 0 .. LastDay
    BY <1>0, <1>1, <1>2, RegistryFacts DEF RegistryRow, DeskTypes
  <1>4. PICK e \in 0 .. LastDay : e = registry[keychain].expires
    BY <1>3
  <1>5. IF day > e THEN ~(day < e + Grace)
        ELSE licenceRow.fingerprint \notin {Nothing, hardware}
    BY <1>1, <1>2, <1>4 DEF Verdict, Past
  <1>6. CASE day > e
    BY <1>3, <1>4, <1>5, <1>6, DeskConstants
  <1>7. CASE ~(day > e)
    BY <1>0, <1>3, <1>5, <1>7 DEF BoundOnce
  <1> QED
    BY <1>6, <1>7

LEMMA BindBinds ==
    ASSUME DeskIInv, Bind, boundTo' = hardware
    PROVE  /\ licenceRow' \in LicenceRowType /\ licenceRow'.status = licenceRow.status
           /\ boundTo' \in 0 .. 2
           /\ BoundOnce'
  <1>1. licenceRow \in LicenceRowType /\ hardware \in 1 .. 2
    BY DEF DeskIInv, DeskTypes, DesktopTypeOK, LicenceRowType
  <1>2. CASE licenceRow.there
    <2>1. licenceRow' = [licenceRow EXCEPT !.fingerprint = hardware]
      BY <1>2 DEF Bind
    <2> QED
      BY <1>1, <1>2, <2>1 DEF LicenceRowType, BoundOnce
  <1>3. CASE ~licenceRow.there
    <2>1. licenceRow' = licenceRow
      BY <1>3 DEF Bind
    <2> QED
      BY <1>1, <1>3, <2>1, DeskParts DEF BoundOnce
  <1> QED
    BY <1>2, <1>3

LEMMA VerifiedKeeps ==
    ASSUME DeskIInv, Verified
    PROVE  /\ licenceRow' \in LicenceRowType /\ licenceRow'.status = licenceRow.status
           /\ boundTo' \in 0 .. 2 /\ BoundOnce' /\ keychain' = keychain
           /\ Verdict = "locked" => boundTo' = boundTo
  <1>1. keychain' = keychain
    BY DEF Verified
  <1>2. CASE Bind /\ boundTo' = hardware /\ Verdict = "active"
    BY <1>1, <1>2, BindBinds
  <1>3. CASE UNCHANGED <<licenceRow, boundTo>>
    <2>1. licenceRow \in LicenceRowType /\ boundTo \in 0 .. 2 /\ BoundOnce
      BY DEF DeskIInv, DeskTypes, DesktopTypeOK, LicenceRowType
    <2> QED
      BY <1>1, <1>3, <2>1 DEF BoundOnce
  <1> QED
    BY <1>2, <1>3 DEF Verified

LEMMA InstalledKeeps ==
    ASSUME DeskIInv, NEW k \in Issued, Installed(k)
    PROVE  /\ licenceRow' \in LicenceRowType /\ licenceRow'.status = licenceRow.status
           /\ boundTo' \in 0 .. 2 /\ BoundOnce' /\ keychain' \in Issued
  BY BindBinds DEF Installed

LEMMA StartUpKeeps ==
    ASSUME DeskIInv, StartUp PROVE DeskIInv'
  <1>0. UNCHANGED <<day, registry, renewing, hardware, beat, condemned, told>>
    BY DEF StartUp, vendorVars
  <1>1. hardware' \in 1 .. 2 /\ keychain \in Issued \cup {Nothing, Broken}
    BY <1>0, DeskParts DEF DeskTypes, DesktopTypeOK
  <1>2. CASE Verdict # "no_license" /\ Verified
             /\ window' = IF Verdict = "locked" THEN "locked" ELSE "main"
    <2>1. /\ licenceRow' \in LicenceRowType /\ licenceRow'.status = licenceRow.status
          /\ boundTo' \in 0 .. 2 /\ BoundOnce' /\ keychain' = keychain
          /\ Verdict = "locked" => boundTo' = boundTo
      BY <1>2, VerifiedKeeps
    <2>2. window' \in {"off", "main", "locked"}
      BY <1>2
    <2>3. LockedOutForACause'
      <3>1. SUFFICES ASSUME Verdict = "locked" PROVE LockedOutForACause'
        BY <1>2 DEF LockedOutForACause
      <3>2. /\ keychain \in Issued
            /\ \/ day >= registry[keychain].expires + Grace
               \/ hardware # boundTo
        BY <3>1, VerdictLocks
      <3> QED
        BY <1>0, <2>1, <3>1, <3>2 DEF LockedOutForACause, Issued
    <2> QED
      BY <1>0, <1>1, <2>1, <2>2, <2>3, MachineActs
  <1>3. CASE (\E k \in Issued : Installed(k)) /\ window' = "main"
    <2>1. /\ licenceRow' \in LicenceRowType /\ licenceRow'.status = licenceRow.status
          /\ boundTo' \in 0 .. 2 /\ BoundOnce' /\ keychain' \in Issued
      BY <1>3, InstalledKeeps
    <2>2. LockedOutForACause'
      BY <1>3 DEF LockedOutForACause
    <2> QED
      BY <1>0, <1>1, <1>3, <2>1, <2>2, MachineActs
  <1> QED
    BY <1>2, <1>3 DEF StartUp

LEMMA CallFromPageKeeps ==
    ASSUME DeskIInv, CallFromPage PROVE DeskIInv'
  <1>0. UNCHANGED <<day, registry, renewing, hardware, beat, condemned, told>>
        /\ window' = "main"
    BY DEF CallFromPage, vendorVars
  <1>1. hardware' \in 1 .. 2 /\ keychain \in Issued \cup {Nothing, Broken}
    BY <1>0, DeskParts DEF DeskTypes, DesktopTypeOK
  <1>2. /\ licenceRow' \in LicenceRowType /\ licenceRow'.status = licenceRow.status
        /\ boundTo' \in 0 .. 2 /\ BoundOnce' /\ keychain' \in Issued \cup {Nothing, Broken}
    BY <1>1, VerifiedKeeps, InstalledKeeps DEF CallFromPage
  <1>3. LockedOutForACause'
    BY <1>0 DEF LockedOutForACause
  <1> QED
    BY <1>0, <1>1, <1>2, <1>3, MachineActs

LEMMA SpoilKeychainKeeps ==
    ASSUME DeskIInv, SpoilKeychain PROVE DeskIInv'
  <1>0. UNCHANGED <<day, registry, renewing, hardware, beat, condemned, told, licenceRow, boundTo>>
        /\ window' = "off" /\ keychain' = Broken
    BY DEF SpoilKeychain, vendorVars
  <1>1. hardware' \in 1 .. 2 /\ licenceRow' \in LicenceRowType /\ boundTo' \in 0 .. 2 /\ BoundOnce'
    BY <1>0, DeskParts DEF DeskTypes, DesktopTypeOK, LicenceRowType, BoundOnce
  <1>2. LockedOutForACause'
    BY <1>0 DEF LockedOutForACause
  <1> QED
    BY <1>0, <1>1, <1>2, MachineActs

LEMMA ChangeHardwareKeeps ==
    ASSUME DeskIInv, ChangeHardware PROVE DeskIInv'
  <1>0. UNCHANGED <<day, registry, renewing, keychain, beat, condemned, told, licenceRow, boundTo>>
        /\ window' = "off" /\ hardware' = 3 - hardware
    BY DEF ChangeHardware, vendorVars, machineVars
  <1>1. /\ hardware' \in 1 .. 2 /\ licenceRow' \in LicenceRowType /\ boundTo' \in 0 .. 2 /\ BoundOnce'
        /\ keychain' \in Issued \cup {Nothing, Broken}
    BY <1>0, DeskParts DEF DeskTypes, DesktopTypeOK, LicenceRowType, BoundOnce
  <1>2. LockedOutForACause'
    BY <1>0 DEF LockedOutForACause
  <1> QED
    BY <1>0, <1>1, <1>2, MachineActs

LEMMA DesktopUploadKeeps ==
    ASSUME DeskIInv, NEW k \in LicenceKeys, UploadFromLocked(k) PROVE DeskIInv'
  <1>0. UNCHANGED <<day, registry, renewing, keychain, beat, condemned, told, licenceRow, boundTo,
                    window, hardware>>
    BY DEF UploadFromLocked, vendorVars, machineVars
  <1> QED
    BY <1>0 DEF DeskIInv, DeskTypes, DesktopTypeOK, CondemnedInTime, AnswersAreTrue, BoundOnce,
                LockHasACause, LockedOutForACause, Issued, ShouldLock

LEMMA QuitKeeps ==
    ASSUME DeskIInv, Quit PROVE DeskIInv'
  <1>0. UNCHANGED <<day, registry, renewing, keychain, condemned, told, licenceRow, boundTo,
                    hardware>>
        /\ window' = "off"
    BY DEF Quit, vendorVars, machineVars
  <1>1. beat' \in [Beats -> BeatState] /\ \A b \in Beats : beat'[b].action = "none"
    BY SilentBeat DEF Quit
  <1>2. DeskTypes' /\ AnswersAreTrue'
    BY <1>0, <1>1, DeskParts DEF DeskTypes, DesktopTypeOK, BeatState, Issued, AnswersAreTrue
  <1>3. CondemnedInTime' /\ BoundOnce' /\ LockHasACause'
    BY <1>0, DeskParts DEF CondemnedInTime, ShouldLock, Issued, BoundOnce, LockHasACause
  <1>4. LockedOutForACause'
    BY <1>0 DEF LockedOutForACause
  <1> QED
    BY <1>2, <1>3, <1>4 DEF DeskIInv

LEMMA DayPassesKeeps ==
    ASSUME DeskIInv, DayPasses PROVE DeskIInv'
  <1>0. UNCHANGED <<registry, renewing, keychain, beat, told, licenceRow, boundTo, window, hardware>>
        /\ day < LastDay /\ day' = day + 1
    BY DEF DayPasses, vendorVars, machineVars
  <1>1. DeskTypes'
    BY <1>0, DeskParts, DeskConstants DEF DeskTypes, DesktopTypeOK, Issued
  <1>2. condemned' = condemned \cup {j \in Issued : ShouldLock(registry[j], day')}
    BY DEF DayPasses, Condemn, Issued
  <1>3. CondemnedInTime'
    BY <1>0, <1>2 DEF CondemnedInTime, ShouldLock, Issued
  <1>4. AnswersAreTrue' /\ BoundOnce' /\ LockHasACause'
    BY <1>0, <1>2, DeskParts DEF AnswersAreTrue, BoundOnce, LockHasACause
  <1>5. LockedOutForACause'
    <2>1. SUFFICES ASSUME window = "locked" PROVE LockedOutForACause'
      BY <1>0 DEF LockedOutForACause
    <2>2. keychain \in Issued /\ LockedOutForACause /\ day \in 0 .. LastDay
      BY <2>1, DeskParts DEF LockedOutForACause, DeskTypes
    <2>3. registry[keychain].expires \in 0 .. LastDay
      BY <2>2, DeskParts, RegistryFacts DEF RegistryRow
    <2>4. PICK e \in 0 .. LastDay : e = registry[keychain].expires
      BY <2>3
    <2>5. day >= e + Grace => day + 1 >= e + Grace
      BY <2>2, DeskConstants
    <2> QED
      BY <1>0, <2>1, <2>2, <2>4, <2>5 DEF LockedOutForACause, Issued
  <1> QED
    BY <1>1, <1>3, <1>4, <1>5 DEF DeskIInv

-----------------------------------------------------------------------------
LEMMA BeatTypes ==
    ASSUME DeskIInv
    PROVE  /\ beat \in [Beats -> BeatState]
           /\ licenceRow \in LicenceRowType
           /\ told \subseteq condemned /\ (licenceRow.status = "locked" => told # {})
           /\ keychain \in LicenceKeys \cup {Nothing, Broken}
  BY RegistryFacts
     DEF DeskIInv, DeskTypes, DesktopTypeOK, BeatState, LicenceRowType, LockHasACause

LEMMA AskKeeps ==
    ASSUME DeskIInv, NEW b \in Beats, Ask(b) PROVE DeskIInv'
  <1>0. UNCHANGED <<day, registry, renewing, keychain, licenceRow, boundTo, hardware, window,
                    condemned, told>>
    BY DEF Ask, vendorVars, machineVars
  <1>1. PICK r : r = [Silent EXCEPT !.pc = "asked", !.key = keychain]
    OBVIOUS
  <1>2. r \in BeatState /\ r.action = "none"
    BY <1>1, BeatTypes, SilentBeat DEF BeatState
  <1>3. beat' = [beat EXCEPT ![b] = r]
    BY <1>1 DEF Ask
  <1> QED
    BY <1>0, <1>2, <1>3, BeatTypes, BeatActs

LEMMA AnswerKeeps ==
    ASSUME DeskIInv, NEW b \in Beats, Answer(b) PROVE DeskIInv'
  <1>0. UNCHANGED <<day, registry, renewing, keychain, licenceRow, boundTo, hardware, window,
                    condemned, told>>
    BY DEF Answer, vendorVars, machineVars
  <1>1. PICK w \in BeatState : w = beat[b]
    BY BeatTypes
  <1>2. PICK a : a = IF w.action = "none" /\ w.key \in Issued
                     THEN ActionFor(registry[w.key]) ELSE "none"
    OBVIOUS
  <1>3. PICK r : r = [w EXCEPT !.pc = "answered", !.action = a]
    OBVIOUS
  <1>4. a \in {"none", "read_only", "lock"}
    BY <1>2 DEF ActionFor
  <1>5. r \in BeatState /\ r.action = a /\ r.key = w.key
    BY <1>3, <1>4 DEF BeatState
  <1>6. beat' = [beat EXCEPT ![b] = r]
    BY <1>1, <1>2, <1>3, BeatTypes DEF Answer
  <1>7. a = "lock" => w.key \in condemned
    <2>1. SUFFICES ASSUME a = "lock" PROVE w.key \in condemned
      OBVIOUS
    <2>2. w.key \in Issued /\ ActionFor(registry[w.key]) = "lock"
      BY <1>2, <2>1
    <2>3. PICK row \in RegistryRow : row = registry[w.key]
      BY <2>2, DeskParts, RegistryFacts
    <2>4. row.expires \in Nat /\ row.grace \in Nat /\ day \in Nat
      BY DeskParts, DeskConstants DEF RegistryRow, DeskTypes
    <2>5. ShouldLock(row, day)
      BY <2>2, <2>3, <2>4 DEF ActionFor, ShouldLock, Past
    <2> QED
      BY <2>2, <2>3, <2>5, DeskParts DEF CondemnedInTime
  <1> QED
    BY <1>0, <1>5, <1>6, <1>7, BeatTypes, BeatActs

LEMMA LoseBeatKeeps ==
    ASSUME DeskIInv, NEW b \in Beats, LoseBeat(b) PROVE DeskIInv'
  <1>0. UNCHANGED <<day, registry, renewing, keychain, licenceRow, boundTo, hardware, window,
                    condemned, told>> /\ beat' = [beat EXCEPT ![b] = Silent]
    BY DEF LoseBeat, vendorVars, machineVars
  <1> QED
    BY <1>0, SilentBeat, BeatTypes, BeatActs

LEMMA ObeyKeeps ==
    ASSUME DeskIInv, NEW b \in Beats, Obey(b) PROVE DeskIInv'
  <1>0. UNCHANGED <<day, registry, renewing, keychain, boundTo, hardware, window, condemned>>
        /\ beat' = [beat EXCEPT ![b] = Silent]
    BY DEF Obey, vendorVars
  <1>1. PICK a : a = beat[b].action
    OBVIOUS
  <1>2. /\ licenceRow' = IF licenceRow.there /\ a # "none"
                         THEN [licenceRow EXCEPT
                                 !.status = IF a = "lock" THEN "locked" ELSE "grace_period"]
                         ELSE licenceRow
        /\ told' = IF a = "lock" THEN told \cup {beat[b].key} ELSE told
    BY <1>1 DEF Obey
  <1>3. PICK s \in {"locked", "grace_period"} : s = IF a = "lock" THEN "locked" ELSE "grace_period"
    OBVIOUS
  <1>4. CASE licenceRow.there /\ a # "none"
    <2>1. licenceRow' = [licenceRow EXCEPT !.status = s]
      BY <1>2, <1>3, <1>4
    <2>2. /\ licenceRow' \in LicenceRowType /\ licenceRow'.fingerprint = licenceRow.fingerprint
          /\ licenceRow'.there = licenceRow.there /\ licenceRow'.status = s
      BY <2>1, BeatTypes DEF LicenceRowType
    <2>3. told' \subseteq condemned /\ (licenceRow'.status = "locked" => told' # {})
      BY <1>1, <1>2, <1>3, <2>2, BeatTypes, DeskParts DEF AnswersAreTrue
    <2> QED
      BY <1>0, <2>2, <2>3, SilentBeat, BeatActs
  <1>5. CASE ~(licenceRow.there /\ a # "none")
    <2>1. licenceRow' = licenceRow
      BY <1>2, <1>5
    <2>2. told' \subseteq condemned /\ told \subseteq told'
      BY <1>1, <1>2, BeatTypes, DeskParts DEF AnswersAreTrue
    <2> QED
      BY <1>0, <2>1, <2>2, BeatTypes, SilentBeat, BeatActs
  <1> QED
    BY <1>4, <1>5

-----------------------------------------------------------------------------
LEMMA DesktopStarts == DesktopInit => DeskIInv
  <1> SUFFICES ASSUME DesktopInit PROVE DeskIInv
    OBVIOUS
  <1>1. registry = <<>> /\ registry \in Seq(RegistryRow) /\ Len(registry) = 0 /\ Issued = {}
    BY DEF DesktopInit, Issued
  <1>2. licenceRow \in LicenceRowType /\ licenceRow.fingerprint = Nothing
        /\ licenceRow.status = "active"
    <2>1. PICK x \in BOOLEAN : licenceRow = [there |-> x, fingerprint |-> Nothing, status |-> "active"]
      BY DEF DesktopInit
    <2> QED
      BY <2>1 DEF LicenceRowType, Nothing
  <1>3. beat \in [Beats -> BeatState] /\ \A b \in Beats : beat[b].action = "none"
    BY SilentBeat DEF DesktopInit
  <1>4. DesktopTypeOK
    BY <1>1, <1>2, <1>3, DeskConstants
       DEF DesktopInit, DesktopTypeOK, RegistryRow, LicenceRowType, BeatState
  <1>5. DeskTypes
    BY <1>4, DeskConstants DEF DeskTypes, DesktopInit, Nothing
  <1>6. CondemnedInTime /\ AnswersAreTrue /\ BoundOnce /\ LockHasACause /\ LockedOutForACause
    BY <1>1, <1>2, <1>3 DEF CondemnedInTime, AnswersAreTrue, BoundOnce, LockHasACause,
                           LockedOutForACause, DesktopInit
  <1> QED
    BY <1>5, <1>6 DEF DeskIInv

LEMMA DesktopSteps == DeskIInv /\ [DesktopNext]_desktopVars => DeskIInv'
  <1> SUFFICES ASSUME DeskIInv, [DesktopNext]_desktopVars PROVE DeskIInv'
    OBVIOUS
  <1>1. CASE UNCHANGED desktopVars
    BY <1>1 DEF desktopVars, DeskIInv, DeskTypes, DesktopTypeOK, CondemnedInTime, AnswersAreTrue,
                BoundOnce, LockHasACause, LockedOutForACause, Issued, ShouldLock
  <1>2. ASSUME NEW k \in LicenceKeys, Revoke(k) \/ BeginRenew(k) \/ UploadFromLocked(k)
        PROVE  DeskIInv'
    BY <1>2, RevokeKeeps, BeginRenewKeeps, DesktopUploadKeeps
  <1>3. ASSUME NEW b \in Beats, BeatStep(b) \/ LoseBeat(b) PROVE DeskIInv'
    BY <1>3, AskKeeps, AnswerKeeps, ObeyKeeps, LoseBeatKeeps DEF BeatStep
  <1>4. CASE Issue \/ FinishRenew
    BY <1>4, IssueKeeps, FinishRenewKeeps
  <1>5. CASE StartUp \/ CallFromPage \/ Quit
    BY <1>5, StartUpKeeps, CallFromPageKeeps, QuitKeeps
  <1>6. CASE SpoilKeychain \/ ChangeHardware \/ DayPasses
    BY <1>6, SpoilKeychainKeeps, ChangeHardwareKeeps, DayPassesKeeps
  <1> QED
    BY <1>1, <1>2, <1>3, <1>4, <1>5, <1>6 DEF DesktopNext

(* However heartbeats, revocations, renewals, installations and restarts   *)
(* cross: a desktop is told to lock only for a key that was revoked or past *)
(* its grace period, and its user is locked out only by the key's own grace *)
(* period or by hardware that is not that of the last installation          *)
(* (heartbeat/route.ts, electron/src/license/verify.ts).                    *)
THEOREM LocksHaveCauses == DesktopSpec => []DesktopInv
  <1>1. DeskIInv => DesktopInv
    BY DEF DeskIInv, DeskTypes, DesktopInv
  <1> QED
    BY <1>1, DesktopStarts, DesktopSteps, PTL DEF DesktopSpec

-----------------------------------------------------------------------------
(*************************************************************************)
(* A heartbeat brings the revocation.  It may be under way for another     *)
(* key, or have been answered before the revocation; then the next one     *)
(* does.                                                                   *)
(*************************************************************************)
FreshBeats == \A b \in Beats : beat[b].pc # "answered" => beat[b].action = "none"

(* How many steps of the heartbeat are left, for the key k.                *)
BeatsAway(it, k) ==
    CASE it.pc = "answered" /\ it.key = k /\ it.action = "lock" -> 0
      [] it.pc = "asked" /\ it.key = k                          -> 1
      [] it.pc = "none"                                         -> 2
      [] it.pc = "asked" /\ it.key # k                          -> 4
      [] OTHER                                                  -> 3

Untold(k) == Exposed(k) /\ k \notin told

TellsWithin(b, k, n) == Untold(k) /\ BeatsAway(beat[b], k) <= n

(* A heartbeat changes only by its own steps and with the process. *)
LEMMA BeatMoves ==
    ASSUME DeskIInv, NEW b \in Beats, DesktopNext
    PROVE  \/ beat'[b] = beat[b]
           \/ Ask(b) \/ Answer(b) \/ Obey(b) \/ LoseBeat(b) \/ Quit
  <1>0. beat \in [Beats -> BeatState]
    BY BeatTypes
  <1>1. ASSUME NEW c \in Beats, Ask(c) \/ Answer(c) \/ Obey(c) \/ LoseBeat(c), c # b
        PROVE  beat'[b] = beat[b]
    BY <1>0, <1>1 DEF Ask, Answer, Obey, LoseBeat
  <1>2. ASSUME NEW k \in LicenceKeys, Revoke(k) \/ BeginRenew(k) \/ UploadFromLocked(k)
        PROVE  beat' = beat
    BY <1>2 DEF Revoke, BeginRenew, UploadFromLocked
  <1>3. CASE Issue \/ FinishRenew
    BY <1>3 DEF Issue, FinishRenew
  <1>4. CASE StartUp \/ CallFromPage
    BY <1>4 DEF StartUp, CallFromPage
  <1>5. CASE SpoilKeychain \/ ChangeHardware \/ DayPasses
    BY <1>5 DEF SpoilKeychain, ChangeHardware, DayPasses
  <1> QED
    BY <1>1, <1>2, <1>3, <1>4, <1>5 DEF DesktopNext, BeatStep

LEMMA FreshStarts == DesktopInit => FreshBeats
  BY SilentBeat DEF DesktopInit, FreshBeats

LEMMA FreshStays == DeskIInv /\ FreshBeats /\ [DesktopNext]_desktopVars => FreshBeats'
  <1> SUFFICES ASSUME DeskIInv, FreshBeats, [DesktopNext]_desktopVars, NEW b \in Beats,
                      beat'[b].pc # "answered"
               PROVE  beat'[b].action = "none"
    BY DEF FreshBeats
  <1>0. beat \in [Beats -> BeatState] /\ beat[b] \in BeatState
    BY BeatTypes
  <1>1. CASE UNCHANGED desktopVars \/ beat'[b] = beat[b]
    BY <1>1 DEF desktopVars, FreshBeats
  <1>2. CASE Ask(b)
    <2>1. PICK it : it = [Silent EXCEPT !.pc = "asked", !.key = keychain]
      OBVIOUS
    <2>2. it.action = "none" /\ beat'[b] = it
      BY <1>0, <1>2, <2>1, SilentBeat DEF Ask, BeatState
    <2> QED
      BY <2>2
  <1>3. CASE Answer(b)
    BY <1>0, <1>3 DEF Answer, BeatState
  <1>4. CASE Obey(b) \/ LoseBeat(b) \/ Quit
    BY <1>0, <1>4, SilentBeat DEF Obey, LoseBeat, Quit
  <1> QED
    BY <1>1, <1>2, <1>3, <1>4, BeatMoves

LEMMA BeatsAwayRange ==
    ASSUME NEW it, NEW k PROVE BeatsAway(it, k) \in 0 .. 4
  BY DEF BeatsAway

LEMMA BeatNears ==
    ASSUME DeskIInv, FreshBeats, NEW b \in Beats, NEW k, Untold(k), BeatStep(b)
    PROVE  ~Untold(k)' \/ BeatsAway(beat'[b], k) < BeatsAway(beat[b], k)
  <1>0. beat \in [Beats -> BeatState] /\ beat[b] \in BeatState
    BY BeatTypes
  <1>1. keychain = k /\ k \in Issued /\ registry[k].status = "revoked"
    BY DEF Untold, Exposed
  <1>2. CASE Ask(b)
    <2>1. PICK it : it = [Silent EXCEPT !.pc = "asked", !.key = keychain]
      OBVIOUS
    <2>2. it.pc = "asked" /\ it.key = k /\ beat'[b] = it
      BY <1>0, <1>1, <1>2, <2>1 DEF Ask, Silent
    <2>3. beat[b].pc = "none"
      BY <1>2 DEF Ask
    <2> QED
      BY <2>2, <2>3 DEF BeatsAway
  <1>3. CASE Answer(b)
    <2>1. beat[b].pc = "asked" /\ beat[b].action = "none"
      BY <1>3 DEF Answer, FreshBeats
    <2>2. PICK a : a = IF beat[b].key \in Issued THEN ActionFor(registry[beat[b].key]) ELSE "none"
      OBVIOUS
    <2>3. beat' = [beat EXCEPT ![b].pc = "answered", ![b].action = a]
      BY <1>3, <2>1, <2>2 DEF Answer
    <2>4. beat'[b].pc = "answered" /\ beat'[b].key = beat[b].key /\ beat'[b].action = a
      BY <1>0, <2>3 DEF BeatState
    <2>5. beat[b].key = k => a = "lock"
      BY <1>1, <2>2 DEF ActionFor
    <2> QED
      BY <2>1, <2>4, <2>5 DEF BeatsAway
  <1>4. CASE Obey(b)
    <2>1. beat[b].pc = "answered" /\ beat'[b] = Silent
      BY <1>0, <1>4 DEF Obey
    <2>2. CASE beat[b].key = k /\ beat[b].action = "lock"
      <3>1. PICK a : a = beat[b].action
        OBVIOUS
      <3>2. told' = IF a = "lock" THEN told \cup {beat[b].key} ELSE told
        BY <1>4, <3>1 DEF Obey
      <3>3. k \in told'
        BY <2>2, <3>1, <3>2
      <3> QED
        BY <3>3 DEF Untold
    <2>3. CASE ~(beat[b].key = k /\ beat[b].action = "lock")
      BY <2>1, <2>3, SilentBeat DEF BeatsAway
    <2> QED
      BY <2>2, <2>3
  <1> QED
    BY <1>2, <1>3, <1>4 DEF BeatStep

Arriving == \A b \in Beats : ~LoseBeat(b)

LEMMA WithinStays ==
    ASSUME DeskIInv, FreshBeats, [DesktopNext]_desktopVars, [Arriving]_desktopVars,
           NEW b \in Beats, NEW k, NEW n \in 0 .. 4, TellsWithin(b, k, n)
    PROVE  ~Untold(k)' \/ TellsWithin(b, k, n)'
  <1> SUFFICES ASSUME Untold(k)' PROVE BeatsAway(beat'[b], k) <= n
    BY DEF TellsWithin
  <1>1. BeatsAway(beat'[b], k) \in 0 .. 4 /\ BeatsAway(beat[b], k) \in 0 .. 4
    BY BeatsAwayRange
  <1>2. CASE UNCHANGED desktopVars \/ beat'[b] = beat[b]
    BY <1>2 DEF desktopVars, TellsWithin
  <1>3. CASE BeatStep(b)
    <2>1. BeatsAway(beat'[b], k) < BeatsAway(beat[b], k)
      BY <1>3, BeatNears DEF TellsWithin
    <2> QED
      BY <1>1, <2>1 DEF TellsWithin
  <1>4. CASE Quit
    BY <1>4 DEF Quit, Untold, Exposed
  <1>5. CASE DesktopNext /\ Arriving
    BY <1>2, <1>3, <1>4, <1>5, BeatMoves DEF Arriving, BeatStep
  <1> QED
    BY <1>2, <1>5

(* What is so for the heartbeat b from now on. *)
Beaten(b) ==
    /\ []DeskIInv /\ []FreshBeats /\ [][DesktopNext]_desktopVars
    /\ Beating(b) /\ []BeatCanGoOn(b)

TellsSooner(b, k, m, n) ==
    Beaten(b) /\ [][Arriving]_desktopVars =>
        (TellsWithin(b, k, m) ~> ~Untold(k) \/ TellsWithin(b, k, n))

LEMMA BeatsComeNearer ==
    ASSUME NEW b \in Beats, NEW k \in LicenceKeys, NEW n \in 0 .. 3, NEW m, m = n + 1
    PROVE  TellsSooner(b, k, m, n)
  <1>1. DeskIInv /\ FreshBeats /\ [DesktopNext]_desktopVars /\ [Arriving]_desktopVars
           /\ TellsWithin(b, k, m) => ~Untold(k)' \/ TellsWithin(b, k, m)'
    BY WithinStays
  <1>2. DeskIInv /\ FreshBeats /\ TellsWithin(b, k, m) /\ <<BeatStep(b)>>_desktopVars
           => ~Untold(k)' \/ TellsWithin(b, k, n)'
    <2> SUFFICES ASSUME DeskIInv, FreshBeats, TellsWithin(b, k, m), BeatStep(b), Untold(k)'
                 PROVE  TellsWithin(b, k, n)'
      OBVIOUS
    <2>1. BeatsAway(beat'[b], k) < BeatsAway(beat[b], k)
      BY BeatNears DEF TellsWithin
    <2>2. BeatsAway(beat'[b], k) \in 0 .. 4 /\ BeatsAway(beat[b], k) \in 0 .. 4
      BY BeatsAwayRange
    <2> QED
      BY <2>1, <2>2 DEF TellsWithin
  <1>3. TellsWithin(b, k, m) => window # "off" /\ keychain # Nothing
    BY DEF TellsWithin, Untold, Exposed, LicenceKeys, Nothing
  <1> QED
    BY <1>1, <1>2, <1>3, PTL DEF TellsSooner, Beaten, Beating, BeatCanGoOn

(* An answer that says `lock` for the key installed is obeyed. *)
TellsAtLast(b, k) ==
    Beaten(b) /\ [][Arriving]_desktopVars => (TellsWithin(b, k, 0) ~> ~Untold(k))

LEMMA AnswerIsObeyed ==
    ASSUME NEW b \in Beats, NEW k \in LicenceKeys PROVE TellsAtLast(b, k)
  <1>1. DeskIInv /\ FreshBeats /\ [DesktopNext]_desktopVars /\ [Arriving]_desktopVars
           /\ TellsWithin(b, k, 0) => ~Untold(k)' \/ TellsWithin(b, k, 0)'
    BY WithinStays
  <1>2. DeskIInv /\ FreshBeats /\ TellsWithin(b, k, 0) /\ <<BeatStep(b)>>_desktopVars
           => ~Untold(k)'
    <2> SUFFICES ASSUME DeskIInv, FreshBeats, TellsWithin(b, k, 0), BeatStep(b), Untold(k)'
                 PROVE  FALSE
      OBVIOUS
    <2>1. BeatsAway(beat'[b], k) < BeatsAway(beat[b], k)
      BY BeatNears DEF TellsWithin
    <2>2. BeatsAway(beat'[b], k) \in 0 .. 4 /\ BeatsAway(beat[b], k) \in 0 .. 4
      BY BeatsAwayRange
    <2> QED
      BY <2>1, <2>2 DEF TellsWithin
  <1>3. TellsWithin(b, k, 0) => window # "off" /\ keychain # Nothing
    BY DEF TellsWithin, Untold, Exposed, LicenceKeys, Nothing
  <1> QED
    BY <1>1, <1>2, <1>3, PTL DEF TellsAtLast, Beaten, Beating, BeatCanGoOn

BeatenAlways == DesktopSpec /\ []BeatsCanGoOn /\ AnswersArrive

Arrives(k) == BeatenAlways => IsTold(k)

LEMMA KeyIsTold ==
    ASSUME NEW b \in Beats, NEW k \in LicenceKeys PROVE Arrives(k)
  <1>1. /\ TellsSooner(b, k, 1, 0) /\ TellsSooner(b, k, 2, 1)
        /\ TellsSooner(b, k, 3, 2) /\ TellsSooner(b, k, 4, 3)
    <2>1. /\ 0 \in 0 .. 3 /\ 1 \in 0 .. 3 /\ 2 \in 0 .. 3 /\ 3 \in 0 .. 3
          /\ 1 = 0 + 1 /\ 2 = 1 + 1 /\ 3 = 2 + 1 /\ 4 = 3 + 1
      OBVIOUS
    <2> QED
      BY <2>1, BeatsComeNearer
  <1>2. TellsAtLast(b, k)
    BY AnswerIsObeyed
  <1>3. Untold(k) => TellsWithin(b, k, 4)
    BY BeatsAwayRange DEF TellsWithin
  <1>4. DesktopSpec => []DeskIInv /\ []FreshBeats
    BY DesktopStarts, DesktopSteps, FreshStarts, FreshStays, PTL DEF DesktopSpec
  <1>5. DesktopFairness => Beating(b)
    BY DEF DesktopFairness
  <1>6. BeatsCanGoOn => BeatCanGoOn(b)
    BY DEF BeatsCanGoOn
  <1>7. Untold(k) <=> ~(~Exposed(k) \/ k \in told)
    BY DEF Untold
  <1> QED
    BY <1>1, <1>2, <1>3, <1>4, <1>5, <1>6, <1>7, PTL
       DEF Arrives, BeatenAlways, AnswersArrive, Arriving, TellsSooner, TellsAtLast, Beaten,
           Beating, DesktopSpec, IsTold

(* However installations, renewals, restarts and other heartbeats cross: a  *)
(* running desktop whose key was revoked is told, or has another key, or is *)
(* closed (heartbeat/route.ts, electron/src/license/heartbeat.ts).  That it *)
(* can ask, and that from some time on answers arrive, are the hypotheses.  *)
THEOREM RevocationsArrive ==
    ASSUME Beats # {}
    PROVE  DesktopSpec /\ []BeatsCanGoOn /\ AnswersArrive => RevocationArrives
  <1>1. PICK b \in Beats : TRUE
    OBVIOUS
  <1>2. \A k \in LicenceKeys : Arrives(k)
    BY KeyIsTold
  <1>3. BeatenAlways => \A k \in LicenceKeys : IsTold(k)
    BY <1>2 DEF Arrives
  <1> QED
    BY <1>3, PTL DEF BeatenAlways, RevocationArrives

-----------------------------------------------------------------------------
(*************************************************************************)
(* WebhookInv of WebhookDelivery, for any webhooks and firings: an invariant *)
(* of one delivery, which relates how often an event was sent and accepted *)
(* to the state of its job and of the promise of the handler that fell back. *)
(*************************************************************************)

FiringPcs   == {"idle", "adding", "delivering", "returned", "thrown", "stopped"}
Additions   == {"none", "adding", "added", "failed"}
HookJobType == [id : Hooks \X Nat, of : Firings, left : 0 .. HookAttempts,
                state : {"waiting", "active", "sent", "completed", "failed"}]
LoopType    == [pc : {"none", "post", "noted", "blocked", "give_up", "done"}, try : 0 .. Tries]

HookTypes ==
    /\ hook \in [Hooks -> {"enabled", "disabled", "deleted"}]
    /\ firing \in [Firings -> [pc : FiringPcs, matched : SUBSET Hooks]]
    /\ addition \in [Firings -> [Hooks -> Additions]]
    /\ loop \in [Firings -> [Hooks -> LoopType]]
    /\ posts \in [Firings -> [Hooks -> Nat]]
    /\ accepted \in [Firings -> [Hooks -> Nat]]
    /\ why \in [Firings -> [Hooks -> SUBSET Reasons]]
    /\ hookJobs \subseteq HookJobType
    /\ ms \in Nat /\ hookFaults \in Nat

(* The jobs for one delivery: there is at most one. *)
JobsOf(f, h) == {j \in hookJobs : j.of = f /\ j.id[1] = h}

(* How far a firing, in its state pc, an addition a and a promise to        *)
(* deliver l have come with one webhook, and what they have done about it. *)
Progress(pc, h, M, a, l, w, J) ==
    /\ \A j, k \in J : j = k
    /\ J # {} => a = "added" \/ pc = "stopped"
    /\ a = "added" => J # {} \/ "same_id" \in w
    /\ pc = "idle" => a = "none" /\ h \notin M
    /\ pc \in {"idle", "adding"} => l.pc = "none"
    /\ pc = "adding" /\ h \in M => a \in {"adding", "added"}
    /\ pc \in {"delivering", "thrown"} /\ h \in M => l.pc # "none"
    /\ pc = "returned" /\ h \in M => a = "added" \/ l.pc # "none"
    /\ pc = "stopped" => a = "none" /\ l.pc = "none" /\ "stopped" \in w
    /\ a = "adding" => h \in M
    /\ J # {} /\ l.pc # "none" => "added_too" \in w
    /\ l.pc = "none" => l.try = 0
    /\ l.pc # "none" => l.try >= 1

(* How often that has sent the event at most. *)
JobPosts(j, n) ==
    HookAttempts - j.left + n + (IF j.state \in {"sent", "completed"} THEN 1 ELSE 0)

LoopPosts(l, pc) ==
    IF l.pc = "post" THEN l.try - 1 ELSE IF pc = "stopped" THEN Tries ELSE l.try

Sending(pc, l, w, p, J, n) ==
    /\ \A j \in J :
          /\ j.state # "failed" => j.left >= 1
          /\ j.state = "failed" => j.left = 0
          /\ p <= JobPosts(j, n) + LoopPosts(l, pc)
          /\ "added_too" \notin w => p <= JobPosts(j, n)
    /\ J = {} => p <= LoopPosts(l, pc)

(* How often it was accepted at most, when there is no special reason. *)
AcceptedOnce(pc, l, w, c, J) ==
    w \cap {"added_too", "stalled", "row_gone"} = {} =>
       /\ c <= 1
       /\ \A j \in J : c >= 1 => j.state \in {"sent", "completed"}
       /\ J = {} /\ c >= 1 => l.pc \in {"noted", "done"} \/ pc = "stopped"

(* And what has come to its end was accepted, or has another reason to end. *)
Ending(l, w, c, J) ==
    /\ \A j \in J : j.state \in {"sent", "completed"} => c >= 1
    /\ l.pc = "noted" => c >= 1
    /\ l.pc = "give_up" => l.try = Tries
    /\ l.pc = "done" => c >= 1 \/ "blocked" \in w \/ l.try = Tries

Accepting(pc, l, w, c, J) == AcceptedOnce(pc, l, w, c, J) /\ Ending(l, w, c, J)

Sound(pc, h, M, a, l, w, p, c, J, n) ==
    Progress(pc, h, M, a, l, w, J) /\ Sending(pc, l, w, p, J, n) /\ Accepting(pc, l, w, c, J)

PairSound(f, h) ==
    Sound(firing[f].pc, h, firing[f].matched, addition[f][h], loop[f][h], why[f][h],
          posts[f][h], accepted[f][h], JobsOf(f, h), hookFaults)

HookIInv == HookTypes /\ \A f \in Firings, h \in Hooks : PairSound(f, h)

-----------------------------------------------------------------------------
LEMMA HookConstants ==
    /\ HookAttempts \in Nat /\ HookAttempts >= 1 /\ Tries \in Nat /\ Tries >= 1
    /\ Tries <= HookAttempts /\ LastMs \in Nat /\ MaxHookFaults \in Nat
  <1>1. \A n \in {HookAttempts, Tries} : n \in Nat /\ n # 0
    BY WebhookBounds
  <1> QED
    BY <1>1, WebhookBounds

(* The table y is x but for the delivery of f to h. *)
Alter(y, x, f, h, v) ==
    y[f][h] = v /\ \A g \in Firings, i \in Hooks : g # f \/ i # h => y[g][i] = x[g][i]

LEMMA Alters ==
    ASSUME NEW S, NEW x \in [Firings -> [Hooks -> S]], NEW f \in Firings, NEW h \in Hooks,
           NEW v \in S, NEW y, y = [x EXCEPT ![f][h] = v]
    PROVE  y \in [Firings -> [Hooks -> S]] /\ Alter(y, x, f, h, v)
  <1>1. PICK r : r = [x[f] EXCEPT ![h] = v]
    OBVIOUS
  <1>2. r \in [Hooks -> S] /\ \A i \in Hooks : r[i] = IF i = h THEN v ELSE x[f][i]
    BY <1>1
  <1>3. y = [x EXCEPT ![f] = r]
    BY <1>1
  <1>4. y \in [Firings -> [Hooks -> S]] /\ \A g \in Firings : y[g] = IF g = f THEN r ELSE x[g]
    BY <1>2, <1>3
  <1> QED
    BY <1>2, <1>4 DEF Alter

LEMMA AltersCounts ==
    ASSUME NEW x \in [Firings -> [Hooks -> Nat]], NEW f \in Firings, NEW h \in Hooks,
           NEW v \in Nat, NEW y, y = [x EXCEPT ![f][h] = v]
    PROVE  y \in [Firings -> [Hooks -> Nat]] /\ Alter(y, x, f, h, v)
  BY DEF Alter

LEMMA AltersReasons ==
    ASSUME NEW x \in [Firings -> [Hooks -> SUBSET Reasons]], NEW f \in Firings, NEW h \in Hooks,
           NEW v \in SUBSET Reasons, NEW y, y = [x EXCEPT ![f][h] = v]
    PROVE  y \in [Firings -> [Hooks -> SUBSET Reasons]] /\ Alter(y, x, f, h, v)
  BY DEF Alter

LEMMA AltersLoops ==
    ASSUME NEW x \in [Firings -> [Hooks -> LoopType]], NEW f \in Firings, NEW h \in Hooks,
           NEW v \in LoopType, NEW y, y = [x EXCEPT ![f][h] = v]
    PROVE  y \in [Firings -> [Hooks -> LoopType]] /\ Alter(y, x, f, h, v)
  BY DEF Alter

LEMMA AltersAdditions ==
    ASSUME NEW x \in [Firings -> [Hooks -> Additions]], NEW f \in Firings, NEW h \in Hooks,
           NEW v \in Additions, NEW y, y = [x EXCEPT ![f][h] = v]
    PROVE  y \in [Firings -> [Hooks -> Additions]] /\ Alter(y, x, f, h, v)
  BY DEF Alter

LEMMA AltersRow ==
    ASSUME NEW S, NEW x \in [Firings -> [Hooks -> S]], NEW f \in Firings,
           NEW r \in [Hooks -> S], NEW y, y = [x EXCEPT ![f] = r]
    PROVE  /\ y \in [Firings -> [Hooks -> S]]
           /\ \A g \in Firings : y[g] = IF g = f THEN r ELSE x[g]
  OBVIOUS

LEMMA Goes ==
    ASSUME HookTypes, NEW f \in Firings, NEW pc \in FiringPcs, Goto(f, pc)
    PROVE  /\ firing' \in [Firings -> [pc : FiringPcs, matched : SUBSET Hooks]]
           /\ firing'[f].pc = pc /\ firing'[f].matched = firing[f].matched
           /\ \A g \in Firings \ {f} : firing'[g] = firing[g]
  <1>1. firing \in [Firings -> [pc : FiringPcs, matched : SUBSET Hooks]]
    BY DEF HookTypes
  <1>2. PICK r : r = [firing[f] EXCEPT !.pc = pc]
    OBVIOUS
  <1>3. r \in [pc : FiringPcs, matched : SUBSET Hooks] /\ r.pc = pc
        /\ r.matched = firing[f].matched
    BY <1>1, <1>2
  <1>4. firing' = [firing EXCEPT ![f] = r]
    BY <1>2 DEF Goto
  <1> QED
    BY <1>1, <1>3, <1>4

(* What there is about the delivery of g to i. *)
Same(g, i) ==
    /\ firing'[g].pc = firing[g].pc /\ firing'[g].matched = firing[g].matched
    /\ addition'[g][i] = addition[g][i] /\ loop'[g][i] = loop[g][i]
    /\ why'[g][i] = why[g][i] /\ posts'[g][i] = posts[g][i]
    /\ accepted'[g][i] = accepted[g][i] /\ JobsOf(g, i)' = JobsOf(g, i)

LEMMA JobFacts ==
    ASSUME HookTypes, NEW f \in Firings, NEW h \in Hooks, NEW j \in JobsOf(f, h)
    PROVE  /\ j \in HookJobType /\ j \in hookJobs /\ j.of = f /\ j.id[1] = h
           /\ j.left \in Nat /\ j.left <= HookAttempts
  BY HookConstants DEF HookTypes, JobsOf, HookJobType

LEMMA LoopFacts ==
    ASSUME HookTypes, NEW f \in Firings, NEW h \in Hooks
    PROVE  /\ loop[f][h] \in LoopType /\ loop[f][h].try \in Nat /\ loop[f][h].try <= Tries
           /\ posts[f][h] \in Nat /\ accepted[f][h] \in Nat /\ hookFaults \in Nat
           /\ addition[f][h] \in Additions /\ why[f][h] \in SUBSET Reasons
           /\ firing[f].pc \in FiringPcs
  <1>1. loop[f][h] \in LoopType
    BY DEF HookTypes
  <1>2. loop[f][h].try \in 0 .. Tries
    BY <1>1 DEF LoopType
  <1> QED
    BY <1>1, <1>2, HookConstants DEF HookTypes

LEMMA Allows ==
    ASSUME NEW p \in Nat, NEW a \in Int, NEW b \in Int, NEW x \in Nat, a <= b
    PROVE  (p <= a + x => p <= b + x) /\ (p <= a => p <= b)
  OBVIOUS

(* More faults allow no less. *)
LEMMA MoreFaults ==
    ASSUME HookTypes, NEW f \in Firings, NEW h \in Hooks, NEW pc, NEW l,
           NEW w \in SUBSET Reasons,
           NEW p \in Nat, NEW n \in Nat, NEW m \in Nat, n <= m, LoopPosts(l, pc) \in Nat,
           Sending(pc, l, w, p, JobsOf(f, h), n)
    PROVE  Sending(pc, l, w, p, JobsOf(f, h), m)
  <1>1. ASSUME NEW j \in JobsOf(f, h)
        PROVE  JobPosts(j, n) \in Int /\ JobPosts(j, m) \in Int /\ JobPosts(j, n) <= JobPosts(j, m)
    BY JobFacts, HookConstants DEF JobPosts
  <1>2. PICK x \in Nat : x = LoopPosts(l, pc)
    OBVIOUS
  <1>3. ASSUME NEW j \in JobsOf(f, h)
        PROVE  /\ p <= JobPosts(j, m) + x
               /\ "added_too" \notin w => p <= JobPosts(j, m)
    <2>1. PICK a \in Int, b \in Int : a = JobPosts(j, n) /\ b = JobPosts(j, m) /\ a <= b
      BY <1>1
    <2>2. p <= a + x /\ ("added_too" \notin w => p <= a)
      BY <1>2, <2>1 DEF Sending
    <2>3. p <= b + x
      BY <1>2, <2>1, <2>2, Allows
    <2>4. "added_too" \notin w => p <= b
      BY <2>1, <2>2, Allows
    <2> QED
      BY <2>1, <2>3, <2>4
  <1> QED
    BY <1>2, <1>3 DEF Sending

LEMMA LoopPostsIsNat ==
    ASSUME NEW l \in LoopType, NEW pc, l.pc = "none" => l.try = 0, l.pc # "none" => l.try >= 1
    PROVE  LoopPosts(l, pc) \in Nat /\ LoopPosts(l, pc) <= Tries
  <1>0. l.try \in 0 .. Tries
    BY DEF LoopType
  <1>1. l.try \in Nat /\ l.try <= Tries
    BY <1>0, HookConstants
  <1>2. CASE l.pc = "post"
    BY <1>1, <1>2, HookConstants DEF LoopPosts
  <1>3. CASE l.pc # "post"
    BY <1>1, <1>3, HookConstants DEF LoopPosts
  <1> QED
    BY <1>2, <1>3

LEMMA StaysSound ==
    ASSUME HookTypes, hookFaults' \in Nat, hookFaults <= hookFaults', NEW f \in Firings, NEW h \in Hooks,
           PairSound(f, h), Same(f, h)
    PROVE  PairSound(f, h)'
  <1>1. LoopPosts(loop[f][h], firing[f].pc) \in Nat
    BY LoopFacts, LoopPostsIsNat DEF PairSound, Sound, Progress
  <1>2. Sending(firing[f].pc, loop[f][h], why[f][h], posts[f][h], JobsOf(f, h), hookFaults')
    BY <1>1, LoopFacts, MoreFaults DEF PairSound, Sound
  <1> QED
    BY <1>2 DEF PairSound, Sound, Same

(* A step about the delivery of f to h. *)
LEMMA OnePair ==
    ASSUME HookIInv, NEW f \in Firings, NEW h \in Hooks, HookTypes', hookFaults <= hookFaults',
           \A g \in Firings, i \in Hooks : g # f \/ i # h => Same(g, i),
           PairSound(f, h)'
    PROVE  HookIInv'
  <1>1. hookFaults' \in Nat /\ HookTypes
    BY DEF HookIInv, HookTypes
  <1>2. ASSUME NEW g \in Firings, NEW i \in Hooks PROVE PairSound(g, i)'
    <2>1. CASE g = f /\ i = h
      BY <2>1
    <2>2. CASE g # f \/ i # h
      BY <1>1, <2>2, StaysSound DEF HookIInv
    <2> QED
      BY <2>1, <2>2
  <1> QED
    BY <1>2 DEF HookIInv

(* A step about all deliveries of f. *)
LEMMA OneFiring ==
    ASSUME HookIInv, NEW f \in Firings, HookTypes', hookFaults <= hookFaults',
           \A g \in Firings \ {f}, i \in Hooks : Same(g, i),
           \A i \in Hooks : PairSound(f, i)'
    PROVE  HookIInv'
  <1>1. hookFaults' \in Nat /\ HookTypes
    BY DEF HookIInv, HookTypes
  <1>2. ASSUME NEW g \in Firings, NEW i \in Hooks PROVE PairSound(g, i)'
    <2>1. CASE g = f
      BY <2>1
    <2>2. CASE g # f
      BY <1>1, <2>2, StaysSound DEF HookIInv
    <2> QED
      BY <2>1, <2>2
  <1> QED
    BY <1>2 DEF HookIInv

LEMMA JobsStay ==
    ASSUME UNCHANGED hookJobs
    PROVE  \A g \in Firings, i \in Hooks : JobsOf(g, i)' = JobsOf(g, i)
  BY DEF JobsOf

-----------------------------------------------------------------------------

(* The firing begins to add. *)
LEMMA FireAdds ==
    ASSUME NEW h, NEW M, NEW a, NEW l \in LoopType, NEW w \in SUBSET Reasons,
           NEW p \in Nat, NEW c \in Nat, NEW n \in Nat, NEW J \in SUBSET HookJobType,
           Sound("idle", h, M, a, l, w, p, c, J, n), NEW O, NEW b, b = IF h \in O THEN "adding" ELSE "none"
    PROVE  Sound("adding", h, O, b, l, w, p, c, J, n)
  <1>1. a = "none" /\ J = {} /\ l.pc = "none" /\ l.try = 0
    BY DEF Sound, Progress
  <1>2. Progress("adding", h, O, b, l, w, J)
    BY <1>1 DEF Progress
  <1>3. Sending("adding", l, w, p, J, n)
    BY <1>1 DEF Sound, Sending, LoopPosts
  <1>4. Accepting("adding", l, w, c, J)
    BY <1>1 DEF Sound, Accepting, AcceptedOnce, Ending
  <1> QED
    BY <1>2, <1>3, <1>4 DEF Sound

(* Or it begins to deliver at once. *)
LEMMA FireDelivers ==
    ASSUME NEW h, NEW M, NEW a, NEW l \in LoopType, NEW w \in SUBSET Reasons,
           NEW p \in Nat, NEW c \in Nat, NEW n \in Nat, NEW J \in SUBSET HookJobType,
           Sound("idle", h, M, a, l, w, p, c, J, n), NEW O,
           NEW k, k = IF h \in O THEN [pc |-> "post", try |-> 1] ELSE l
    PROVE  Sound("delivering", h, O, a, k, w, p, c, J, n)
  <1>1. a = "none" /\ J = {} /\ l.pc = "none" /\ l.try = 0
    BY DEF Sound, Progress
  <1>2. CASE h \in O
    <2>1. k.pc = "post" /\ k.try = 1
      BY <1>2
    <2>2. Progress("delivering", h, O, a, k, w, J)
      BY <1>1, <2>1 DEF Progress
    <2>3. p = 0
      BY <1>1 DEF Sound, Sending, LoopPosts
    <2>4. Sending("delivering", k, w, p, J, n)
      BY <1>1, <2>1, <2>3 DEF Sending, LoopPosts
    <2>5. Accepting("delivering", k, w, c, J)
      BY <1>1 DEF Sound, Accepting, AcceptedOnce, Ending
    <2> QED
      BY <2>2, <2>4, <2>5 DEF Sound
  <1>3. CASE h \notin O
    <2>1. k = l
      BY <1>3
    <2>2. Progress("delivering", h, O, a, k, w, J)
      BY <1>1, <1>3, <2>1 DEF Progress
    <2>3. Sending("delivering", k, w, p, J, n)
      BY <1>1, <2>1 DEF Sound, Sending, LoopPosts
    <2>4. Accepting("delivering", k, w, c, J)
      BY <1>1, <2>1 DEF Sound, Accepting, AcceptedOnce, Ending
    <2> QED
      BY <2>2, <2>3, <2>4 DEF Sound
  <1> QED
    BY <1>2, <1>3

(* A job is added whose id the queue knows. *)
LEMMA AddIgnored ==
    ASSUME NEW pc, NEW h, NEW M, NEW a, NEW l \in LoopType, NEW w \in SUBSET Reasons,
           NEW p \in Nat, NEW c \in Nat, NEW n \in Nat, NEW J \in SUBSET HookJobType,
           Sound(pc, h, M, "adding", l, w, p, c, J, n)
    PROVE  Sound(pc, h, M, "added", l, w \cup {"same_id"}, p, c, J, n)
  <1>1. Progress(pc, h, M, "added", l, w \cup {"same_id"}, J)
    BY DEF Sound, Progress
  <1>2. Sending(pc, l, w \cup {"same_id"}, p, J, n)
    BY DEF Sound, Sending
  <1>3. Accepting(pc, l, w \cup {"same_id"}, c, J)
    BY DEF Sound, Accepting, AcceptedOnce, Ending
  <1> QED
    BY <1>1, <1>2, <1>3 DEF Sound

(* Or one is added that it does not. *)
LEMMA Added ==
    ASSUME NEW pc, NEW h, NEW M, NEW a, NEW l \in LoopType, NEW w \in SUBSET Reasons,
           NEW p \in Nat, NEW c \in Nat, NEW n \in Nat, NEW J \in SUBSET HookJobType,
           Sound(pc, h, M, "adding", l, w, p, c, J, n),
           NEW j \in HookJobType, j.left = HookAttempts, j.state = "waiting",
           NEW v, v = IF pc = "adding" THEN w ELSE w \cup {"added_too"}
    PROVE  Sound(pc, h, M, "added", l, v, p, c, {j}, n)
  <1>1. /\ J = {} /\ pc # "idle" /\ pc # "stopped" /\ h \in M
        /\ pc = "adding" => l.pc = "none"
        /\ l.pc = "none" => l.try = 0
        /\ l.pc # "none" => l.try >= 1
    BY DEF Sound, Progress
  <1>2. p <= LoopPosts(l, pc) /\ LoopPosts(l, pc) \in Nat
    BY <1>1, LoopPostsIsNat DEF Sound, Sending
  <1>3. JobPosts(j, n) = n
    BY HookConstants DEF JobPosts
  <1>4. pc = "adding" => p = 0
    BY <1>1, <1>2 DEF LoopPosts
  <1>5. Progress(pc, h, M, "added", l, v, {j})
    BY <1>1 DEF Sound, Progress
  <1>6. Sending(pc, l, v, p, {j}, n)
    <2>1. p <= JobPosts(j, n) + LoopPosts(l, pc)
      BY <1>2, <1>3
    <2>2. "added_too" \notin v => p <= JobPosts(j, n)
      BY <1>3, <1>4
    <2>3. j.state # "failed" => j.left >= 1
      BY HookConstants
    <2> QED
      BY <1>2, <2>1, <2>2, <2>3 DEF Sending
  <1>7. Accepting(pc, l, v, c, {j})
    <2>1. CASE pc = "adding"
      BY <1>1, <2>1 DEF Sound, Accepting, AcceptedOnce, Ending
    <2>2. CASE pc # "adding"
      BY <2>2 DEF Sound, Accepting, AcceptedOnce, Ending
    <2> QED
      BY <2>1, <2>2
  <1> QED
    BY <1>5, <1>6, <1>7 DEF Sound

(* An addition failed, and the firing delivers to all that matched. *)
LEMMA FallsBack ==
    ASSUME NEW h, NEW M, NEW a, NEW l \in LoopType, NEW w \in SUBSET Reasons,
           NEW p \in Nat, NEW c \in Nat, NEW n \in Nat, NEW J \in SUBSET HookJobType,
           Sound("adding", h, M, a, l, w, p, c, J, n),
           NEW b, b = a \/ (a = "adding" /\ b = "failed"),
           NEW k, k = IF h \in M THEN [pc |-> "post", try |-> 1] ELSE l,
           NEW v, v = IF a = "added" THEN w \cup {"added_too"} ELSE w
    PROVE  Sound("delivering", h, M, b, k, v, p, c, J, n)
  <1>1. /\ l.pc = "none" /\ l.try = 0 /\ w \subseteq v
        /\ J # {} => a = "added"
        /\ \A i, j \in J : i = j
    BY DEF Sound, Progress
  <1>2. /\ k.pc \in {"post", "none"} /\ (k.pc = "none" => k.try = 0) /\ (k.pc = "post" => k.try = 1)
        /\ LoopPosts(k, "delivering") = 0 /\ LoopPosts(l, "adding") = 0 /\ (h \in M <=> k.pc # "none")
    BY <1>1 DEF LoopPosts
  <1>3. Progress("delivering", h, M, b, k, v, J)
    BY <1>1, <1>2 DEF Sound, Progress
  <1>4. Sending("delivering", k, v, p, J, n)
    <2>1. ASSUME NEW j \in J
          PROVE  /\ j.state # "failed" => j.left >= 1
                 /\ j.state = "failed" => j.left = 0
                 /\ p <= JobPosts(j, n) + LoopPosts(k, "delivering")
                 /\ "added_too" \in v
      BY <1>1, <1>2 DEF Sound, Sending
    <2>2. J = {} => p <= 0
      BY <1>2 DEF Sound, Sending
    <2> QED
      BY <1>2, <2>1, <2>2 DEF Sending
  <1>5. Accepting("delivering", k, v, c, J)
    BY <1>1 DEF Sound, Accepting, AcceptedOnce, Ending
  <1> QED
    BY <1>3, <1>4, <1>5 DEF Sound

(* An addition failed, and the firing had gone on already. *)
LEMMA FailsLate ==
    ASSUME NEW pc, NEW h, NEW M, NEW a, NEW l \in LoopType, NEW w \in SUBSET Reasons,
           NEW p \in Nat, NEW c \in Nat, NEW n \in Nat, NEW J \in SUBSET HookJobType,
           Sound(pc, h, M, "adding", l, w, p, c, J, n), pc # "adding"
    PROVE  Sound(pc, h, M, "failed", l, w, p, c, J, n)
  <1>1. Progress(pc, h, M, "failed", l, w, J)
    BY DEF Sound, Progress
  <1> QED
    BY <1>1 DEF Sound

(* The firing returns. *)
LEMMA Returns ==
    ASSUME NEW pc, NEW h, NEW M, NEW a, NEW l \in LoopType, NEW w \in SUBSET Reasons,
           NEW p \in Nat, NEW c \in Nat, NEW n \in Nat, NEW J \in SUBSET HookJobType,
           Sound(pc, h, M, a, l, w, p, c, J, n),
           pc \in {"adding", "delivering"}, pc = "adding" /\ h \in M => a = "added",
           pc = "delivering" /\ h \in M => l.pc = "done"
    PROVE  Sound("returned", h, M, a, l, w, p, c, J, n)
  <1>1. LoopPosts(l, pc) = LoopPosts(l, "returned")
    BY DEF LoopPosts
  <1>2. Progress("returned", h, M, a, l, w, J)
    BY DEF Sound, Progress
  <1>3. Sending("returned", l, w, p, J, n)
    BY <1>1 DEF Sound, Sending
  <1>4. Accepting("returned", l, w, c, J)
    BY DEF Sound, Accepting, AcceptedOnce, Ending
  <1> QED
    BY <1>2, <1>3, <1>4 DEF Sound

(* Or it throws. *)
LEMMA Throws ==
    ASSUME NEW h, NEW M, NEW a, NEW l \in LoopType, NEW w \in SUBSET Reasons,
           NEW p \in Nat, NEW c \in Nat, NEW n \in Nat, NEW J \in SUBSET HookJobType,
           Sound("delivering", h, M, a, l, w, p, c, J, n)
    PROVE  Sound("thrown", h, M, a, l, w, p, c, J, n)
  <1>1. LoopPosts(l, "delivering") = LoopPosts(l, "thrown")
    BY DEF LoopPosts
  <1>2. Progress("thrown", h, M, a, l, w, J)
    BY DEF Sound, Progress
  <1>3. Sending("thrown", l, w, p, J, n)
    BY <1>1 DEF Sound, Sending
  <1>4. Accepting("thrown", l, w, c, J)
    BY DEF Sound, Accepting, AcceptedOnce, Ending
  <1> QED
    BY <1>2, <1>3, <1>4 DEF Sound

(* A promise that goes on. *)
LEMMA LoopGoesOn ==
    ASSUME NEW pc, NEW h, NEW M, NEW a, NEW l \in LoopType, NEW w, NEW J,
           Progress(pc, h, M, a, l, w, J), l.pc # "none", NEW k \in LoopType, k.pc # "none", k.try >= 1,
           NEW v, w \subseteq v
    PROVE  Progress(pc, h, M, a, k, v, J)
  BY DEF Progress

LEMMA LoopKnown ==
    ASSUME NEW pc, NEW h, NEW M, NEW a, NEW l \in LoopType, NEW w, NEW J,
           Progress(pc, h, M, a, l, w, J), l.pc # "none"
    PROVE  pc # "stopped" /\ l.try \in Nat /\ l.try >= 1 /\ l.try <= Tries
           /\ (J # {} => "added_too" \in w)
  <1>1. l.try \in 0 .. Tries
    BY DEF LoopType
  <1> QED
    BY <1>1, HookConstants DEF Progress

LEMMA Posts ==
    ASSUME NEW pc, NEW l \in LoopType, NEW w, NEW p \in Nat, NEW J, NEW n \in Nat,
           Sending(pc, l, w, p, J, n), J # {} => "added_too" \in w,
           NEW k, NEW v, w \subseteq v, NEW q \in Nat, NEW x \in Nat, NEW y \in Nat,
           x = LoopPosts(l, pc), y = LoopPosts(k, pc), q - p <= y - x, p <= q,
           \A j \in J : JobPosts(j, n) \in Int
    PROVE  Sending(pc, k, v, q, J, n)
  <1>1. ASSUME NEW j \in J
        PROVE  /\ j.state # "failed" => j.left >= 1
               /\ j.state = "failed" => j.left = 0
               /\ q <= JobPosts(j, n) + y
               /\ "added_too" \in v
    <2>1. PICK b \in Int : b = JobPosts(j, n)
      OBVIOUS
    <2>2. p <= b + x
      BY <2>1 DEF Sending
    <2>3. q <= b + y
      BY <2>1, <2>2
    <2>4. j.state = "failed" => j.left = 0
      BY DEF Sending
    <2>5. j.state # "failed" => j.left >= 1
      BY DEF Sending
    <2> QED
      BY <2>1, <2>3, <2>4, <2>5
  <1>2. J = {} => q <= y
    <2>1. J = {} => p <= x
      BY DEF Sending
    <2> QED
      BY <2>1
  <1> QED
    BY <1>1, <1>2 DEF Sending

LEMMA JobPostsIsInt ==
    ASSUME NEW n \in Nat, NEW j \in HookJobType
    PROVE  /\ JobPosts(j, n) \in Int /\ j.left \in Nat /\ j.left <= HookAttempts
           /\ JobPosts(j, n) = HookAttempts - j.left + n
                               + (IF j.state \in {"sent", "completed"} THEN 1 ELSE 0)
  <1>1. j.left \in 0 .. HookAttempts
    BY DEF HookJobType
  <1> QED
    BY <1>1, HookConstants DEF JobPosts

(* A promise posts, and is accepted. *)
LEMMA PostIsAccepted ==
    ASSUME NEW pc, NEW h, NEW M, NEW a, NEW l \in LoopType, NEW w \in SUBSET Reasons,
           NEW p \in Nat, NEW c \in Nat, NEW n \in Nat, NEW J \in SUBSET HookJobType,
           Sound(pc, h, M, a, l, w, p, c, J, n), l.pc = "post",
           NEW k \in LoopType, k.pc = "noted", k.try = l.try
    PROVE  Sound(pc, h, M, a, k, w, p + 1, c + 1, J, n)
  <1>1. pc # "stopped" /\ l.try \in Nat /\ l.try >= 1 /\ (J # {} => "added_too" \in w)
    BY LoopKnown DEF Sound
  <1>2. Progress(pc, h, M, a, k, w, J)
    BY <1>1, LoopGoesOn DEF Sound
  <1>3. LoopPosts(l, pc) = l.try - 1 /\ LoopPosts(k, pc) = l.try
    BY <1>1 DEF LoopPosts
  <1>4. Sending(pc, k, w, p + 1, J, n)
    <2>1. PICK x \in Nat, y \in Nat, q \in Nat :
             x = LoopPosts(l, pc) /\ y = LoopPosts(k, pc) /\ q = p + 1 /\ y - x = 1
      BY <1>1, <1>3
    <2>2. q - p <= y - x /\ p <= q
      BY <2>1
    <2> QED
      BY <1>1, <2>1, <2>2, Posts, JobPostsIsInt DEF Sound
  <1>5. Accepting(pc, k, w, c + 1, J)
    <2>0. Ending(k, w, c + 1, J)
      BY DEF Sound, Accepting, Ending
    <2>1. CASE J # {}
      BY <1>1, <2>0, <2>1 DEF Accepting, AcceptedOnce
    <2>2. CASE J = {} /\ w \cap {"added_too", "stalled", "row_gone"} = {}
      <3>1. ~(c >= 1)
        BY <1>1, <2>2 DEF Sound, Accepting, AcceptedOnce
      <3>2. c + 1 <= 1
        BY <3>1
      <3> QED
        BY <2>0, <2>2, <3>2 DEF Accepting, AcceptedOnce
    <2>3. CASE w \cap {"added_too", "stalled", "row_gone"} # {}
      BY <2>0, <2>3 DEF Accepting, AcceptedOnce
    <2> QED
      BY <2>1, <2>2, <2>3
  <1> QED
    BY <1>2, <1>4, <1>5 DEF Sound

(* Again, or not. *)
IsNext(k, l) ==
    /\ k \in LoopType
    /\ IF l.try < Tries THEN k.pc = "post" /\ k.try = l.try + 1
       ELSE k.pc = "give_up" /\ k.try = l.try

LEMMA NextEnds ==
    ASSUME NEW l \in LoopType, NEW w, NEW c, NEW J, Ending(l, w, c, J), NEW k, IsNext(k, l),
           NEW v
    PROVE  Ending(k, v, c, J)
  <1>1. l.try \in 0 .. Tries
    BY DEF LoopType
  <1>2. k.pc \in {"post", "give_up"} /\ (k.pc = "give_up" => k.try = Tries)
    BY <1>1, HookConstants DEF IsNext
  <1> QED
    BY <1>2 DEF Ending

(* Or it is not. *)
LEMMA PostFails ==
    ASSUME NEW pc, NEW h, NEW M, NEW a, NEW l \in LoopType, NEW w \in SUBSET Reasons,
           NEW p \in Nat, NEW c \in Nat, NEW n \in Nat, NEW J \in SUBSET HookJobType,
           Sound(pc, h, M, a, l, w, p, c, J, n), l.pc = "post", NEW k, IsNext(k, l)
    PROVE  Sound(pc, h, M, a, k, w, p + 1, c, J, n)
  <1>1. /\ pc # "stopped" /\ l.try \in Nat /\ l.try >= 1 /\ (J # {} => "added_too" \in w)
    BY LoopKnown DEF Sound
  <1>2. k \in LoopType /\ k.pc \in {"post", "give_up"} /\ k.try \in Nat /\ k.try >= 1
    BY <1>1 DEF IsNext
  <1>3. Progress(pc, h, M, a, k, w, J)
    BY <1>1, <1>2, LoopGoesOn DEF Sound
  <1>4. LoopPosts(l, pc) = l.try - 1 /\ LoopPosts(k, pc) = l.try
    <2>1. CASE l.try < Tries
      BY <1>1, <2>1 DEF LoopPosts, IsNext
    <2>2. CASE ~(l.try < Tries)
      BY <1>1, <2>2 DEF LoopPosts, IsNext
    <2> QED
      BY <2>1, <2>2
  <1>5. Sending(pc, k, w, p + 1, J, n)
    <2>1. PICK x \in Nat, y \in Nat, q \in Nat :
             x = LoopPosts(l, pc) /\ y = LoopPosts(k, pc) /\ q = p + 1 /\ y - x = 1
      BY <1>1, <1>4
    <2>2. q - p <= y - x /\ p <= q
      BY <2>1
    <2> QED
      BY <1>1, <2>1, <2>2, Posts, JobPostsIsInt DEF Sound
  <1>6. Accepting(pc, k, w, c, J)
    <2>0. Ending(k, w, c, J)
      BY <1>2, NextEnds DEF Sound, Accepting
    <2>1. CASE J # {}
      BY <1>1, <2>0, <2>1 DEF Accepting, AcceptedOnce
    <2>2. CASE J = {}
      BY <1>1, <2>0, <2>2 DEF Sound, Accepting, AcceptedOnce
    <2> QED
      BY <2>1, <2>2
  <1> QED
    BY <1>3, <1>5, <1>6 DEF Sound

(* The row is gone when the outcome should be noted. *)
LEMMA RowIsGone ==
    ASSUME NEW pc, NEW h, NEW M, NEW a, NEW l \in LoopType, NEW w \in SUBSET Reasons,
           NEW p \in Nat, NEW c \in Nat, NEW n \in Nat, NEW J \in SUBSET HookJobType,
           Sound(pc, h, M, a, l, w, p, c, J, n), l.pc \in {"noted", "blocked"},
           NEW k, IsNext(k, l)
    PROVE  Sound(pc, h, M, a, k, w \cup {"row_gone"}, p, c, J, n)
  <1>1. /\ pc # "stopped" /\ l.try \in Nat /\ l.try >= 1 /\ (J # {} => "added_too" \in w)
    BY LoopKnown DEF Sound
  <1>2. k \in LoopType /\ k.pc \in {"post", "give_up"} /\ k.try \in Nat /\ k.try >= 1
    BY <1>1 DEF IsNext
  <1>3. Progress(pc, h, M, a, k, w \cup {"row_gone"}, J)
    BY <1>1, <1>2, LoopGoesOn DEF Sound
  <1>4. LoopPosts(l, pc) = l.try /\ LoopPosts(k, pc) = l.try
    <2>1. CASE l.try < Tries
      BY <1>1, <2>1 DEF LoopPosts, IsNext
    <2>2. CASE ~(l.try < Tries)
      BY <1>1, <2>2 DEF LoopPosts, IsNext
    <2> QED
      BY <2>1, <2>2
  <1>5. Sending(pc, k, w \cup {"row_gone"}, p, J, n)
    <2>1. PICK x \in Nat, y \in Nat :
             x = LoopPosts(l, pc) /\ y = LoopPosts(k, pc) /\ y - x = 0
      BY <1>1, <1>4
    <2>2. p - p <= y - x /\ p <= p
      BY <2>1
    <2> QED
      BY <1>1, <2>1, <2>2, Posts, JobPostsIsInt DEF Sound
  <1>6. Accepting(pc, k, w \cup {"row_gone"}, c, J)
    BY NextEnds DEF Sound, Accepting, AcceptedOnce
  <1> QED
    BY <1>3, <1>5, <1>6 DEF Sound

(* A promise is kept, or given up. *)
LEMMA PromiseEnds ==
    ASSUME NEW pc, NEW h, NEW M, NEW a, NEW l \in LoopType, NEW w \in SUBSET Reasons,
           NEW p \in Nat, NEW c \in Nat, NEW n \in Nat, NEW J \in SUBSET HookJobType,
           Sound(pc, h, M, a, l, w, p, c, J, n), l.pc \in {"noted", "give_up"},
           NEW k \in LoopType, k.pc = "done", k.try = l.try
    PROVE  Sound(pc, h, M, a, k, w, p, c, J, n)
  <1>1. /\ pc # "stopped" /\ l.try \in Nat /\ l.try >= 1 /\ (J # {} => "added_too" \in w)
    BY LoopKnown DEF Sound
  <1>3. Progress(pc, h, M, a, k, w, J)
    BY <1>1, LoopGoesOn DEF Sound
  <1>4. LoopPosts(l, pc) = LoopPosts(k, pc)
    BY DEF LoopPosts
  <1>5. Sending(pc, k, w, p, J, n)
    BY <1>4 DEF Sound, Sending
  <1>6. Accepting(pc, k, w, c, J)
    BY <1>1 DEF Sound, Accepting, AcceptedOnce, Ending
  <1> QED
    BY <1>3, <1>5, <1>6 DEF Sound

(* The guard stops an attempt, ... *)
LEMMA GuardStops ==
    ASSUME NEW pc, NEW h, NEW M, NEW a, NEW l \in LoopType, NEW w \in SUBSET Reasons,
           NEW p \in Nat, NEW c \in Nat, NEW n \in Nat, NEW J \in SUBSET HookJobType,
           Sound(pc, h, M, a, l, w, p, c, J, n), l.pc = "post",
           NEW k \in LoopType, k.pc = "blocked", k.try = l.try
    PROVE  Sound(pc, h, M, a, k, w, p, c, J, n)
  <1>1. pc # "stopped" /\ l.try \in Nat /\ l.try >= 1 /\ (J # {} => "added_too" \in w)
    BY LoopKnown DEF Sound
  <1>2. Progress(pc, h, M, a, k, w, J)
    BY <1>1, LoopGoesOn DEF Sound
  <1>3. LoopPosts(l, pc) = l.try - 1 /\ LoopPosts(k, pc) = l.try
    BY <1>1 DEF LoopPosts
  <1>4. Sending(pc, k, w, p, J, n)
    <2>1. PICK x \in Nat, y \in Nat : x = LoopPosts(l, pc) /\ y = LoopPosts(k, pc) /\ y - x = 1
      BY <1>1, <1>3
    <2>2. p - p <= y - x /\ p <= p
      BY <2>1
    <2> QED
      BY <1>1, <2>1, <2>2, Posts, JobPostsIsInt DEF Sound
  <1>5. Accepting(pc, k, w, c, J)
    BY <1>1 DEF Sound, Accepting, AcceptedOnce, Ending
  <1> QED
    BY <1>2, <1>4, <1>5 DEF Sound

(* ... and with that the promise is kept. *)
LEMMA BlockedEnds ==
    ASSUME NEW pc, NEW h, NEW M, NEW a, NEW l \in LoopType, NEW w \in SUBSET Reasons,
           NEW p \in Nat, NEW c \in Nat, NEW n \in Nat, NEW J \in SUBSET HookJobType,
           Sound(pc, h, M, a, l, w, p, c, J, n), l.pc = "blocked",
           NEW k \in LoopType, k.pc = "done", k.try = l.try
    PROVE  Sound(pc, h, M, a, k, w \cup {"blocked"}, p, c, J, n)
  <1>1. /\ pc # "stopped" /\ l.try \in Nat /\ l.try >= 1 /\ (J # {} => "added_too" \in w)
    BY LoopKnown DEF Sound
  <1>2. Progress(pc, h, M, a, k, w \cup {"blocked"}, J)
    BY <1>1, LoopGoesOn DEF Sound
  <1>3. LoopPosts(l, pc) = LoopPosts(k, pc)
    BY DEF LoopPosts
  <1>4. Sending(pc, k, w \cup {"blocked"}, p, J, n)
    BY <1>3 DEF Sound, Sending
  <1>5. Accepting(pc, k, w \cup {"blocked"}, c, J)
    BY <1>1 DEF Sound, Accepting, AcceptedOnce, Ending
  <1> QED
    BY <1>2, <1>4, <1>5 DEF Sound

(* The process stops. *)
LEMMA Stops ==
    ASSUME NEW pc, NEW h, NEW M, NEW a, NEW l \in LoopType, NEW w \in SUBSET Reasons,
           NEW p \in Nat, NEW c \in Nat, NEW n \in Nat, NEW J \in SUBSET HookJobType,
           Sound(pc, h, M, a, l, w, p, c, J, n), pc \in {"adding", "delivering"},
           NEW k, k = [pc |-> "none", try |-> 0]
    PROVE  Sound("stopped", h, M, "none", k, w \cup {"stopped"}, p, c, J, n + 1)
  <1>1. /\ l.pc = "none" => l.try = 0
        /\ l.pc # "none" => l.try >= 1
        /\ J # {} /\ l.pc # "none" => "added_too" \in w
    BY DEF Sound, Progress
  <1>2. LoopPosts(l, pc) \in Nat /\ LoopPosts(l, pc) <= Tries /\ LoopPosts(k, "stopped") = Tries
    <2>1. k.pc = "none"
      OBVIOUS
    <2> QED
      BY <1>1, <2>1, LoopPostsIsNat DEF LoopPosts
  <1>3. Progress("stopped", h, M, "none", k, w \cup {"stopped"}, J)
    BY DEF Sound, Progress
  <1>4. Sending("stopped", k, w \cup {"stopped"}, p, J, n + 1)
    <2>1. ASSUME NEW j \in J
          PROVE  /\ j.state # "failed" => j.left >= 1
                 /\ j.state = "failed" => j.left = 0
                 /\ p <= JobPosts(j, n + 1) + Tries
                 /\ "added_too" \notin w => p <= JobPosts(j, n + 1)
      <3>1. JobPosts(j, n) \in Int /\ JobPosts(j, n + 1) = JobPosts(j, n) + 1
        BY JobPostsIsInt, HookConstants
      <3>2. PICK b \in Int, e \in Int : b = JobPosts(j, n) /\ e = JobPosts(j, n + 1) /\ e = b + 1
        BY <3>1
      <3>3. PICK x \in Nat : x = LoopPosts(l, pc) /\ x <= Tries
        BY <1>2
      <3>4. p <= b + x /\ ("added_too" \notin w => p <= b)
        BY <3>2, <3>3 DEF Sound, Sending
      <3>5. p <= e + Tries
        BY <3>2, <3>3, <3>4, HookConstants
      <3>6. "added_too" \notin w => p <= e
        BY <3>2, <3>4
      <3>7. /\ j.state # "failed" => j.left >= 1
            /\ j.state = "failed" => j.left = 0
        BY DEF Sound, Sending
      <3> QED
        BY <3>2, <3>5, <3>6, <3>7
    <2>2. J = {} => p <= Tries
      <3>1. J = {} => p <= LoopPosts(l, pc)
        BY DEF Sound, Sending
      <3> QED
        BY <1>2, <3>1, HookConstants
    <2>3. k.pc = "none"
      OBVIOUS
    <2> QED
      BY <1>2, <2>1, <2>2, <2>3 DEF Sending
  <1>5. Accepting("stopped", k, w \cup {"stopped"}, c, J)
    BY DEF Sound, Accepting, AcceptedOnce, Ending
  <1> QED
    BY <1>3, <1>4, <1>5 DEF Sound

(* The job goes on. *)
(* A job j becomes k, with its posts, acceptances and reasons. *)
JobAdvances(j, k, w, p, c, n, v, q, d, m) ==
    /\ w \subseteq v /\ p <= q /\ JobPosts(j, n) + (q - p) <= JobPosts(k, m)
    /\ k.state # "failed" => k.left >= 1
    /\ k.state = "failed" => k.left = 0
    /\ c <= d
    /\ k.state \in {"sent", "completed"} => d >= 1
    /\ v \cap {"added_too", "stalled", "row_gone"} = {} =>
          d <= 1 /\ (d >= 1 => k.state \in {"sent", "completed"})

LEMMA JobGoesOn ==
    ASSUME NEW pc, NEW h, NEW M, NEW a, NEW l \in LoopType, NEW w \in SUBSET Reasons,
           NEW p \in Nat, NEW c \in Nat, NEW n \in Nat, NEW J \in SUBSET HookJobType,
           Sound(pc, h, M, a, l, w, p, c, J, n), NEW j \in J, NEW k \in HookJobType,
           NEW v, NEW q \in Nat, NEW d \in Nat, NEW m \in Nat,
           JobAdvances(j, k, w, p, c, n, v, q, d, m)
    PROVE  Sound(pc, h, M, a, l, v, q, d, {k}, m)
  <1> USE DEF JobAdvances
  <1>1. Progress(pc, h, M, a, l, v, {k})
    BY DEF Sound, Progress
  <1>2. /\ l.pc = "none" => l.try = 0
        /\ l.pc # "none" => l.try >= 1
    BY DEF Sound, Progress
  <1>3. Sending(pc, l, v, q, {k}, m)
    <2>1. PICK x \in Nat : x = LoopPosts(l, pc)
      BY <1>2, LoopPostsIsNat
    <2>2. PICK b \in Int, e \in Int : b = JobPosts(j, n) /\ e = JobPosts(k, m) /\ b + (q - p) <= e
      BY JobPostsIsInt
    <2>3. p <= b + x /\ ("added_too" \notin w => p <= b)
      BY <2>1, <2>2 DEF Sound, Sending
    <2>4. q <= e + x
      BY <2>1, <2>2, <2>3
    <2>5. "added_too" \notin v => q <= e
      BY <2>2, <2>3
    <2> QED
      BY <2>1, <2>2, <2>4, <2>5 DEF Sending
  <1>4. Accepting(pc, l, v, d, {k})
    <2>1. Ending(l, w, c, J) /\ (c >= 1 => d >= 1)
      BY DEF Sound, Accepting
    <2>2. Ending(l, v, d, {k})
      BY <2>1 DEF Ending
    <2> QED
      BY <2>2 DEF Accepting, AcceptedOnce
  <1> QED
    BY <1>1, <1>3, <1>4 DEF Sound

LEMMA JobBecomes ==
    ASSUME HookIInv, NEW j \in hookJobs, NEW k \in HookJobType, Becomes(j, k),
           k.of = j.of, k.id = j.id
    PROVE  /\ j.of \in Firings /\ j.id[1] \in Hooks /\ j \in HookJobType
           /\ j \in JobsOf(j.of, j.id[1])
           /\ JobsOf(j.of, j.id[1])' = {k}
           /\ \A g \in Firings, i \in Hooks : g # j.of \/ i # j.id[1] => JobsOf(g, i)' = JobsOf(g, i)
           /\ hookJobs' \subseteq HookJobType
  <1>1. HookTypes /\ j \in HookJobType
    BY DEF HookIInv, HookTypes
  <1>2. j.of \in Firings /\ j.id \in Hooks \X Nat
    BY <1>1 DEF HookJobType
  <1>3. j.id[1] \in Hooks
    BY <1>2
  <1>4. j \in JobsOf(j.of, j.id[1])
    BY DEF JobsOf
  <1>5. \A i \in JobsOf(j.of, j.id[1]) : i = j
    BY <1>2, <1>3, <1>4 DEF HookIInv, PairSound, Sound, Progress
  <1>6. hookJobs' = (hookJobs \ {j}) \cup {k}
    BY DEF Becomes
  <1>7. JobsOf(j.of, j.id[1])' = {k}
    BY <1>5, <1>6 DEF JobsOf
  <1>8. \A g \in Firings, i \in Hooks : g # j.of \/ i # j.id[1] => JobsOf(g, i)' = JobsOf(g, i)
    BY <1>6 DEF JobsOf
  <1>9. hookJobs' \subseteq HookJobType
    BY <1>1, <1>6 DEF HookTypes
  <1> QED
    BY <1>1, <1>2, <1>3, <1>4, <1>7, <1>8, <1>9

(* What the invariant says of one delivery. *)
LEMMA PairFacts ==
    ASSUME HookIInv, NEW f \in Firings, NEW h \in Hooks
    PROVE  /\ HookTypes
           /\ Sound(firing[f].pc, h, firing[f].matched, addition[f][h], loop[f][h], why[f][h],
                    posts[f][h], accepted[f][h], JobsOf(f, h), hookFaults)
           /\ loop[f][h] \in LoopType /\ why[f][h] \in SUBSET Reasons
           /\ posts[f][h] \in Nat /\ accepted[f][h] \in Nat /\ hookFaults \in Nat
           /\ JobsOf(f, h) \in SUBSET HookJobType
           /\ addition[f][h] \in Additions /\ firing[f].pc \in FiringPcs
  <1>1. HookTypes /\ PairSound(f, h)
    BY DEF HookIInv
  <1>2. JobsOf(f, h) \in SUBSET HookJobType
    BY <1>1 DEF HookTypes, JobsOf
  <1> QED
    BY <1>1, <1>2, LoopFacts DEF PairSound

-----------------------------------------------------------------------------
(* A step of the job j of the delivery of f to h, which is k after it. *)
JobStep(j, k, f, h) ==
    /\ Becomes(j, k) /\ k.of = j.of /\ k.id = j.id /\ f = j.of /\ h = j.id[1]
    /\ UNCHANGED <<hook, firing, addition, loop, ms>> /\ hookFaults' \in Nat
    /\ posts' \in [Firings -> [Hooks -> Nat]] /\ accepted' \in [Firings -> [Hooks -> Nat]]
    /\ why' \in [Firings -> [Hooks -> SUBSET Reasons]]
    /\ \A g \in Firings, i \in Hooks : g # f \/ i # h =>
          /\ posts'[g][i] = posts[g][i] /\ accepted'[g][i] = accepted[g][i]
          /\ why'[g][i] = why[g][i]
    /\ why[f][h] \subseteq why'[f][h] /\ posts[f][h] <= posts'[f][h]
    /\ hookFaults <= hookFaults'
    /\ JobPosts(j, hookFaults) + (posts'[f][h] - posts[f][h]) <= JobPosts(k, hookFaults')
    /\ k.state # "failed" => k.left >= 1
    /\ k.state = "failed" => k.left = 0
    /\ accepted[f][h] <= accepted'[f][h]
    /\ k.state \in {"sent", "completed"} => accepted'[f][h] >= 1
    /\ why'[f][h] \cap {"added_too", "stalled", "row_gone"} = {} =>
          /\ accepted'[f][h] <= 1
          /\ accepted'[f][h] >= 1 => k.state \in {"sent", "completed"}

LEMMA JobActs ==
    ASSUME HookIInv, NEW j \in hookJobs, NEW k \in HookJobType, NEW f, NEW h, JobStep(j, k, f, h)
    PROVE  HookIInv'
  <1>1. /\ f \in Firings /\ h \in Hooks /\ j \in JobsOf(f, h) /\ JobsOf(f, h)' = {k}
        /\ \A g \in Firings, i \in Hooks : g # f \/ i # h => JobsOf(g, i)' = JobsOf(g, i)
        /\ hookJobs' \subseteq HookJobType
    BY JobBecomes DEF JobStep
  <1>2. HookTypes'
    BY <1>1 DEF HookIInv, HookTypes, JobStep
  <1>3. PICK q \in Nat, d \in Nat, v \in SUBSET Reasons, m \in Nat :
           q = posts'[f][h] /\ d = accepted'[f][h] /\ v = why'[f][h] /\ m = hookFaults'
    BY <1>1 DEF JobStep
  <1>4. PICK pc, M, a, l, w, p, c, J, n :
           /\ pc = firing[f].pc /\ M = firing[f].matched /\ a = addition[f][h]
           /\ l = loop[f][h] /\ w = why[f][h] /\ p = posts[f][h] /\ c = accepted[f][h]
           /\ J = JobsOf(f, h) /\ n = hookFaults
    OBVIOUS
  <1>5. /\ Sound(pc, h, M, a, l, w, p, c, J, n) /\ j \in J
        /\ l \in LoopType /\ w \in SUBSET Reasons /\ p \in Nat /\ c \in Nat /\ n \in Nat
        /\ J \in SUBSET HookJobType
    BY <1>1, <1>4, PairFacts
  <1>6. JobAdvances(j, k, w, p, c, n, v, q, d, m)
    BY <1>3, <1>4 DEF JobStep, JobAdvances
  <1>7. Sound(pc, h, M, a, l, v, q, d, {k}, m)
    BY <1>5, <1>6, JobGoesOn
  <1>8. PairSound(f, h)'
    <2>1. /\ firing'[f].pc = pc /\ firing'[f].matched = M
          /\ addition'[f][h] = a /\ loop'[f][h] = l
      BY <1>4 DEF JobStep
    <2>2. PairSound(f, h)' = Sound(pc, h, M, a, l, v, q, d, {k}, m)
      BY <1>1, <1>3, <2>1 DEF PairSound
    <2>3. QED
      BY <1>7, <2>2
  <1>9. \A g \in Firings, i \in Hooks : g # f \/ i # h => Same(g, i)
    BY <1>1 DEF Same, JobStep
  <1>10. hookFaults <= hookFaults'
    BY DEF JobStep
  <1> QED
    BY <1>1, <1>2, <1>8, <1>9, <1>10, OnePair

LEMMA JobHas ==
    ASSUME HookIInv, NEW j \in hookJobs, NEW f, f = j.of, NEW h, h = j.id[1]
    PROVE  /\ HookTypes /\ j \in HookJobType /\ f \in Firings /\ h \in Hooks
           /\ j \in JobsOf(f, h)
           /\ j.left \in Nat /\ j.left <= HookAttempts /\ JobPosts(j, hookFaults) \in Int
           /\ (j.state # "failed" => j.left >= 1)
           /\ (j.state \in {"sent", "completed"} => accepted[f][h] >= 1)
           /\ posts[f][h] \in Nat /\ accepted[f][h] \in Nat /\ hookFaults \in Nat
           /\ (why[f][h] \cap {"added_too", "stalled", "row_gone"} = {} =>
                 accepted[f][h] <= 1
                 /\ (accepted[f][h] >= 1 => j.state \in {"sent", "completed"}))
  <1>1. HookTypes /\ j \in HookJobType
    BY DEF HookIInv, HookTypes
  <1>2. f \in Firings /\ j.id \in Hooks \X Nat
    BY <1>1 DEF HookJobType
  <1>3. h \in Hooks /\ j \in JobsOf(f, h)
    BY <1>2 DEF JobsOf
  <1>4. posts[f][h] \in Nat /\ accepted[f][h] \in Nat /\ hookFaults \in Nat
    BY <1>2, <1>3, PairFacts
  <1>5. j.left \in Nat /\ j.left <= HookAttempts /\ JobPosts(j, hookFaults) \in Int
    BY <1>1, <1>4, JobPostsIsInt
  <1>6. /\ j.state # "failed" => j.left >= 1
        /\ j.state \in {"sent", "completed"} => accepted[f][h] >= 1
    BY <1>2, <1>3, PairFacts DEF Sound, Sending, Accepting, Ending
  <1>7. why[f][h] \cap {"added_too", "stalled", "row_gone"} = {} =>
           accepted[f][h] <= 1
           /\ (accepted[f][h] >= 1 => j.state \in {"sent", "completed"})
    BY <1>2, <1>3, PairFacts DEF Sound, Accepting, AcceptedOnce, Ending
  <1> QED
    BY <1>1, <1>2, <1>3, <1>4, <1>5, <1>6, <1>7

(* Nothing was sent, and the job is in another state. *)
LEMMA JobMoves ==
    ASSUME HookIInv, NEW j \in hookJobs, NEW k \in HookJobType, Becomes(j, k),
           k.of = j.of, k.id = j.id, k.left = j.left,
           \/ j.state = "waiting" /\ k.state = "active"
           \/ j.state = "sent" /\ k.state = "completed",
           UNCHANGED <<hook, firing, addition, loop, ms, hookFaults, posts, accepted, why>>
    PROVE  HookIInv'
  <1>1. PICK f, h : f = j.of /\ h = j.id[1]
    OBVIOUS
  <1>2. /\ HookTypes /\ j \in HookJobType /\ f \in Firings /\ h \in Hooks
        /\ j.left \in Nat /\ j.left >= 1 /\ JobPosts(j, hookFaults) \in Int
        /\ (j.state \in {"sent", "completed"} => accepted[f][h] >= 1)
        /\ posts[f][h] \in Nat /\ accepted[f][h] \in Nat
    BY <1>1, JobHas
  <1>3. JobPosts(k, hookFaults) = JobPosts(j, hookFaults)
    BY DEF JobPosts
  <1>4. JobPosts(j, hookFaults) + (posts[f][h] - posts[f][h]) <= JobPosts(k, hookFaults)
    <2>1. posts[f][h] - posts[f][h] = 0
      BY <1>2
    <2> QED
      BY <1>2, <1>3, <2>1
  <1>5. why[f][h] \cap {"added_too", "stalled", "row_gone"} = {} =>
           accepted[f][h] <= 1 /\ (accepted[f][h] >= 1 => k.state \in {"sent", "completed"})
    BY <1>1, JobHas
  <1>6. posts[f][h] <= posts[f][h] /\ hookFaults <= hookFaults /\ hookFaults \in Nat
    BY <1>2 DEF HookTypes
  <1>7. /\ posts' = posts /\ accepted' = accepted /\ why' = why /\ hookFaults' = hookFaults
        /\ posts' \in [Firings -> [Hooks -> Nat]] /\ accepted' \in [Firings -> [Hooks -> Nat]]
        /\ why' \in [Firings -> [Hooks -> SUBSET Reasons]]
    BY <1>2 DEF HookTypes
  <1>8. k.state # "failed" => k.left >= 1
    BY <1>2
  <1>9. /\ k.state \in {"sent", "completed"} => accepted'[f][h] >= 1
        /\ accepted[f][h] <= accepted'[f][h] /\ k.state # "failed"
    BY <1>2, <1>7
  <1>99. JobStep(j, k, f, h)
    BY <1>1, <1>4, <1>5, <1>6, <1>7, <1>8, <1>9 DEF JobStep
  <1> QED
    BY <1>4, <1>99, JobActs

LEMMA TakeKeeps ==
    ASSUME HookIInv, NEW j \in hookJobs, Take(j) PROVE HookIInv'
  <1>1. PICK k : k = [j EXCEPT !.state = "active"]
    OBVIOUS
  <1>2. j \in HookJobType
    BY DEF HookIInv, HookTypes
  <1>3. /\ k \in HookJobType /\ k.of = j.of /\ k.id = j.id /\ k.state = "active"
        /\ k.left = j.left
    BY <1>1, <1>2 DEF HookJobType
  <1> QED
    BY <1>1, <1>3, JobMoves DEF Take

LEMMA CompleteKeeps ==
    ASSUME HookIInv, NEW j \in hookJobs, Complete(j) PROVE HookIInv'
  <1>1. PICK k : k = [j EXCEPT !.state = "completed"]
    OBVIOUS
  <1>2. j \in HookJobType
    BY DEF HookIInv, HookTypes
  <1>3. /\ k \in HookJobType /\ k.of = j.of /\ k.id = j.id /\ k.state = "completed"
        /\ k.left = j.left
    BY <1>1, <1>2 DEF HookJobType
  <1> QED
    BY <1>1, <1>3, JobMoves DEF Complete

LEMMA StallKeeps ==
    ASSUME HookIInv, NEW j \in hookJobs, Stall(j) PROVE HookIInv'
  <1>1. PICK f, h : f = j.of /\ h = j.id[1]
    OBVIOUS
  <1>2. /\ HookTypes /\ j \in HookJobType /\ f \in Firings /\ h \in Hooks
        /\ j.left \in Nat /\ j.left <= HookAttempts /\ JobPosts(j, hookFaults) \in Int
        /\ (j.state # "failed" => j.left >= 1)
        /\ posts[f][h] \in Nat /\ accepted[f][h] \in Nat /\ hookFaults \in Nat
    BY <1>1, JobHas
  <1>3. PICK k : k = [j EXCEPT !.state = "waiting"]
    OBVIOUS
  <1>4. /\ k \in HookJobType /\ k.of = j.of /\ k.id = j.id /\ k.state = "waiting"
        /\ k.left = j.left
    BY <1>2, <1>3 DEF HookJobType
  <1>5. /\ Becomes(j, k) /\ hookFaults' = hookFaults + 1 /\ j.state \in {"active", "sent"}
        /\ UNCHANGED <<hook, firing, addition, loop, ms, posts, accepted>>
    BY <1>3 DEF Stall
  <1>6. PICK w : w = why[f][h] \cup {"stalled"}
    OBVIOUS
  <1>7. w \in SUBSET Reasons /\ why \in [Firings -> [Hooks -> SUBSET Reasons]]
    BY <1>2, <1>6 DEF HookTypes, Reasons
  <1>8. why' = [why EXCEPT ![f][h] = w]
    BY <1>1, <1>6 DEF Stall
  <1>9. why' \in [Firings -> [Hooks -> SUBSET Reasons]] /\ Alter(why', why, f, h, w)
    BY <1>2, <1>7, <1>8, AltersReasons
  <1>10. /\ posts' = posts /\ accepted' = accepted
         /\ posts' \in [Firings -> [Hooks -> Nat]] /\ accepted' \in [Firings -> [Hooks -> Nat]]
    BY <1>2, <1>5 DEF HookTypes
  <1>11. JobPosts(j, hookFaults) + (posts[f][h] - posts[f][h]) <= JobPosts(k, hookFaults + 1)
    <2>1. posts[f][h] - posts[f][h] = 0
      BY <1>2
    <2>2. JobPosts(j, hookFaults) <= JobPosts(k, hookFaults + 1)
      BY <1>2, <1>4, HookConstants DEF JobPosts
    <2> QED
      BY <1>2, <2>1, <2>2
  <1>12. \A g \in Firings, i \in Hooks : g # f \/ i # h =>
            /\ posts'[g][i] = posts[g][i] /\ accepted'[g][i] = accepted[g][i]
            /\ why'[g][i] = why[g][i]
    BY <1>9, <1>10 DEF Alter
  <1>13. why'[f][h] = w /\ why[f][h] \subseteq w /\ "stalled" \in w
    BY <1>6, <1>9 DEF Alter
  <1>14. k.state # "failed" => k.left >= 1
    BY <1>2, <1>4, <1>5
  <1>15. /\ posts[f][h] <= posts[f][h] /\ accepted[f][h] <= accepted'[f][h]
         /\ hookFaults <= hookFaults' /\ hookFaults' \in Nat
    BY <1>2, <1>5
  <1>99. JobStep(j, k, f, h)
    BY <1>1, <1>4, <1>5, <1>9, <1>10, <1>11, <1>12, <1>13, <1>14, <1>15 DEF JobStep
  <1> QED
    BY <1>4, <1>99, JobActs

LEMMA Unaltered ==
    ASSUME HookTypes, NEW f \in Firings, NEW h \in Hooks
    PROVE  /\ why = [why EXCEPT ![f][h] = why[f][h]]
           /\ posts = [posts EXCEPT ![f][h] = posts[f][h]]
           /\ accepted = [accepted EXCEPT ![f][h] = accepted[f][h]]
  BY DEF HookTypes

(* An attempt succeeds, ... *)
LEMMA DeliverSucceeds ==
    ASSUME HookIInv, NEW j \in hookJobs, NEW f, f = j.of, NEW h, h = j.id[1], j.state = "active",
           NEW q \in Nat, q = posts[f][h] + 1, posts' = [posts EXCEPT ![f][h] = q],
           NEW d \in Nat, d = accepted[f][h] + 1, accepted' = [accepted EXCEPT ![f][h] = d],
           Becomes(j, [j EXCEPT !.state = "sent"]),
           UNCHANGED <<hook, firing, addition, loop, ms, hookFaults, why>>
    PROVE  HookIInv'
  <1>1. /\ HookTypes /\ j \in HookJobType /\ f \in Firings /\ h \in Hooks
        /\ j.left \in Nat /\ j.left <= HookAttempts /\ JobPosts(j, hookFaults) \in Int
        /\ j.left >= 1
        /\ posts[f][h] \in Nat /\ accepted[f][h] \in Nat /\ hookFaults \in Nat
    BY JobHas
  <1>3. /\ posts \in [Firings -> [Hooks -> Nat]] /\ accepted \in [Firings -> [Hooks -> Nat]]
        /\ why' \in [Firings -> [Hooks -> SUBSET Reasons]]
    BY <1>1 DEF HookTypes
  <1>4. posts' \in [Firings -> [Hooks -> Nat]] /\ Alter(posts', posts, f, h, q)
    BY <1>1, <1>3, AltersCounts
  <1>5. accepted' \in [Firings -> [Hooks -> Nat]] /\ Alter(accepted', accepted, f, h, d)
    BY <1>1, <1>3, AltersCounts
  <1>6. /\ posts'[f][h] = q /\ q - posts[f][h] = 1 /\ posts[f][h] <= q
        /\ accepted'[f][h] = d /\ accepted[f][h] <= d /\ d >= 1
        /\ hookFaults <= hookFaults' /\ hookFaults' \in Nat
    <2>1. posts'[f][h] = q /\ accepted'[f][h] = d
      BY <1>4, <1>5 DEF Alter
    <2>2. q - posts[f][h] = 1 /\ posts[f][h] <= q /\ accepted[f][h] <= d /\ d >= 1
      BY <1>1
    <2> QED
      BY <1>1, <2>1, <2>2
  <1>7. PICK k : k = [j EXCEPT !.state = "sent"]
    OBVIOUS
  <1>8. /\ k \in HookJobType /\ k.of = j.of /\ k.id = j.id /\ k.state = "sent"
        /\ k.left = j.left
    BY <1>1, <1>7 DEF HookJobType
  <1>9. JobPosts(k, hookFaults) = JobPosts(j, hookFaults) + 1
    BY <1>1, <1>8, HookConstants DEF JobPosts
  <1>10. JobPosts(j, hookFaults) + (posts'[f][h] - posts[f][h]) <= JobPosts(k, hookFaults')
    BY <1>1, <1>6, <1>9
  <1>11. why'[f][h] \cap {"added_too", "stalled", "row_gone"} = {} => accepted'[f][h] <= 1
    <2>1. SUFFICES ASSUME why[f][h] \cap {"added_too", "stalled", "row_gone"} = {}
                   PROVE  d <= 1
      BY <1>6
    <2>2. ~(accepted[f][h] >= 1)
      BY <2>1, JobHas
    <2> QED
      BY <1>1, <2>2
  <1>12. \A g \in Firings, i \in Hooks : g # f \/ i # h =>
            /\ posts'[g][i] = posts[g][i] /\ accepted'[g][i] = accepted[g][i]
            /\ why'[g][i] = why[g][i]
    BY <1>4, <1>5 DEF Alter
  <1>13. JobStep(j, k, f, h)
    BY <1>1, <1>3, <1>4, <1>5, <1>6, <1>7, <1>8, <1>10, <1>11, <1>12 DEF JobStep
  <1> QED
    BY <1>8, <1>13, JobActs

(* ... or fails, with a POST or before it. *)
LEMMA DeliverFails ==
    ASSUME HookIInv, NEW j \in hookJobs, NEW f, f = j.of, NEW h, h = j.id[1], j.state = "active",
           NEW q \in Nat, q \in {posts[f][h], posts[f][h] + 1}, posts' = [posts EXCEPT ![f][h] = q],
           NEW m, m = j.left - 1, NEW s, s = IF j.left > 1 THEN "waiting" ELSE "failed",
           Becomes(j, [j EXCEPT !.left = m, !.state = s]),
           UNCHANGED <<hook, firing, addition, loop, ms, hookFaults, accepted, why>>
    PROVE  HookIInv'
  <1>1. /\ HookTypes /\ j \in HookJobType /\ f \in Firings /\ h \in Hooks
        /\ j.left \in Nat /\ j.left <= HookAttempts /\ JobPosts(j, hookFaults) \in Int
        /\ j.left >= 1
        /\ posts[f][h] \in Nat /\ accepted[f][h] \in Nat /\ hookFaults \in Nat
    BY JobHas
  <1>2. /\ posts \in [Firings -> [Hooks -> Nat]]
        /\ accepted' \in [Firings -> [Hooks -> Nat]]
        /\ why' \in [Firings -> [Hooks -> SUBSET Reasons]]
    BY <1>1 DEF HookTypes
  <1>4. posts' \in [Firings -> [Hooks -> Nat]] /\ Alter(posts', posts, f, h, q)
    BY <1>1, <1>2, AltersCounts
  <1>5. /\ posts'[f][h] = q /\ q - posts[f][h] <= 1 /\ posts[f][h] <= q
        /\ accepted[f][h] <= accepted'[f][h]
        /\ hookFaults <= hookFaults' /\ hookFaults' \in Nat
    BY <1>1, <1>4 DEF Alter
  <1>6. m \in 0 .. HookAttempts
    BY <1>1, HookConstants
  <1>7. s \in {"waiting", "failed"}
    OBVIOUS
  <1>8. PICK k : k = [j EXCEPT !.left = m, !.state = s]
    OBVIOUS
  <1>9. k \in HookJobType /\ k.of = j.of /\ k.id = j.id /\ k.state = s /\ k.left = m
    BY <1>1, <1>6, <1>7, <1>8 DEF HookJobType
  <1>10. Becomes(j, k)
    BY <1>8
  <1>11. JobPosts(k, hookFaults) = JobPosts(j, hookFaults) + 1
    <2>1. k.state \notin {"sent", "completed"} /\ j.state \notin {"sent", "completed"}
      BY <1>9
    <2> QED
      BY <1>1, <1>6, <1>9, <2>1, HookConstants DEF JobPosts
  <1>12. JobPosts(j, hookFaults) + (posts'[f][h] - posts[f][h]) <= JobPosts(k, hookFaults')
    BY <1>1, <1>5, <1>11
  <1>13. why'[f][h] \cap {"added_too", "stalled", "row_gone"} = {} =>
            accepted'[f][h] <= 1 /\ ~(accepted'[f][h] >= 1)
    BY <1>1, JobHas
  <1>14. \A g \in Firings, i \in Hooks : g # f \/ i # h =>
            /\ posts'[g][i] = posts[g][i] /\ accepted'[g][i] = accepted[g][i]
            /\ why'[g][i] = why[g][i]
    BY <1>4 DEF Alter
  <1>15. /\ k.state # "failed" => k.left >= 1
         /\ k.state = "failed" => k.left = 0
    BY <1>1, <1>6, <1>7, <1>9
  <1>16. why'[f][h] = why[f][h]
    OBVIOUS
  <1>17. JobStep(j, k, f, h)
    BY <1>1, <1>2, <1>4, <1>5, <1>9, <1>10, <1>12, <1>13, <1>14, <1>15, <1>16 DEF JobStep
  <1> QED
    BY <1>9, <1>17, JobActs

LEMMA DeliverKeeps ==
    ASSUME HookIInv, NEW j \in hookJobs, Deliver(j) PROVE HookIInv'
  <1>1. PICK f, h : f = j.of /\ h = j.id[1]
    OBVIOUS
  <1>2. j.state = "active" /\ UNCHANGED <<hook, firing, addition, loop, ms, hookFaults, why>>
    BY DEF Deliver
  <1>3. PICK q, d : q = posts[f][h] + 1 /\ d = accepted[f][h] + 1
    OBVIOUS
  <1>4. q \in Nat /\ d \in Nat
    BY <1>1, <1>3, JobHas
  <1>5. ASSUME posts' = [posts EXCEPT ![f][h] = q], accepted' = [accepted EXCEPT ![f][h] = d],
               Becomes(j, [j EXCEPT !.state = "sent"])
        PROVE  HookIInv'
    BY <1>1, <1>2, <1>3, <1>4, <1>5, DeliverSucceeds
  <1>6. PICK m, s : m = j.left - 1 /\ s = IF j.left > 1 THEN "waiting" ELSE "failed"
    OBVIOUS
  <1>7. ASSUME posts' = [posts EXCEPT ![f][h] = q] \/ UNCHANGED posts, UNCHANGED accepted,
               Becomes(j, [j EXCEPT !.left = m, !.state = s])
        PROVE  HookIInv'
    <2>1. PICK p : p = posts[f][h]
      OBVIOUS
    <2>2. p \in Nat /\ posts = [posts EXCEPT ![f][h] = p]
      BY <1>1, <2>1, JobHas, Unaltered
    <2>3. CASE posts' = [posts EXCEPT ![f][h] = q]
      BY <1>1, <1>2, <1>3, <1>4, <1>6, <1>7, <2>3, DeliverFails
    <2>4. CASE UNCHANGED posts
      <3>1. posts' = [posts EXCEPT ![f][h] = p] /\ p \in {posts[f][h], posts[f][h] + 1}
        BY <2>1, <2>2, <2>4
      <3> QED
        BY <1>1, <1>2, <1>6, <1>7, <2>2, <3>1, DeliverFails
    <2> QED
      BY <1>7, <2>3, <2>4
  <1> QED
    BY <1>1, <1>3, <1>5, <1>6, <1>7 DEF Deliver

-----------------------------------------------------------------------------
(* A step of the promise to deliver f to h. *)
LEMMA PromiseActs ==
    ASSUME HookIInv, NEW f \in Firings, NEW h \in Hooks, NEW k \in LoopType,
           NEW v \in SUBSET Reasons, NEW q \in Nat, NEW d \in Nat,
           loop' = [loop EXCEPT ![f][h] = k], why' = [why EXCEPT ![f][h] = v],
           posts' = [posts EXCEPT ![f][h] = q], accepted' = [accepted EXCEPT ![f][h] = d],
           UNCHANGED <<hook, firing, addition, hookJobs, ms, hookFaults>>,
           Sound(firing[f].pc, h, firing[f].matched, addition[f][h], k, v, q, d,
                 JobsOf(f, h), hookFaults)
    PROVE  HookIInv'
  <1>1. /\ HookTypes /\ loop \in [Firings -> [Hooks -> LoopType]]
        /\ why \in [Firings -> [Hooks -> SUBSET Reasons]]
        /\ posts \in [Firings -> [Hooks -> Nat]] /\ accepted \in [Firings -> [Hooks -> Nat]]
    BY DEF HookIInv, HookTypes
  <1>2. loop' \in [Firings -> [Hooks -> LoopType]] /\ Alter(loop', loop, f, h, k)
    BY <1>1, AltersLoops
  <1>3. why' \in [Firings -> [Hooks -> SUBSET Reasons]] /\ Alter(why', why, f, h, v)
    BY <1>1, AltersReasons
  <1>4. posts' \in [Firings -> [Hooks -> Nat]] /\ Alter(posts', posts, f, h, q)
    BY <1>1, AltersCounts
  <1>5. accepted' \in [Firings -> [Hooks -> Nat]] /\ Alter(accepted', accepted, f, h, d)
    BY <1>1, AltersCounts
  <1>6. HookTypes' /\ hookFaults <= hookFaults'
    BY <1>1, <1>2, <1>3, <1>4, <1>5 DEF HookTypes
  <1>7. \A g \in Firings, i \in Hooks : JobsOf(g, i)' = JobsOf(g, i)
    BY JobsStay
  <1>8. \A g \in Firings, i \in Hooks : g # f \/ i # h => Same(g, i)
    BY <1>2, <1>3, <1>4, <1>5, <1>7 DEF Alter, Same
  <1>9. PairSound(f, h)'
    BY <1>2, <1>3, <1>4, <1>5, <1>7 DEF Alter, PairSound
  <1> QED
    BY <1>6, <1>8, <1>9, OnePair

(* The next state of a promise. *)
LEMMA GoesOnTo ==
    ASSUME HookTypes, NEW f \in Firings, NEW h \in Hooks, NEW to \in {"noted", "blocked", "done"},
           loop' = [loop EXCEPT ![f][h].pc = to]
    PROVE  \E k \in LoopType : /\ loop' = [loop EXCEPT ![f][h] = k]
                               /\ k.pc = to /\ k.try = loop[f][h].try
  <1>1. loop \in [Firings -> [Hooks -> LoopType]]
    BY DEF HookTypes
  <1>2. PICK l \in LoopType : l = loop[f][h]
    BY <1>1
  <1>3. PICK k : k = [l EXCEPT !.pc = to]
    OBVIOUS
  <1>4. k \in LoopType /\ k.pc = to /\ k.try = l.try
    BY <1>3 DEF LoopType
  <1>5. loop' = [loop EXCEPT ![f][h] = k]
    BY <1>1, <1>2, <1>3
  <1> QED
    BY <1>2, <1>4, <1>5

LEMMA TriesAgain ==
    ASSUME HookTypes, NEW f \in Firings, NEW h \in Hooks, Again(f, h)
    PROVE  \E k : loop' = [loop EXCEPT ![f][h] = k] /\ IsNext(k, loop[f][h])
  <1>1. loop \in [Firings -> [Hooks -> LoopType]]
    BY DEF HookTypes
  <1>2. PICK l \in LoopType : l = loop[f][h]
    BY <1>1
  <1>3. l.try \in Nat /\ l.try <= Tries
    BY <1>2, LoopFacts
  <1>4. PICK k : k = IF l.try < Tries THEN [pc |-> "post", try |-> l.try + 1]
                     ELSE [pc |-> "give_up", try |-> l.try]
    OBVIOUS
  <1>5. loop' = [loop EXCEPT ![f][h] = k]
    BY <1>1, <1>2, <1>4 DEF Again
  <1>6. IsNext(k, l)
    <2>1. CASE l.try < Tries
      <3>1. l.try + 1 \in 0 .. Tries
        BY <1>3, <2>1, HookConstants
      <3> QED
        BY <1>4, <2>1, <3>1 DEF IsNext, LoopType
    <2>2. CASE ~(l.try < Tries)
      BY <1>3, <1>4, <2>2, HookConstants DEF IsNext, LoopType
    <2> QED
      BY <2>1, <2>2
  <1> QED
    BY <1>2, <1>5, <1>6

LEMMA PostKeeps ==
    ASSUME HookIInv, NEW f \in Firings, NEW h \in Hooks, Post(f, h)
    PROVE  HookIInv'
  <1>1. PICK pc, M, a, l, w, p, c, J, n :
           /\ pc = firing[f].pc /\ M = firing[f].matched /\ a = addition[f][h]
           /\ l = loop[f][h] /\ w = why[f][h] /\ p = posts[f][h] /\ c = accepted[f][h]
           /\ J = JobsOf(f, h) /\ n = hookFaults
    OBVIOUS
  <1>2. /\ HookTypes /\ Sound(pc, h, M, a, l, w, p, c, J, n)
        /\ l \in LoopType /\ w \in SUBSET Reasons /\ p \in Nat /\ c \in Nat /\ n \in Nat
        /\ J \in SUBSET HookJobType
    BY <1>1, PairFacts
  <1>0. PICK q \in Nat, d \in Nat : q = p + 1 /\ d = c + 1
    BY <1>2
  <1>3. /\ l.pc = "post" /\ why' = [why EXCEPT ![f][h] = w]
        /\ UNCHANGED <<hook, firing, addition, hookJobs, ms, hookFaults>>
    BY <1>1, <1>2, Unaltered DEF Post
  <1>4. ASSUME posts' = [posts EXCEPT ![f][h] = p + 1],
               accepted' = [accepted EXCEPT ![f][h] = c + 1],
               loop' = [loop EXCEPT ![f][h].pc = "noted"]
        PROVE  HookIInv'
    <2>0. \E k \in LoopType : /\ loop' = [loop EXCEPT ![f][h] = k]
                              /\ k.pc = "noted" /\ k.try = loop[f][h].try
      <3>1. "noted" \in {"noted", "blocked", "done"}
        OBVIOUS
      <3> QED
        BY <1>2, <1>4, <3>1, GoesOnTo
    <2>1. PICK k \in LoopType : /\ loop' = [loop EXCEPT ![f][h] = k]
                                /\ k.pc = "noted" /\ k.try = l.try
      BY <1>1, <2>0
    <2>2. Sound(pc, h, M, a, k, w, q, d, J, n)
      BY <1>0, <1>2, <1>3, <2>1, PostIsAccepted
    <2> QED
      BY <1>0, <1>1, <1>2, <1>3, <1>4, <2>1, <2>2, PromiseActs
  <1>5. ASSUME posts' = [posts EXCEPT ![f][h] = p + 1], Again(f, h), UNCHANGED accepted
        PROVE  HookIInv'
    <2>1. PICK k : loop' = [loop EXCEPT ![f][h] = k] /\ IsNext(k, l)
      BY <1>1, <1>2, <1>5, TriesAgain
    <2>2. Sound(pc, h, M, a, k, w, q, c, J, n) /\ k \in LoopType
      BY <1>0, <1>2, <1>3, <2>1, PostFails DEF IsNext
    <2>3. accepted' = [accepted EXCEPT ![f][h] = c]
      <3>1. accepted = [accepted EXCEPT ![f][h] = accepted[f][h]]
        BY <1>2, Unaltered
      <3> QED
        BY <1>1, <1>5, <3>1
    <2> QED
      <3>1. /\ posts' = [posts EXCEPT ![f][h] = q] /\ loop' = [loop EXCEPT ![f][h] = k]
            /\ Sound(firing[f].pc, h, firing[f].matched, addition[f][h], k, w, q, c,
                     JobsOf(f, h), hookFaults)
        BY <1>0, <1>1, <1>5, <2>1, <2>2
      <3> QED
        BY <1>2, <1>3, <2>2, <2>3, <3>1, PromiseActs
  <1>6. ASSUME loop' = [loop EXCEPT ![f][h].pc = "blocked"], UNCHANGED <<posts, accepted>>
        PROVE  HookIInv'
    <2>0. \E k \in LoopType : /\ loop' = [loop EXCEPT ![f][h] = k]
                              /\ k.pc = "blocked" /\ k.try = loop[f][h].try
      <3>1. "blocked" \in {"noted", "blocked", "done"}
        OBVIOUS
      <3> QED
        BY <1>2, <1>6, <3>1, GoesOnTo
    <2>1. PICK k \in LoopType : /\ loop' = [loop EXCEPT ![f][h] = k]
                                /\ k.pc = "blocked" /\ k.try = l.try
      BY <1>1, <2>0
    <2>2. Sound(pc, h, M, a, k, w, p, c, J, n)
      BY <1>2, <1>3, <2>1, GuardStops
    <2>3. posts' = [posts EXCEPT ![f][h] = p] /\ accepted' = [accepted EXCEPT ![f][h] = c]
      BY <1>1, <1>2, <1>6, Unaltered
    <2> QED
      BY <1>1, <1>2, <1>3, <2>1, <2>2, <2>3, PromiseActs
  <1> QED
    BY <1>1, <1>4, <1>5, <1>6 DEF Post

(* The outcome cannot be noted. *)
LEMMA RowIsMissingKeeps ==
    ASSUME HookIInv, NEW f \in Firings, NEW h \in Hooks, RowIsMissing(f, h),
           loop[f][h].pc \in {"noted", "blocked"},
           UNCHANGED <<hook, firing, addition, hookJobs, ms, hookFaults, posts, accepted>>
    PROVE  HookIInv'
  <1>1. PICK pc, M, a, l, w, p, c, J, n :
           /\ pc = firing[f].pc /\ M = firing[f].matched /\ a = addition[f][h]
           /\ l = loop[f][h] /\ w = why[f][h] /\ p = posts[f][h] /\ c = accepted[f][h]
           /\ J = JobsOf(f, h) /\ n = hookFaults
    OBVIOUS
  <1>2. /\ HookTypes /\ Sound(pc, h, M, a, l, w, p, c, J, n)
        /\ l \in LoopType /\ w \in SUBSET Reasons /\ p \in Nat /\ c \in Nat /\ n \in Nat
        /\ J \in SUBSET HookJobType
    BY <1>1, PairFacts
  <1>3. /\ l.pc \in {"noted", "blocked"} /\ posts' = [posts EXCEPT ![f][h] = p]
        /\ accepted' = [accepted EXCEPT ![f][h] = c]
    BY <1>1, <1>2, Unaltered
  <1>4. PICK k : loop' = [loop EXCEPT ![f][h] = k] /\ IsNext(k, l)
    BY <1>1, <1>2, TriesAgain DEF RowIsMissing
  <1>5. PICK v : v = w \cup {"row_gone"}
    OBVIOUS
  <1>6. v \in SUBSET Reasons /\ k \in LoopType
    BY <1>2, <1>4, <1>5 DEF Reasons, IsNext
  <1>7. Sound(pc, h, M, a, k, v, p, c, J, n)
    BY <1>2, <1>3, <1>4, <1>5, RowIsGone
  <1>8. why' = [why EXCEPT ![f][h] = v]
    BY <1>1, <1>5 DEF RowIsMissing
  <1>9. /\ loop' = [loop EXCEPT ![f][h] = k] /\ p \in Nat /\ c \in Nat
        /\ Sound(firing[f].pc, h, firing[f].matched, addition[f][h], k, v, p, c,
                 JobsOf(f, h), hookFaults)
    BY <1>1, <1>2, <1>4, <1>7
  <1> QED
    BY <1>3, <1>6, <1>8, <1>9, PromiseActs

LEMMA NoteAcceptedKeeps ==
    ASSUME HookIInv, NEW f \in Firings, NEW h \in Hooks, NoteAccepted(f, h)
    PROVE  HookIInv'
  <1>1. PICK pc, M, a, l, w, p, c, J, n :
           /\ pc = firing[f].pc /\ M = firing[f].matched /\ a = addition[f][h]
           /\ l = loop[f][h] /\ w = why[f][h] /\ p = posts[f][h] /\ c = accepted[f][h]
           /\ J = JobsOf(f, h) /\ n = hookFaults
    OBVIOUS
  <1>2. /\ HookTypes /\ Sound(pc, h, M, a, l, w, p, c, J, n)
        /\ l \in LoopType /\ w \in SUBSET Reasons /\ p \in Nat /\ c \in Nat /\ n \in Nat
        /\ J \in SUBSET HookJobType
    BY <1>1, PairFacts
  <1>3. /\ l.pc = "noted" /\ posts' = [posts EXCEPT ![f][h] = p]
        /\ accepted' = [accepted EXCEPT ![f][h] = c]
        /\ UNCHANGED <<hook, firing, addition, hookJobs, ms, hookFaults>>
    BY <1>1, <1>2, Unaltered DEF NoteAccepted
  <1>4. ASSUME loop' = [loop EXCEPT ![f][h].pc = "done"], UNCHANGED why PROVE HookIInv'
    <2>0. \E k \in LoopType : /\ loop' = [loop EXCEPT ![f][h] = k]
                              /\ k.pc = "done" /\ k.try = loop[f][h].try
      <3>1. "done" \in {"noted", "blocked", "done"}
        OBVIOUS
      <3> QED
        BY <1>2, <1>4, <3>1, GoesOnTo
    <2>1. PICK k \in LoopType : /\ loop' = [loop EXCEPT ![f][h] = k]
                                /\ k.pc = "done" /\ k.try = l.try
      BY <1>1, <2>0
    <2>2. Sound(pc, h, M, a, k, w, p, c, J, n)
      BY <1>2, <1>3, <2>1, PromiseEnds
    <2>3. why' = [why EXCEPT ![f][h] = w]
      BY <1>1, <1>2, <1>4, Unaltered
    <2> QED
      BY <1>1, <1>2, <1>3, <2>1, <2>2, <2>3, PromiseActs
  <1>5. ASSUME RowIsMissing(f, h) PROVE HookIInv'
    <2>1. loop[f][h].pc \in {"noted", "blocked"} /\ UNCHANGED <<posts, accepted>>
      BY DEF NoteAccepted
    <2> QED
      BY <1>3, <1>5, <2>1, RowIsMissingKeeps
  <1> QED
    BY <1>4, <1>5 DEF NoteAccepted

LEMMA NoteBlockedKeeps ==
    ASSUME HookIInv, NEW f \in Firings, NEW h \in Hooks, NoteBlocked(f, h)
    PROVE  HookIInv'
  <1>1. PICK pc, M, a, l, w, p, c, J, n :
           /\ pc = firing[f].pc /\ M = firing[f].matched /\ a = addition[f][h]
           /\ l = loop[f][h] /\ w = why[f][h] /\ p = posts[f][h] /\ c = accepted[f][h]
           /\ J = JobsOf(f, h) /\ n = hookFaults
    OBVIOUS
  <1>2. /\ HookTypes /\ Sound(pc, h, M, a, l, w, p, c, J, n)
        /\ l \in LoopType /\ w \in SUBSET Reasons /\ p \in Nat /\ c \in Nat /\ n \in Nat
        /\ J \in SUBSET HookJobType
    BY <1>1, PairFacts
  <1>3. /\ l.pc = "blocked" /\ posts' = [posts EXCEPT ![f][h] = p]
        /\ accepted' = [accepted EXCEPT ![f][h] = c]
        /\ UNCHANGED <<hook, firing, addition, hookJobs, ms, hookFaults>>
    BY <1>1, <1>2, Unaltered DEF NoteBlocked
  <1>4. ASSUME loop' = [loop EXCEPT ![f][h].pc = "done"],
               why' = [why EXCEPT ![f][h] = w \cup {"blocked"}]
        PROVE  HookIInv'
    <2>0. \E k \in LoopType : /\ loop' = [loop EXCEPT ![f][h] = k]
                              /\ k.pc = "done" /\ k.try = loop[f][h].try
      <3>1. "done" \in {"noted", "blocked", "done"}
        OBVIOUS
      <3> QED
        BY <1>2, <1>4, <3>1, GoesOnTo
    <2>1. PICK k \in LoopType : /\ loop' = [loop EXCEPT ![f][h] = k]
                                /\ k.pc = "done" /\ k.try = l.try
      BY <1>1, <2>0
    <2>2. PICK v : v = w \cup {"blocked"}
      OBVIOUS
    <2>3. v \in SUBSET Reasons
      BY <1>2, <2>2 DEF Reasons
    <2>4. Sound(pc, h, M, a, k, v, p, c, J, n)
      BY <1>2, <1>3, <2>1, <2>2, BlockedEnds
    <2> QED
      BY <1>1, <1>2, <1>3, <1>4, <2>1, <2>2, <2>3, <2>4, PromiseActs
  <1>5. ASSUME RowIsMissing(f, h) PROVE HookIInv'
    <2>1. loop[f][h].pc \in {"noted", "blocked"} /\ UNCHANGED <<posts, accepted>>
      BY DEF NoteBlocked
    <2> QED
      BY <1>3, <1>5, <2>1, RowIsMissingKeeps
  <1> QED
    BY <1>1, <1>4, <1>5 DEF NoteBlocked

-----------------------------------------------------------------------------
(* Deliveries in the handler begin. *)
LEMMA LoopsStart ==
    ASSUME HookTypes, NEW f \in Firings, NEW O \in SUBSET Hooks, StartLoops(f, O)
    PROVE  /\ loop' \in [Firings -> [Hooks -> LoopType]]
           /\ \A g \in Firings \ {f} : loop'[g] = loop[g]
           /\ \A h \in Hooks : loop'[f][h] = IF h \in O THEN [pc |-> "post", try |-> 1]
                                             ELSE loop[f][h]
  <1>1. loop \in [Firings -> [Hooks -> LoopType]]
    BY DEF HookTypes
  <1>2. PICK t : t = [h \in Hooks |-> IF h \in O THEN [pc |-> "post", try |-> 1] ELSE loop[f][h]]
    OBVIOUS
  <1>3. [pc |-> "post", try |-> 1] \in LoopType
    BY HookConstants DEF LoopType
  <1>4. /\ t \in [Hooks -> LoopType]
        /\ \A h \in Hooks : t[h] = IF h \in O THEN [pc |-> "post", try |-> 1] ELSE loop[f][h]
    BY <1>1, <1>2, <1>3
  <1>5. loop' = [loop EXCEPT ![f] = t]
    BY <1>2 DEF StartLoops
  <1> QED
    BY <1>1, <1>4, <1>5

LEMMA FireKeeps ==
    ASSUME HookIInv, NEW f \in Firings, Fire(f)
    PROVE  HookIInv'
  <1>1. HookTypes /\ firing[f].pc = "idle"
    BY DEF HookIInv, Fire
  <1>2. /\ firing \in [Firings -> [pc : FiringPcs, matched : SUBSET Hooks]]
        /\ addition \in [Firings -> [Hooks -> Additions]]
        /\ loop \in [Firings -> [Hooks -> LoopType]]
    BY <1>1 DEF HookTypes
  <1>3. /\ UNCHANGED <<hook, hookJobs, ms, hookFaults, posts, accepted, why>>
        /\ hookFaults <= hookFaults'
        /\ \A g \in Firings, i \in Hooks : JobsOf(g, i)' = JobsOf(g, i)
    BY <1>1, JobsStay DEF Fire, HookTypes
  <1>4. PICK O \in SUBSET Hooks : O = {h \in Hooks : hook[h] = "enabled"}
    OBVIOUS
  <1>5. ASSUME firing' = [firing EXCEPT ![f] = [pc |-> "adding", matched |-> O]],
               addition' = [addition EXCEPT ![f] =
                              [h \in Hooks |-> IF h \in O THEN "adding" ELSE "none"]],
               UNCHANGED loop
        PROVE  HookIInv'
    <2>1. PICK r : r = [pc |-> "adding", matched |-> O]
      OBVIOUS
    <2>2. r \in [pc : FiringPcs, matched : SUBSET Hooks] /\ r.pc = "adding" /\ r.matched = O
      BY <2>1 DEF FiringPcs
    <2>3. firing' \in [Firings -> [pc : FiringPcs, matched : SUBSET Hooks]]
          /\ \A g \in Firings : firing'[g] = IF g = f THEN r ELSE firing[g]
      BY <1>2, <1>5, <2>1, <2>2
    <2>4. PICK t : t = [h \in Hooks |-> IF h \in O THEN "adding" ELSE "none"]
      OBVIOUS
    <2>5. t \in [Hooks -> Additions] /\ \A h \in Hooks : t[h] = IF h \in O THEN "adding" ELSE "none"
      BY <2>4 DEF Additions
    <2>6. addition' \in [Firings -> [Hooks -> Additions]]
          /\ \A g \in Firings : addition'[g] = IF g = f THEN t ELSE addition[g]
      BY <1>2, <1>5, <2>4, <2>5
    <2>7. HookTypes'
      BY <1>1, <1>2, <1>3, <1>5, <2>3, <2>6 DEF HookTypes
    <2>8. \A g \in Firings \ {f}, i \in Hooks : Same(g, i)
      BY <1>3, <1>5, <2>3, <2>6 DEF Same
    <2>9. ASSUME NEW h \in Hooks PROVE PairSound(f, h)'
      <3>1. PICK M, a, l, w, p, c, J, n, b :
               /\ M = firing[f].matched /\ a = addition[f][h]
               /\ l = loop[f][h] /\ w = why[f][h] /\ p = posts[f][h] /\ c = accepted[f][h]
               /\ J = JobsOf(f, h) /\ n = hookFaults /\ b = t[h]
        OBVIOUS
      <3>2. /\ Sound("idle", h, M, a, l, w, p, c, J, n)
            /\ l \in LoopType /\ w \in SUBSET Reasons /\ p \in Nat /\ c \in Nat /\ n \in Nat
            /\ J \in SUBSET HookJobType
        BY <1>1, <3>1, PairFacts
      <3>3. b = IF h \in O THEN "adding" ELSE "none"
        BY <2>5, <3>1
      <3>4. Sound("adding", h, O, b, l, w, p, c, J, n)
        BY <3>2, <3>3, FireAdds
      <3> QED
        BY <1>3, <1>5, <2>2, <2>3, <2>6, <3>1, <3>4 DEF PairSound
    <2> QED
      BY <1>3, <2>7, <2>8, <2>9, OneFiring
  <1>6. ASSUME firing' = [firing EXCEPT ![f] = [pc |-> "delivering", matched |-> O]],
               StartLoops(f, O), UNCHANGED addition
        PROVE  HookIInv'
    <2>1. PICK r : r = [pc |-> "delivering", matched |-> O]
      OBVIOUS
    <2>2. r \in [pc : FiringPcs, matched : SUBSET Hooks] /\ r.pc = "delivering" /\ r.matched = O
      BY <2>1 DEF FiringPcs
    <2>3. firing' \in [Firings -> [pc : FiringPcs, matched : SUBSET Hooks]]
          /\ \A g \in Firings : firing'[g] = IF g = f THEN r ELSE firing[g]
      BY <1>2, <1>6, <2>1, <2>2
    <2>6. /\ loop' \in [Firings -> [Hooks -> LoopType]]
          /\ \A g \in Firings \ {f} : loop'[g] = loop[g]
          /\ \A h \in Hooks : loop'[f][h] = IF h \in O THEN [pc |-> "post", try |-> 1]
                                            ELSE loop[f][h]
      BY <1>1, <1>6, LoopsStart
    <2>7. HookTypes'
      BY <1>1, <1>2, <1>3, <1>6, <2>3, <2>6 DEF HookTypes
    <2>8. \A g \in Firings \ {f}, i \in Hooks : Same(g, i)
      BY <1>3, <1>6, <2>3, <2>6 DEF Same
    <2>9. ASSUME NEW h \in Hooks PROVE PairSound(f, h)'
      <3>1. PICK M, a, l, w, p, c, J, n, k :
               /\ M = firing[f].matched /\ a = addition[f][h]
               /\ l = loop[f][h] /\ w = why[f][h] /\ p = posts[f][h] /\ c = accepted[f][h]
               /\ J = JobsOf(f, h) /\ n = hookFaults /\ k = loop'[f][h]
        OBVIOUS
      <3>2. /\ Sound("idle", h, M, a, l, w, p, c, J, n)
            /\ l \in LoopType /\ w \in SUBSET Reasons /\ p \in Nat /\ c \in Nat /\ n \in Nat
            /\ J \in SUBSET HookJobType
        BY <1>1, <3>1, PairFacts
      <3>3. k = IF h \in O THEN [pc |-> "post", try |-> 1] ELSE l
        BY <2>6, <3>1
      <3>4. Sound("delivering", h, O, a, k, w, p, c, J, n)
        BY <3>2, <3>3, FireDelivers
      <3> QED
        BY <1>3, <1>6, <2>2, <2>3, <2>6, <3>1, <3>4 DEF PairSound
    <2> QED
      BY <1>3, <2>7, <2>8, <2>9, OneFiring
  <1> QED
    BY <1>4, <1>5, <1>6 DEF Fire

LEMMA AddKeeps ==
    ASSUME HookIInv, NEW f \in Firings, NEW h \in Hooks, Add(f, h)
    PROVE  HookIInv'
  <1>1. PICK pc, M, l, w, p, c, J, n :
           /\ pc = firing[f].pc /\ M = firing[f].matched
           /\ l = loop[f][h] /\ w = why[f][h] /\ p = posts[f][h] /\ c = accepted[f][h]
           /\ J = JobsOf(f, h) /\ n = hookFaults
    OBVIOUS
  <1>2. /\ HookTypes /\ Sound(pc, h, M, "adding", l, w, p, c, J, n)
        /\ l \in LoopType /\ w \in SUBSET Reasons /\ p \in Nat /\ c \in Nat /\ n \in Nat
        /\ J \in SUBSET HookJobType
    BY <1>1, PairFacts DEF Add
  <1>3. /\ addition \in [Firings -> [Hooks -> Additions]] /\ "added" \in Additions
        /\ why \in [Firings -> [Hooks -> SUBSET Reasons]] /\ ms \in Nat
    BY <1>2 DEF HookTypes, Additions
  <1>4. /\ UNCHANGED <<hook, firing, loop, ms, hookFaults, posts, accepted>>
        /\ addition' = [addition EXCEPT ![f][h] = "added"] /\ hookFaults <= hookFaults'
    BY <1>2 DEF Add, HookTypes
  <1>5. /\ addition' \in [Firings -> [Hooks -> Additions]]
        /\ Alter(addition', addition, f, h, "added")
    BY <1>3, <1>4, AltersAdditions
  <1>6. ASSUME NEW v \in SUBSET Reasons, why' = [why EXCEPT ![f][h] = v],
               NEW K, JobsOf(f, h)' = K, hookJobs' \subseteq HookJobType,
               \A g \in Firings, i \in Hooks : g # f \/ i # h => JobsOf(g, i)' = JobsOf(g, i),
               Sound(pc, h, M, "added", l, v, p, c, K, n)
        PROVE  HookIInv'
    <2>1. why' \in [Firings -> [Hooks -> SUBSET Reasons]] /\ Alter(why', why, f, h, v)
      BY <1>3, <1>6, AltersReasons
    <2>2. HookTypes'
      BY <1>2, <1>4, <1>5, <1>6, <2>1 DEF HookTypes
    <2>3. \A g \in Firings, i \in Hooks : g # f \/ i # h => Same(g, i)
      BY <1>4, <1>5, <1>6, <2>1 DEF Same, Alter
    <2>4. PairSound(f, h)'
      BY <1>1, <1>4, <1>5, <1>6, <2>1 DEF PairSound, Alter
    <2> QED
      BY <1>4, <2>2, <2>3, <2>4, OnePair
  <1>7. ASSUME hookJobs' = hookJobs \cup {[id |-> <<h, ms>>, of |-> f, left |-> HookAttempts,
                                          state |-> "waiting"]},
               why' = IF firing[f].pc = "adding" THEN why
                      ELSE [why EXCEPT ![f][h] = w \cup {"added_too"}]
        PROVE  HookIInv'
    <2>1. PICK k : k = [id |-> <<h, ms>>, of |-> f, left |-> HookAttempts, state |-> "waiting"]
      OBVIOUS
    <2>2. /\ k \in HookJobType /\ k.of = f /\ k.id[1] = h /\ k.left = HookAttempts
          /\ k.state = "waiting"
      BY <1>3, <2>1, HookConstants DEF HookJobType
    <2>3. J = {}
      BY <1>2 DEF Sound, Progress
    <2>4. JobsOf(f, h)' = {k}
      BY <1>1, <1>7, <2>1, <2>2, <2>3 DEF JobsOf
    <2>5. \A g \in Firings, i \in Hooks : g # f \/ i # h => JobsOf(g, i)' = JobsOf(g, i)
      BY <1>7, <2>1, <2>2 DEF JobsOf
    <2>6. hookJobs' \subseteq HookJobType
      BY <1>2, <1>7, <2>1, <2>2 DEF HookTypes
    <2>7. PICK v : v = IF pc = "adding" THEN w ELSE w \cup {"added_too"}
      OBVIOUS
    <2>8. v \in SUBSET Reasons
      BY <1>2, <2>7 DEF Reasons
    <2>9. why' = [why EXCEPT ![f][h] = v]
      BY <1>1, <1>2, <1>7, <2>7, Unaltered
    <2>10. Sound(pc, h, M, "added", l, v, p, c, {k}, n)
      BY <1>2, <2>2, <2>7, Added
    <2> QED
      BY <1>6, <2>4, <2>5, <2>6, <2>8, <2>9, <2>10
  <1>8. ASSUME why' = [why EXCEPT ![f][h] = w \cup {"same_id"}], UNCHANGED hookJobs
        PROVE  HookIInv'
    <2>1. PICK v : v = w \cup {"same_id"}
      OBVIOUS
    <2>2. v \in SUBSET Reasons
      BY <1>2, <2>1 DEF Reasons
    <2>3. Sound(pc, h, M, "added", l, v, p, c, J, n)
      BY <1>2, <2>1, AddIgnored
    <2>4. \A g \in Firings, i \in Hooks : JobsOf(g, i)' = JobsOf(g, i)
      BY <1>8, JobsStay
    <2>5. hookJobs' \subseteq HookJobType /\ JobsOf(f, h)' = J
      BY <1>1, <1>2, <1>8, <2>4 DEF HookTypes
    <2> QED
      BY <1>6, <1>8, <2>1, <2>2, <2>3, <2>4, <2>5
  <1> QED
    BY <1>1, <1>7, <1>8 DEF Add

LEMMA AddFailsKeeps ==
    ASSUME HookIInv, NEW f \in Firings, NEW h \in Hooks, AddFails(f, h)
    PROVE  HookIInv'
  <1>1. /\ HookTypes /\ addition[f][h] = "adding"
        /\ addition' = [addition EXCEPT ![f][h] = "failed"]
        /\ UNCHANGED <<hook, hookJobs, ms, hookFaults, posts, accepted>>
    BY DEF HookIInv, AddFails
  <1>2. /\ addition \in [Firings -> [Hooks -> Additions]] /\ "failed" \in Additions
        /\ why \in [Firings -> [Hooks -> SUBSET Reasons]]
        /\ hookFaults <= hookFaults' /\ firing[f].matched \in SUBSET Hooks
    BY <1>1 DEF HookTypes, Additions
  <1>3. /\ addition' \in [Firings -> [Hooks -> Additions]]
        /\ Alter(addition', addition, f, h, "failed")
    BY <1>1, <1>2, AltersAdditions
  <1>4. \A g \in Firings, i \in Hooks : JobsOf(g, i)' = JobsOf(g, i)
    BY <1>1, JobsStay
  <1>5. ASSUME firing[f].pc = "adding", FallBack(f, h) PROVE HookIInv'
    <2>1. /\ firing' \in [Firings -> [pc : FiringPcs, matched : SUBSET Hooks]]
          /\ firing'[f].pc = "delivering" /\ firing'[f].matched = firing[f].matched
          /\ \A g \in Firings \ {f} : firing'[g] = firing[g]
      <3>1. "delivering" \in FiringPcs /\ Goto(f, "delivering")
        BY <1>5 DEF FiringPcs, FallBack
      <3> QED
        BY <1>1, <3>1, Goes
    <2>2. /\ loop' \in [Firings -> [Hooks -> LoopType]]
          /\ \A g \in Firings \ {f} : loop'[g] = loop[g]
          /\ \A i \in Hooks : loop'[f][i] = IF i \in firing[f].matched
                                            THEN [pc |-> "post", try |-> 1] ELSE loop[f][i]
      BY <1>1, <1>2, <1>5, LoopsStart DEF FallBack
    <2>3. PICK t : t = [g \in Hooks |-> IF addition[f][g] = "added"
                                        THEN why[f][g] \cup {"added_too"} ELSE why[f][g]]
      OBVIOUS
    <2>4. /\ t \in [Hooks -> SUBSET Reasons]
          /\ \A i \in Hooks : t[i] = IF addition[f][i] = "added"
                                     THEN why[f][i] \cup {"added_too"} ELSE why[f][i]
      BY <1>2, <2>3 DEF Reasons
    <2>5. /\ why' \in [Firings -> [Hooks -> SUBSET Reasons]]
          /\ \A g \in Firings : why'[g] = IF g = f THEN t ELSE why[g]
      BY <1>2, <1>5, <2>3, <2>4 DEF FallBack
    <2>6. HookTypes'
      BY <1>1, <1>3, <2>1, <2>2, <2>5 DEF HookTypes
    <2>7. \A g \in Firings \ {f}, i \in Hooks : Same(g, i)
      BY <1>1, <1>3, <1>4, <2>1, <2>2, <2>5 DEF Same, Alter
    <2>8. ASSUME NEW i \in Hooks PROVE PairSound(f, i)'
      <3>1. PICK M, a, l, w, p, c, J, n, b, k, v :
               /\ M = firing[f].matched /\ a = addition[f][i]
               /\ l = loop[f][i] /\ w = why[f][i] /\ p = posts[f][i] /\ c = accepted[f][i]
               /\ J = JobsOf(f, i) /\ n = hookFaults
               /\ b = addition'[f][i] /\ k = loop'[f][i] /\ v = why'[f][i]
        OBVIOUS
      <3>2. /\ Sound("adding", i, M, a, l, w, p, c, J, n)
            /\ l \in LoopType /\ w \in SUBSET Reasons /\ p \in Nat /\ c \in Nat /\ n \in Nat
            /\ J \in SUBSET HookJobType
        BY <1>5, <3>1, PairFacts
      <3>3. b = a \/ (a = "adding" /\ b = "failed")
        BY <1>1, <1>3, <3>1 DEF Alter
      <3>4. k = IF i \in M THEN [pc |-> "post", try |-> 1] ELSE l
        BY <2>2, <3>1
      <3>5. v = IF a = "added" THEN w \cup {"added_too"} ELSE w
        BY <2>4, <2>5, <3>1
      <3>6. Sound("delivering", i, M, b, k, v, p, c, J, n)
        BY <3>2, <3>3, <3>4, <3>5, FallsBack
      <3> QED
        BY <1>1, <1>4, <2>1, <3>1, <3>6 DEF PairSound
    <2> QED
      BY <1>2, <2>6, <2>7, <2>8, OneFiring
  <1>6. ASSUME firing[f].pc # "adding", UNCHANGED <<firing, loop, why>> PROVE HookIInv'
    <2>1. HookTypes'
      BY <1>1, <1>3, <1>6 DEF HookTypes
    <2>2. \A g \in Firings, i \in Hooks : g # f \/ i # h => Same(g, i)
      BY <1>1, <1>3, <1>4, <1>6 DEF Same, Alter
    <2>3. PICK pc, M, l, w, p, c, J, n :
             /\ pc = firing[f].pc /\ M = firing[f].matched
             /\ l = loop[f][h] /\ w = why[f][h] /\ p = posts[f][h] /\ c = accepted[f][h]
             /\ J = JobsOf(f, h) /\ n = hookFaults
      OBVIOUS
    <2>4. /\ Sound(pc, h, M, "adding", l, w, p, c, J, n)
          /\ l \in LoopType /\ w \in SUBSET Reasons /\ p \in Nat /\ c \in Nat /\ n \in Nat
          /\ J \in SUBSET HookJobType
      BY <1>1, <2>3, PairFacts
    <2>5. Sound(pc, h, M, "failed", l, w, p, c, J, n)
      BY <1>6, <2>3, <2>4, FailsLate
    <2>6. PairSound(f, h)'
      BY <1>1, <1>3, <1>4, <1>6, <2>3, <2>5 DEF PairSound, Alter
    <2> QED
      BY <1>2, <2>1, <2>2, <2>6, OnePair
  <1> QED
    BY <1>5, <1>6 DEF AddFails

(* A firing returns or throws: nothing else changes. *)
LEMMA FiringGoes ==
    ASSUME HookIInv, NEW f \in Firings, NEW to \in FiringPcs, Goto(f, to),
           UNCHANGED <<hook, addition, loop, hookJobs, ms, hookFaults, posts, accepted, why>>,
           \A h \in Hooks : Sound(to, h, firing[f].matched, addition[f][h], loop[f][h],
                                  why[f][h], posts[f][h], accepted[f][h], JobsOf(f, h), hookFaults)
    PROVE  HookIInv'
  <1>1. HookTypes /\ hookFaults <= hookFaults'
    BY DEF HookIInv, HookTypes
  <1>2. /\ firing' \in [Firings -> [pc : FiringPcs, matched : SUBSET Hooks]]
        /\ firing'[f].pc = to /\ firing'[f].matched = firing[f].matched
        /\ \A g \in Firings \ {f} : firing'[g] = firing[g]
    BY <1>1, Goes
  <1>3. HookTypes'
    BY <1>1, <1>2 DEF HookTypes
  <1>4. \A g \in Firings, i \in Hooks : JobsOf(g, i)' = JobsOf(g, i)
    BY JobsStay
  <1>5. \A g \in Firings \ {f}, i \in Hooks : Same(g, i)
    BY <1>2, <1>4 DEF Same
  <1>6. \A h \in Hooks : PairSound(f, h)'
    BY <1>2, <1>4 DEF PairSound
  <1> QED
    BY <1>1, <1>3, <1>5, <1>6, OneFiring

LEMMA ReturnKeeps ==
    ASSUME HookIInv, NEW f \in Firings, Return(f)
    PROVE  HookIInv'
  <1>1. ASSUME NEW h \in Hooks
        PROVE  Sound("returned", h, firing[f].matched, addition[f][h], loop[f][h],
                     why[f][h], posts[f][h], accepted[f][h], JobsOf(f, h), hookFaults)
    <2>1. PICK pc, M, a, l, w, p, c, J, n :
             /\ pc = firing[f].pc /\ M = firing[f].matched /\ a = addition[f][h]
             /\ l = loop[f][h] /\ w = why[f][h] /\ p = posts[f][h] /\ c = accepted[f][h]
             /\ J = JobsOf(f, h) /\ n = hookFaults
      OBVIOUS
    <2>2. /\ Sound(pc, h, M, a, l, w, p, c, J, n)
          /\ l \in LoopType /\ w \in SUBSET Reasons /\ p \in Nat /\ c \in Nat /\ n \in Nat
          /\ J \in SUBSET HookJobType
      BY <2>1, PairFacts
    <2>3. /\ pc \in {"adding", "delivering"}
          /\ pc = "adding" /\ h \in M => a = "added"
          /\ pc = "delivering" /\ h \in M => l.pc = "done"
      BY <2>1 DEF Return, Finished
    <2>4. Sound("returned", h, M, a, l, w, p, c, J, n)
      BY <2>2, <2>3, Returns
    <2> QED
      BY <2>1, <2>4
  <1>2. Goto(f, "returned") /\ "returned" \in FiringPcs
        /\ UNCHANGED <<hook, addition, loop, hookJobs, ms, hookFaults, posts, accepted, why>>
    BY DEF Return, FiringPcs
  <1> QED
    BY <1>1, <1>2, FiringGoes

LEMMA GiveUpKeeps ==
    ASSUME HookIInv, NEW f \in Firings, NEW h \in Hooks, GiveUp(f, h)
    PROVE  HookIInv'
  <1>1. PICK pc, M, a, l, w, p, c, J, n :
           /\ pc = firing[f].pc /\ M = firing[f].matched /\ a = addition[f][h]
           /\ l = loop[f][h] /\ w = why[f][h] /\ p = posts[f][h] /\ c = accepted[f][h]
           /\ J = JobsOf(f, h) /\ n = hookFaults
    OBVIOUS
  <1>2. /\ HookTypes /\ Sound(pc, h, M, a, l, w, p, c, J, n)
        /\ l \in LoopType /\ w \in SUBSET Reasons /\ p \in Nat /\ c \in Nat /\ n \in Nat
        /\ J \in SUBSET HookJobType
    BY <1>1, PairFacts
  <1>3. /\ l.pc = "give_up" /\ loop' = [loop EXCEPT ![f][h].pc = "done"]
        /\ posts' = [posts EXCEPT ![f][h] = p] /\ accepted' = [accepted EXCEPT ![f][h] = c]
        /\ why' = [why EXCEPT ![f][h] = w]
        /\ UNCHANGED <<hook, addition, hookJobs, ms, hookFaults, posts, accepted, why>>
    BY <1>1, <1>2, Unaltered DEF GiveUp
  <1>4. \E k \in LoopType : /\ loop' = [loop EXCEPT ![f][h] = k]
                            /\ k.pc = "done" /\ k.try = loop[f][h].try
    <2>1. "done" \in {"noted", "blocked", "done"}
      OBVIOUS
    <2> QED
      BY <1>2, <1>3, <2>1, GoesOnTo
  <1>5. PICK k \in LoopType : /\ loop' = [loop EXCEPT ![f][h] = k]
                              /\ k.pc = "done" /\ k.try = l.try
    BY <1>1, <1>4
  <1>6. Sound(pc, h, M, a, k, w, p, c, J, n)
    BY <1>2, <1>3, <1>5, PromiseEnds
  <1>7. ASSUME UNCHANGED firing PROVE HookIInv'
    <2>1. UNCHANGED <<hook, firing, addition, hookJobs, ms, hookFaults>>
      BY <1>3, <1>7
    <2>2. /\ loop' = [loop EXCEPT ![f][h] = k] /\ why' = [why EXCEPT ![f][h] = w]
          /\ posts' = [posts EXCEPT ![f][h] = p] /\ accepted' = [accepted EXCEPT ![f][h] = c]
      BY <1>3, <1>5
    <2>3. Sound(firing[f].pc, h, firing[f].matched, addition[f][h], k, w, p, c,
                JobsOf(f, h), hookFaults)
      BY <1>1, <1>6
    <2>4. w \in SUBSET Reasons /\ p \in Nat /\ c \in Nat
      BY <1>2
    <2> QED
      BY <2>1, <2>2, <2>3, <2>4, PromiseActs
  <1>8. ASSUME Awaited(f), Goto(f, "thrown") PROVE HookIInv'
    <2>1. /\ firing' \in [Firings -> [pc : FiringPcs, matched : SUBSET Hooks]]
          /\ firing'[f].pc = "thrown" /\ firing'[f].matched = firing[f].matched
          /\ \A g \in Firings \ {f} : firing'[g] = firing[g]
      <3>1. "thrown" \in FiringPcs
        BY DEF FiringPcs
      <3> QED
        BY <1>2, <1>8, <3>1, Goes
    <2>2. firing[f].pc = "delivering"
      BY <1>1, <1>2, <1>3, <1>8 DEF Awaited, Sound, Progress
    <2>3. loop' \in [Firings -> [Hooks -> LoopType]] /\ Alter(loop', loop, f, h, k)
      BY <1>2, <1>5, AltersLoops DEF HookTypes
    <2>4. HookTypes' /\ hookFaults <= hookFaults'
      BY <1>2, <1>3, <2>1, <2>3 DEF HookTypes
    <2>5. \A g \in Firings, i \in Hooks : JobsOf(g, i)' = JobsOf(g, i)
      BY <1>3, JobsStay
    <2>6. \A g \in Firings \ {f}, i \in Hooks : Same(g, i)
      BY <1>3, <2>1, <2>3, <2>5 DEF Same, Alter
    <2>7. ASSUME NEW i \in Hooks PROVE PairSound(f, i)'
      <3>1. CASE i = h
        <4>1. Sound("delivering", h, M, a, k, w, p, c, J, n)
          BY <1>1, <1>6, <2>2
        <4>2. Sound("thrown", h, M, a, k, w, p, c, J, n)
          BY <1>2, <4>1, Throws
        <4> QED
          BY <1>1, <1>3, <2>1, <2>3, <2>5, <3>1, <4>2 DEF PairSound, Alter
      <3>2. CASE i # h
        <4>1. PICK N, b, t, v, q, d, K :
                 /\ N = firing[f].matched /\ b = addition[f][i]
                 /\ t = loop[f][i] /\ v = why[f][i] /\ q = posts[f][i] /\ d = accepted[f][i]
                 /\ K = JobsOf(f, i)
          OBVIOUS
        <4>2. /\ Sound("delivering", i, N, b, t, v, q, d, K, n)
              /\ t \in LoopType /\ v \in SUBSET Reasons /\ q \in Nat /\ d \in Nat
              /\ K \in SUBSET HookJobType
          BY <1>1, <2>2, <4>1, PairFacts
        <4>3. Sound("thrown", i, N, b, t, v, q, d, K, n)
          BY <1>2, <4>2, Throws
        <4> QED
          BY <1>1, <1>3, <2>1, <2>3, <2>5, <3>2, <4>1, <4>3 DEF PairSound, Alter
      <3> QED
        BY <3>1, <3>2
    <2> QED
      BY <2>4, <2>6, <2>7, OneFiring
  <1> QED
    BY <1>7, <1>8 DEF GiveUp

LEMMA StopFiringKeeps ==
    ASSUME HookIInv, NEW f \in Firings, StopFiring(f)
    PROVE  HookIInv'
  <1>1. /\ HookTypes /\ Awaited(f) /\ Goto(f, "stopped") /\ hookFaults' = hookFaults + 1
        /\ UNCHANGED <<hook, hookJobs, ms, posts, accepted>>
    BY DEF HookIInv, StopFiring
  <1>2. /\ addition \in [Firings -> [Hooks -> Additions]]
        /\ loop \in [Firings -> [Hooks -> LoopType]]
        /\ why \in [Firings -> [Hooks -> SUBSET Reasons]]
        /\ hookFaults \in Nat /\ hookFaults' \in Nat /\ hookFaults <= hookFaults'
    BY <1>1 DEF HookTypes
  <1>3. /\ firing' \in [Firings -> [pc : FiringPcs, matched : SUBSET Hooks]]
        /\ firing'[f].pc = "stopped" /\ firing'[f].matched = firing[f].matched
        /\ \A g \in Firings \ {f} : firing'[g] = firing[g]
    <2>1. "stopped" \in FiringPcs
      BY DEF FiringPcs
    <2> QED
      BY <1>1, <2>1, Goes
  <1>4. /\ addition' \in [Firings -> [Hooks -> Additions]]
        /\ \A h \in Hooks : addition'[f][h] = "none"
        /\ \A g \in Firings \ {f} : addition'[g] = addition[g]
    <2>1. PICK t : t = [h \in Hooks |-> "none"]
      OBVIOUS
    <2>2. t \in [Hooks -> Additions] /\ \A h \in Hooks : t[h] = "none"
      BY <2>1 DEF Additions
    <2>3. addition' = [addition EXCEPT ![f] = t]
      BY <2>1 DEF StopFiring
    <2> QED
      BY <1>2, <2>2, <2>3
  <1>5. /\ loop' \in [Firings -> [Hooks -> LoopType]]
        /\ \A h \in Hooks : loop'[f][h] = [pc |-> "none", try |-> 0]
        /\ \A g \in Firings \ {f} : loop'[g] = loop[g]
    <2>1. PICK t : t = [h \in Hooks |-> [pc |-> "none", try |-> 0]]
      OBVIOUS
    <2>2. [pc |-> "none", try |-> 0] \in LoopType
      BY HookConstants DEF LoopType
    <2>3. t \in [Hooks -> LoopType] /\ \A h \in Hooks : t[h] = [pc |-> "none", try |-> 0]
      BY <2>1, <2>2
    <2>4. loop' = [loop EXCEPT ![f] = t]
      BY <2>1 DEF StopFiring
    <2> QED
      BY <1>2, <2>3, <2>4
  <1>6. /\ why' \in [Firings -> [Hooks -> SUBSET Reasons]]
        /\ \A h \in Hooks : why'[f][h] = why[f][h] \cup {"stopped"}
        /\ \A g \in Firings \ {f} : why'[g] = why[g]
    <2>1. PICK t : t = [h \in Hooks |-> why[f][h] \cup {"stopped"}]
      OBVIOUS
    <2>2. /\ t \in [Hooks -> SUBSET Reasons]
          /\ \A h \in Hooks : t[h] = why[f][h] \cup {"stopped"}
      BY <1>2, <2>1 DEF Reasons
    <2>3. why' = [why EXCEPT ![f] = t]
      BY <2>1 DEF StopFiring
    <2> QED
      BY <1>2, <2>2, <2>3
  <1>7. \A g \in Firings, i \in Hooks : JobsOf(g, i)' = JobsOf(g, i)
    BY <1>1, JobsStay
  <1>8. HookTypes'
    BY <1>1, <1>2, <1>3, <1>4, <1>5, <1>6 DEF HookTypes
  <1>9. \A g \in Firings \ {f}, i \in Hooks : Same(g, i)
    BY <1>1, <1>3, <1>4, <1>5, <1>6, <1>7 DEF Same
  <1>10. ASSUME NEW h \in Hooks PROVE PairSound(f, h)'
    <2>1. PICK pc, M, a, l, w, p, c, J, n, k, v :
             /\ pc = firing[f].pc /\ M = firing[f].matched /\ a = addition[f][h]
             /\ l = loop[f][h] /\ w = why[f][h] /\ p = posts[f][h] /\ c = accepted[f][h]
             /\ J = JobsOf(f, h) /\ n = hookFaults
             /\ k = loop'[f][h] /\ v = why'[f][h]
      OBVIOUS
    <2>2. /\ Sound(pc, h, M, a, l, w, p, c, J, n)
          /\ l \in LoopType /\ w \in SUBSET Reasons /\ p \in Nat /\ c \in Nat /\ n \in Nat
          /\ J \in SUBSET HookJobType
      BY <2>1, PairFacts
    <2>3. pc \in {"adding", "delivering"} /\ k = [pc |-> "none", try |-> 0]
          /\ v = w \cup {"stopped"}
      BY <1>1, <1>5, <1>6, <2>1 DEF Awaited
    <2>4. Sound("stopped", h, M, "none", k, w \cup {"stopped"}, p, c, J, n + 1)
      BY <2>2, <2>3, Stops
    <2> QED
      BY <1>1, <1>3, <1>4, <1>7, <2>1, <2>3, <2>4 DEF PairSound
  <1> QED
    BY <1>2, <1>8, <1>9, <1>10, OneFiring

(* What is no delivery's business. *)
LEMMA OthersKeep ==
    ASSUME HookIInv, hook' \in [Hooks -> {"enabled", "disabled", "deleted"}], ms' \in Nat,
           UNCHANGED <<firing, addition, loop, hookJobs, hookFaults, posts, accepted, why>>
    PROVE  HookIInv'
  <1>1. HookTypes' /\ hookFaults' = hookFaults
    BY DEF HookIInv, HookTypes
  <1>2. \A g \in Firings, i \in Hooks : JobsOf(g, i)' = JobsOf(g, i)
    BY JobsStay
  <1>3. ASSUME NEW g \in Firings, NEW i \in Hooks PROVE PairSound(g, i)'
    BY <1>1, <1>2 DEF HookIInv, PairSound
  <1> QED
    BY <1>1, <1>3 DEF HookIInv

LEMMA HookStarts == WebhookInit => HookIInv
  <1> SUFFICES ASSUME WebhookInit PROVE HookIInv
    OBVIOUS
  <1>1. HookTypes
    BY HookConstants DEF WebhookInit, HookTypes, Each, FiringPcs, Additions, LoopType
  <1>2. ASSUME NEW f \in Firings, NEW h \in Hooks PROVE PairSound(f, h)
    <2>1. /\ firing[f].pc = "idle" /\ firing[f].matched = {} /\ addition[f][h] = "none"
          /\ loop[f][h].pc = "none" /\ loop[f][h].try = 0 /\ why[f][h] = {}
          /\ posts[f][h] = 0 /\ accepted[f][h] = 0 /\ JobsOf(f, h) = {}
      BY DEF WebhookInit, Each, JobsOf
    <2>2. Progress(firing[f].pc, h, firing[f].matched, addition[f][h], loop[f][h], why[f][h],
                   JobsOf(f, h))
      BY <2>1 DEF Progress
    <2>3. Sending(firing[f].pc, loop[f][h], why[f][h], posts[f][h], JobsOf(f, h), hookFaults)
      BY <2>1 DEF Sending, LoopPosts
    <2>4. Accepting(firing[f].pc, loop[f][h], why[f][h], accepted[f][h], JobsOf(f, h))
      BY <2>1 DEF Accepting, AcceptedOnce, Ending
    <2> QED
      BY <2>2, <2>3, <2>4 DEF PairSound, Sound
  <1> QED
    BY <1>1, <1>2 DEF HookIInv

LEMMA HookSteps == HookIInv /\ [WebhookNext]_hookVars => HookIInv'
  <1> SUFFICES ASSUME HookIInv, [WebhookNext]_hookVars PROVE HookIInv'
    OBVIOUS
  <1>1. HookTypes
    BY DEF HookIInv
  <1>2. ASSUME NEW f \in Firings, Fire(f) \/ StopFiring(f) \/ Return(f) PROVE HookIInv'
    BY <1>2, FireKeeps, StopFiringKeeps, ReturnKeeps
  <1>3. ASSUME NEW f \in Firings, NEW h \in Hooks,
               Add(f, h) \/ AddFails(f, h) \/ Post(f, h) \/ NoteAccepted(f, h)
                 \/ NoteBlocked(f, h) \/ GiveUp(f, h)
        PROVE  HookIInv'
    BY <1>3, AddKeeps, AddFailsKeeps, PostKeeps, NoteAcceptedKeeps, NoteBlockedKeeps, GiveUpKeeps
  <1>4. ASSUME NEW j \in hookJobs, Take(j) \/ Deliver(j) \/ Complete(j) \/ Stall(j)
        PROVE  HookIInv'
    BY <1>4, TakeKeeps, DeliverKeeps, CompleteKeeps, StallKeeps
  <1>5. ASSUME NEW h \in Hooks, EditHook(h) PROVE HookIInv'
    <2>1. hook' \in [Hooks -> {"enabled", "disabled", "deleted"}]
      BY <1>1, <1>5 DEF EditHook, HookTypes
    <2>2. ms' \in Nat
         /\ UNCHANGED <<firing, addition, loop, hookJobs, hookFaults, posts, accepted, why>>
      BY <1>1, <1>5 DEF EditHook, HookTypes
    <2> QED
      BY <2>1, <2>2, OthersKeep
  <1>6. CASE MsPasses
    BY <1>1, <1>6, OthersKeep DEF MsPasses, HookTypes
  <1>7. CASE UNCHANGED hookVars
    BY <1>1, <1>7, OthersKeep DEF hookVars, HookTypes
  <1> QED
    BY <1>2, <1>3, <1>4, <1>5, <1>6, <1>7 DEF WebhookNext, FiringStep

LEMMA JobPostsBounded ==
    ASSUME NEW n \in Nat, NEW j \in HookJobType, j.state # "failed" => j.left >= 1
    PROVE  JobPosts(j, n) \in Int /\ JobPosts(j, n) <= HookAttempts + n
  BY JobPostsIsInt, HookConstants

LEMMA HookFollows == HookIInv => WebhookInv
  <1> SUFFICES ASSUME HookIInv PROVE WebhookInv
    OBVIOUS
  <1>1. WebhookTypeOK
    BY DEF HookIInv, HookTypes, WebhookTypeOK, FiringPcs, Additions
  <1>2. ASSUME NEW f \in Firings, ~Awaited(f), NEW h \in firing[f].matched, Over(f, h),
               accepted[f][h] = 0
        PROVE  Exhausted(f, h) \/ why[f][h] \cap {"same_id", "stopped", "blocked"} # {}
    <2>1. h \in Hooks
      BY <1>1 DEF WebhookTypeOK
    <2>2. PICK pc, M, a, l, w, p, c, J, n :
             /\ pc = firing[f].pc /\ M = firing[f].matched /\ a = addition[f][h]
             /\ l = loop[f][h] /\ w = why[f][h] /\ p = posts[f][h] /\ c = accepted[f][h]
             /\ J = JobsOf(f, h) /\ n = hookFaults
      OBVIOUS
    <2>3. /\ Progress(pc, h, M, a, l, w, J) /\ Sending(pc, l, w, p, J, n)
          /\ Ending(l, w, c, J) /\ pc \in FiringPcs /\ h \in M
          /\ J \in SUBSET hookJobs /\ l \in LoopType
      BY <1>2, <2>1, <2>2, PairFacts DEF Sound, Accepting, JobsOf
    <2>4. /\ a # "adding" /\ l.pc \in {"none", "done"} /\ ~(c >= 1)
          /\ pc \notin {"adding", "delivering"}
          /\ \A j \in J : j.state \in {"completed", "failed"}
      BY <1>2, <2>2 DEF Over, Awaited, JobsOf
    <2>5. CASE l.pc = "done"
      <3>1. "blocked" \in w \/ l.try = Tries
        BY <2>3, <2>4, <2>5 DEF Ending
      <3>2. l.try = Tries => l = [pc |-> "done", try |-> Tries]
        BY <2>3, <2>5 DEF LoopType
      <3> QED
        BY <2>2, <3>1, <3>2 DEF Exhausted
    <2>6. ASSUME NEW j \in J
          PROVE  Exhausted(f, h)
      <3>1. j.state = "failed"
        BY <2>3, <2>4 DEF Ending
      <3>2. j.left = 0
        BY <2>3, <3>1 DEF Sending
      <3>3. j \in hookJobs /\ j.of = f /\ j.id[1] = h
        BY <2>2 DEF JobsOf
      <3> QED
        BY <3>1, <3>2, <3>3 DEF Exhausted
    <2>7. CASE J = {} /\ l.pc = "none"
      <3>1. pc \in {"returned", "stopped"}
        BY <2>3, <2>4, <2>7 DEF Progress, FiringPcs
      <3>2. "same_id" \in w \/ "stopped" \in w
        BY <2>3, <2>7, <3>1 DEF Progress
      <3> QED
        BY <2>2, <3>2
    <2> QED
      BY <2>4, <2>5, <2>6, <2>7
  <1>3. ASSUME NEW f \in Firings, NEW h \in Hooks, accepted[f][h] > 1
        PROVE  why[f][h] \cap {"added_too", "stalled", "row_gone"} # {}
    BY <1>3, PairFacts DEF Sound, Accepting, AcceptedOnce
  <1>4. ASSUME NEW f \in Firings, NEW h \in Hooks
        PROVE  posts[f][h] <= HookAttempts + hookFaults
                                + (IF "added_too" \in why[f][h] \/ loop[f][h].try > 0
                                   THEN Tries ELSE 0)
    <2>1. PICK pc, M, a, l, w, p, c, J, n :
             /\ pc = firing[f].pc /\ M = firing[f].matched /\ a = addition[f][h]
             /\ l = loop[f][h] /\ w = why[f][h] /\ p = posts[f][h] /\ c = accepted[f][h]
             /\ J = JobsOf(f, h) /\ n = hookFaults
      OBVIOUS
    <2>2. /\ Progress(pc, h, M, a, l, w, J) /\ Sending(pc, l, w, p, J, n)
          /\ l \in LoopType /\ p \in Nat /\ n \in Nat /\ J \in SUBSET HookJobType
      BY <2>1, PairFacts DEF Sound
    <2>3. /\ l.pc = "none" => l.try = 0
          /\ l.pc # "none" => l.try >= 1
      BY <2>2 DEF Progress
    <2>4. PICK x \in Nat : x = LoopPosts(l, pc) /\ x <= Tries
      BY <2>2, <2>3, LoopPostsIsNat
    <2>5. l.try \in Nat
      <3>1. l.try \in 0 .. Tries
        BY <2>2 DEF LoopType
      <3> QED
        BY <3>1, HookConstants
    <2> DEFINE t == IF "added_too" \in w \/ l.try > 0 THEN Tries ELSE 0
    <2>9. t \in {0, Tries} /\ t \in Nat
      BY HookConstants
    <2>6. CASE J = {}
      <3>1. p <= x
        BY <2>2, <2>4, <2>6 DEF Sending
      <3>2. p <= HookAttempts
        BY <2>2, <2>4, <3>1, HookConstants
      <3>3. p <= HookAttempts + n /\ p <= HookAttempts + n + Tries
        BY <2>2, <3>2, HookConstants
      <3>4. p <= HookAttempts + n + t
        <4>1. CASE t = 0
          BY <2>2, <3>3, <4>1, HookConstants
        <4>2. CASE t = Tries
          BY <3>3, <4>2
        <4> HIDE DEF t
        <4> QED
          BY <2>9, <4>1, <4>2
      <3> QED
        BY <2>1, <2>9, <3>4
    <2>7. ASSUME NEW j \in J
          PROVE  /\ p <= HookAttempts + n + Tries
                 /\ "added_too" \notin w => p <= HookAttempts + n
      <3>1. PICK b \in Int : b = JobPosts(j, n) /\ b <= HookAttempts + n
        BY <2>2, JobPostsBounded DEF Sending
      <3>2. p <= b + x /\ ("added_too" \notin w => p <= b)
        BY <2>2, <2>4, <3>1 DEF Sending
      <3> QED
        BY <2>2, <2>4, <3>1, <3>2, HookConstants
    <2>8. CASE J # {}
      BY <2>1, <2>2, <2>7, <2>8, HookConstants
    <2> QED
      BY <2>6, <2>8
  <1> QED
    BY <1>1, <1>2, <1>3, <1>4
    DEF WebhookInv, NoEventIsForgotten, AcceptedTwiceForAReason, SendingIsBounded

(* However additions to the queue, deliveries by the handlers that fell     *)
(* back, workers and administrators are mixed up, for any number of them:  *)
(* every webhook that was enabled when the event happened is sent it,      *)
(* unless another event took the job's id or the process stopped; it       *)
(* accepts it twice only for a reason on record; nobody is sent it without *)
(* end.  The webhooks of a firing touch only each other's program counter, *)
(* so the invariant is about one delivery: its job, its promise, how often *)
(* each has sent.                                                          *)
THEOREM EventsAreDelivered == WebhookSpec => []WebhookInv
  <1>1. WebhookInit => HookIInv
    BY HookStarts
  <1>2. HookIInv /\ [WebhookNext]_hookVars => HookIInv'
    BY HookSteps
  <1>3. HookIInv => WebhookInv
    BY HookFollows
  <1> QED
    BY <1>1, <1>2, <1>3, PTL DEF WebhookSpec

-----------------------------------------------------------------------------
(***************************************************************************)
(* SearchInv, for any contents, tasks, attempts and faults.                *)
(***************************************************************************)

IndexPcs == {"idle", "index", "extract", "status", "put", "send", "look", "create",
             "update"}

TaskType == [pc : IndexPcs, of : Nat, left : Nat, text : Nat]

(* Contents that the index may be of. *)
Indexable(n) == n \in Made /\ content[n].kind # "redaction"

IsNewest(n) ==
    /\ n \in Made \cup {0}
    /\ n > 0 => content[n].kind # "redaction"
    /\ \A m \in Made : content[m].kind # "redaction" => m <= n

(* What tasks and jobs are there, and what they hold. *)
SearchTypes ==
    /\ SearchTypeOK
    /\ \E n \in Made \cup {0} : IsNewest(n)
    /\ queued \in BOOLEAN /\ faults \in Nat
    /\ owed \in [put : Nat, embed : Nat]
    /\ task \in [Tasks -> TaskType]

HeldBy(k) ==
    /\ k.pc \in {"index", "extract", "status"} => k.of > 0
    /\ k.of > 0 => Indexable(k.of) /\ k.left < Attempts
    /\ k.pc \in {"put", "send"} /\ k.of > 0 => queued
    /\ k.pc \in {"look", "create", "update"} => k.of = 0 /\ k.text > 0
    /\ k.text \in Made \cup {0}

WorkIsOfContents ==
    /\ \A n \in Contents : job[n] > 0 => Indexable(n)
    /\ \A t \in Tasks : HeldBy(task[t])
    /\ textIndex.text = 0 =>
          /\ owed.embed = 0
          /\ \A t \in Tasks : task[t].pc \notin {"status", "look", "create", "update"}

JobWaits == \E n \in Contents : job[n] > 0

TaskAt(pcs) == \E t \in Tasks : task[t].pc \in pcs

(* Either a copy is what it should be, or somebody is on the way to it. *)
TextComes ==
    "text" \notin excused =>
       \A n \in Made \cup {0} : IsNewest(n) /\ textIndex.text # n =>
                 /\ n \in Contents
                 /\ \/ job[n] > 0
                    \/ \E t \in Tasks : task[t].of = n /\ task[t].pc \in {"index", "extract"}

EmbeddingComes ==
    "embedding" \notin excused =>
       \/ embedding = textIndex.text
       \/ owed.embed > 0
       \/ JobWaits \/ TaskAt({"index", "extract", "status"})
       \/ \E t \in Tasks : /\ task[t].text = textIndex.text
                           /\ \/ task[t].pc \in {"look", "update"}
                              \/ task[t].pc = "create" /\ embedding = 0

FoundComes ==
    "found" \notin excused =>
       \/ found = textIndex.text
       \/ owed.put > 0 \/ TaskAt({"put"})
       \/ \E t \in Tasks : task[t].pc = "send" /\ task[t].text = textIndex.text
       \/ queued /\ (JobWaits \/ TaskAt({"index", "extract", "status"}))

StatusComes ==
    "status" \notin excused =>
       \/ filed.ocrStatus # "processing"
       \/ JobWaits \/ TaskAt({"index", "extract", "status"})

SearchIInv ==
    SearchTypes /\ WorkIsOfContents /\ TextComes /\ EmbeddingComes /\ FoundComes
    /\ StatusComes

-----------------------------------------------------------------------------
LEMMA ContentsAreNumbers ==
    ASSUME SearchTypes
    PROVE  /\ Made = 1 .. Len(content) /\ Len(content) \in Nat /\ Made \subseteq Contents
           /\ textIndex = [versionId |-> textIndex.versionId, text |-> textIndex.text]
           /\ textIndex.text \in Made \cup {0} /\ textIndex.versionId \in Made \cup {0}
           /\ \A n \in Made : n \in Nat /\ n > 0
           /\ \A n \in Contents : n \in Nat /\ n > 0
BY SearchBounds DEF SearchTypes, SearchTypeOK, Made, Contents

LEMMA NewestIs ==
    ASSUME SearchTypes, NEW n, IsNewest(n)
    PROVE  Newest = n
<1>1. \A m \in Made \cup {0} : IsNewest(m) => m = n
  BY ContentsAreNumbers DEF IsNewest
<1>2. QED
  BY <1>1 DEF Newest, IsNewest

LEMMA NewestExists ==
    ASSUME SearchTypes
    PROVE  IsNewest(Newest)
BY NewestIs DEF SearchTypes

(* What a step at a task leaves of the others. *)
LEMMA OneTaskMoves ==
    ASSUME SearchTypes, NEW t \in Tasks, NEW k \in TaskType,
           task' = [task EXCEPT ![t] = k]
    PROVE  /\ task' \in [Tasks -> TaskType]
           /\ task'[t] = k
           /\ \A u \in Tasks : u # t => task'[u] = task[u]
BY DEF SearchTypes

LEMMA ContentIsAdded ==
    ASSUME SearchTypes, Len(content) < MaxContents,
           NEW kind \in Kinds, NEW sealed \in BOOLEAN,
           content' = Append(content, [kind |-> kind, sealed |-> sealed])
    PROVE  LET n == Len(content) + 1 IN
           /\ content' \in Seq([kind : Kinds, sealed : BOOLEAN])
           /\ Len(content') = n /\ n \in Nat /\ n \in Contents /\ n \notin Made
           /\ Made' = Made \cup {n}
           /\ content'[n].kind = kind
           /\ \A m \in Made : content'[m] = content[m] /\ m < n
           /\ \A m \in Made : Indexable(m) => Indexable(m)'
<1> DEFINE r == [kind |-> kind, sealed |-> sealed]
           n == Len(content) + 1
<1>1. content \in Seq([kind : Kinds, sealed : BOOLEAN]) /\ r \in [kind : Kinds, sealed : BOOLEAN]
  BY DEF SearchTypes, SearchTypeOK
<1>2. /\ Made = 1 .. Len(content) /\ Len(content) \in Nat
  BY ContentsAreNumbers
<1>3. /\ content' \in Seq([kind : Kinds, sealed : BOOLEAN]) /\ Len(content') = n
      /\ content'[n] = r /\ \A m \in 1 .. Len(content) : content'[m] = content[m]
  BY <1>1, <1>2
<1>4. Made' = 1 .. n
  BY <1>3 DEF Made
<1>5. n \in Nat /\ n \in Contents /\ n \notin Made /\ Made' = Made \cup {n}
  BY <1>2, <1>4, SearchBounds DEF Contents
<1>6. \A m \in Made : content'[m] = content[m] /\ m < n
  BY <1>2, <1>3
<1>7. \A m \in Made : Indexable(m) => Indexable(m)'
  BY <1>5, <1>6 DEF Indexable
<1>8. content'[n].kind = kind
  BY <1>3
<1>9. QED
  BY <1>3, <1>5, <1>6, <1>7, <1>8

LEMMA SearchStarts ==
    ASSUME SearchInit
    PROVE  SearchIInv
<1> USE SearchBounds DEF SearchInit
<1>1. content = <<>> /\ Made = {}
  BY DEF Made
<1>2. SearchTypes
  <2>1. SearchTypeOK
    BY <1>1 DEF SearchTypeOK, Contents, Kinds
  <2>2. IsNewest(0)
    BY <1>1 DEF IsNewest
  <2>3. task \in [Tasks -> TaskType]
    BY DEF TaskType, IndexPcs, Idle
  <2>4. QED
    BY <2>1, <2>2, <2>3 DEF SearchTypes
<1>3. WorkIsOfContents
  BY DEF WorkIsOfContents, HeldBy, Idle
<1>4. TextComes
  BY <1>1 DEF TextComes
<1>5. EmbeddingComes /\ FoundComes /\ StatusComes
  BY DEF EmbeddingComes, FoundComes, StatusComes
<1>6. QED
  BY <1>2, <1>3, <1>4, <1>5 DEF SearchIInv

LEMMA SearchImplies ==
    ASSUME SearchIInv
    PROVE  SearchInv
<1> USE DEF SearchIInv
<1>1. SUFFICES ASSUME Quiet PROVE
        /\ "text" \notin excused => textIndex.text = Newest
        /\ "embedding" \notin excused => embedding = textIndex.text
        /\ "found" \notin excused => found = textIndex.text
        /\ "status" \notin excused => filed.ocrStatus # "processing"
  BY DEF SearchInv, CopiesAgree, SearchTypes
<1>2. /\ ~JobWaits
      /\ \A pcs : "idle" \notin pcs => ~TaskAt(pcs)
      /\ owed.put = 0 /\ owed.embed = 0
      /\ \A t \in Tasks : task[t].pc = "idle"
      /\ \A n \in Contents : job[n] = 0
  BY <1>1 DEF Quiet, JobWaits, TaskAt
<1>3. "text" \notin excused => textIndex.text = Newest
  BY <1>2, NewestExists DEF TextComes, IsNewest
<1>4. "embedding" \notin excused => embedding = textIndex.text
  BY <1>2 DEF EmbeddingComes
<1>5. "found" \notin excused => found = textIndex.text
  BY <1>2 DEF FoundComes
<1>6. "status" \notin excused => filed.ocrStatus # "processing"
  BY <1>2 DEF StatusComes
<1>7. QED
  BY <1>3, <1>4, <1>5, <1>6

LEMMA DocumentChanges ==
    ASSUME SearchIInv, DeleteDocument \/ DestroyKey
    PROVE  SearchIInv'
<1> USE DEF SearchIInv
<1>1. /\ UNCHANGED <<queued, content, textIndex, embedding, found, job, owed, task, excused>>
      /\ filed' \in [deleted : BOOLEAN, key : BOOLEAN,
                     ocrStatus : {"pending", "processing", "success", "failed"}]
      /\ filed'.ocrStatus = filed.ocrStatus /\ faults' \in Nat
  <2>1. CASE DeleteDocument
    BY <2>1 DEF DeleteDocument, SearchTypes, SearchTypeOK
  <2>2. CASE DestroyKey
    <3>1. filed \in [deleted : BOOLEAN, key : BOOLEAN,
                     ocrStatus : {"pending", "processing", "success", "failed"}]
          /\ faults \in Nat
      BY DEF SearchTypes, SearchTypeOK
    <3>2. UNCHANGED <<queued, content, textIndex, embedding, found, job, owed, task, excused>>
          /\ faults' \in Nat
      BY <2>2, <3>1 DEF DestroyKey, IndexFault
    <3>3. \/ filed' = [filed EXCEPT !.key = FALSE, !.deleted = TRUE]
          \/ filed' = [filed EXCEPT !.key = FALSE]
      BY <2>2 DEF DestroyKey
    <3>4. QED
      BY <3>1, <3>2, <3>3
  <2>3. QED
    BY <2>1, <2>2
<1>2. SearchTypes'
  BY <1>1 DEF SearchTypes, SearchTypeOK, IsNewest, Made
<1>3. WorkIsOfContents' /\ TextComes'
  BY <1>1 DEF WorkIsOfContents, HeldBy, Indexable, Made, TextComes, IsNewest
<1>4. EmbeddingComes' /\ FoundComes' /\ StatusComes'
  BY <1>1 DEF EmbeddingComes, FoundComes, StatusComes, JobWaits, TaskAt
<1>5. QED
  BY <1>2, <1>3, <1>4

LEMMA ReindexKeeps ==
    ASSUME SearchIInv, Reindex
    PROVE  SearchIInv'
<1> USE DEF SearchIInv
<1>1. /\ UNCHANGED <<queued, content, filed, textIndex, embedding, found, job, task, excused, faults>>
      /\ owed' \in [put : Nat, embed : Nat]
      /\ owed'.put >= owed.put /\ owed'.embed >= owed.embed
      /\ textIndex.text = 0 => owed'.embed = owed.embed
  BY DEF Reindex, SearchTypes
<1>2. SearchTypes'
  BY <1>1 DEF SearchTypes, SearchTypeOK, IsNewest, Made
<1>3. WorkIsOfContents' /\ TextComes'
  BY <1>1 DEF WorkIsOfContents, HeldBy, Indexable, Made, TextComes, IsNewest
<1>4. owed.put \in Nat /\ owed.embed \in Nat /\ owed'.put \in Nat /\ owed'.embed \in Nat
  BY <1>1 DEF SearchTypes
<1>5. EmbeddingComes' /\ FoundComes' /\ StatusComes'
  BY <1>1, <1>4 DEF EmbeddingComes, FoundComes, StatusComes, JobWaits, TaskAt
<1>6. QED
  BY <1>2, <1>3, <1>5

LEMMA AddVersionKeeps ==
    ASSUME SearchIInv, AddVersion
    PROVE  SearchIInv'
<1>0. PICK n \in Nat : n = Len(content) + 1
  BY ContentsAreNumbers DEF SearchIInv
<1> USE DEF SearchIInv
<1>1. /\ UNCHANGED <<queued, filed, textIndex, embedding, found, task>>
      /\ content' = Append(content, [kind |-> "upload", sealed |-> filed.key])
      /\ Len(content) < MaxContents /\ filed.key \in BOOLEAN /\ "upload" \in Kinds
      /\ faults' \in Nat /\ owed' \in [put : Nat, embed : Nat]
      /\ owed'.put >= owed.put /\ owed'.embed = owed.embed
  BY DEF AddVersion, SearchTypes, SearchTypeOK, IndexFault, Kinds
<1>2. /\ content' \in Seq([kind : Kinds, sealed : BOOLEAN])
      /\ Len(content') = n /\ n \in Nat /\ n \in Contents /\ n \notin Made
      /\ Made' = Made \cup {n}
      /\ content'[n].kind = "upload"
      /\ \A m \in Made : content'[m] = content[m] /\ m < n
      /\ \A m \in Made : Indexable(m) => Indexable(m)'
  BY <1>0, <1>1, ContentIsAdded
<1>3. n > 0 /\ \A m \in Made : m \in Nat /\ m > 0 /\ m \in Contents
  BY <1>2, ContentsAreNumbers, SearchBounds DEF Contents
<1>4. Indexable(n)' /\ IsNewest(n)'
  BY <1>2, <1>3 DEF Indexable, IsNewest
<1>5. \/ /\ job' = [job EXCEPT ![n] = IF queued THEN Attempts ELSE 1]
         /\ owed'.put > 0 /\ excused' = excused
      \/ job' = job /\ owed' = owed /\ excused' = excused \cup {"text", "found"}
  BY <1>0 DEF AddVersion, SearchTypes
<1>6. job' \in [Contents -> 0 .. Attempts] /\ \A m \in Contents : m # n => job'[m] = job[m]
  BY <1>5, SearchBounds DEF SearchTypes, SearchTypeOK
<1>7. \A m \in Contents : job[m] > 0 => job'[m] > 0
  BY <1>2, <1>5, SearchBounds DEF SearchTypes, SearchTypeOK
<1>8. "text" \notin excused' => job'[n] > 0
  BY <1>2, <1>5, SearchBounds DEF SearchTypes, SearchTypeOK
<1>9. excused' \subseteq {"text", "found", "embedding", "status"} /\ excused \subseteq excused'
  BY <1>5 DEF SearchTypes, SearchTypeOK
<1>10. Len(content') <= MaxContents
  BY <1>0, <1>1, <1>2, ContentsAreNumbers, SearchBounds
<1>11. SearchTypes'
  <2>1. SearchTypeOK'
    BY <1>1, <1>2, <1>6, <1>9, <1>10 DEF SearchTypes, SearchTypeOK
  <2>2. \E m \in (Made \cup {0})' : IsNewest(m)'
    BY <1>2, <1>4
  <2>3. QED
    BY <1>1, <2>1, <2>2 DEF SearchTypes
<1>12. WorkIsOfContents'
  <2>1. \A m \in Contents : job'[m] > 0 => Indexable(m)'
    BY <1>2, <1>4, <1>6 DEF WorkIsOfContents, Indexable
  <2>2. ASSUME NEW t \in Tasks PROVE HeldBy(task[t])'
    BY <1>1, <1>2 DEF WorkIsOfContents, HeldBy, Indexable
  <2>3. QED
    BY <1>1, <2>1, <2>2 DEF WorkIsOfContents
<1>13. TextComes'
  <2>1. \A m \in (Made \cup {0})' : IsNewest(m)' => m = n
    BY <1>2, <1>3, <1>4 DEF IsNewest
  <2>2. QED
    BY <1>2, <1>8, <2>1 DEF TextComes
<1>14. JobWaits => JobWaits'
  BY <1>7 DEF JobWaits
<1>15. EmbeddingComes' /\ StatusComes'
  BY <1>1, <1>9, <1>14 DEF EmbeddingComes, StatusComes, TaskAt
<1>16. FoundComes'
  <2>1. owed.put \in Nat /\ owed'.put \in Nat
    BY <1>1 DEF SearchTypes
  <2>2. QED
    BY <1>1, <1>9, <1>14, <2>1 DEF FoundComes, TaskAt
<1>17. QED
  BY <1>11, <1>12, <1>13, <1>15, <1>16

LEMMA RedactKeeps ==
    ASSUME SearchIInv, Redact
    PROVE  SearchIInv'
<1>0. PICK n \in Nat : n = Len(content) + 1
  BY ContentsAreNumbers DEF SearchIInv
<1> USE DEF SearchIInv
<1>1. /\ UNCHANGED <<queued, filed, textIndex, embedding, found, job, owed, task, faults, excused>>
      /\ content' = Append(content, [kind |-> "redaction", sealed |-> filed.key])
      /\ Len(content) < MaxContents /\ filed.key \in BOOLEAN /\ "redaction" \in Kinds
  BY ContentsAreNumbers, SearchBounds DEF Redact, SearchTypes, SearchTypeOK, Kinds
<1>2. /\ content' \in Seq([kind : Kinds, sealed : BOOLEAN])
      /\ Len(content') = n /\ n \in Nat /\ n \in Contents /\ n \notin Made
      /\ Made' = Made \cup {n}
      /\ content'[n].kind = "redaction"
      /\ \A m \in Made : content'[m] = content[m] /\ m < n
      /\ \A m \in Made : Indexable(m) => Indexable(m)'
  BY <1>0, <1>1, ContentIsAdded
<1>3. Len(content') <= MaxContents
  BY <1>0, <1>1, <1>2, ContentsAreNumbers, SearchBounds
<1>4. n > 0 /\ 0 \notin Made
  BY <1>2, ContentsAreNumbers, SearchBounds DEF Contents
<1>5. \A m \in Made \cup {0} : IsNewest(m) => IsNewest(m)'
  BY <1>2, <1>4 DEF IsNewest
<1>6. \A m \in (Made \cup {0})' : IsNewest(m)' => m \in Made \cup {0} /\ IsNewest(m)
  BY <1>2, <1>4 DEF IsNewest
<1>7. SearchTypes'
  <2>1. SearchTypeOK'
    BY <1>1, <1>2, <1>3 DEF SearchTypes, SearchTypeOK
  <2>2. \E m \in (Made \cup {0})' : IsNewest(m)'
    BY <1>2, <1>5 DEF SearchTypes
  <2>3. QED
    BY <1>1, <2>1, <2>2 DEF SearchTypes
<1>8. WorkIsOfContents'
  <2>1. \A m \in Contents : job[m] > 0 => Indexable(m)'
    BY <1>2 DEF WorkIsOfContents, Indexable
  <2>2. ASSUME NEW t \in Tasks PROVE HeldBy(task[t])'
    BY <1>1, <1>2 DEF WorkIsOfContents, HeldBy, Indexable
  <2>3. QED
    BY <1>1, <2>1, <2>2 DEF WorkIsOfContents
<1>9. TextComes'
  BY <1>1, <1>6 DEF TextComes
<1>10. EmbeddingComes' /\ FoundComes' /\ StatusComes'
  BY <1>1 DEF EmbeddingComes, FoundComes, StatusComes, JobWaits, TaskAt
<1>11. QED
  BY <1>7, <1>8, <1>9, <1>10

LEMMA SaveKeeps ==
    ASSUME SearchIInv, Save
    PROVE  SearchIInv'
<1>0. PICK n \in Nat : n = Len(content) + 1
  BY ContentsAreNumbers DEF SearchIInv
<1> USE DEF SearchIInv
<1>1. /\ UNCHANGED <<queued, filed, embedding, found, job, owed, task, faults>>
      /\ content' = Append(content, [kind |-> "save", sealed |-> FALSE])
      /\ Len(content) < MaxContents /\ FALSE \in BOOLEAN /\ "save" \in Kinds
      /\ textIndex' = [textIndex EXCEPT !.text = n]
      /\ excused' = (excused \ {"text"}) \cup {"embedding", "found"}
  BY <1>0, ContentsAreNumbers, SearchBounds DEF Save, SearchTypes, SearchTypeOK, Kinds
<1>2. /\ content' \in Seq([kind : Kinds, sealed : BOOLEAN])
      /\ Len(content') = n /\ n \in Nat /\ n \in Contents /\ n \notin Made
      /\ Made' = Made \cup {n}
      /\ content'[n].kind = "save"
      /\ \A m \in Made : content'[m] = content[m] /\ m < n
      /\ \A m \in Made : Indexable(m) => Indexable(m)'
  BY <1>0, <1>1, ContentIsAdded
<1>3. Len(content') <= MaxContents
  BY <1>0, <1>1, <1>2, ContentsAreNumbers, SearchBounds
<1>4. n > 0
  BY <1>2, ContentsAreNumbers, SearchBounds DEF Contents
<1>5. IsNewest(n)' /\ \A m \in (Made \cup {0})' : IsNewest(m)' => m = n
  <2>1. \A m \in Made : m \in Nat /\ m > 0
    BY ContentsAreNumbers
  <2>2. IsNewest(n)'
    BY <1>2, <1>4, <2>1 DEF IsNewest
  <2>3. QED
    BY <1>2, <1>4, <2>1, <2>2 DEF IsNewest
<1>6. textIndex'.text = n /\ textIndex' \in [versionId : Made' \cup {0}, text : Made' \cup {0}]
  BY <1>1, <1>2 DEF SearchTypes, SearchTypeOK
<1>7. SearchTypes'
  <2>1. SearchTypeOK'
    BY <1>1, <1>2, <1>3, <1>6 DEF SearchTypes, SearchTypeOK
  <2>2. \E m \in (Made \cup {0})' : IsNewest(m)'
    BY <1>2, <1>5
  <2>3. QED
    BY <1>1, <2>1, <2>2 DEF SearchTypes
<1>8. WorkIsOfContents'
  <2>1. \A m \in Contents : job[m] > 0 => Indexable(m)'
    BY <1>2 DEF WorkIsOfContents, Indexable
  <2>2. ASSUME NEW t \in Tasks PROVE HeldBy(task[t])'
    BY <1>1, <1>2 DEF WorkIsOfContents, HeldBy, Indexable
  <2>3. QED
    BY <1>1, <1>4, <1>6, <2>1, <2>2 DEF WorkIsOfContents
<1>9. TextComes'
  BY <1>5, <1>6 DEF TextComes
<1>10. EmbeddingComes' /\ FoundComes' /\ StatusComes'
  BY <1>1 DEF EmbeddingComes, FoundComes, StatusComes, JobWaits, TaskAt
<1>11. QED
  BY <1>7, <1>8, <1>9, <1>10

(* What a task holds, when the contents are left alone. *)
LEMMA TasksHold ==
    ASSUME SearchTypes, WorkIsOfContents, NEW t \in Tasks, NEW k \in TaskType,
           task' = [task EXCEPT ![t] = k],
           UNCHANGED <<queued, content>>,
           HeldBy(k)
    PROVE  /\ task' \in [Tasks -> TaskType]
           /\ task'[t] = k
           /\ \A u \in Tasks : u # t => task'[u] = task[u]
           /\ \A u \in Tasks : HeldBy(task[u])'
           /\ Made' = Made
           /\ \A n \in Made \cup {0} : IsNewest(n)' <=> IsNewest(n)
           /\ \E n \in (Made \cup {0})' : IsNewest(n)'
<1>1. /\ task' \in [Tasks -> TaskType]
      /\ task'[t] = k
      /\ \A u \in Tasks : u # t => task'[u] = task[u]
  BY OneTaskMoves
<1>2. ASSUME NEW u \in Tasks PROVE HeldBy(task[u])'
  <2>1. HeldBy(task'[u])
    BY <1>1 DEF WorkIsOfContents
  <2>2. QED
    BY <2>1 DEF HeldBy, Indexable, Made
<1>3. \A n \in Made \cup {0} : IsNewest(n)' <=> IsNewest(n)
  BY DEF IsNewest, Made
<1>4. Made' = Made
  BY DEF Made
<1>5. \E n \in (Made \cup {0})' : IsNewest(n)'
  BY <1>3, <1>4 DEF SearchTypes
<1>6. QED
  BY <1>1, <1>2, <1>3, <1>4, <1>5

LEMMA StepIs ==
    ASSUME SearchTypes, WorkIsOfContents, NEW t \in Tasks, NEW pc \in IndexPcs, Step(t, pc)
    PROVE  \E k \in TaskType :
              /\ task' = [task EXCEPT ![t] = k]
              /\ k.pc = pc /\ k.of = task[t].of /\ k.left = task[t].left
              /\ k.text = task[t].text
<1> DEFINE k == [task[t] EXCEPT !.pc = pc]
<1>1. task[t] \in TaskType
  BY DEF SearchTypes
<1>2. /\ k \in TaskType
      /\ k.pc = pc /\ k.of = task[t].of /\ k.left = task[t].left /\ k.text = task[t].text
  BY <1>1 DEF TaskType
<1>3. task' = [task EXCEPT ![t] = k]
  BY DEF Step
<1>4. QED
  BY <1>2, <1>3

LEMMA IdleIsNothing ==
    /\ Idle \in TaskType /\ HeldBy(Idle)
    /\ Idle.pc = "idle"
BY DEF Idle, TaskType, IndexPcs, HeldBy

(* What comes still comes, if a step does not prevent it. *)
LEMMA TextStillComes ==
    ASSUME SearchTypes, TextComes,
           Made' = Made,
           \A n \in Made \cup {0} : IsNewest(n)' <=> IsNewest(n),
           textIndex'.text = textIndex.text,
           "text" \notin excused' => "text" \notin excused,
           \A n \in Contents : job[n] > 0 =>
              \/ job'[n] > 0
              \/ \E u \in Tasks : task'[u].of = n /\ task'[u].pc \in {"index", "extract"},
           "text" \notin excused' =>
              \A u \in Tasks : task[u].pc \in {"index", "extract"} =>
                 \/ task'[u].of = task[u].of /\ task'[u].pc \in {"index", "extract"}
                 \/ job'[task[u].of] > 0
    PROVE  TextComes'
<1>1. SUFFICES ASSUME "text" \notin excused', NEW n \in Made \cup {0}, IsNewest(n),
                      textIndex.text # n
               PROVE  /\ n \in Contents
                      /\ \/ job'[n] > 0
                         \/ \E u \in Tasks : task'[u].of = n /\ task'[u].pc \in {"index", "extract"}
  BY DEF TextComes
<1>2. /\ n \in Contents
      /\ \/ job[n] > 0
         \/ \E u \in Tasks : task[u].of = n /\ task[u].pc \in {"index", "extract"}
  BY <1>1 DEF TextComes
<1>3. CASE job[n] > 0
  BY <1>2, <1>3
<1>4. CASE \E u \in Tasks : task[u].of = n /\ task[u].pc \in {"index", "extract"}
  BY <1>1, <1>2, <1>4
<1>5. QED
  BY <1>2, <1>3, <1>4

Indexing == JobWaits \/ TaskAt({"index", "extract", "status"})

LEMMA EmbeddingStillComes ==
    ASSUME EmbeddingComes, textIndex'.text = textIndex.text, embedding' = embedding,
           "embedding" \notin excused' => "embedding" \notin excused,
           "embedding" \notin excused' /\ Indexing => Indexing',
           owed.embed > 0 => owed'.embed > 0,
           \A u \in Tasks : task[u].pc \in {"look", "create", "update"} => task'[u] = task[u]
    PROVE  EmbeddingComes'
<1>1. SUFFICES ASSUME "embedding" \notin excused' PROVE EmbeddingComes'
  BY DEF EmbeddingComes
<1>2. CASE Indexing
  BY <1>1, <1>2 DEF EmbeddingComes, Indexing
<1>3. CASE embedding = textIndex.text \/ owed.embed > 0
  BY <1>3 DEF EmbeddingComes
<1>4. ASSUME NEW u \in Tasks, task[u].text = textIndex.text,
             task[u].pc \in {"look", "update"} \/ (task[u].pc = "create" /\ embedding = 0)
      PROVE  EmbeddingComes'
  BY <1>4 DEF EmbeddingComes
<1>5. QED
  BY <1>1, <1>2, <1>3, <1>4 DEF EmbeddingComes, Indexing

LEMMA FoundStillComes ==
    ASSUME FoundComes, textIndex'.text = textIndex.text, found' = found, queued' = queued,
           "found" \notin excused' => "found" \notin excused,
           "found" \notin excused' /\ queued /\ Indexing => Indexing',
           owed.put > 0 => owed'.put > 0,
           \A u \in Tasks : task[u].pc \in {"put", "send"} => task'[u] = task[u]
    PROVE  FoundComes'
<1>1. SUFFICES ASSUME "found" \notin excused' PROVE FoundComes'
  BY DEF FoundComes
<1>2. CASE queued /\ Indexing
  BY <1>1, <1>2 DEF FoundComes, Indexing
<1>3. CASE found = textIndex.text \/ owed.put > 0
  BY <1>3 DEF FoundComes
<1>4. ASSUME NEW u \in Tasks,
             task[u].pc = "put" \/ (task[u].pc = "send" /\ task[u].text = textIndex.text)
      PROVE  FoundComes'
  BY <1>4 DEF FoundComes, TaskAt
<1>5. QED
  BY <1>1, <1>2, <1>3, <1>4 DEF FoundComes, Indexing, TaskAt

LEMMA StatusStillComes ==
    ASSUME StatusComes, filed'.ocrStatus = filed.ocrStatus,
           "status" \notin excused' => "status" \notin excused,
           "status" \notin excused' /\ Indexing => Indexing'
    PROVE  StatusComes'
BY DEF StatusComes, Indexing

LEMMA IndexingGoesOn ==
    ASSUME \A n \in Contents : job[n] > 0 => job'[n] > 0 \/ TaskAt({"index", "extract", "status"})',
           \A u \in Tasks : task[u].pc \in {"index", "extract", "status"} =>
              task'[u].pc \in {"index", "extract", "status"} \/ JobWaits'
    PROVE  Indexing => Indexing'
<1>1. JobWaits => Indexing'
  BY DEF JobWaits, Indexing
<1>2. TaskAt({"index", "extract", "status"}) => Indexing'
  BY DEF TaskAt, Indexing
<1>3. QED
  BY <1>1, <1>2 DEF Indexing

-----------------------------------------------------------------------------
LEMMA BeginIndexingKeeps ==
    ASSUME SearchIInv, NEW t \in Tasks, NEW n \in Contents, BeginIndexing(t, n)
    PROVE  SearchIInv'
<1> USE DEF SearchIInv
<1>1. /\ job \in [Contents -> 0 .. Attempts] /\ Attempts \in Nat
      /\ job[n] \in Nat /\ job[n] <= Attempts /\ n \in Nat /\ n > 0
  <2>1. job \in [Contents -> 0 .. Attempts]
    BY DEF SearchTypes, SearchTypeOK
  <2>2. Attempts \in Nat
    BY SearchBounds
  <2>3. n \in Nat /\ n > 0
    BY DEF Contents
  <2> HIDE DEF SearchIInv
  <2>4. QED
    BY <2>1, <2>2, <2>3
<1>2. /\ UNCHANGED <<queued, content, filed, textIndex, embedding, found, owed, faults, excused>>
      /\ job' = [job EXCEPT ![n] = 0] /\ job[n] > 0 /\ task[t].pc = "idle"
  BY DEF BeginIndexing
<1>3. PICK k : k = [Idle EXCEPT !.pc = "index", !.of = n, !.left = job[n] - 1]
  OBVIOUS
<1>4. /\ k.pc = "index" /\ k.of = n /\ k.left = job[n] - 1 /\ k.text = 0
      /\ k \in TaskType
  <2>1. k.pc = "index" /\ k.of = n /\ k.left = job[n] - 1 /\ k.text = 0
    BY <1>3 DEF Idle
  <2>2. job[n] - 1 \in Nat
    BY <1>1, <1>2
  <2>3. k \in TaskType
    BY <1>1, <1>3, <2>2 DEF Idle, TaskType, IndexPcs
  <2>4. QED
    BY <2>1, <2>3
<1>5. task' = [task EXCEPT ![t] = k]
  BY <1>3 DEF BeginIndexing
<1>50. HeldBy(k)
  BY <1>1, <1>2, <1>4 DEF HeldBy, WorkIsOfContents
<1>6. /\ task' \in [Tasks -> TaskType]
      /\ task'[t] = k
      /\ \A u \in Tasks : u # t => task'[u] = task[u]
      /\ \A u \in Tasks : HeldBy(task[u])'
      /\ Made' = Made
      /\ \A m \in Made \cup {0} : IsNewest(m)' <=> IsNewest(m)
      /\ \E m \in (Made \cup {0})' : IsNewest(m)'
  BY <1>2, <1>4, <1>5, <1>50, TasksHold
<1>7. /\ job' \in [Contents -> 0 .. Attempts]
      /\ \A m \in Contents : m # n => job'[m] = job[m]
      /\ job'[n] = 0
  BY <1>1, <1>2
<1>8. SearchTypes'
  BY <1>1, <1>2, <1>6, <1>7 DEF SearchTypes, SearchTypeOK
<1>9. WorkIsOfContents'
  BY <1>1, <1>2, <1>4, <1>5, <1>6, <1>7 DEF WorkIsOfContents, Indexable
<1>10. Indexing'
  BY <1>4, <1>5, <1>6 DEF Indexing, TaskAt
<1>11. \A u \in Tasks : task[u].pc # "idle" => task'[u] = task[u]
  BY <1>1, <1>2, <1>6
<1>12. TextComes'
  <2>1. \A m \in Contents : job[m] > 0 =>
              \/ job'[m] > 0
              \/ \E u \in Tasks : task'[u].of = m /\ task'[u].pc \in {"index", "extract"}
    BY <1>4, <1>5, <1>6, <1>7
  <2>2. QED
    BY <1>1, <1>2, <1>6, <1>11, <2>1, TextStillComes
<1>13. EmbeddingComes' /\ FoundComes'
  <2>1. EmbeddingComes'
    BY <1>1, <1>2, <1>10, <1>11, EmbeddingStillComes
  <2>2. FoundComes'
    BY <1>1, <1>2, <1>10, <1>11, FoundStillComes
  <2>3. QED
    BY <2>1, <2>2
<1>14. StatusComes'
  BY <1>10 DEF StatusComes, Indexing
<1>15. QED
  BY <1>8, <1>9, <1>12, <1>13, <1>14

LEMMA MarkProcessingKeeps ==
    ASSUME SearchIInv, NEW t \in Tasks, MarkProcessing(t)
    PROVE  SearchIInv'
<1> USE DEF SearchIInv
<1>1. /\ UNCHANGED <<queued, content, textIndex, embedding, found, job, owed, faults, excused>>
      /\ filed' = [filed EXCEPT !.ocrStatus = "processing"]
      /\ Step(t, "extract") /\ task[t].pc = "index"
  BY DEF MarkProcessing
<1>2. PICK k \in TaskType :
              /\ task' = [task EXCEPT ![t] = k]
              /\ k.pc = "extract" /\ k.of = task[t].of /\ k.left = task[t].left
              /\ k.text = task[t].text
  BY <1>1, StepIs DEF IndexPcs
<1>3. HeldBy(k)
  BY <1>1, <1>2 DEF HeldBy, WorkIsOfContents
<1>4. /\ task' \in [Tasks -> TaskType]
      /\ task'[t] = k
      /\ \A u \in Tasks : u # t => task'[u] = task[u]
      /\ \A u \in Tasks : HeldBy(task[u])'
      /\ Made' = Made
      /\ \A m \in Made \cup {0} : IsNewest(m)' <=> IsNewest(m)
      /\ \E m \in (Made \cup {0})' : IsNewest(m)'
  BY <1>1, <1>2, <1>3, TasksHold
<1>5. SearchTypes'
  <2>1. filed' \in [deleted : BOOLEAN, key : BOOLEAN,
                    ocrStatus : {"pending", "processing", "success", "failed"}]
    BY <1>1 DEF SearchTypes, SearchTypeOK
  <2>2. QED
    BY <1>1, <1>4, <2>1 DEF SearchTypes, SearchTypeOK
<1>6. WorkIsOfContents'
  BY <1>1, <1>2, <1>4 DEF WorkIsOfContents, Indexable
<1>7. Indexing'
  BY <1>2, <1>4 DEF Indexing, TaskAt
<1>8. /\ \A u \in Tasks : task[u].pc \notin {"idle", "index"} => task'[u] = task[u]
      /\ \A u \in Tasks : task[u].pc \in {"index", "extract"} =>
                             task'[u].of = task[u].of /\ task'[u].pc \in {"index", "extract"}
  BY <1>1, <1>2, <1>4
<1>9. TextComes'
  BY <1>1, <1>4, <1>8, TextStillComes
<1>10. EmbeddingComes' /\ FoundComes'
  BY <1>1, <1>7, <1>8, EmbeddingStillComes, FoundStillComes
<1>11. StatusComes'
  BY <1>7 DEF StatusComes, Indexing
<1>12. QED
  BY <1>5, <1>6, <1>9, <1>10, <1>11

LEMMA IndexingFailsKeeps ==
    ASSUME SearchIInv, NEW t \in Tasks, IndexingFails(t)
    PROVE  SearchIInv'
<1> DEFINE k == Idle
           n == task[t].of
           status == IF task[t].pc = "index" THEN {"status"} ELSE {}
<1> USE DEF SearchIInv
<1>1. /\ UNCHANGED <<queued, content, textIndex, embedding, found, owed>>
      /\ task' = [task EXCEPT ![t] = k] /\ task[t].pc \in {"index", "extract"}
      /\ job' = [job EXCEPT ![n] = task[t].left]
      /\ faults' = faults + 1
  BY DEF IndexingFails, IndexFault, Done
<1>2. /\ \/ task[t].left > 0 /\ excused' = excused
         \/ ~(task[t].left > 0) /\ excused' = excused \cup {"text", "embedding", "found"} \cup status
      /\ \/ task[t].pc = "extract" /\ filed' = [filed EXCEPT !.ocrStatus = "failed"]
         \/ task[t].pc = "index" /\ filed' = filed
  BY DEF IndexingFails
<1>3. HeldBy(k) /\ k \in TaskType /\ k.pc = "idle"
  BY IdleIsNothing
<1> HIDE DEF k
<1>4. /\ task' \in [Tasks -> TaskType]
      /\ task'[t] = k
      /\ \A u \in Tasks : u # t => task'[u] = task[u]
      /\ \A u \in Tasks : HeldBy(task[u])'
      /\ Made' = Made
      /\ \A m \in Made \cup {0} : IsNewest(m)' <=> IsNewest(m)
      /\ \E m \in (Made \cup {0})' : IsNewest(m)'
  BY <1>1, <1>3, TasksHold
<1>5. task[t] \in TaskType /\ HeldBy(task[t])
  BY DEF SearchTypes, WorkIsOfContents
<1>6. /\ n \in Made /\ n \in Contents /\ n > 0 /\ Indexable(n)
      /\ task[t].left \in 0 .. Attempts
  <2>1. n > 0 /\ Indexable(n) /\ task[t].left < Attempts
    BY <1>1, <1>5 DEF HeldBy
  <2>2. n \in Made /\ n \in Contents
    BY <2>1, ContentsAreNumbers DEF Indexable
  <2>3. task[t].left \in Nat
    BY <1>5 DEF TaskType
  <2>4. QED
    BY <2>1, <2>2, <2>3, SearchBounds
<1> HIDE DEF n
<1>7. /\ job' \in [Contents -> 0 .. Attempts]
      /\ job'[n] = task[t].left
      /\ \A m \in Contents : m # n => job'[m] = job[m]
  BY <1>1, <1>6 DEF SearchTypes, SearchTypeOK
<1>8. SearchTypes'
  <2>1. filed' \in [deleted : BOOLEAN, key : BOOLEAN,
                    ocrStatus : {"pending", "processing", "success", "failed"}]
    BY <1>2 DEF SearchTypes, SearchTypeOK
  <2>2. excused' \subseteq {"text", "found", "embedding", "status"}
    BY <1>2 DEF SearchTypes, SearchTypeOK
  <2>3. faults' \in Nat
    BY <1>1 DEF SearchTypes
  <2>4. QED
    BY <1>1, <1>4, <1>7, <2>1, <2>2, <2>3 DEF SearchTypes, SearchTypeOK
<1>9. WorkIsOfContents'
  BY <1>1, <1>3, <1>4, <1>6, <1>7 DEF WorkIsOfContents, Indexable
<1>10. ASSUME task[t].left > 0 PROVE Indexing'
  BY <1>6, <1>7, <1>10 DEF Indexing, JobWaits
<1>11. \A u \in Tasks : task[u].pc \notin {"idle", "index", "extract"} => task'[u] = task[u]
  BY <1>1, <1>4
<1>12. TextComes'
  <2>1. CASE ~(task[t].left > 0)
    BY <1>2, <2>1 DEF TextComes
  <2>2. CASE task[t].left > 0
    <3>1. \A m \in Contents : job[m] > 0 => job'[m] > 0
      BY <1>7, <2>2
    <3>2. \A u \in Tasks : task[u].pc \in {"index", "extract"} =>
                 \/ task'[u].of = task[u].of /\ task'[u].pc \in {"index", "extract"}
                 \/ job'[task[u].of] > 0
      BY <1>4, <1>7, <2>2 DEF n
    <3>3. QED
      BY <1>1, <1>2, <1>4, <2>2, <3>1, <3>2, TextStillComes
  <2>3. QED
    BY <2>1, <2>2
<1>13. EmbeddingComes' /\ FoundComes'
  <2>1. CASE ~(task[t].left > 0)
    BY <1>2, <2>1 DEF EmbeddingComes, FoundComes
  <2>2. CASE task[t].left > 0
    BY <1>1, <1>2, <1>10, <1>11, <2>2, EmbeddingStillComes, FoundStillComes
  <2>3. QED
    BY <2>1, <2>2
<1>14. StatusComes'
  <2>1. CASE task[t].left > 0
    BY <1>10, <2>1 DEF StatusComes, Indexing
  <2>2. CASE ~(task[t].left > 0) /\ task[t].pc = "index"
    BY <1>2, <2>2 DEF StatusComes
  <2>3. CASE task[t].pc = "extract"
    <3>1. filed'.ocrStatus = "failed"
      BY <1>2, <2>3 DEF SearchTypes, SearchTypeOK
    <3>2. QED
      BY <3>1 DEF StatusComes
  <2>4. QED
    BY <1>1, <2>1, <2>2, <2>3
<1>15. QED
  BY <1>8, <1>9, <1>12, <1>13, <1>14

LEMMA WriteTextKeeps ==
    ASSUME SearchIInv, NEW t \in Tasks, WriteText(t)
    PROVE  SearchIInv'
<1> DEFINE n == task[t].of
<1> USE DEF SearchIInv
<1>1. /\ UNCHANGED <<queued, content, filed, embedding, found, job, owed, faults>>
      /\ textIndex' = [versionId |-> n, text |-> n]
      /\ excused' = (IF n = Newest THEN excused \ {"text"}
                     ELSE IF textIndex.text > n THEN excused \cup {"text"} ELSE excused)
                    \cup (IF queued THEN {} ELSE {"found"})
      /\ Step(t, "status") /\ task[t].pc = "extract"
  BY DEF WriteText
<1>2. PICK k \in TaskType :
              /\ task' = [task EXCEPT ![t] = k]
              /\ k.pc = "status" /\ k.of = task[t].of /\ k.left = task[t].left
              /\ k.text = task[t].text
  BY <1>1, StepIs DEF IndexPcs
<1>3. HeldBy(k)
  BY <1>1, <1>2 DEF HeldBy, WorkIsOfContents
<1>4. /\ task' \in [Tasks -> TaskType]
      /\ task'[t] = k
      /\ \A u \in Tasks : u # t => task'[u] = task[u]
      /\ \A u \in Tasks : HeldBy(task[u])'
      /\ Made' = Made
      /\ \A m \in Made \cup {0} : IsNewest(m)' <=> IsNewest(m)
      /\ \E m \in (Made \cup {0})' : IsNewest(m)'
  BY <1>1, <1>2, <1>3, TasksHold
<1>5. n \in Made /\ n \in Nat /\ n > 0 /\ Indexable(n)
  <2>1. Indexable(n)
    BY <1>1 DEF HeldBy, WorkIsOfContents
  <2>2. QED
    BY <2>1, ContentsAreNumbers DEF Indexable
<1>6. textIndex'.text = n /\ textIndex' \in [versionId : Made \cup {0}, text : Made \cup {0}]
  BY <1>1, <1>5
<1>7. excused' \subseteq {"text", "found", "embedding", "status"}
  BY <1>1 DEF SearchTypes, SearchTypeOK
<1>8. SearchTypes'
  BY <1>1, <1>4, <1>6, <1>7 DEF SearchTypes, SearchTypeOK
<1>9. WorkIsOfContents'
  BY <1>1, <1>4, <1>5, <1>6 DEF WorkIsOfContents, Indexable
<1>10. TaskAt({"index", "extract", "status"})'
  BY <1>2, <1>4 DEF TaskAt
<1>11. EmbeddingComes' /\ StatusComes'
  BY <1>10 DEF EmbeddingComes, StatusComes
<1>12. FoundComes'
  BY <1>1, <1>10 DEF FoundComes
<1>13. TextComes'
  <2>1. SUFFICES ASSUME "text" \notin excused', NEW m \in Made \cup {0}, IsNewest(m), n # m
                 PROVE  /\ m \in Contents
                        /\ \/ job[m] > 0
                           \/ \E u \in Tasks : task'[u].of = m /\ task'[u].pc \in {"index", "extract"}
    BY <1>1, <1>4, <1>6 DEF TextComes
  <2>2. m = Newest
    BY <2>1, NewestIs
  <2>3. "text" \notin excused /\ ~(textIndex.text > n)
    BY <1>1, <2>1, <2>2
  <2>4. n <= m /\ m \in Nat
    BY <1>5, <2>1, ContentsAreNumbers DEF IsNewest, Indexable
  <2>5. textIndex.text # m
    BY <1>5, <2>1, <2>3, <2>4
  <2>6. /\ m \in Contents
        /\ \/ job[m] > 0
           \/ \E u \in Tasks : task[u].of = m /\ task[u].pc \in {"index", "extract"}
    BY <2>1, <2>3, <2>5 DEF TextComes
  <2>7. QED
    BY <1>4, <2>1, <2>6
<1>14. QED
  BY <1>8, <1>9, <1>11, <1>12, <1>13

LEMMA SetStatusKeeps ==
    ASSUME SearchIInv, NEW t \in Tasks, SetStatus(t)
    PROVE  SearchIInv'
<1> USE DEF SearchIInv
<1>1. /\ UNCHANGED <<queued, content, textIndex, embedding, found, job>>
      /\ task[t].pc = "status"
      /\ owed' = [owed EXCEPT !.embed = owed.embed + 1]
      /\ IF queued THEN Step(t, "put") ELSE Done(t)
      /\ \/ /\ filed' = [filed EXCEPT !.ocrStatus = "success"]
            /\ excused' = excused \ {"status"} /\ faults' = faults
         \/ /\ filed' = [filed EXCEPT !.ocrStatus = filed.ocrStatus]
            /\ excused' = excused \cup {"status"} /\ faults' = faults + 1
  BY DEF SetStatus, FinishIndexing, IndexFault
<1>2. /\ task[t] \in TaskType /\ HeldBy(task[t]) /\ Idle.pc = "idle" /\ HeldBy(Idle)
      /\ Idle \in TaskType
  BY IdleIsNothing DEF SearchTypes, WorkIsOfContents
<1>3. PICK k \in TaskType :
              /\ task' = [task EXCEPT ![t] = k]
              /\ \/ queued /\ k.pc = "put" /\ k.of = task[t].of /\ k.left = task[t].left
                           /\ k.text = task[t].text
                 \/ ~queued /\ k = Idle
  <2>1. CASE queued
    BY <1>1, <2>1, StepIs DEF IndexPcs
  <2>2. CASE ~queued
    BY <1>1, <1>2, <2>2 DEF Done
  <2>3. QED
    BY <2>1, <2>2
<1>4. HeldBy(k)
  BY <1>1, <1>2, <1>3 DEF HeldBy
<1>5. /\ task' \in [Tasks -> TaskType]
      /\ task'[t] = k
      /\ \A u \in Tasks : u # t => task'[u] = task[u]
      /\ \A u \in Tasks : HeldBy(task[u])'
      /\ Made' = Made
      /\ \A m \in Made \cup {0} : IsNewest(m)' <=> IsNewest(m)
      /\ \E m \in (Made \cup {0})' : IsNewest(m)'
  BY <1>1, <1>3, <1>4, TasksHold
<1>6. /\ owed' \in [put : Nat, embed : Nat] /\ owed'.embed > 0 /\ owed'.put = owed.put
      /\ faults' \in Nat
  BY <1>1 DEF SearchTypes
<1>7. filed' \in [deleted : BOOLEAN, key : BOOLEAN,
                  ocrStatus : {"pending", "processing", "success", "failed"}]
  BY <1>1 DEF SearchTypes, SearchTypeOK
<1>8. excused' \subseteq {"text", "found", "embedding", "status"}
  BY <1>1 DEF SearchTypes, SearchTypeOK
<1>9. SearchTypes'
  BY <1>1, <1>5, <1>6, <1>7, <1>8 DEF SearchTypes, SearchTypeOK
<1>10. textIndex.text # 0
  BY <1>1 DEF WorkIsOfContents
<1>11. WorkIsOfContents'
  BY <1>1, <1>5, <1>10 DEF WorkIsOfContents, Indexable
<1>12. TextComes'
  <2>1. \A u \in Tasks : task[u].pc \in {"index", "extract"} => task'[u] = task[u]
    BY <1>1, <1>5
  <2>2. "text" \notin excused' => "text" \notin excused
    BY <1>1
  <2>3. QED
    BY <1>1, <1>5, <2>1, <2>2, TextStillComes
<1>13. EmbeddingComes'
  BY <1>6 DEF EmbeddingComes
<1>14. FoundComes'
  <2>1. CASE queued
    BY <1>3, <1>5, <2>1 DEF FoundComes, TaskAt
  <2>2. CASE ~queued
    <3>1. \A u \in Tasks : task[u].pc \in {"put", "send"} => task'[u] = task[u]
      BY <1>1, <1>5
    <3>2. "found" \notin excused' => "found" \notin excused
      BY <1>1
    <3>3. QED
      BY <1>1, <1>6, <2>2, <3>1, <3>2, FoundStillComes
  <2>3. QED
    BY <2>1, <2>2
<1>15. StatusComes'
  <2>1. CASE "status" \in excused'
    BY <2>1 DEF StatusComes
  <2>2. CASE filed' = [filed EXCEPT !.ocrStatus = "success"]
    <3>1. filed'.ocrStatus = "success"
      BY <2>2 DEF SearchTypes, SearchTypeOK
    <3>2. QED
      BY <3>1 DEF StatusComes
  <2>3. QED
    BY <1>1, <2>1, <2>2
<1>16. QED
  BY <1>9, <1>11, <1>12, <1>13, <1>14, <1>15

LEMMA BeginPutKeeps ==
    ASSUME SearchIInv, NEW t \in Tasks, BeginPut(t)
    PROVE  SearchIInv'
<1> USE DEF SearchIInv
<1>1. /\ UNCHANGED <<queued, content, filed, textIndex, embedding, found, job, faults, excused>>
      /\ task[t].pc = "idle" /\ owed.put > 0
      /\ owed' = [owed EXCEPT !.put = owed.put - 1]
  BY DEF BeginPut
<1>2. PICK k : k = [Idle EXCEPT !.pc = "put"]
  OBVIOUS
<1>3. /\ k.pc = "put" /\ k.of = 0 /\ k.text = 0 /\ k \in TaskType
      /\ task' = [task EXCEPT ![t] = k]
  BY <1>2 DEF Idle, TaskType, IndexPcs, BeginPut
<1>4. HeldBy(k)
  BY <1>3 DEF HeldBy
<1>5. /\ task' \in [Tasks -> TaskType]
      /\ task'[t] = k
      /\ \A u \in Tasks : u # t => task'[u] = task[u]
      /\ \A u \in Tasks : HeldBy(task[u])'
      /\ Made' = Made
      /\ \A m \in Made \cup {0} : IsNewest(m)' <=> IsNewest(m)
      /\ \E m \in (Made \cup {0})' : IsNewest(m)'
  BY <1>1, <1>3, <1>4, TasksHold
<1>6. owed' \in [put : Nat, embed : Nat] /\ owed'.embed = owed.embed
  BY <1>1 DEF SearchTypes
<1>7. SearchTypes'
  BY <1>1, <1>5, <1>6 DEF SearchTypes, SearchTypeOK
<1>8. WorkIsOfContents'
  BY <1>1, <1>3, <1>5, <1>6 DEF WorkIsOfContents, Indexable
<1>9. \A u \in Tasks : task[u].pc # "idle" => task'[u] = task[u]
  BY <1>1, <1>5
<1>10. Indexing => Indexing'
  BY <1>1, <1>9 DEF Indexing, JobWaits, TaskAt
<1>11. TextComes'
  BY <1>1, <1>5, <1>9, TextStillComes
<1>12. EmbeddingComes' /\ StatusComes'
  BY <1>1, <1>6, <1>9, <1>10, EmbeddingStillComes, StatusStillComes
<1>13. FoundComes'
  BY <1>3, <1>5 DEF FoundComes, TaskAt
<1>14. QED
  BY <1>7, <1>8, <1>11, <1>12, <1>13

LEMMA ReadTextKeeps ==
    ASSUME SearchIInv, NEW t \in Tasks, ReadText(t)
    PROVE  SearchIInv'
<1> USE DEF SearchIInv
<1>1. /\ UNCHANGED <<queued, content, filed, textIndex, embedding, found, job, owed, faults, excused>>
      /\ task[t].pc = "put"
  BY DEF ReadText
<1>2. PICK k : k = [task[t] EXCEPT !.pc = "send", !.text = textIndex.text]
  OBVIOUS
<1>3. task[t] \in TaskType /\ textIndex.text \in Made \cup {0} /\ textIndex.text \in Nat
  BY ContentsAreNumbers DEF SearchTypes
<1>4. /\ k.pc = "send" /\ k.of = task[t].of /\ k.left = task[t].left
      /\ k.text = textIndex.text /\ k \in TaskType
  BY <1>2, <1>3 DEF TaskType, IndexPcs
<1>5. task' = [task EXCEPT ![t] = k]
  BY <1>2 DEF ReadText
<1>6. HeldBy(k)
  BY <1>1, <1>3, <1>4 DEF HeldBy, WorkIsOfContents
<1>7. /\ task' \in [Tasks -> TaskType]
      /\ task'[t] = k
      /\ \A u \in Tasks : u # t => task'[u] = task[u]
      /\ \A u \in Tasks : HeldBy(task[u])'
      /\ Made' = Made
      /\ \A m \in Made \cup {0} : IsNewest(m)' <=> IsNewest(m)
      /\ \E m \in (Made \cup {0})' : IsNewest(m)'
  BY <1>1, <1>4, <1>5, <1>6, TasksHold
<1>8. SearchTypes'
  BY <1>1, <1>7 DEF SearchTypes, SearchTypeOK
<1>9. WorkIsOfContents'
  BY <1>1, <1>4, <1>7 DEF WorkIsOfContents, Indexable
<1>10. \A u \in Tasks : task[u].pc # "put" => task'[u] = task[u]
  BY <1>1, <1>7
<1>11. Indexing => Indexing'
  BY <1>1, <1>10 DEF Indexing, JobWaits, TaskAt
<1>12. TextComes'
  BY <1>1, <1>7, <1>10, TextStillComes
<1>13. EmbeddingComes' /\ StatusComes'
  BY <1>1, <1>10, <1>11, EmbeddingStillComes, StatusStillComes
<1>14. FoundComes'
  BY <1>1, <1>4, <1>7 DEF FoundComes
<1>15. QED
  BY <1>8, <1>9, <1>12, <1>13, <1>14

LEMMA SendKeeps ==
    ASSUME SearchIInv, NEW t \in Tasks, Send(t)
    PROVE  SearchIInv'
<1> DEFINE k == Idle
<1> USE DEF SearchIInv
<1>1. /\ UNCHANGED <<queued, content, filed, textIndex, embedding, job, owed>>
      /\ task[t].pc = "send" /\ task' = [task EXCEPT ![t] = k]
      /\ \/ /\ found' = task[t].text /\ faults' = faults
            /\ excused' = (IF task[t].text # textIndex.text THEN excused \cup {"found"}
                           ELSE excused \ {"found"})
         \/ /\ found' = found /\ faults' = faults + 1
            /\ excused' = excused \cup {"found"}
  BY DEF Send, Done, Excuse, IndexFault
<1>2. HeldBy(k) /\ k \in TaskType /\ k.pc = "idle"
  BY IdleIsNothing
<1> HIDE DEF k
<1>3. /\ task' \in [Tasks -> TaskType]
      /\ task'[t] = k
      /\ \A u \in Tasks : u # t => task'[u] = task[u]
      /\ \A u \in Tasks : HeldBy(task[u])'
      /\ Made' = Made
      /\ \A m \in Made \cup {0} : IsNewest(m)' <=> IsNewest(m)
      /\ \E m \in (Made \cup {0})' : IsNewest(m)'
  BY <1>1, <1>2, TasksHold
<1>4. /\ excused' \subseteq {"text", "found", "embedding", "status"}
      /\ faults' \in Nat
      /\ found' \in Made \cup {0}
  <2>1. excused' \subseteq {"text", "found", "embedding", "status"}
    BY <1>1 DEF SearchTypes, SearchTypeOK
  <2>2. faults' \in Nat
    BY <1>1 DEF SearchTypes
  <2>3. found' \in Made \cup {0}
    BY <1>1 DEF SearchTypes, SearchTypeOK, WorkIsOfContents, HeldBy
  <2>4. QED
    BY <2>1, <2>2, <2>3
<1>5. SearchTypes'
  BY <1>1, <1>3, <1>4 DEF SearchTypes, SearchTypeOK
<1>6. WorkIsOfContents'
  BY <1>1, <1>2, <1>3 DEF WorkIsOfContents, Indexable
<1>7. /\ \A u \in Tasks : task[u].pc # "send" => task'[u] = task[u]
      /\ \A x : x # "found" => (x \in excused' <=> x \in excused)
  BY <1>1, <1>3
<1>8. Indexing => Indexing'
  BY <1>1, <1>7 DEF Indexing, JobWaits, TaskAt
<1>9. TextComes'
  BY <1>1, <1>3, <1>7, TextStillComes
<1>10. EmbeddingComes' /\ StatusComes'
  BY <1>1, <1>7, <1>8, EmbeddingStillComes, StatusStillComes
<1>11. FoundComes'
  BY <1>1 DEF FoundComes
<1>12. QED
  BY <1>5, <1>6, <1>9, <1>10, <1>11

LEMMA BeginEmbeddingKeeps ==
    ASSUME SearchIInv, NEW t \in Tasks, BeginEmbedding(t)
    PROVE  SearchIInv'
<1> USE DEF SearchIInv
<1>1. /\ UNCHANGED <<queued, content, filed, textIndex, embedding, found, job, faults, excused>>
      /\ task[t].pc = "idle" /\ owed.embed > 0
      /\ owed' = [owed EXCEPT !.embed = owed.embed - 1]
  BY DEF BeginEmbedding
<1>2. PICK k : k = [Idle EXCEPT !.pc = "look", !.text = textIndex.text]
  OBVIOUS
<1>3. /\ textIndex.text \in Made \cup {0} /\ textIndex.text \in Nat
      /\ textIndex.text # 0
  BY <1>1, ContentsAreNumbers DEF SearchTypes, WorkIsOfContents
<1>4. /\ k.pc = "look" /\ k.of = 0 /\ k.text = textIndex.text /\ k \in TaskType
  BY <1>2, <1>3 DEF Idle, TaskType, IndexPcs
<1>5. task' = [task EXCEPT ![t] = k]
  BY <1>2, <1>3 DEF BeginEmbedding
<1>6. HeldBy(k)
  BY <1>3, <1>4 DEF HeldBy
<1>7. /\ task' \in [Tasks -> TaskType]
      /\ task'[t] = k
      /\ \A u \in Tasks : u # t => task'[u] = task[u]
      /\ \A u \in Tasks : HeldBy(task[u])'
      /\ Made' = Made
      /\ \A m \in Made \cup {0} : IsNewest(m)' <=> IsNewest(m)
      /\ \E m \in (Made \cup {0})' : IsNewest(m)'
  BY <1>1, <1>4, <1>5, <1>6, TasksHold
<1>8. owed' \in [put : Nat, embed : Nat] /\ owed'.put = owed.put
  BY <1>1 DEF SearchTypes
<1>9. SearchTypes'
  BY <1>1, <1>7, <1>8 DEF SearchTypes, SearchTypeOK
<1>10. WorkIsOfContents'
  BY <1>1, <1>3, <1>7 DEF WorkIsOfContents, Indexable
<1>11. \A u \in Tasks : task[u].pc # "idle" => task'[u] = task[u]
  BY <1>1, <1>7
<1>12. Indexing => Indexing'
  BY <1>1, <1>11 DEF Indexing, JobWaits, TaskAt
<1>13. TextComes'
  BY <1>1, <1>7, <1>11, TextStillComes
<1>14. EmbeddingComes'
  BY <1>1, <1>4, <1>7 DEF EmbeddingComes
<1>15. FoundComes' /\ StatusComes'
  BY <1>1, <1>8, <1>11, <1>12, FoundStillComes, StatusStillComes
<1>16. QED
  BY <1>9, <1>10, <1>13, <1>14, <1>15

LEMMA LookForEmbeddingKeeps ==
    ASSUME SearchIInv, NEW t \in Tasks, LookForEmbedding(t)
    PROVE  SearchIInv'
<1> USE DEF SearchIInv
<1>1. /\ UNCHANGED <<queued, content, filed, textIndex, embedding, found, job, owed, faults, excused>>
      /\ task[t].pc = "look"
      /\ IF embedding = task[t].text THEN Done(t)
         ELSE Step(t, IF embedding = 0 THEN "create" ELSE "update")
  BY DEF LookForEmbedding
<1>2. /\ task[t] \in TaskType /\ HeldBy(task[t]) /\ Idle.pc = "idle" /\ HeldBy(Idle)
      /\ Idle \in TaskType
  BY IdleIsNothing DEF SearchTypes, WorkIsOfContents
<1>3. PICK k \in TaskType :
              /\ task' = [task EXCEPT ![t] = k]
              /\ \/ embedding = task[t].text /\ k = Idle
                 \/ /\ (embedding = 0 /\ k.pc = "create") \/ (embedding # 0 /\ k.pc = "update")
                    /\ k.of = task[t].of /\ k.left = task[t].left
                    /\ k.text = task[t].text
  <2>1. CASE embedding = task[t].text
    BY <1>1, <1>2, <2>1 DEF Done
  <2>2. CASE embedding # task[t].text /\ embedding = 0
    <3>1. Step(t, "create")
      BY <1>1, <2>2
    <3>2. QED
      BY <2>2, <3>1, StepIs DEF IndexPcs
  <2>3. CASE embedding # task[t].text /\ embedding # 0
    <3>1. Step(t, "update")
      BY <1>1, <2>3
    <3>2. QED
      BY <2>3, <3>1, StepIs DEF IndexPcs
  <2>4. QED
    BY <2>1, <2>2, <2>3
<1>4. HeldBy(k)
  BY <1>1, <1>2, <1>3 DEF HeldBy
<1>5. /\ task' \in [Tasks -> TaskType]
      /\ task'[t] = k
      /\ \A u \in Tasks : u # t => task'[u] = task[u]
      /\ \A u \in Tasks : HeldBy(task[u])'
      /\ Made' = Made
      /\ \A m \in Made \cup {0} : IsNewest(m)' <=> IsNewest(m)
      /\ \E m \in (Made \cup {0})' : IsNewest(m)'
  BY <1>1, <1>3, <1>4, TasksHold
<1>6. SearchTypes'
  BY <1>1, <1>5 DEF SearchTypes, SearchTypeOK
<1>7. textIndex.text # 0
  BY <1>1 DEF WorkIsOfContents
<1>8. WorkIsOfContents'
  BY <1>1, <1>5, <1>7 DEF WorkIsOfContents, Indexable
<1>9. \A u \in Tasks : task[u].pc # "look" => task'[u] = task[u]
  BY <1>1, <1>5
<1>10. Indexing => Indexing'
  BY <1>1, <1>9 DEF Indexing, JobWaits, TaskAt
<1>11. TextComes'
  BY <1>1, <1>5, <1>9, TextStillComes
<1>12. FoundComes' /\ StatusComes'
  BY <1>1, <1>9, <1>10, FoundStillComes, StatusStillComes
<1>13. EmbeddingComes'
  <2>1. CASE task[t].text = textIndex.text
    BY <1>1, <1>3, <1>5, <2>1 DEF EmbeddingComes
  <2>2. CASE task[t].text # textIndex.text
    <3>1. ASSUME NEW u \in Tasks, task[u].text = textIndex.text,
                 task[u].pc \in {"look", "update"} \/ (task[u].pc = "create" /\ embedding = 0)
          PROVE  EmbeddingComes'
      <4>1. task'[u] = task[u]
        BY <1>5, <2>2, <3>1
      <4>2. QED
        BY <1>1, <3>1, <4>1 DEF EmbeddingComes
    <3>2. CASE Indexing
      BY <1>10, <3>2 DEF EmbeddingComes, Indexing
    <3>3. CASE "embedding" \in excused \/ embedding = textIndex.text \/ owed.embed > 0
      BY <1>1, <3>3 DEF EmbeddingComes
    <3>4. QED
      BY <3>1, <3>2, <3>3 DEF EmbeddingComes, Indexing
  <2>3. QED
    BY <2>1, <2>2
<1>14. QED
  BY <1>6, <1>8, <1>11, <1>12, <1>13

LEMMA WriteEmbeddingKeeps ==
    ASSUME SearchIInv, NEW t \in Tasks, WriteEmbedding(t)
    PROVE  SearchIInv'
<1> DEFINE k == Idle
<1> USE DEF SearchIInv
<1>1. /\ UNCHANGED <<queued, content, filed, textIndex, found, job, owed>>
      /\ task[t].pc \in {"create", "update"} /\ task' = [task EXCEPT ![t] = k]
      /\ \/ /\ task[t].pc = "create" /\ embedding # 0
            /\ embedding' = embedding /\ excused' = excused /\ faults' = faults
         \/ /\ ~(task[t].pc = "create" /\ embedding # 0)
            /\ embedding' = task[t].text /\ faults' = faults
            /\ excused' = (IF task[t].text # textIndex.text THEN excused \cup {"embedding"}
                           ELSE excused \ {"embedding"})
         \/ /\ embedding' = embedding /\ faults' = faults + 1
            /\ excused' = excused \cup {"embedding"}
  BY DEF WriteEmbedding, Done, Excuse, IndexFault
<1>2. HeldBy(k) /\ k \in TaskType /\ k.pc = "idle"
  BY IdleIsNothing
<1> HIDE DEF k
<1>3. /\ task' \in [Tasks -> TaskType]
      /\ task'[t] = k
      /\ \A u \in Tasks : u # t => task'[u] = task[u]
      /\ \A u \in Tasks : HeldBy(task[u])'
      /\ Made' = Made
      /\ \A m \in Made \cup {0} : IsNewest(m)' <=> IsNewest(m)
      /\ \E m \in (Made \cup {0})' : IsNewest(m)'
  BY <1>1, <1>2, TasksHold
<1>4. /\ excused' \subseteq {"text", "found", "embedding", "status"}
      /\ faults' \in Nat
      /\ embedding' \in Made \cup {0}
  <2>1. excused' \subseteq {"text", "found", "embedding", "status"}
    BY <1>1 DEF SearchTypes, SearchTypeOK
  <2>2. faults' \in Nat
    BY <1>1 DEF SearchTypes
  <2>3. embedding' \in Made \cup {0}
    BY <1>1 DEF SearchTypes, SearchTypeOK, WorkIsOfContents, HeldBy
  <2>4. QED
    BY <2>1, <2>2, <2>3
<1>5. SearchTypes'
  BY <1>1, <1>3, <1>4 DEF SearchTypes, SearchTypeOK
<1>6. WorkIsOfContents'
  BY <1>1, <1>2, <1>3 DEF WorkIsOfContents, Indexable
<1>7. /\ \A u \in Tasks : task[u].pc \notin {"create", "update"} => task'[u] = task[u]
      /\ \A x : x # "embedding" => (x \in excused' <=> x \in excused)
  BY <1>1, <1>3
<1>8. Indexing => Indexing'
  BY <1>1, <1>7 DEF Indexing, JobWaits, TaskAt
<1>9. TextComes'
  BY <1>1, <1>3, <1>7, TextStillComes
<1>10. FoundComes' /\ StatusComes'
  BY <1>1, <1>7, <1>8, FoundStillComes, StatusStillComes
<1>11. EmbeddingComes'
  <2>1. CASE "embedding" \in excused' \/ embedding' = textIndex'.text
    BY <2>1 DEF EmbeddingComes
  <2>2. CASE /\ task[t].pc = "create" /\ embedding # 0
             /\ embedding' = embedding /\ excused' = excused
    <3>1. ASSUME NEW u \in Tasks, task[u].text = textIndex.text,
                 task[u].pc \in {"look", "update"} \/ (task[u].pc = "create" /\ embedding = 0)
          PROVE  EmbeddingComes'
      <4>1. task'[u] = task[u]
        BY <1>3, <2>2, <3>1
      <4>2. QED
        BY <1>1, <2>2, <3>1, <4>1 DEF EmbeddingComes
    <3>2. CASE Indexing
      BY <1>8, <3>2 DEF EmbeddingComes, Indexing
    <3>3. CASE "embedding" \in excused \/ embedding = textIndex.text \/ owed.embed > 0
      BY <1>1, <2>2, <3>3 DEF EmbeddingComes
    <3>4. QED
      BY <3>1, <3>2, <3>3 DEF EmbeddingComes, Indexing
  <2>3. QED
    BY <1>1, <2>1, <2>2
<1>12. QED
  BY <1>5, <1>6, <1>9, <1>10, <1>11

LEMMA StopKeeps ==
    ASSUME SearchIInv, NEW t \in Tasks, Stop(t)
    PROVE  SearchIInv'
<1> DEFINE k == Idle
           n == task[t].of
<1> USE DEF SearchIInv
<1>1. /\ UNCHANGED <<queued, content, filed, textIndex, embedding, found, owed>>
      /\ task[t].pc # "idle" /\ task' = [task EXCEPT ![t] = k]
      /\ faults' = faults + 1
      /\ \/ /\ queued /\ n > 0
            /\ job' = [job EXCEPT ![n] = task[t].left + 1] /\ excused' = excused
         \/ /\ ~(queued /\ n > 0)
            /\ job' = job /\ excused' = excused \cup Lost(t)
  BY DEF Stop, Done, IndexFault
<1>2. HeldBy(k) /\ k \in TaskType /\ k.pc = "idle"
  BY IdleIsNothing
<1> HIDE DEF k
<1>3. /\ task' \in [Tasks -> TaskType]
      /\ task'[t] = k
      /\ \A u \in Tasks : u # t => task'[u] = task[u]
      /\ \A u \in Tasks : HeldBy(task[u])'
      /\ Made' = Made
      /\ \A m \in Made \cup {0} : IsNewest(m)' <=> IsNewest(m)
      /\ \E m \in (Made \cup {0})' : IsNewest(m)'
  BY <1>1, <1>2, TasksHold
<1>4. task[t] \in TaskType /\ HeldBy(task[t])
  BY DEF SearchTypes, WorkIsOfContents
<1>5. Lost(t) \subseteq {"text", "found", "embedding", "status"}
  BY DEF Lost
<1>6. ASSUME n > 0
      PROVE  n \in Contents /\ Indexable(n) /\ task[t].left + 1 \in 0 .. Attempts
  <2>1. Indexable(n) /\ task[t].left < Attempts /\ task[t].left \in Nat
    BY <1>4, <1>6 DEF HeldBy, TaskType
  <2>2. n \in Contents
    BY <2>1, ContentsAreNumbers DEF Indexable
  <2>3. QED
    BY <2>1, <2>2, SearchBounds
<1>7. job \in [Contents -> 0 .. Attempts] /\ \A m \in Contents : job[m] \in Nat
  BY SearchBounds DEF SearchTypes, SearchTypeOK
<1>8. job' \in [Contents -> 0 .. Attempts]
  BY <1>1, <1>6, <1>7
<1>9. excused' \subseteq {"text", "found", "embedding", "status"} /\ faults' \in Nat
  <2>1. excused' \subseteq {"text", "found", "embedding", "status"}
    BY <1>1, <1>5 DEF SearchTypes, SearchTypeOK
  <2>2. QED
    BY <1>1, <2>1 DEF SearchTypes
<1>10. SearchTypes'
  BY <1>1, <1>3, <1>8, <1>9 DEF SearchTypes, SearchTypeOK
<1>11. WorkIsOfContents'
  <2>1. \A m \in Contents : job'[m] > 0 => Indexable(m)
    BY <1>1, <1>6, <1>7 DEF WorkIsOfContents
  <2>2. QED
    BY <1>1, <1>2, <1>3, <2>1 DEF WorkIsOfContents, Indexable
<1>12. \A u \in Tasks : u # t => task'[u] = task[u]
  BY <1>3
<1>13. CASE queued /\ n > 0
  <2>1. job'[n] > 0 /\ \A m \in Contents : job[m] > 0 => job'[m] > 0
    BY <1>1, <1>4, <1>6, <1>7, <1>13 DEF TaskType
  <2>2. Indexing'
    BY <1>6, <1>13, <2>1 DEF Indexing, JobWaits
  <2>3. TextComes'
    <3>1. \A u \in Tasks : task[u].pc \in {"index", "extract"} =>
                 \/ task'[u].of = task[u].of /\ task'[u].pc \in {"index", "extract"}
                 \/ job'[task[u].of] > 0
      BY <1>12, <2>1
    <3>2. QED
      BY <1>1, <1>3, <1>13, <2>1, <3>1, TextStillComes
  <2>4. EmbeddingComes' /\ StatusComes' /\ FoundComes'
    BY <1>1, <1>13, <2>2 DEF EmbeddingComes, StatusComes, FoundComes, Indexing
  <2>5. QED
    BY <1>10, <1>11, <2>3, <2>4
<1>14. CASE ~(queued /\ n > 0)
  <2>1. job' = job /\ excused' = excused \cup Lost(t)
    BY <1>1, <1>14
  <2>2. CASE task[t].pc \in {"put", "send"}
    <3>1. /\ "found" \in excused'
          /\ \A x : x # "found" => (x \in excused' <=> x \in excused)
      BY <2>1, <2>2 DEF Lost
    <3>2. \A u \in Tasks : task[u].pc \notin {"put", "send"} => task'[u] = task[u]
      BY <1>12, <2>2
    <3>3. Indexing => Indexing'
      BY <2>1, <3>2 DEF Indexing, JobWaits, TaskAt
    <3>4. TextComes'
      BY <1>1, <1>3, <2>1, <3>1, <3>2, TextStillComes
    <3>5. EmbeddingComes' /\ StatusComes'
      BY <1>1, <3>1, <3>2, <3>3, EmbeddingStillComes, StatusStillComes
    <3>6. FoundComes'
      BY <3>1 DEF FoundComes
    <3>7. QED
      BY <1>10, <1>11, <3>4, <3>5, <3>6
  <2>3. CASE task[t].pc \in {"index", "extract", "status"}
    <3>1. n > 0 /\ ~queued
      BY <1>4, <1>14, <2>3 DEF HeldBy
    <3>2. /\ "text" \in excused' /\ "embedding" \in excused' /\ "status" \in excused'
          /\ "found" \in excused' <=> "found" \in excused
      BY <2>1, <2>3, <3>1 DEF Lost
    <3>3. \A u \in Tasks : task[u].pc \in {"put", "send"} => task'[u] = task[u]
      BY <1>12, <2>3
    <3>4. FoundComes'
      BY <1>1, <3>1, <3>2, <3>3, FoundStillComes
    <3>5. TextComes' /\ EmbeddingComes' /\ StatusComes'
      BY <3>2 DEF TextComes, EmbeddingComes, StatusComes
    <3>6. QED
      BY <1>10, <1>11, <3>4, <3>5
  <2>4. CASE task[t].pc \in {"look", "create", "update"}
    <3>1. n = 0
      BY <1>4, <2>4 DEF HeldBy
    <3>2. /\ "embedding" \in excused'
          /\ \A x : x # "embedding" => (x \in excused' <=> x \in excused)
      BY <2>1, <2>4, <3>1 DEF Lost
    <3>3. \A u \in Tasks : task[u].pc \notin {"look", "create", "update"} => task'[u] = task[u]
      BY <1>12, <2>4
    <3>4. Indexing => Indexing'
      BY <2>1, <3>3 DEF Indexing, JobWaits, TaskAt
    <3>5. TextComes'
      BY <1>1, <1>3, <2>1, <3>2, <3>3, TextStillComes
    <3>6. FoundComes' /\ StatusComes'
      BY <1>1, <3>2, <3>3, <3>4, FoundStillComes, StatusStillComes
    <3>7. EmbeddingComes'
      BY <3>2 DEF EmbeddingComes
    <3>8. QED
      BY <1>10, <1>11, <3>5, <3>6, <3>7
  <2>5. QED
    BY <1>1, <1>4, <2>2, <2>3, <2>4 DEF TaskType, IndexPcs
<1>15. QED
  BY <1>13, <1>14

LEMMA SearchKeeps ==
    ASSUME SearchIInv, [SearchNext]_searchVars
    PROVE  SearchIInv'
<1>1. CASE AddVersion
  BY <1>1, AddVersionKeeps
<1>2. CASE Redact
  BY <1>2, RedactKeeps
<1>3. CASE Save
  BY <1>3, SaveKeeps
<1>4. CASE DeleteDocument \/ DestroyKey
  BY <1>4, DocumentChanges
<1>5. CASE Reindex
  BY <1>5, ReindexKeeps
<1>6. ASSUME NEW t \in Tasks, NEW n \in Contents, BeginIndexing(t, n) PROVE SearchIInv'
  BY <1>6, BeginIndexingKeeps
<1>7. ASSUME NEW t \in Tasks,
             MarkProcessing(t) \/ IndexingFails(t) \/ WriteText(t) \/ SetStatus(t)
      PROVE  SearchIInv'
  BY <1>7, MarkProcessingKeeps, IndexingFailsKeeps, WriteTextKeeps, SetStatusKeeps
<1>8. ASSUME NEW t \in Tasks, BeginPut(t) \/ ReadText(t) \/ Send(t) PROVE SearchIInv'
  BY <1>8, BeginPutKeeps, ReadTextKeeps, SendKeeps
<1>9. ASSUME NEW t \in Tasks, BeginEmbedding(t) \/ LookForEmbedding(t) \/ WriteEmbedding(t)
      PROVE  SearchIInv'
  BY <1>9, BeginEmbeddingKeeps, LookForEmbeddingKeeps, WriteEmbeddingKeeps
<1>10. ASSUME NEW t \in Tasks, Stop(t) PROVE SearchIInv'
  BY <1>10, StopKeeps
<1>11. CASE UNCHANGED searchVars
  BY <1>11 DEF searchVars, SearchIInv, SearchTypes, SearchTypeOK, IsNewest, Made,
               WorkIsOfContents, HeldBy, Indexable, TextComes, EmbeddingComes, FoundComes,
               StatusComes, JobWaits, TaskAt
<1>12. QED
  BY <1>1, <1>2, <1>3, <1>4, <1>5, <1>6, <1>7, <1>8, <1>9, <1>10, <1>11 DEF SearchNext

(* However uploads, saves, redactions, jobs, promises and stops mix, when  *)
(* all is quiet the row has the newest text, the embedding and the copy in *)
(* OpenSearch are of that row, and no document is processed for ever,      *)
(* unless the last write of the copy failed, was lost or was stale.        *)
THEOREM CopiesComeToAgree == SearchSpec => []SearchInv
<1>1. SearchInit => SearchIInv
  BY SearchStarts
<1>2. SearchIInv /\ [SearchNext]_searchVars => SearchIInv'
  BY SearchKeeps
<1>3. SearchIInv => SearchInv
  BY SearchImplies
<1>4. QED
  BY <1>1, <1>2, <1>3, PTL DEF SearchSpec

-----------------------------------------------------------------------------
(***************************************************************************)
(* PasskeyInv, for any instances, verifiers, challenges and troubles.      *)
(***************************************************************************)

Entries == [challenge : Keys, until : Int]
Counts  == [Keys -> Nat]

Columns == UNION {[D -> Nat] : D \in SUBSET Keys}

Handed(c) == challenges[c].flow # "none"

(* Types, and the numbering of challenges. *)
PasskeyTypes ==
    /\ PasskeyTypeOK
    /\ minute \in 0 .. LastMinute /\ upSince \in Nat /\ redisUp \in BOOLEAN
    /\ outages \in Nat /\ restarts \in Nat
    /\ inRedis \in [Keys -> Entries]
    /\ inMemory \in [Instances -> [Keys -> Entries]]
    /\ verifier \in [Verifiers -> [pc : {"idle", "found", "checked", "forget"},
                                   at : Instances \cup {"nowhere"},
                                   challenge : Keys, read : Columns]]
    /\ counters \in Counts
    /\ credentials \in Columns
    /\ upSince <= minute
    /\ \A c \in Challenges : challenges[c].at <= minute
    /\ \A v \in Verifiers : verifier[v].pc # "idle" => verifier[v].at \in Instances

(* Nothing is known of a challenge before it is handed out. *)
FreshIsUnknown ==
    \A c \in Challenges : ~Handed(c) =>
       /\ challenges[c] = NotHanded
       /\ logins[c] = 0
       /\ \A v \in Verifiers : verifier[v].challenge # c
       /\ \A k \in Keys : inRedis[k].challenge # c
       /\ \A d \in Challenges : c < d => ~Handed(d)

(* Every challenge waits under its key. *)
EntriesAreKeyed ==
    \A k \in Keys : inRedis[k].challenge # 0 => k = KeyOf(inRedis[k].challenge)

(* A session is opened for an answer that was signed, with a passkey that  *)
(* was confirmed. *)
SignedIsConfirmed ==
    /\ \A c \in Challenges :
          /\ logins[c] > 0 => challenges[c].flow = "login" /\ challenges[c].by # Nobody
          /\ challenges[c].flow = "login" /\ challenges[c].by # Nobody => challenges[c].by \in confirmed
          /\ challenges[c].flow = "register" /\ challenges[c].by # Nobody => challenges[c].by = c
    /\ \A v \in Verifiers : verifier[v].pc # "idle" =>
          LET c == verifier[v].challenge IN
          /\ c \in Challenges /\ Handed(c) /\ challenges[c].by # Nobody
          /\ verifier[v].pc = "checked" => 0 \in DOMAIN verifier[v].read
          /\ verifier[v].pc = "checked" /\ challenges[c].flow = "login"
                => challenges[c].by \in DOMAIN verifier[v].read

(* Without outage Redis is what all use. *)
RedisIsUsed ==
    outages = 0 =>
       /\ redisUp
       /\ \A i \in Instances, w \in Flows : prefers[i][w] # "memory"

(* A challenge that is not late, superseded or used is in Redis, ... *)
WaitingIsStored ==
    \A c \in Challenges :
       Handed(c) /\ ~Late(c) /\ ~Gone(c) /\ ~Apart(c) =>
          inRedis[KeyOf(c)] = [challenge |-> c, until |-> challenges[c].at + Ttl]

(* ... and one that opened a session is not, or will go.  *)
UsedIsForgotten ==
    outages = 0 /\ lapses \cap {"raced", "abandoned"} = {} =>
       /\ \A v, w \in Verifiers :
             verifier[v].pc # "idle" /\ verifier[w].challenge = verifier[v].challenge => v = w
       /\ \A v \in Verifiers : verifier[v].pc \in {"found", "checked"}
             => logins[verifier[v].challenge] = 0
       /\ \A c \in Challenges :
             /\ logins[c] <= 1
             /\ logins[c] = 1 =>
                  \/ \A k \in Keys : inRedis[k].challenge # c
                  \/ \E v \in Verifiers : verifier[v].pc = "forget" /\ verifier[v].challenge = c

CountedOnce ==
    \A c \in Challenges :
       logins[c] = 2 /\ challenges[c].counter > 0 => "crossed" \in lapses

PasskeyIInv ==
    /\ PasskeyTypes /\ FreshIsUnknown /\ EntriesAreKeyed /\ SignedIsConfirmed /\ RedisIsUsed
    /\ WaitingIsStored /\ UsedIsForgotten
    /\ KeptUnlessCrossed /\ CountersKeepUp /\ CountedOnce /\ RefusedForACause

-----------------------------------------------------------------------------
LEMMA ColumnsAreFunctions ==
    /\ \A f \in Columns : f \in [DOMAIN f -> Nat] /\ DOMAIN f \subseteq Keys
    /\ \A D \in SUBSET Keys : \A f \in [D -> Nat] : f \in Columns
    /\ <<>> \in Columns
<1>1. \A f \in Columns : f \in [DOMAIN f -> Nat] /\ DOMAIN f \subseteq Keys
  BY DEF Columns
<1>2. \A D \in SUBSET Keys : \A f \in [D -> Nat] : f \in Columns
  BY DEF Columns
<1>3. <<>> \in [{} -> Nat]
  OBVIOUS
<1>4. QED
  BY <1>1, <1>2, <1>3

LEMMA KeysAreNumbers ==
    /\ MaxChallenges \in Nat /\ LastMinute \in Nat /\ Ttl \in Nat /\ MaxTroubles \in Nat
    /\ \A c \in Challenges : c \in Nat /\ c # 0 /\ c \in Keys
    /\ \A k \in Keys : k \in Nat /\ k # Nobody
    /\ 0 \in Keys
BY PasskeyBounds DEF Challenges, Keys, Nobody

LEMMA PasskeysStart ==
    ASSUME PasskeyInit
    PROVE  PasskeyIInv
<1> USE KeysAreNumbers DEF PasskeyInit
<1>1. counters \in Counts /\ credentials \in [{0} -> Nat] /\ DOMAIN credentials = {0}
  <2>1. counters \in Counts
    BY DEF Counts
  <2>2. QED
    BY <2>1 DEF Counts
<1>2. credentials \in Columns
  BY <1>1, ColumnsAreFunctions
<1>3. NotHanded.flow = "none" /\ NotHanded.at = 0 /\ NotHanded.by = Nobody
      /\ NotHanded \in [flow : Flows \cup {"none"}, at : 0 .. LastMinute,
                        by : Keys \cup {Nobody}, counter : Nat, used : BOOLEAN]
  BY DEF NotHanded
<1>4. Resting \in [pc : {"idle", "found", "checked", "forget"},
                   at : Instances \cup {"nowhere"}, challenge : Keys, read : Columns]
      /\ Resting.pc = "idle" /\ Resting.challenge = 0
  BY ColumnsAreFunctions DEF Resting
<1>5. NoEntry \in Entries /\ NoEntry.challenge = 0
  BY DEF NoEntry, Entries
<1>6. PasskeyTypeOK
  BY <1>1, <1>3 DEF PasskeyTypeOK
<1>7. PasskeyTypes
  BY <1>1, <1>2, <1>3, <1>4, <1>5, <1>6 DEF PasskeyTypes, Empty
<1>8. FreshIsUnknown /\ EntriesAreKeyed
  BY <1>3, <1>4, <1>5 DEF FreshIsUnknown, EntriesAreKeyed, Handed, Empty
<1>9. SignedIsConfirmed
  BY <1>3, <1>4 DEF SignedIsConfirmed, Flows
<1>10. RedisIsUsed
  BY DEF RedisIsUsed
<1>11. WaitingIsStored
  BY <1>3 DEF WaitingIsStored, Handed
<1>12. UsedIsForgotten
  BY <1>4 DEF UsedIsForgotten
<1>13. KeptUnlessCrossed /\ CountersKeepUp /\ CountedOnce /\ RefusedForACause
  BY <1>1 DEF KeptUnlessCrossed, CountersKeepUp, CountedOnce, RefusedForACause
<1>14. QED
  BY <1>7, <1>8, <1>9, <1>10, <1>11, <1>12, <1>13 DEF PasskeyIInv

LEMMA PasskeysImply ==
    ASSUME PasskeyIInv
    PROVE  PasskeyInv
<1>1. OneSessionPerAnswer
  <2>1. SUFFICES ASSUME NEW c \in Challenges, logins[c] = 2
                 PROVE  /\ outages > 0 \/ lapses \cap {"raced", "abandoned"} # {}
                        /\ challenges[c].counter > 0 => "crossed" \in lapses
    BY DEF OneSessionPerAnswer
  <2>2. outages \in Nat
    BY DEF PasskeyIInv, PasskeyTypes
  <2>3. outages > 0 \/ lapses \cap {"raced", "abandoned"} # {}
    BY <2>1, <2>2 DEF PasskeyIInv, UsedIsForgotten
  <2>4. challenges[c].counter > 0 => "crossed" \in lapses
    BY <2>1 DEF PasskeyIInv, CountedOnce
  <2>5. QED
    BY <2>3, <2>4
<1>2. QED
  BY <1>1 DEF PasskeyIInv, PasskeyInv, PasskeyTypes

-----------------------------------------------------------------------------
(* While no challenge is handed out or changes its flow, keys stay. *)
LEMMA StoreIsSet ==
    ASSUME PasskeyTypes, RedisIsUsed, NEW i \in Instances, NEW flow \in Flows, NEW key \in Keys,
           NEW entry \in Entries, SetIn(i, flow, key, entry),
           UNCHANGED <<redisUp, outages>>
    PROVE  /\ prefers' \in [Instances -> [Flows -> {"unknown", "redis", "memory"}]]
           /\ \A j \in Instances, w \in Flows : prefers[j][w] = "memory" => prefers'[j][w] = "memory"
           /\ inRedis' \in [Keys -> Entries]
           /\ inMemory' \in [Instances -> [Keys -> Entries]]
           /\ inRedis' = [inRedis EXCEPT ![key] = entry] \/ inRedis' = inRedis
           /\ redisUp /\ (\A j \in Instances, w \in Flows : prefers'[j][w] # "memory")
                 => inRedis' = [inRedis EXCEPT ![key] = entry]
           /\ RedisIsUsed'
<1>1. PICK to \in {"redis", "memory"} :
       /\ Settled(i, flow, to)
       /\ IF to = "redis" /\ redisUp
          THEN inRedis' = [inRedis EXCEPT ![key] = entry] /\ UNCHANGED inMemory
          ELSE inMemory' = [inMemory EXCEPT ![i][key] = entry] /\ UNCHANGED inRedis
  BY DEF SetIn
<1>2. /\ prefers \in [Instances -> [Flows -> {"unknown", "redis", "memory"}]]
      /\ prefers' = [prefers EXCEPT ![i][flow] = to]
      /\ prefers[i][flow] # "unknown" => to = prefers[i][flow]
      /\ prefers[i][flow] = "unknown" => to = (IF redisUp THEN "redis" ELSE "memory")
  BY <1>1 DEF Settled, PasskeyTypes, PasskeyTypeOK
<1>3. /\ prefers' \in [Instances -> [Flows -> {"unknown", "redis", "memory"}]]
      /\ prefers'[i][flow] = to
      /\ \A j \in Instances, w \in Flows : j # i \/ w # flow => prefers'[j][w] = prefers[j][w]
  BY <1>2
<1>4. /\ inRedis \in [Keys -> Entries] /\ inMemory \in [Instances -> [Keys -> Entries]]
  BY DEF PasskeyTypes
<1>5. inMemory' \in [Instances -> [Keys -> Entries]] /\ inRedis' \in [Keys -> Entries]
  BY <1>1, <1>4
<1>6. RedisIsUsed'
  BY <1>2, <1>3 DEF RedisIsUsed
<1>7. QED
  BY <1>1, <1>2, <1>3, <1>5, <1>6

-----------------------------------------------------------------------------
LEMMA MinutePassesKeeps ==
    ASSUME PasskeyIInv, MinutePasses
    PROVE  PasskeyIInv'
<1> USE KeysAreNumbers DEF PasskeyIInv
<1>1. /\ minute' = minute + 1 /\ minute < LastMinute
      /\ UNCHANGED <<redisUp, upSince, outages, restarts, storeVars, challenges, verifier,
                     counters, credentials, confirmed, logins, refusals, lapses>>
      /\ UNCHANGED <<prefers, inRedis, inMemory>>
  BY DEF MinutePasses, storeVars
<1>2. minute \in Nat /\ \A c \in Challenges : challenges[c].at \in Nat
  BY DEF PasskeyTypes, PasskeyTypeOK
<1>3. PasskeyTypes'
  BY <1>1, <1>2 DEF PasskeyTypes, PasskeyTypeOK
<1>4. FreshIsUnknown' /\ EntriesAreKeyed' /\ SignedIsConfirmed' /\ RedisIsUsed'
  BY <1>1 DEF FreshIsUnknown, EntriesAreKeyed, SignedIsConfirmed, RedisIsUsed, Handed, KeyOf
<1>5. WaitingIsStored'
  BY <1>1, <1>2 DEF WaitingIsStored, Handed, Late, Gone, Apart, KeyOf
<1>6. UsedIsForgotten' /\ KeptUnlessCrossed' /\ CountersKeepUp' /\ CountedOnce' /\ RefusedForACause'
  BY <1>1 DEF UsedIsForgotten, KeptUnlessCrossed, CountersKeepUp, CountedOnce, RefusedForACause
<1>7. QED
  BY <1>3, <1>4, <1>5, <1>6

LEMMA RedisStopsKeeps ==
    ASSUME PasskeyIInv, RedisStops
    PROVE  PasskeyIInv'
<1> USE KeysAreNumbers DEF PasskeyIInv
<1>1. /\ redisUp' = FALSE /\ outages' = outages + 1
      /\ UNCHANGED <<minute, upSince, restarts, storeVars, challenges, verifier, counters,
                     credentials, confirmed, logins, refusals, lapses>>
      /\ UNCHANGED <<prefers, inRedis, inMemory>>
  BY DEF RedisStops, storeVars
<1>2. outages' \in Nat /\ outages' > 0
  BY <1>1 DEF PasskeyTypes
<1>3. PasskeyTypes'
  BY <1>1, <1>2 DEF PasskeyTypes, PasskeyTypeOK
<1>4. FreshIsUnknown' /\ EntriesAreKeyed' /\ SignedIsConfirmed'
  BY <1>1 DEF FreshIsUnknown, EntriesAreKeyed, SignedIsConfirmed, Handed, KeyOf
<1>5. RedisIsUsed' /\ UsedIsForgotten'
  BY <1>2 DEF RedisIsUsed, UsedIsForgotten
<1>6. WaitingIsStored'
  BY <1>1, <1>2 DEF WaitingIsStored, Apart
<1>7. KeptUnlessCrossed' /\ CountersKeepUp' /\ CountedOnce' /\ RefusedForACause'
  BY <1>1 DEF KeptUnlessCrossed, CountersKeepUp, CountedOnce, RefusedForACause
<1>8. QED
  BY <1>3, <1>4, <1>5, <1>6, <1>7

LEMMA RedisReturnsKeeps ==
    ASSUME PasskeyIInv, RedisReturns
    PROVE  PasskeyIInv'
<1> USE KeysAreNumbers DEF PasskeyIInv
<1>1. /\ ~redisUp /\ redisUp' = TRUE /\ upSince' = minute
      /\ inRedis' = inRedis \/ inRedis' = Empty
      /\ UNCHANGED <<minute, outages, restarts, prefers, inMemory, challenges, verifier,
                     counters, credentials, confirmed, logins, refusals, lapses>>
  BY DEF RedisReturns
<1>2. outages # 0 /\ outages \in Nat
  BY <1>1 DEF RedisIsUsed, PasskeyTypes
<1>3. inRedis' \in [Keys -> Entries]
      /\ \A k \in Keys : inRedis'[k] = inRedis[k] \/ inRedis'[k].challenge = 0
  BY <1>1 DEF PasskeyTypes, Empty, NoEntry, Entries
<1>4. PasskeyTypes'
  BY <1>1, <1>3 DEF PasskeyTypes, PasskeyTypeOK
<1>5. FreshIsUnknown' /\ EntriesAreKeyed' /\ SignedIsConfirmed'
  BY <1>1, <1>3 DEF FreshIsUnknown, EntriesAreKeyed, SignedIsConfirmed, Handed, KeyOf
<1>6. RedisIsUsed' /\ UsedIsForgotten'
  BY <1>1, <1>2 DEF RedisIsUsed, UsedIsForgotten
<1>7. WaitingIsStored'
  BY <1>1, <1>2 DEF WaitingIsStored, Apart, PasskeyTypes
<1>8. KeptUnlessCrossed' /\ CountersKeepUp' /\ CountedOnce' /\ RefusedForACause'
  BY <1>1 DEF KeptUnlessCrossed, CountersKeepUp, CountedOnce, RefusedForACause
<1>9. QED
  BY <1>4, <1>5, <1>6, <1>7, <1>8

LEMMA RestartKeeps ==
    ASSUME PasskeyIInv, NEW i \in Instances, Restart(i)
    PROVE  PasskeyIInv'
<1> USE KeysAreNumbers DEF PasskeyIInv
<1>1. /\ restarts' = restarts + 1
      /\ prefers' = [prefers EXCEPT ![i] = [w \in Flows |-> "unknown"]]
      /\ inMemory' = [inMemory EXCEPT ![i] = Empty]
      /\ verifier' = [v \in Verifiers |-> IF verifier[v].at = i THEN Resting ELSE verifier[v]]
      /\ \/ /\ \E v \in Verifiers : verifier[v].at = i
            /\ lapses' = lapses \cup {"abandoned"}
         \/ /\ \A v \in Verifiers : verifier[v].at # i
            /\ lapses' = lapses
      /\ UNCHANGED <<minute, redisUp, upSince, outages, inRedis, challenges, counters,
                     credentials, confirmed, logins, refusals>>
  BY DEF Restart
<1>2. Resting \in [pc : {"idle", "found", "checked", "forget"},
                   at : Instances \cup {"nowhere"}, challenge : Keys, read : Columns]
      /\ Resting.pc = "idle" /\ Resting.challenge = 0
  BY ColumnsAreFunctions DEF Resting
<1>3. /\ verifier' \in [Verifiers -> [pc : {"idle", "found", "checked", "forget"},
                                      at : Instances \cup {"nowhere"},
                                      challenge : Keys, read : Columns]]
      /\ \A v \in Verifiers : verifier'[v] = verifier[v]
                                \/ (verifier'[v].pc = "idle" /\ verifier'[v].challenge = 0)
  BY <1>1, <1>2 DEF PasskeyTypes
<1>4. /\ prefers' \in [Instances -> [Flows -> {"unknown", "redis", "memory"}]]
      /\ \A j \in Instances, w \in Flows : prefers'[j][w] = prefers[j][w] \/ prefers'[j][w] = "unknown"
  BY <1>1 DEF PasskeyTypes, PasskeyTypeOK
<1>5. inMemory' \in [Instances -> [Keys -> Entries]]
  BY <1>1 DEF PasskeyTypes, Empty, NoEntry, Entries
<1>6. restarts' \in Nat /\ restarts' > 0
  BY <1>1 DEF PasskeyTypes
<1>7. /\ \A x : x # "abandoned" => (x \in lapses' <=> x \in lapses)
      /\ lapses' \subseteq {"crossed", "raced", "abandoned"}
  BY <1>1 DEF PasskeyTypes, PasskeyTypeOK
<1>8. PasskeyTypes'
  BY <1>1, <1>3, <1>4, <1>5, <1>6, <1>7 DEF PasskeyTypes, PasskeyTypeOK
<1>9. FreshIsUnknown' /\ EntriesAreKeyed'
  BY <1>1, <1>3 DEF FreshIsUnknown, EntriesAreKeyed, Handed, KeyOf
<1>10. SignedIsConfirmed'
  BY <1>1, <1>3 DEF SignedIsConfirmed, Handed
<1>11. RedisIsUsed'
  BY <1>1, <1>4 DEF RedisIsUsed
<1>12. WaitingIsStored'
  <2>1. SUFFICES ASSUME NEW c \in Challenges, (Handed(c) /\ ~Late(c) /\ ~Gone(c) /\ ~Apart(c))'
                 PROVE  inRedis'[KeyOf(c)'] = [challenge |-> c, until |-> challenges'[c].at + Ttl]
    BY DEF WaitingIsStored
  <2>2. ~(outages > 0)
    BY <1>1, <1>6, <2>1 DEF Apart
  <2>3. Handed(c) /\ ~Late(c) /\ ~Gone(c) /\ ~Apart(c)
    BY <1>1, <2>1, <2>2 DEF Handed, Late, Gone, Apart, KeyOf
  <2>4. QED
    BY <1>1, <2>3 DEF WaitingIsStored, KeyOf
<1>13. UsedIsForgotten'
  <2>1. CASE \E v \in Verifiers : verifier[v].at = i
    BY <1>1, <2>1 DEF UsedIsForgotten
  <2>2. CASE \A v \in Verifiers : verifier[v].at # i
    <3>1. \A v \in Verifiers : verifier'[v] = verifier[v]
      BY <1>1, <2>2
    <3>2. lapses' = lapses
      BY <1>1, <2>2
    <3>3. QED
      BY <1>1, <3>1, <3>2 DEF UsedIsForgotten
  <2>3. QED
    BY <2>1, <2>2
<1>14. KeptUnlessCrossed' /\ CountersKeepUp' /\ CountedOnce' /\ RefusedForACause'
  BY <1>1, <1>7 DEF KeptUnlessCrossed, CountersKeepUp, CountedOnce, RefusedForACause
<1>15. QED
  BY <1>8, <1>9, <1>10, <1>11, <1>12, <1>13, <1>14

(* A challenge is handed out, or looked up: the stores, as StoreIsSet says. *)
LEMMA HandOutKeeps ==
    ASSUME PasskeyIInv, NEW i \in Instances, NEW flow \in Flows, HandOut(i, flow)
    PROVE  PasskeyIInv'
<1> USE KeysAreNumbers DEF PasskeyIInv
<1>1. PICK c \in Challenges :
       /\ challenges[c] = NotHanded
       /\ \A d \in Challenges : d < c => challenges[d] # NotHanded
       /\ challenges' = [challenges EXCEPT ![c] = [NotHanded EXCEPT !.flow = flow,
                                                                    !.at = minute]]
       /\ SetIn(i, flow, IF flow = "register" THEN 0 ELSE c,
                [challenge |-> c, until |-> minute + Ttl])
       /\ UNCHANGED <<minute, redisUp, upSince, outages, restarts, verifier, counters,
                      credentials, confirmed, logins, refusals, lapses>>
  BY DEF HandOut
<1>2. PICK q : q = [NotHanded EXCEPT !.flow = flow, !.at = minute]
  OBVIOUS
<1>3. minute \in 0 .. LastMinute /\ minute \in Nat
  BY DEF PasskeyTypes
<1>4. /\ q.flow = flow /\ q.at = minute /\ q.by = Nobody /\ q.counter = 0 /\ q.used = FALSE
      /\ q \in [flow : Flows \cup {"none"}, at : 0 .. LastMinute,
                by : Keys \cup {Nobody}, counter : Nat, used : BOOLEAN]
  BY <1>2, <1>3 DEF NotHanded
<1>5. /\ challenges' \in [Challenges -> [flow : Flows \cup {"none"}, at : 0 .. LastMinute,
                                         by : Keys \cup {Nobody}, counter : Nat, used : BOOLEAN]]
      /\ challenges'[c] = q
      /\ \A d \in Challenges : d # c => challenges'[d] = challenges[d]
  BY <1>1, <1>2, <1>4 DEF PasskeyTypes, PasskeyTypeOK
<1>6. PICK key \in Keys : key = (IF flow = "register" THEN 0 ELSE c)
  OBVIOUS
<1>7. PICK e : e = [challenge |-> c, until |-> minute + Ttl]
  OBVIOUS
<1>8. e \in Entries /\ e.challenge = c
  BY <1>3, <1>7 DEF Entries
<1>9. SetIn(i, flow, key, e)
  BY <1>1, <1>6, <1>7
<1>10. /\ prefers' \in [Instances -> [Flows -> {"unknown", "redis", "memory"}]]
       /\ \A j \in Instances, w \in Flows : prefers[j][w] = "memory" => prefers'[j][w] = "memory"
       /\ inRedis' \in [Keys -> Entries]
       /\ inMemory' \in [Instances -> [Keys -> Entries]]
       /\ inRedis' = [inRedis EXCEPT ![key] = e] \/ inRedis' = inRedis
       /\ redisUp /\ (\A j \in Instances, w \in Flows : prefers'[j][w] # "memory")
             => inRedis' = [inRedis EXCEPT ![key] = e]
       /\ RedisIsUsed'
  BY <1>1, <1>8, <1>9, StoreIsSet
<1>11. inRedis \in [Keys -> Entries]
  BY DEF PasskeyTypes
<1>12. /\ \A k \in Keys : k # key => inRedis'[k] = inRedis[k]
       /\ inRedis'[key] = e \/ inRedis'[key] = inRedis[key]
  BY <1>10, <1>11
<1>13. /\ ~Handed(c) /\ Handed(c)' /\ KeyOf(c)' = key
       /\ \A d \in Challenges : d # c => (Handed(d)' <=> Handed(d)) /\ KeyOf(d)' = KeyOf(d)
  BY <1>1, <1>4, <1>5, <1>6 DEF Handed, NotHanded, KeyOf, Flows
<1>14. \A d \in Challenges : Handed(d) => d < c /\ d # c
  BY <1>13 DEF FreshIsUnknown
<1>15. /\ logins[c] = 0 /\ (\A v \in Verifiers : verifier[v].challenge # c)
       /\ \A k \in Keys : inRedis[k].challenge # c
  BY <1>13 DEF FreshIsUnknown
<1>16. PasskeyTypes'
  BY <1>1, <1>3, <1>4, <1>5, <1>10 DEF PasskeyTypes, PasskeyTypeOK
<1>17. FreshIsUnknown'
  <2>1. SUFFICES ASSUME NEW d \in Challenges, ~Handed(d)'
                 PROVE  (/\ challenges[d] = NotHanded
                         /\ logins[d] = 0
                         /\ \A v \in Verifiers : verifier[v].challenge # d
                         /\ \A k \in Keys : inRedis[k].challenge # d
                         /\ \A x \in Challenges : d < x => ~Handed(x))'
    BY DEF FreshIsUnknown
  <2>2. d # c /\ ~Handed(d)
    BY <1>13, <2>1
  <2>3. \A x \in Challenges : d < x => ~Handed(x)'
    <3>1. ~(d < c)
      BY <1>1, <2>2 DEF FreshIsUnknown
    <3>2. QED
      BY <1>13, <2>2, <3>1 DEF FreshIsUnknown
  <2>4. \A k \in Keys : inRedis'[k].challenge # d
    BY <1>8, <1>12, <2>2 DEF FreshIsUnknown
  <2>5. QED
    BY <1>1, <1>5, <2>2, <2>3, <2>4 DEF FreshIsUnknown
<1>18. EntriesAreKeyed'
  <2>1. SUFFICES ASSUME NEW k \in Keys, inRedis'[k].challenge # 0
                 PROVE  k = KeyOf(inRedis[k].challenge)'
    BY DEF EntriesAreKeyed
  <2>2. CASE inRedis'[k] = e
    BY <1>8, <1>12, <1>13, <1>15, <2>2
  <2>3. CASE inRedis'[k] = inRedis[k]
    <3>1. inRedis[k].challenge \in Challenges /\ inRedis[k].challenge # c
      BY <1>11, <1>15, <2>1, <2>3 DEF Entries, Keys
    <3>2. QED
      BY <1>13, <2>1, <2>3, <3>1 DEF EntriesAreKeyed
  <2>4. QED
    BY <1>12, <2>2, <2>3
<1>19. SignedIsConfirmed'
  <2>1. \A d \in Challenges :
          /\ logins[d] > 0 => challenges'[d].flow = "login" /\ challenges'[d].by # Nobody
          /\ challenges'[d].flow = "login" /\ challenges'[d].by # Nobody
                => challenges'[d].by \in confirmed
          /\ challenges'[d].flow = "register" /\ challenges'[d].by # Nobody
                => challenges'[d].by = d
    BY <1>4, <1>5, <1>15 DEF SignedIsConfirmed
  <2>2. ASSUME NEW v \in Verifiers, verifier[v].pc # "idle", NEW d, d = verifier[v].challenge
        PROVE
          /\ d \in Challenges /\ Handed(d)' /\ challenges'[d].by # Nobody
          /\ verifier[v].pc = "checked" => 0 \in DOMAIN verifier[v].read
          /\ verifier[v].pc = "checked" /\ challenges'[d].flow = "login"
                => challenges'[d].by \in DOMAIN verifier[v].read
    BY <1>5, <1>13, <1>15, <2>2 DEF SignedIsConfirmed
  <2>3. QED
    BY <1>1, <2>1, <2>2 DEF SignedIsConfirmed
<1>20. WaitingIsStored'
  <2>1. SUFFICES ASSUME NEW d \in Challenges, (Handed(d) /\ ~Late(d) /\ ~Gone(d) /\ ~Apart(d))'
                 PROVE  inRedis'[KeyOf(d)'] = [challenge |-> d, until |-> challenges'[d].at + Ttl]
    BY DEF WaitingIsStored
  <2>2. CASE d = c
    <3>1. redisUp /\ (\A j \in Instances, w \in Flows : prefers'[j][w] # "memory")
      BY <1>1, <1>10, <2>1 DEF Apart, RedisIsUsed, PasskeyTypes
    <3>2. inRedis'[key] = e
      BY <1>10, <1>11, <3>1
    <3>3. QED
      BY <1>4, <1>5, <1>7, <1>13, <2>2, <3>2
  <2>3. CASE d # c
    <3>1. Handed(d) /\ d < c /\ KeyOf(d)' = KeyOf(d) /\ challenges'[d] = challenges[d]
      BY <1>5, <1>13, <1>14, <2>1, <2>3
    <3>2. key # KeyOf(d)
      BY <1>13, <2>1, <3>1 DEF Gone
    <3>3. ~Gone(d)
      <4>1. SUFFICES ASSUME NEW x \in Challenges, KeyOf(x) = KeyOf(d), x > d \/ challenges[x].used
                     PROVE  FALSE
        BY DEF Gone
      <4>2. CASE x = c
        <5>1. KeyOf(c) = c
          BY <1>1 DEF KeyOf, NotHanded
        <5>2. KeyOf(d) \in {0, d}
          BY DEF KeyOf
        <5>3. QED
          BY <2>3, <4>1, <4>2, <5>1, <5>2
      <4>3. CASE x # c
        BY <1>5, <1>13, <2>1, <3>1, <4>1, <4>3 DEF Gone
      <4>4. QED
        BY <4>2, <4>3
    <3>4. ~Late(d) /\ ~Apart(d)
      BY <1>1, <1>10, <2>1, <3>1 DEF Late, Apart
    <3>5. KeyOf(d) \in Keys
      BY DEF KeyOf
    <3>6. QED
      BY <1>12, <3>1, <3>2, <3>3, <3>4, <3>5 DEF WaitingIsStored
  <2>4. QED
    BY <2>2, <2>3
<1>21. UsedIsForgotten'
  <2>1. \A d \in Challenges : logins[d] = 1 /\ (\A k \in Keys : inRedis[k].challenge # d)
                                => \A k \in Keys : inRedis'[k].challenge # d
    BY <1>8, <1>12, <1>15
  <2>2. QED
    BY <1>1, <2>1 DEF UsedIsForgotten
<1>22. KeptUnlessCrossed' /\ CountersKeepUp' /\ CountedOnce' /\ RefusedForACause'
  BY <1>1, <1>5, <1>15 DEF KeptUnlessCrossed, CountersKeepUp, CountedOnce, RefusedForACause
<1>23. QED
  BY <1>10, <1>16, <1>17, <1>18, <1>19, <1>20, <1>21, <1>22

LEMMA ReadRowKeeps ==
    ASSUME PasskeyIInv, NEW v \in Verifiers, ReadRow(v)
    PROVE  PasskeyIInv'
<1> DEFINE c == verifier[v].challenge
           missing == challenges[c].flow = "login" /\ challenges[c].by \notin DOMAIN credentials
<1> USE KeysAreNumbers DEF PasskeyIInv
<1>1. /\ verifier[v].pc = "found"
      /\ UNCHANGED <<minute, redisUp, upSince, outages, restarts, prefers, inRedis, inMemory,
                     challenges, counters, credentials, confirmed, logins, refusals, lapses>>
  BY DEF ReadRow, storeVars
<1>2. PICK q : q = [verifier[v] EXCEPT !.pc = IF missing THEN "forget" ELSE "checked",
                                       !.read = credentials]
  OBVIOUS
<1>3. verifier' = [verifier EXCEPT ![v] = q]
  BY <1>2 DEF ReadRow
<1>4. /\ verifier[v] \in [pc : {"idle", "found", "checked", "forget"},
                          at : Instances \cup {"nowhere"}, challenge : Keys, read : Columns]
      /\ credentials \in Columns
  BY DEF PasskeyTypes
<1>5. /\ q \in [pc : {"idle", "found", "checked", "forget"},
                at : Instances \cup {"nowhere"}, challenge : Keys, read : Columns]
      /\ q.pc = (IF missing THEN "forget" ELSE "checked")
      /\ q.challenge = c /\ q.read = credentials /\ q.at = verifier[v].at
  BY <1>2, <1>4
<1>6. /\ verifier' \in [Verifiers -> [pc : {"idle", "found", "checked", "forget"},
                                      at : Instances \cup {"nowhere"},
                                      challenge : Keys, read : Columns]]
      /\ verifier'[v] = q
      /\ \A w \in Verifiers : w # v => verifier'[w] = verifier[w]
  BY <1>3, <1>5 DEF PasskeyTypes
<1>7. PasskeyTypes'
  BY <1>1, <1>5, <1>6 DEF PasskeyTypes, PasskeyTypeOK
<1>8. FreshIsUnknown' /\ EntriesAreKeyed' /\ RedisIsUsed'
  BY <1>1, <1>5, <1>6 DEF FreshIsUnknown, EntriesAreKeyed, RedisIsUsed, Handed, KeyOf
<1>9. SignedIsConfirmed'
  <2>1. 0 \in DOMAIN credentials
    BY DEF PasskeyTypes, PasskeyTypeOK
  <2>2. ASSUME NEW w \in Verifiers, verifier'[w].pc # "idle"
        PROVE  LET d == verifier'[w].challenge IN
          /\ d \in Challenges /\ Handed(d) /\ challenges[d].by # Nobody
          /\ verifier'[w].pc = "checked" => 0 \in DOMAIN verifier'[w].read
          /\ verifier'[w].pc = "checked" /\ challenges[d].flow = "login"
                => challenges[d].by \in DOMAIN verifier'[w].read
    <3>1. CASE w = v
      BY <1>1, <1>5, <1>6, <2>1, <3>1 DEF SignedIsConfirmed
    <3>2. CASE w # v
      BY <1>6, <2>2, <3>2 DEF SignedIsConfirmed
    <3>3. QED
      BY <3>1, <3>2
  <2>3. QED
    BY <1>1, <2>2 DEF SignedIsConfirmed, Handed
<1>10. WaitingIsStored'
  BY <1>1 DEF WaitingIsStored, Handed, Late, Gone, Apart, KeyOf
<1>11. UsedIsForgotten'
  <2>1. SUFFICES ASSUME outages = 0 /\ lapses \cap {"raced", "abandoned"} = {}
                 PROVE  UsedIsForgotten'
    BY <1>1 DEF UsedIsForgotten
  <2>2. \A x, w \in Verifiers :
           verifier'[x].pc # "idle" /\ verifier'[w].challenge = verifier'[x].challenge => x = w
    BY <1>1, <1>5, <1>6, <2>1 DEF UsedIsForgotten
  <2>3. \A x \in Verifiers : verifier'[x].pc \in {"found", "checked"}
             => logins[verifier'[x].challenge] = 0
    BY <1>1, <1>5, <1>6, <2>1 DEF UsedIsForgotten
  <2>4. \A d \in Challenges :
           (\E x \in Verifiers : verifier[x].pc = "forget" /\ verifier[x].challenge = d)
             => \E x \in Verifiers : verifier'[x].pc = "forget" /\ verifier'[x].challenge = d
    BY <1>1, <1>6
  <2>5. QED
    BY <1>1, <2>1, <2>2, <2>3, <2>4 DEF UsedIsForgotten
<1>12. KeptUnlessCrossed' /\ CountersKeepUp' /\ CountedOnce' /\ RefusedForACause'
  BY <1>1 DEF KeptUnlessCrossed, CountersKeepUp, CountedOnce, RefusedForACause
<1>13. QED
  BY <1>7, <1>8, <1>9, <1>10, <1>11, <1>12

LEMMA ForgetKeeps ==
    ASSUME PasskeyIInv, NEW v \in Verifiers, Forget(v)
    PROVE  PasskeyIInv'
<1> USE KeysAreNumbers DEF PasskeyIInv
<1>1. PICK c : c = verifier[v].challenge
  OBVIOUS
<1>2. /\ verifier[v].pc = "forget"
      /\ Delete(verifier[v].at, challenges[c].flow, KeyOf(c))
      /\ challenges' = [challenges EXCEPT ![c].used = TRUE]
      /\ verifier' = [verifier EXCEPT ![v] = Resting]
      /\ UNCHANGED <<minute, redisUp, upSince, outages, restarts, counters, credentials,
                     confirmed, logins, refusals, lapses>>
  BY <1>1 DEF Forget
<1>3. c \in Challenges /\ Handed(c) /\ challenges[c].by # Nobody
  BY <1>1, <1>2 DEF SignedIsConfirmed
<1>4. PICK q : q = [challenges[c] EXCEPT !.used = TRUE]
  OBVIOUS
<1>5. challenges \in [Challenges -> [flow : Flows \cup {"none"}, at : 0 .. LastMinute,
                                     by : Keys \cup {Nobody}, counter : Nat, used : BOOLEAN]]
  BY DEF PasskeyTypes, PasskeyTypeOK
<1>6. /\ q.flow = challenges[c].flow /\ q.at = challenges[c].at /\ q.by = challenges[c].by
      /\ q.counter = challenges[c].counter /\ q.used = TRUE
      /\ q \in [flow : Flows \cup {"none"}, at : 0 .. LastMinute,
                by : Keys \cup {Nobody}, counter : Nat, used : BOOLEAN]
  BY <1>3, <1>4, <1>5
<1>7. /\ challenges' \in [Challenges -> [flow : Flows \cup {"none"}, at : 0 .. LastMinute,
                                         by : Keys \cup {Nobody}, counter : Nat, used : BOOLEAN]]
      /\ challenges'[c] = q
      /\ \A d \in Challenges : d # c => challenges'[d] = challenges[d]
  BY <1>2, <1>3, <1>4, <1>5, <1>6
<1>8. /\ \A d \in Challenges :
            /\ challenges'[d].flow = challenges[d].flow /\ challenges'[d].at = challenges[d].at
            /\ challenges'[d].by = challenges[d].by
            /\ challenges'[d].counter = challenges[d].counter
            /\ challenges[d].used => challenges'[d].used
      /\ \A d \in Challenges : (Handed(d)' <=> Handed(d)) /\ KeyOf(d)' = KeyOf(d)
  BY <1>6, <1>7 DEF Handed, KeyOf
<1>9. Resting \in [pc : {"idle", "found", "checked", "forget"},
                   at : Instances \cup {"nowhere"}, challenge : Keys, read : Columns]
      /\ Resting.pc = "idle" /\ Resting.challenge = 0
  BY ColumnsAreFunctions DEF Resting
<1>10. /\ verifier' \in [Verifiers -> [pc : {"idle", "found", "checked", "forget"},
                                       at : Instances \cup {"nowhere"},
                                       challenge : Keys, read : Columns]]
       /\ verifier'[v].pc = "idle" /\ verifier'[v].challenge = 0
       /\ \A w \in Verifiers : w # v => verifier'[w] = verifier[w]
  BY <1>2, <1>9 DEF PasskeyTypes
<1>11. KeyOf(c) \in Keys /\ challenges[c].flow \in Flows
  BY <1>3, <1>5 DEF KeyOf, Handed
<1>12. PICK i : i = verifier[v].at
  OBVIOUS
<1>13. NoEntry \in Entries /\ NoEntry.challenge = 0
  BY DEF NoEntry, Entries
<1>14. /\ prefers' \in [Instances -> [Flows -> {"unknown", "redis", "memory"}]]
       /\ \A j \in Instances, w \in Flows : prefers[j][w] = "memory" => prefers'[j][w] = "memory"
       /\ inRedis' \in [Keys -> Entries]
       /\ inMemory' \in [Instances -> [Keys -> Entries]]
       /\ inRedis' = [inRedis EXCEPT ![KeyOf(c)] = NoEntry] \/ inRedis' = inRedis
       /\ redisUp /\ (\A j \in Instances, w \in Flows : prefers'[j][w] # "memory")
             => inRedis' = [inRedis EXCEPT ![KeyOf(c)] = NoEntry]
       /\ RedisIsUsed'
  <2>1. i \in Instances
    BY <1>2, <1>12 DEF PasskeyTypes
  <2>2. SetIn(i, challenges[c].flow, KeyOf(c), NoEntry)
    BY <1>2, <1>12 DEF Delete
  <2>3. QED
    BY <1>2, <1>11, <1>13, <2>1, <2>2, StoreIsSet
<1>15. inRedis \in [Keys -> Entries]
  BY DEF PasskeyTypes
<1>16. /\ \A k \in Keys : k # KeyOf(c) => inRedis'[k] = inRedis[k]
       /\ \A k \in Keys : inRedis'[k] = inRedis[k] \/ inRedis'[k].challenge = 0
  BY <1>13, <1>14, <1>15
<1>17. PasskeyTypes'
  BY <1>2, <1>7, <1>8, <1>10, <1>14 DEF PasskeyTypes, PasskeyTypeOK
<1>18. FreshIsUnknown'
  <2>1. SUFFICES ASSUME NEW d \in Challenges, ~Handed(d)'
                 PROVE  (/\ challenges[d] = NotHanded
                         /\ logins[d] = 0
                         /\ \A w \in Verifiers : verifier[w].challenge # d
                         /\ \A k \in Keys : inRedis[k].challenge # d
                         /\ \A x \in Challenges : d < x => ~Handed(x))'
    BY DEF FreshIsUnknown
  <2>2. d # c /\ ~Handed(d)
    BY <1>3, <1>8, <2>1
  <2>3. QED
    BY <1>2, <1>7, <1>8, <1>10, <1>16, <2>2 DEF FreshIsUnknown
<1>19. EntriesAreKeyed'
  <2>1. ASSUME NEW k \in Keys, inRedis'[k].challenge # 0
        PROVE  k = KeyOf(inRedis[k].challenge)'
    <3>1. inRedis'[k] = inRedis[k] /\ inRedis[k].challenge \in Challenges
      BY <1>15, <1>16, <2>1 DEF Entries, Keys
    <3>2. QED
      BY <1>8, <2>1, <3>1 DEF EntriesAreKeyed
  <2>2. QED
    BY <2>1 DEF EntriesAreKeyed
<1>20. SignedIsConfirmed'
  <2>1. ASSUME NEW w \in Verifiers, verifier'[w].pc # "idle", NEW d, d = verifier'[w].challenge
        PROVE
          /\ d \in Challenges /\ Handed(d)' /\ challenges'[d].by # Nobody
          /\ verifier'[w].pc = "checked" => 0 \in DOMAIN verifier'[w].read
          /\ verifier'[w].pc = "checked" /\ challenges'[d].flow = "login"
                => challenges'[d].by \in DOMAIN verifier'[w].read
    BY <1>8, <1>10, <2>1 DEF SignedIsConfirmed
  <2>2. QED
    BY <1>2, <1>8, <2>1 DEF SignedIsConfirmed
<1>21. WaitingIsStored'
  <2>1. SUFFICES ASSUME NEW d \in Challenges, (Handed(d) /\ ~Late(d) /\ ~Gone(d) /\ ~Apart(d))'
                 PROVE  inRedis'[KeyOf(d)'] = [challenge |-> d, until |-> challenges'[d].at + Ttl]
    BY DEF WaitingIsStored
  <2>2. KeyOf(d) # KeyOf(c)
    BY <1>3, <1>6, <1>7, <1>8, <2>1 DEF Gone
  <2>3. ~Gone(d)
    BY <1>8, <2>1 DEF Gone
  <2>4. Handed(d) /\ ~Late(d) /\ ~Apart(d)
    BY <1>2, <1>8, <1>14, <2>1 DEF Late, Apart
  <2>5. KeyOf(d) \in Keys
    BY DEF KeyOf
  <2>6. QED
    BY <1>8, <1>16, <2>2, <2>3, <2>4, <2>5 DEF WaitingIsStored
<1>22. UsedIsForgotten'
  <2>1. SUFFICES ASSUME outages = 0 /\ lapses \cap {"raced", "abandoned"} = {}
                 PROVE  UsedIsForgotten'
    BY <1>2 DEF UsedIsForgotten
  <2>2. \A x, w \in Verifiers :
           verifier'[x].pc # "idle" /\ verifier'[w].challenge = verifier'[x].challenge => x = w
    BY <1>10, <2>1 DEF UsedIsForgotten, SignedIsConfirmed
  <2>3. \A x \in Verifiers : verifier'[x].pc \in {"found", "checked"}
             => logins[verifier'[x].challenge] = 0
    BY <1>10, <2>1 DEF UsedIsForgotten
  <2>4. ASSUME NEW d \in Challenges, logins[d] = 1
        PROVE  \/ \A k \in Keys : inRedis'[k].challenge # d
               \/ \E x \in Verifiers : verifier'[x].pc = "forget" /\ verifier'[x].challenge = d
    <3>1. CASE d = c
      <4>1. inRedis'[KeyOf(c)].challenge = 0
        BY <1>2, <1>11, <1>13, <1>14, <1>15, <2>1 DEF RedisIsUsed
      <4>2. \A k \in Keys : k # KeyOf(c) => inRedis[k].challenge # c
        BY <1>3 DEF EntriesAreKeyed
      <4>3. QED
        BY <1>3, <1>16, <3>1, <4>1, <4>2
    <3>2. CASE d # c
      <4>1. CASE \A k \in Keys : inRedis[k].challenge # d
        BY <1>16, <4>1
      <4>2. CASE \E x \in Verifiers : verifier[x].pc = "forget" /\ verifier[x].challenge = d
        BY <1>1, <1>10, <3>2, <4>2
      <4>3. QED
        BY <2>1, <2>4, <4>1, <4>2 DEF UsedIsForgotten
    <3>3. QED
      BY <3>1, <3>2
  <2>5. QED
    BY <1>2, <2>1, <2>2, <2>3, <2>4 DEF UsedIsForgotten
<1>23. KeptUnlessCrossed' /\ CountersKeepUp' /\ CountedOnce' /\ RefusedForACause'
  BY <1>2, <1>8 DEF KeptUnlessCrossed, CountersKeepUp, CountedOnce, RefusedForACause
<1>24. QED
  BY <1>14, <1>17, <1>18, <1>19, <1>20, <1>21, <1>22, <1>23

(* What signing does to the challenges. *)
LEMMA SigningKeeps ==
    ASSUME PasskeyIInv, NEW c \in Challenges, challenges[c] # NotHanded,
           IF challenges[c].by # Nobody
           THEN UNCHANGED <<challenges, counters>>
           ELSE \E k \in IF challenges[c].flow = "register" THEN {c} ELSE confirmed :
                   /\ challenges' = Signed(c, k)
                   /\ counters' = [counters EXCEPT ![k] = Up(@)]
    PROVE  /\ challenges' \in [Challenges -> [flow : Flows \cup {"none"}, at : 0 .. LastMinute,
                                              by : Keys \cup {Nobody}, counter : Nat,
                                              used : BOOLEAN]]
           /\ counters' \in Counts
           /\ Handed(c) /\ challenges[c].flow \in Flows /\ challenges'[c].by # Nobody
           /\ challenges[c].by = Nobody =>
                 /\ challenges[c].flow = "register" => challenges'[c].by = c
                 /\ challenges[c].flow # "register" => challenges'[c].by \in confirmed
           /\ \A d \in Challenges :
                 /\ challenges'[d].flow = challenges[d].flow
                 /\ challenges'[d].at = challenges[d].at
                 /\ challenges'[d].used = challenges[d].used
                 /\ d # c \/ challenges[d].by # Nobody => challenges'[d] = challenges[d]
<1> USE KeysAreNumbers DEF PasskeyIInv
<1>1. /\ challenges \in [Challenges -> [flow : Flows \cup {"none"}, at : 0 .. LastMinute,
                                        by : Keys \cup {Nobody}, counter : Nat, used : BOOLEAN]]
      /\ counters \in [Keys -> Nat] /\ confirmed \subseteq Keys
  BY DEF PasskeyTypes, PasskeyTypeOK, Counts
<1>2. Handed(c) /\ challenges[c].flow \in Flows
  BY <1>1 DEF FreshIsUnknown, Handed
<1>3. CASE challenges[c].by # Nobody
  BY <1>1, <1>2, <1>3 DEF Counts
<1>4. CASE challenges[c].by = Nobody
  <2>1. PICK k \in IF challenges[c].flow = "register" THEN {c} ELSE confirmed :
                   /\ challenges' = Signed(c, k)
                   /\ counters' = [counters EXCEPT ![k] = Up(counters[k])]
    BY <1>4
  <2>2. /\ k \in Keys /\ k # Nobody
        /\ challenges[c].flow = "register" => k = c
        /\ challenges[c].flow # "register" => k \in confirmed
    BY <1>1, <2>1
  <2>3. PICK n \in Nat : n = Up(counters[k])
    BY <1>1, <2>2 DEF Up
  <2>4. PICK q : q = [challenges[c] EXCEPT !.by = k, !.counter = n]
    OBVIOUS
  <2>5. /\ q.flow = challenges[c].flow /\ q.at = challenges[c].at
        /\ q.used = challenges[c].used /\ q.by = k
        /\ q \in [flow : Flows \cup {"none"}, at : 0 .. LastMinute,
                  by : Keys \cup {Nobody}, counter : Nat, used : BOOLEAN]
    <3>1. challenges[c] \in [flow : Flows \cup {"none"}, at : 0 .. LastMinute,
                             by : Keys \cup {Nobody}, counter : Nat, used : BOOLEAN]
      BY <1>1
    <3>2. k \in Keys \cup {Nobody}
      BY <2>2
    <3> HIDE KeysAreNumbers
    <3>3. QED
      BY <2>3, <2>4, <3>1, <3>2
  <2>6. challenges' = [challenges EXCEPT ![c] = q]
    BY <1>1, <2>1, <2>3, <2>4 DEF Signed
  <2>7. /\ challenges' \in [Challenges -> [flow : Flows \cup {"none"}, at : 0 .. LastMinute,
                                           by : Keys \cup {Nobody}, counter : Nat,
                                           used : BOOLEAN]]
        /\ challenges'[c] = q
        /\ \A d \in Challenges : d # c => challenges'[d] = challenges[d]
    BY <1>1, <2>5, <2>6
  <2>8. counters' \in Counts
    BY <1>1, <2>1, <2>2, <2>3 DEF Counts
  <2>9. QED
    BY <1>2, <1>4, <2>2, <2>5, <2>7, <2>8
<1>5. QED
  BY <1>3, <1>4

LEMMA LookUpKeeps ==
    ASSUME PasskeyIInv, NEW v \in Verifiers, NEW i \in Instances, NEW c \in Challenges,
           LookUp(v, i, c)
    PROVE  PasskeyIInv'
<1> USE KeysAreNumbers DEF PasskeyIInv
<1>1. /\ challenges' \in [Challenges -> [flow : Flows \cup {"none"}, at : 0 .. LastMinute,
                                         by : Keys \cup {Nobody}, counter : Nat,
                                         used : BOOLEAN]]
      /\ counters' \in Counts
      /\ Handed(c) /\ challenges[c].flow \in Flows /\ challenges'[c].by # Nobody
      /\ challenges[c].by = Nobody =>
            /\ challenges[c].flow = "register" => challenges'[c].by = c
            /\ challenges[c].flow # "register" => challenges'[c].by \in confirmed
      /\ \A d \in Challenges :
            /\ challenges'[d].flow = challenges[d].flow
            /\ challenges'[d].at = challenges[d].at
            /\ challenges'[d].used = challenges[d].used
            /\ d # c \/ challenges[d].by # Nobody => challenges'[d] = challenges[d]
  BY SigningKeeps DEF LookUp
<1>2. PICK flow \in Flows : flow = challenges[c].flow
  BY <1>1
<1>3. PICK to \in {"redis", "memory"} :
          /\ Settled(i, flow, to)
          /\ LET entry == Found(i, to, KeyOf(c)) IN
             IF Live(entry) /\ entry.challenge = c
             THEN /\ verifier' = [verifier EXCEPT ![v] = [Resting EXCEPT !.pc = "found",
                                                             !.at = i, !.challenge = c]]
                  /\ lapses' = IF \E w \in Verifiers : verifier[w].challenge = c
                               THEN lapses \cup {"raced"} ELSE lapses
                  /\ UNCHANGED refusals
             ELSE /\ refusals' = refusals \cup Unexplained(c)
                  /\ UNCHANGED <<verifier, lapses>>
  BY <1>2 DEF LookUp
<1>4. PICK entry : entry = Found(i, to, KeyOf(c))
  OBVIOUS
<1>5. /\ verifier[v].pc = "idle"
      /\ UNCHANGED <<minute, redisUp, upSince, outages, restarts, inRedis, inMemory,
                     credentials, confirmed, logins>>
  BY DEF LookUp
<1>6. /\ prefers \in [Instances -> [Flows -> {"unknown", "redis", "memory"}]]
      /\ prefers' = [prefers EXCEPT ![i][flow] = to]
      /\ prefers[i][flow] # "unknown" => to = prefers[i][flow]
      /\ prefers[i][flow] = "unknown" => to = (IF redisUp THEN "redis" ELSE "memory")
  BY <1>3 DEF Settled, PasskeyTypes, PasskeyTypeOK
<1>7. /\ prefers' \in [Instances -> [Flows -> {"unknown", "redis", "memory"}]]
      /\ prefers'[i][flow] = to
      /\ \A j \in Instances, w \in Flows : j # i \/ w # flow => prefers'[j][w] = prefers[j][w]
  BY <1>6
<1>8. RedisIsUsed' /\ (outages = 0 => to = "redis" /\ redisUp)
  BY <1>5, <1>6, <1>7 DEF RedisIsUsed
<1>9. \A d \in Challenges : (Handed(d)' <=> Handed(d)) /\ KeyOf(d)' = KeyOf(d)
  BY <1>1 DEF Handed, KeyOf
<1>10. KeyOf(c) \in Keys /\ inRedis \in [Keys -> Entries]
  BY DEF KeyOf, PasskeyTypes
<1>11. \/ /\ Live(entry) /\ entry.challenge = c
          /\ verifier' = [verifier EXCEPT ![v] = [Resting EXCEPT !.pc = "found",
                                                       !.at = i, !.challenge = c]]
          /\ lapses' = IF \E w \in Verifiers : verifier[w].challenge = c
                       THEN lapses \cup {"raced"} ELSE lapses
          /\ refusals' = refusals
       \/ /\ ~(Live(entry) /\ entry.challenge = c)
          /\ refusals' = refusals \cup Unexplained(c)
          /\ verifier' = verifier /\ lapses' = lapses
  BY <1>3, <1>4
<1>12. PICK q : q = [Resting EXCEPT !.pc = "found", !.at = i, !.challenge = c]
  OBVIOUS
<1>13. /\ q.pc = "found" /\ q.at = i /\ q.challenge = c
       /\ q \in [pc : {"idle", "found", "checked", "forget"},
                 at : Instances \cup {"nowhere"}, challenge : Keys, read : Columns]
  BY <1>12, ColumnsAreFunctions DEF Resting
<1>14. /\ verifier' \in [Verifiers -> [pc : {"idle", "found", "checked", "forget"},
                                       at : Instances \cup {"nowhere"},
                                       challenge : Keys, read : Columns]]
       /\ verifier'[v] = q \/ verifier'[v] = verifier[v]
       /\ \A w \in Verifiers : w # v => verifier'[w] = verifier[w]
  BY <1>11, <1>12, <1>13 DEF PasskeyTypes
<1>15. /\ lapses \subseteq lapses' /\ lapses' \subseteq {"crossed", "raced", "abandoned"}
       /\ "crossed" \in lapses' => "crossed" \in lapses
  BY <1>11 DEF PasskeyTypes, PasskeyTypeOK
<1>16. refusals' \subseteq {"causeless", "recovered"}
  <2>1. Unexplained(c) \subseteq {"causeless", "recovered"}
    BY DEF Unexplained
  <2>2. QED
    BY <1>11, <2>1 DEF PasskeyTypes, PasskeyTypeOK
<1>17. PasskeyTypes'
  BY <1>1, <1>5, <1>7, <1>13, <1>14, <1>15, <1>16 DEF PasskeyTypes, PasskeyTypeOK
<1>18. FreshIsUnknown'
  <2>1. SUFFICES ASSUME NEW d \in Challenges, ~Handed(d)'
                 PROVE  (/\ challenges[d] = NotHanded
                         /\ logins[d] = 0
                         /\ \A w \in Verifiers : verifier[w].challenge # d
                         /\ \A k \in Keys : inRedis[k].challenge # d
                         /\ \A x \in Challenges : d < x => ~Handed(x))'
    BY DEF FreshIsUnknown
  <2>2. d # c /\ ~Handed(d)
    BY <1>1, <1>9, <2>1
  <2>3. challenges'[d] = NotHanded /\ logins'[d] = 0
    BY <1>1, <1>5, <2>2 DEF FreshIsUnknown
  <2>4. \A w \in Verifiers : verifier'[w].challenge # d
    BY <1>13, <1>14, <2>2 DEF FreshIsUnknown
  <2>5. \A k \in Keys : inRedis'[k].challenge # d
    BY <1>5, <2>2 DEF FreshIsUnknown
  <2>6. \A x \in Challenges : d < x => ~Handed(x)'
    BY <1>9, <2>2 DEF FreshIsUnknown
  <2>7. QED
    BY <2>3, <2>4, <2>5, <2>6
<1>19. EntriesAreKeyed'
  <2>1. ASSUME NEW k \in Keys, inRedis'[k].challenge # 0
        PROVE  k = KeyOf(inRedis[k].challenge)'
    <3>1. inRedis' = inRedis
      BY <1>5
    <3>2. inRedis[k].challenge \in Challenges
      <4>1. inRedis[k] \in Entries
        BY <1>10
      <4>2. QED
        BY <2>1, <3>1, <4>1 DEF Entries, Keys
    <3>3. QED
      BY <1>9, <2>1, <3>1, <3>2 DEF EntriesAreKeyed
  <2>2. QED
    BY <2>1 DEF EntriesAreKeyed
<1>20. SignedIsConfirmed'
  <2>1. ASSUME NEW d \in Challenges
        PROVE
          /\ logins[d] > 0 => challenges'[d].flow = "login" /\ challenges'[d].by # Nobody
          /\ challenges'[d].flow = "login" /\ challenges'[d].by # Nobody
                => challenges'[d].by \in confirmed
          /\ challenges'[d].flow = "register" /\ challenges'[d].by # Nobody
                => challenges'[d].by = d
    <3>1. CASE d = c /\ challenges[c].by = Nobody
      BY <1>1, <3>1 DEF SignedIsConfirmed
    <3>2. CASE d # c \/ challenges[d].by # Nobody
      BY <1>1, <3>2 DEF SignedIsConfirmed
    <3>3. QED
      BY <3>1, <3>2
  <2>2. ASSUME NEW w \in Verifiers, verifier'[w].pc # "idle", NEW d, d = verifier'[w].challenge
        PROVE
          /\ d \in Challenges /\ Handed(d)' /\ challenges'[d].by # Nobody
          /\ verifier'[w].pc = "checked" => 0 \in DOMAIN verifier'[w].read
          /\ verifier'[w].pc = "checked" /\ challenges'[d].flow = "login"
                => challenges'[d].by \in DOMAIN verifier'[w].read
    <3>1. CASE verifier'[w] = verifier[w]
      BY <1>1, <1>9, <2>2, <3>1 DEF SignedIsConfirmed
    <3>2. CASE verifier'[w] = q
      BY <1>1, <1>9, <1>13, <2>2, <3>2
    <3>3. QED
      BY <1>14, <3>1, <3>2
  <2>3. QED
    BY <1>5, <2>1, <2>2 DEF SignedIsConfirmed
<1>21. WaitingIsStored'
  <2>1. SUFFICES ASSUME NEW d \in Challenges, (Handed(d) /\ ~Late(d) /\ ~Gone(d) /\ ~Apart(d))'
                 PROVE  inRedis'[KeyOf(d)'] = [challenge |-> d, until |-> challenges'[d].at + Ttl]
    BY DEF WaitingIsStored
  <2>2. ~Gone(d)
    BY <1>1, <1>9, <2>1 DEF Gone
  <2>3. Handed(d) /\ ~Late(d)
    BY <1>1, <1>5, <1>9, <2>1 DEF Late
  <2>4. ~Apart(d)
    BY <1>1, <1>5, <1>6, <1>7, <2>1 DEF Apart
  <2>5. QED
    BY <1>1, <1>5, <1>9, <2>2, <2>3, <2>4 DEF WaitingIsStored
<1>22. RefusedForACause'
  <2>1. SUFFICES ASSUME "causeless" \in Unexplained(c), ~(Live(entry) /\ entry.challenge = c)
                 PROVE  FALSE
    BY <1>11 DEF RefusedForACause
  <2>2. ~Late(c) /\ ~Gone(c) /\ ~Apart(c)
    BY <2>1 DEF Unexplained
  <2>3. inRedis[KeyOf(c)] = [challenge |-> c, until |-> challenges[c].at + Ttl]
    BY <1>1, <2>2 DEF WaitingIsStored
  <2>4. redisUp /\ to = "redis"
    BY <1>6, <1>8, <2>2 DEF Apart, PasskeyTypes
  <2>5. entry = inRedis[KeyOf(c)]
    BY <1>4, <2>4 DEF Found
  <2>6. QED
    BY <2>1, <2>2, <2>3, <2>5 DEF Live, Late, PasskeyTypes, PasskeyTypeOK
<1>23. UsedIsForgotten'
  <2>1. CASE verifier' = verifier /\ lapses' = lapses
    BY <1>5, <2>1 DEF UsedIsForgotten
  <2>2. CASE /\ Live(entry) /\ entry.challenge = c
             /\ verifier' = [verifier EXCEPT ![v] = q]
             /\ lapses' = IF \E w \in Verifiers : verifier[w].challenge = c
                          THEN lapses \cup {"raced"} ELSE lapses
    <3>1. SUFFICES ASSUME outages = 0 /\ lapses' \cap {"raced", "abandoned"} = {}
                   PROVE  UsedIsForgotten'
      BY <1>5 DEF UsedIsForgotten
    <3>2. lapses \cap {"raced", "abandoned"} = {} /\ \A w \in Verifiers : verifier[w].challenge # c
      BY <2>2, <3>1
    <3>3. verifier'[v] = q /\ \A w \in Verifiers : w # v => verifier'[w] = verifier[w]
      BY <2>2 DEF PasskeyTypes
    <3>4. entry = inRedis[KeyOf(c)]
      BY <1>4, <1>8, <3>1 DEF Found
    <3>5. logins[c] = 0
      <4>1. logins[c] <= 1 /\ logins[c] # 1
        BY <1>10, <2>2, <3>1, <3>2, <3>4 DEF UsedIsForgotten
      <4>2. logins[c] \in 0 .. 2
        BY DEF PasskeyTypes, PasskeyTypeOK
      <4>3. QED
        BY <4>1, <4>2
    <3>6. \A x, w \in Verifiers :
             verifier'[x].pc # "idle" /\ verifier'[w].challenge = verifier'[x].challenge => x = w
      BY <1>13, <3>1, <3>2, <3>3 DEF UsedIsForgotten
    <3>7. \A x \in Verifiers : verifier'[x].pc \in {"found", "checked"}
               => logins[verifier'[x].challenge] = 0
      BY <1>13, <3>1, <3>2, <3>3, <3>5 DEF UsedIsForgotten
    <3>8. \A d \in Challenges :
           (\E x \in Verifiers : verifier[x].pc = "forget" /\ verifier[x].challenge = d)
             => \E x \in Verifiers : verifier'[x].pc = "forget" /\ verifier'[x].challenge = d
      BY <1>5, <3>3
    <3>9. QED
      BY <1>5, <3>1, <3>2, <3>6, <3>7, <3>8 DEF UsedIsForgotten
  <2>3. QED
    BY <1>11, <1>12, <2>1, <2>2
<1>24. KeptUnlessCrossed' /\ CountersKeepUp' /\ CountedOnce'
  <2>1. \A d \in Challenges : logins[d] > 0 => challenges'[d] = challenges[d]
    BY <1>1 DEF SignedIsConfirmed
  <2>2. KeptUnlessCrossed' /\ CountersKeepUp'
    BY <1>5, <1>15, <2>1 DEF KeptUnlessCrossed, CountersKeepUp
  <2>3. CountedOnce'
    BY <1>5, <1>15, <2>1 DEF CountedOnce
  <2>4. QED
    BY <2>2, <2>3
<1>25. QED
  BY <1>8, <1>17, <1>18, <1>19, <1>20, <1>21, <1>22, <1>23, <1>24

LEMMA RewrittenIs ==
    ASSUME NEW read \in Columns, NEW k \in Keys, NEW n \in Nat
    PROVE  \A new : new = Rewritten(read, k, n) =>
           /\ new \in Columns
           /\ DOMAIN new = DOMAIN read \cup {k}
           /\ new[k] = n
           /\ \A x \in DOMAIN read : x # k => new[x] = read[x]
<1> TAKE new
<1> HAVE new = Rewritten(read, k, n)
<1>1. PICK D \in SUBSET Keys : D = DOMAIN read /\ read \in [D -> Nat]
  BY ColumnsAreFunctions
<1>2. new \in [D \cup {k} -> Nat]
  BY <1>1 DEF Rewritten
<1>3. D \cup {k} \in SUBSET Keys
  OBVIOUS
<1>4. new \in Columns
  BY <1>2, <1>3, ColumnsAreFunctions
<1>5. QED
  BY <1>1, <1>4 DEF Rewritten

(* What a verification that succeeds writes. *)
LEMMA VerifyingKeeps ==
    ASSUME PasskeyIInv, NEW c \in Challenges, NEW k \in Keys, k = challenges[c].by,
           NEW read \in Columns, 0 \in DOMAIN read, Handed(c),
           challenges[c].flow = "login" => k \in DOMAIN read,
           challenges[c].flow = "login" => Higher(challenges[c].counter, read[k]),
           credentials' = IF challenges[c].flow = "register" /\ k \in DOMAIN read THEN read
                          ELSE Rewritten(read, k, challenges[c].counter),
           lapses' = lapses \cup (IF read # credentials THEN {"crossed"} ELSE {}),
           IF challenges[c].flow = "login"
           THEN /\ logins' = [logins EXCEPT ![c] = Smaller(logins[c] + 1, 2)]
                /\ UNCHANGED confirmed
           ELSE confirmed' = confirmed \cup {k} /\ UNCHANGED logins,
           UNCHANGED challenges
    PROVE  /\ credentials' \in Columns /\ 0 \in DOMAIN credentials'
           /\ confirmed \subseteq confirmed' /\ confirmed' \subseteq Keys
           /\ KeptUnlessCrossed' /\ CountersKeepUp' /\ CountedOnce'
<1> USE KeysAreNumbers DEF PasskeyIInv
<1>1. PICK n \in Nat : n = challenges[c].counter
  BY DEF PasskeyTypes, PasskeyTypeOK
<1>2. /\ challenges[c].flow \in Flows /\ credentials \in Columns
      /\ confirmed \subseteq Keys /\ logins \in [Challenges -> 0 .. 2]
      /\ \A d \in Challenges : challenges[d].counter \in Nat
  BY DEF PasskeyTypes, PasskeyTypeOK, Handed
<1>3. /\ credentials' \in Columns
      /\ DOMAIN credentials' = DOMAIN read \cup {k}
      /\ \A x \in DOMAIN read : x # k => credentials'[x] = read[x]
      /\ challenges[c].flow = "login" => credentials'[k] = n
      /\ challenges[c].flow = "register" /\ k \in DOMAIN read => credentials' = read
  <2>1. CASE challenges[c].flow = "register" /\ k \in DOMAIN read
    BY <2>1 DEF Flows
  <2>2. CASE ~(challenges[c].flow = "register" /\ k \in DOMAIN read)
    <3>1. PICK new : new = Rewritten(read, k, n)
      OBVIOUS
    <3>2. credentials' = new
      BY <1>1, <2>2, <3>1
    <3>3. /\ new \in Columns
          /\ DOMAIN new = DOMAIN read \cup {k}
          /\ new[k] = n
          /\ \A x \in DOMAIN read : x # k => new[x] = read[x]
      <4> HIDE KeysAreNumbers DEF PasskeyIInv
      <4>1. read \in Columns /\ k \in Keys /\ n \in Nat
        OBVIOUS
      <4>2. \A x : x = Rewritten(read, k, n) =>
              /\ x \in Columns
              /\ DOMAIN x = DOMAIN read \cup {k}
              /\ x[k] = n
              /\ \A y \in DOMAIN read : y # k => x[y] = read[y]
        BY <4>1, RewrittenIs, Zenon
      <4>3. QED
        BY <3>1, <4>2
    <3>4. credentials' \in Columns /\ DOMAIN credentials' = DOMAIN read \cup {k}
      BY <3>2, <3>3
    <3>5. \A x \in DOMAIN read : x # k => credentials'[x] = read[x]
      BY <3>2, <3>3
    <3>6. credentials'[k] = n
      BY <3>2, <3>3
    <3>7. QED
      BY <2>2, <3>4, <3>5, <3>6
  <2>3. QED
    BY <2>1, <2>2
<1>4. /\ confirmed \subseteq confirmed' /\ confirmed' \subseteq Keys
      /\ 0 \in DOMAIN credentials'
  BY <1>2, <1>3
<1>5. ASSUME "crossed" \notin lapses'
      PROVE  read = credentials /\ "crossed" \notin lapses /\ confirmed = DOMAIN credentials
  BY <1>5 DEF KeptUnlessCrossed
<1>6. \A d \in Challenges : logins[d] > 0 => challenges[d].by \in confirmed
  BY DEF SignedIsConfirmed
<1>7. CASE challenges[c].flow = "login"
  <2>1. /\ logins'[c] = Smaller(logins[c] + 1, 2) /\ confirmed' = confirmed
        /\ \A d \in Challenges : d # c => logins'[d] = logins[d]
    BY <1>2, <1>7
  <2>2. KeptUnlessCrossed'
    BY <1>3, <1>5, <1>7, <2>1 DEF KeptUnlessCrossed
  <2>3. ASSUME "crossed" \notin lapses'
        PROVE  credentials[k] \in Nat /\ n >= credentials[k]
                  /\ (n > 0 => n > credentials[k])
    <3>1. credentials[k] \in Nat
      BY <1>2, <1>5, <1>7, <2>3, ColumnsAreFunctions
    <3>2. Higher(n, credentials[k])
      BY <1>1, <1>5, <1>7, <2>3
    <3>3. QED
      BY <3>1, <3>2 DEF Higher
  <2>4. CountersKeepUp'
    <3>1. SUFFICES ASSUME "crossed" \notin lapses', NEW d \in Challenges, logins'[d] > 0
                   PROVE  credentials'[challenges[d].by] >= challenges[d].counter
      BY DEF CountersKeepUp
    <3>2. CASE d = c
      BY <1>1, <1>3, <1>7, <3>2
    <3>3. CASE d # c
      <4>1. /\ credentials[challenges[d].by] >= challenges[d].counter
            /\ challenges[d].by \in DOMAIN credentials
        BY <1>5, <1>6, <2>1, <3>1, <3>3 DEF CountersKeepUp
      <4>2. CASE challenges[d].by = k
        BY <1>2, <1>3, <1>7, <2>3, <3>1, <4>1, <4>2
      <4>3. CASE challenges[d].by # k
        BY <1>3, <1>5, <3>1, <4>1, <4>3
      <4>4. QED
        BY <4>2, <4>3
    <3>4. QED
      BY <3>2, <3>3
  <2>5. CountedOnce'
    <3>1. SUFFICES ASSUME NEW d \in Challenges, logins'[d] = 2, challenges[d].counter > 0,
                          "crossed" \notin lapses'
                   PROVE  FALSE
      BY DEF CountedOnce
    <3>2. CASE d = c
      <4>1. logins[c] > 0
        BY <1>2, <2>1, <3>1, <3>2 DEF Smaller
      <4>2. credentials[k] >= n
        BY <1>1, <1>5, <3>1, <4>1 DEF CountersKeepUp
      <4>3. QED
        BY <1>1, <2>3, <3>1, <3>2, <4>2
    <3>3. CASE d # c
      BY <1>5, <2>1, <3>1, <3>3 DEF CountedOnce
    <3>4. QED
      BY <3>2, <3>3
  <2>6. QED
    BY <1>3, <1>4, <2>2, <2>4, <2>5
<1>8. CASE challenges[c].flow = "register"
  <2>1. logins' = logins /\ confirmed' = confirmed \cup {k}
    BY <1>8
  <2>2. KeptUnlessCrossed'
    BY <1>3, <1>5, <2>1 DEF KeptUnlessCrossed
  <2>3. CountersKeepUp'
    <3>1. SUFFICES ASSUME "crossed" \notin lapses', NEW d \in Challenges, logins[d] > 0
                   PROVE  credentials'[challenges[d].by] >= challenges[d].counter
      BY <2>1 DEF CountersKeepUp
    <3>2. /\ credentials[challenges[d].by] >= challenges[d].counter
          /\ challenges[d].by \in DOMAIN credentials
      BY <1>5, <1>6, <3>1 DEF CountersKeepUp
    <3>3. credentials'[challenges[d].by] = credentials[challenges[d].by]
      BY <1>3, <1>5, <1>8, <3>1, <3>2
    <3>4. QED
      BY <3>2, <3>3
  <2>4. CountedOnce'
    BY <1>5, <2>1 DEF CountedOnce
  <2>5. QED
    BY <1>3, <1>4, <2>2, <2>3, <2>4
<1>9. QED
  BY <1>2, <1>7, <1>8 DEF Flows

LEMMA VerifyKeeps ==
    ASSUME PasskeyIInv, NEW v \in Verifiers, Verify(v)
    PROVE  PasskeyIInv'
<1> USE KeysAreNumbers DEF PasskeyIInv
<1>1. PICK c : c = verifier[v].challenge
  OBVIOUS
<1>2. PICK k : k = challenges[c].by
  OBVIOUS
<1>3. PICK read : read = verifier[v].read
  OBVIOUS
<1>4. /\ verifier[v].pc = "checked"
      /\ UNCHANGED <<minute, redisUp, upSince, outages, restarts, prefers, inRedis, inMemory,
                     challenges, counters, refusals>>
  BY DEF Verify, storeVars
<1>5. IF challenges[c].flow = "login" /\ ~Higher(challenges[c].counter, read[k])
      THEN UNCHANGED <<credentials, confirmed, logins, lapses>>
      ELSE /\ credentials' =
                 IF challenges[c].flow = "register" /\ k \in DOMAIN read THEN read
                 ELSE Rewritten(read, k, challenges[c].counter)
           /\ lapses' = lapses \cup (IF read # credentials THEN {"crossed"} ELSE {})
           /\ IF challenges[c].flow = "login"
              THEN /\ logins' = [logins EXCEPT ![c] = Smaller(logins[c] + 1, 2)]
                   /\ UNCHANGED confirmed
              ELSE confirmed' = confirmed \cup {k} /\ UNCHANGED logins
  BY <1>1, <1>2, <1>3 DEF Verify
<1>6. PICK q : q = [verifier[v] EXCEPT !.pc = "forget"]
  OBVIOUS
<1>7. verifier' = [verifier EXCEPT ![v] = q]
  BY <1>6 DEF Verify
<1>8. verifier[v] \in [pc : {"idle", "found", "checked", "forget"},
                       at : Instances \cup {"nowhere"}, challenge : Keys, read : Columns]
  BY DEF PasskeyTypes
<1>9. /\ q \in [pc : {"idle", "found", "checked", "forget"},
                 at : Instances \cup {"nowhere"}, challenge : Keys, read : Columns]
      /\ q.pc = "forget" /\ q.challenge = c /\ q.at = verifier[v].at
  BY <1>1, <1>6, <1>8
<1>10. /\ verifier' \in [Verifiers -> [pc : {"idle", "found", "checked", "forget"},
                                       at : Instances \cup {"nowhere"},
                                       challenge : Keys, read : Columns]]
       /\ verifier'[v] = q
       /\ \A w \in Verifiers : w # v => verifier'[w] = verifier[w]
  BY <1>7, <1>9 DEF PasskeyTypes
<1>11. /\ c \in Challenges /\ Handed(c) /\ k # Nobody
       /\ 0 \in DOMAIN read
       /\ challenges[c].flow = "login" => k \in DOMAIN read
  BY <1>1, <1>2, <1>3, <1>4 DEF SignedIsConfirmed
<1>12. k \in Keys /\ read \in Columns /\ challenges[c].flow \in Flows
  BY <1>2, <1>3, <1>8, <1>11 DEF PasskeyTypes, PasskeyTypeOK, Handed
<1>13. /\ credentials' \in Columns /\ 0 \in DOMAIN credentials'
       /\ confirmed \subseteq confirmed' /\ confirmed' \subseteq Keys
       /\ KeptUnlessCrossed' /\ CountersKeepUp' /\ CountedOnce'
  <2>1. CASE challenges[c].flow = "login" /\ ~Higher(challenges[c].counter, read[k])
    BY <1>4, <1>5, <2>1 DEF PasskeyTypes, PasskeyTypeOK, KeptUnlessCrossed, CountersKeepUp,
                            CountedOnce
  <2>2. CASE ~(challenges[c].flow = "login" /\ ~Higher(challenges[c].counter, read[k]))
    BY <1>2, <1>4, <1>5, <1>11, <1>12, <2>2, VerifyingKeeps
  <2>3. QED
    BY <2>1, <2>2
<1>14. /\ logins' = logins \/ /\ challenges[c].flow = "login"
                              /\ logins' = [logins EXCEPT ![c] = Smaller(logins[c] + 1, 2)]
       /\ lapses' = lapses \/ lapses' = lapses \cup {"crossed"}
  BY <1>5
<1>15. logins \in [Challenges -> 0 .. 2] /\ lapses \subseteq {"crossed", "raced", "abandoned"}
  BY DEF PasskeyTypes, PasskeyTypeOK
<1>16. /\ logins' \in [Challenges -> 0 .. 2]
       /\ \A d \in Challenges : d # c => logins'[d] = logins[d]
       /\ logins'[c] # logins[c] => logins'[c] = Smaller(logins[c] + 1, 2)
       /\ logins'[c] > 0 => logins[c] > 0 \/ challenges[c].flow = "login"
       /\ lapses' \subseteq {"crossed", "raced", "abandoned"}
       /\ lapses' \cap {"raced", "abandoned"} = lapses \cap {"raced", "abandoned"}
  <2>1. Smaller(logins[c] + 1, 2) \in 0 .. 2
    BY <1>11, <1>15 DEF Smaller
  <2>2. QED
    BY <1>11, <1>14, <1>15, <2>1
<1>17. DOMAIN credentials' \subseteq Keys
  BY <1>13, ColumnsAreFunctions
<1>18. PasskeyTypes'
  BY <1>4, <1>9, <1>10, <1>13, <1>16, <1>17 DEF PasskeyTypes, PasskeyTypeOK
<1>19. FreshIsUnknown' /\ EntriesAreKeyed' /\ RedisIsUsed' /\ RefusedForACause'
  BY <1>4, <1>9, <1>10, <1>11, <1>16 DEF FreshIsUnknown, EntriesAreKeyed, RedisIsUsed,
     RefusedForACause, Handed, KeyOf
<1>20. SignedIsConfirmed'
  <2>1. ASSUME NEW w \in Verifiers, verifier'[w].pc # "idle", NEW d, d = verifier'[w].challenge
        PROVE
          /\ d \in Challenges /\ Handed(d) /\ challenges[d].by # Nobody
          /\ verifier'[w].pc = "checked" => 0 \in DOMAIN verifier'[w].read
          /\ verifier'[w].pc = "checked" /\ challenges[d].flow = "login"
                => challenges[d].by \in DOMAIN verifier'[w].read
    <3>1. CASE w = v
      BY <1>2, <1>9, <1>10, <1>11, <2>1, <3>1
    <3>2. CASE w # v
      BY <1>10, <2>1, <3>2 DEF SignedIsConfirmed
    <3>3. QED
      BY <3>1, <3>2
  <2>2. ASSUME NEW d \in Challenges
        PROVE
          /\ logins'[d] > 0 => challenges[d].flow = "login" /\ challenges[d].by # Nobody
          /\ challenges[d].flow = "login" /\ challenges[d].by # Nobody
                => challenges[d].by \in confirmed'
          /\ challenges[d].flow = "register" /\ challenges[d].by # Nobody
                => challenges[d].by = d
    BY <1>2, <1>11, <1>13, <1>16, <2>2 DEF SignedIsConfirmed
  <2>3. QED
    BY <1>4, <2>1, <2>2 DEF SignedIsConfirmed, Handed
<1>21. WaitingIsStored'
  BY <1>4 DEF WaitingIsStored, Handed, Late, Gone, Apart, KeyOf
<1>22. UsedIsForgotten'
  <2>1. SUFFICES ASSUME outages = 0 /\ lapses \cap {"raced", "abandoned"} = {}
                 PROVE  UsedIsForgotten'
    BY <1>4, <1>16 DEF UsedIsForgotten
  <2>2. /\ logins[c] = 0
        /\ \A w \in Verifiers : verifier[w].challenge = c => w = v
    BY <1>1, <1>4, <2>1 DEF UsedIsForgotten
  <2>3. \A x, w \in Verifiers :
           verifier'[x].pc # "idle" /\ verifier'[w].challenge = verifier'[x].challenge => x = w
    BY <1>9, <1>10, <2>1, <2>2 DEF UsedIsForgotten
  <2>4. \A x \in Verifiers : verifier'[x].pc \in {"found", "checked"}
             => logins'[verifier'[x].challenge] = 0
    <3>1. SUFFICES ASSUME NEW x \in Verifiers, verifier'[x].pc \in {"found", "checked"},
                          NEW d, d = verifier'[x].challenge
                   PROVE  logins'[d] = 0
      OBVIOUS
    <3>2. x # v /\ verifier'[x] = verifier[x]
      BY <1>9, <1>10, <3>1
    <3>3. d \in Challenges /\ d # c /\ logins[d] = 0
      BY <2>1, <2>2, <3>1, <3>2 DEF UsedIsForgotten, SignedIsConfirmed
    <3>4. QED
      BY <1>16, <3>3
  <2>5. ASSUME NEW d \in Challenges
        PROVE  /\ logins'[d] <= 1
               /\ logins'[d] = 1 =>
                     \/ \A e \in Keys : inRedis[e].challenge # d
                     \/ \E x \in Verifiers : verifier'[x].pc = "forget" /\ verifier'[x].challenge = d
    <3>1. CASE d = c
      BY <1>9, <1>10, <1>16, <2>2, <3>1 DEF Smaller
    <3>2. CASE d # c
      <4>1. /\ logins[d] <= 1
            /\ logins[d] = 1 =>
                  \/ \A e \in Keys : inRedis[e].challenge # d
                  \/ \E x \in Verifiers : verifier[x].pc = "forget" /\ verifier[x].challenge = d
        BY <2>1 DEF UsedIsForgotten
      <4>2. QED
        BY <1>1, <1>10, <1>16, <3>2, <4>1
    <3>3. QED
      BY <3>1, <3>2
  <2>6. QED
    BY <1>4, <2>3, <2>4, <2>5 DEF UsedIsForgotten
<1>23. QED
  BY <1>13, <1>18, <1>19, <1>20, <1>21, <1>22

LEMMA PasskeysKeep ==
    ASSUME PasskeyIInv, [PasskeyNext]_passkeyVars
    PROVE  PasskeyIInv'
<1>1. ASSUME NEW i \in Instances, NEW flow \in Flows, HandOut(i, flow) PROVE PasskeyIInv'
  BY <1>1, HandOutKeeps
<1>2. ASSUME NEW i \in Instances, NEW v \in Verifiers, NEW c \in Challenges, LookUp(v, i, c)
      PROVE  PasskeyIInv'
  BY <1>2, LookUpKeeps
<1>3. ASSUME NEW i \in Instances, Restart(i) PROVE PasskeyIInv'
  BY <1>3, RestartKeeps
<1>4. ASSUME NEW v \in Verifiers, ReadRow(v) PROVE PasskeyIInv'
  BY <1>4, ReadRowKeeps
<1>5. ASSUME NEW v \in Verifiers, Verify(v) PROVE PasskeyIInv'
  BY <1>5, VerifyKeeps
<1>6. ASSUME NEW v \in Verifiers, Forget(v) PROVE PasskeyIInv'
  BY <1>6, ForgetKeeps
<1>7. CASE RedisStops
  BY <1>7, RedisStopsKeeps
<1>8. CASE RedisReturns
  BY <1>8, RedisReturnsKeeps
<1>9. CASE MinutePasses
  BY <1>9, MinutePassesKeeps
<1>10. CASE UNCHANGED passkeyVars
  <2> USE <1>10 DEF passkeyVars, PasskeyIInv
  <2>1. PasskeyTypes' /\ RedisIsUsed'
    BY DEF PasskeyTypes, PasskeyTypeOK, RedisIsUsed
  <2>2. FreshIsUnknown' /\ EntriesAreKeyed' /\ SignedIsConfirmed'
    BY DEF FreshIsUnknown, EntriesAreKeyed, SignedIsConfirmed, Handed, KeyOf
  <2>3. WaitingIsStored'
    BY DEF WaitingIsStored, Handed, KeyOf, Late, Gone, Apart
  <2>4. UsedIsForgotten'
    BY DEF UsedIsForgotten
  <2>5. KeptUnlessCrossed' /\ CountersKeepUp' /\ CountedOnce' /\ RefusedForACause'
    BY DEF KeptUnlessCrossed, CountersKeepUp, CountedOnce, RefusedForACause
  <2>6. QED
    BY <2>1, <2>2, <2>3, <2>4, <2>5
<1>11. QED
  BY <1>1, <1>2, <1>3, <1>4, <1>5, <1>6, <1>7, <1>8, <1>9, <1>10 DEF PasskeyNext

(* However instances, outages of Redis, restarts and concurrent calls mix, *)
(* a passkey stays in the column and its counter keeps up unless a write   *)
(* overtook another; one answer opens one session but for the cases that   *)
(* OneSessionPerAnswer names; and while all instances use Redis, it is     *)
(* refused only when late, superseded or used.                             *)
THEOREM PasskeysAreSafe == PasskeySpec => []PasskeyInv
<1>1. PasskeyInit => PasskeyIInv
  BY PasskeysStart
<1>2. PasskeyIInv /\ [PasskeyNext]_passkeyVars => PasskeyIInv'
  BY PasskeysKeep
<1>3. PasskeyIInv => PasskeyInv
  BY PasskeysImply
<1>4. QED
  BY <1>1, <1>2, <1>3, PTL DEF PasskeySpec
=============================================================================
