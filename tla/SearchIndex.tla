----------------------------- MODULE SearchIndex -----------------------------
(***************************************************************************)
(* What the searches find of one document: its row of DocumentTextIndex,   *)
(* the embedding made from that row (lib/search/semantic-search.ts) and    *)
(* the copy of its text in OpenSearch (lib/search/opensearch-service.ts).  *)
(*                                                                         *)
(* Uploads and restores hand the new version to indexDocumentText, as a    *)
(* job of queue "ocr" if there is Redis, else as a promise nobody awaits,  *)
(* and index the document in OpenSearch at once.  The collaboration        *)
(* service overwrites the text by itself.  Each reads, works, and writes   *)
(* over what others wrote meanwhile.                                       *)
(*                                                                         *)
(* Contents are numbered in the order they are made; a text is the number  *)
(* of the content it comes from, and 0 is no text.                         *)
(***************************************************************************)
EXTENDS Naturals, Sequences, FiniteSets

CONSTANTS
    Tasks,          \* what runs at once: worker slots and loose promises
    Setups,         \* whether there is Redis and a worker: settings looked at
    Attempts,       \* QUEUE_DEFAULTS.ocr.attempts
    MaxContents,    \* bound: contents there are in all
    MaxFaults,      \* bound: steps that fail or never come
    MaxReindexes    \* bound: reindex requests

ASSUME SearchBounds ==
    /\ Setups \subseteq BOOLEAN
    /\ Attempts \in Nat \ {0}
    /\ {MaxContents, MaxFaults, MaxReindexes} \subseteq Nat

VARIABLES
    content,        \* the contents: kind, and whether its bytes are sealed
    filed,          \* columns of Document: deleted, ocrStatus, and its key
    textIndex,      \* the row of DocumentTextIndex: versionId and text
    embedding,      \* text the row of DocumentEmbedding was made from
    found,          \* text in OpenSearch
    job,            \* attempts left of the waiting job of each version
    owed,           \* promises made and not yet begun, of each kind
    queued,         \* there is Redis, and a worker process
    task,
    faults, reindexes,
    excused         \* history: what may be stale, for a reason on record

searchVars == <<content, filed, textIndex, embedding, found, job, owed, queued,
                task, faults, reindexes, excused>>

Contents == 1 .. MaxContents
Kinds    == {"upload", "redaction", "save"}    \* a restore is an upload
Made     == DOMAIN content
Idle     == [pc |-> "idle", of |-> 0, left |-> 0, text |-> 0]

SearchInit ==
    /\ content = <<>>
    /\ filed = [deleted |-> FALSE, ocrStatus |-> "pending", key |-> TRUE]
    /\ textIndex = [versionId |-> 0, text |-> 0]
    /\ embedding = 0
    /\ found = 0
    /\ job = [n \in Contents |-> 0]
    /\ owed = [put |-> 0, embed |-> 0]
    /\ queued \in Setups
    /\ task = [t \in Tasks |-> Idle]
    /\ faults = 0 /\ reindexes = 0
    /\ excused = {}

(* Flags of `excused`: nothing is known of x after a fault or a race, and  *)
(* all is well again after a write that was in time.                       *)
Excuse(x, stale) == IF stale THEN excused \cup {x} ELSE excused \ {x}

IndexFault == faults < MaxFaults /\ faults' = faults + 1

(* The newest content that should be in the index. *)
Newest == CHOOSE n \in Made \cup {0} :
             /\ n > 0 => content[n].kind # "redaction"
             /\ \A m \in Made : content[m].kind # "redaction" => m <= n

Step(t, pc) == task' = [task EXCEPT ![t].pc = pc]
Done(t)     == task' = [task EXCEPT ![t] = Idle]

-----------------------------------------------------------------------------
(* POST documents, versions and restore: the version is committed, and     *)
(* then its job is enqueued and OpenSearch told.  In between, the audit    *)
(* event may be refused or the process stop, and neither happens.          *)
AddVersion ==
    /\ Len(content) < MaxContents /\ ~filed.deleted
    /\ LET n == Len(content) + 1 IN
       /\ content' = Append(content, [kind |-> "upload", sealed |-> filed.key])
       /\ \/ /\ job' = [job EXCEPT ![n] = IF queued THEN Attempts ELSE 1]
             /\ owed' = [owed EXCEPT !.put = @ + 1]
             /\ UNCHANGED <<faults, excused>>
          \/ /\ IndexFault
             /\ excused' = excused \cup {"text", "found"}
             /\ UNCHANGED <<job, owed>>
    /\ UNCHANGED <<queued, filed, textIndex, embedding, found, task, reindexes>>

(* POST redact adds a version and tells no index. *)
Redact ==
    /\ Len(content) \in 1 .. MaxContents - 1 /\ ~filed.deleted
    /\ content' = Append(content, [kind |-> "redaction", sealed |-> filed.key])
    /\ UNCHANGED <<queued, filed, textIndex, embedding, found, job, owed, task, faults,
                   reindexes, excused>>

(* POST collaboration/save writes the text and leaves the version it says  *)
(* the text is of; nobody makes a new embedding, or tells OpenSearch.      *)
Save ==
    /\ Len(content) \in 1 .. MaxContents - 1
    /\ content' = Append(content, [kind |-> "save", sealed |-> FALSE])
    /\ textIndex' = [textIndex EXCEPT !.text = Len(content) + 1]
    /\ excused' = (excused \ {"text"}) \cup {"embedding", "found"}
    /\ UNCHANGED <<queued, filed, embedding, found, job, owed, task, faults, reindexes>>

(* DELETE documents/[id] and crypto-shred change the document alone.       *)
DeleteDocument ==
    /\ content # <<>> /\ ~filed.deleted
    /\ filed' = [filed EXCEPT !.deleted = TRUE]
    /\ UNCHANGED <<queued, content, textIndex, embedding, found, job, owed, task, faults,
                   reindexes, excused>>

(* The key goes first, and the process may stop then. *)
DestroyKey ==
    /\ content # <<>> /\ filed.key
    /\ \/ filed' = [filed EXCEPT !.key = FALSE, !.deleted = TRUE] /\ UNCHANGED faults
       \/ filed' = [filed EXCEPT !.key = FALSE] /\ IndexFault
    /\ UNCHANGED <<queued, content, textIndex, embedding, found, job, owed, task,
                   reindexes, excused>>

-----------------------------------------------------------------------------
(* handleOcrJob, or the promise: indexDocumentText reads the version, the  *)
(* bytes as they are stored, and marks the document.                       *)
BeginIndexing(t, n) ==
    /\ task[t].pc = "idle" /\ job[n] > 0
    /\ task' = [task EXCEPT ![t] = [Idle EXCEPT !.pc = "index", !.of = n,
                                                !.left = job[n] - 1]]
    /\ job' = [job EXCEPT ![n] = 0]
    /\ UNCHANGED <<queued, content, filed, textIndex, embedding, found, owed, faults,
                   reindexes, excused>>

MarkProcessing(t) ==
    /\ task[t].pc = "index"
    /\ filed' = [filed EXCEPT !.ocrStatus = "processing"]
    /\ Step(t, "extract")
    /\ UNCHANGED <<queued, content, textIndex, embedding, found, job, owed, faults,
                   reindexes, excused>>

(* The storage does not answer, or the extraction fails, which marks the   *)
(* document first; BullMQ tries again as often as it was told.  The last   *)
(* time nobody goes on from where an earlier try was stopped.              *)
IndexingFails(t) ==
    /\ task[t].pc \in {"index", "extract"} /\ IndexFault
    /\ filed' = IF task[t].pc = "extract"
                THEN [filed EXCEPT !.ocrStatus = "failed"] ELSE filed
    /\ job' = [job EXCEPT ![task[t].of] = task[t].left]
    /\ excused' = IF task[t].left > 0 THEN excused
                  ELSE excused \cup {"text", "embedding", "found"}
                               \cup (IF task[t].pc = "index" THEN {"status"} ELSE {})
    /\ Done(t)
    /\ UNCHANGED <<queued, content, textIndex, embedding, found, owed, reindexes>>

(* The upsert asks for no version.  In a process without queue OpenSearch  *)
(* is not told of the text.                                                *)
WriteText(t) ==
    /\ task[t].pc = "extract"
    /\ LET n == task[t].of IN
       /\ textIndex' = [versionId |-> n, text |-> n]
       /\ excused' =
             (IF n = Newest THEN excused \ {"text"}
              ELSE IF textIndex.text > n THEN excused \cup {"text"} ELSE excused)
             \cup (IF queued THEN {} ELSE {"found"})
    /\ Step(t, "status")
    /\ UNCHANGED <<queued, content, filed, embedding, found, job, owed, faults, reindexes>>

(* The definition after it, without the last part of indexDocumentText. *)
FinishIndexingBug(t, status) ==
    /\ filed' = [filed EXCEPT !.ocrStatus = status]
    /\ UNCHANGED owed
    /\ IF queued THEN Step(t, "put") ELSE Done(t)

(* The status; then the embedding is left to a promise, and the worker     *)
(* goes on to OpenSearch.                                                  *)
FinishIndexing(t, status) ==
    /\ filed' = [filed EXCEPT !.ocrStatus = status]
    /\ owed' = [owed EXCEPT !.embed = @ + 1]
    /\ IF queued THEN Step(t, "put") ELSE Done(t)

SetStatus(t) ==
    /\ task[t].pc = "status"
    /\ \/ /\ FinishIndexing(t, "success")
          /\ excused' = excused \ {"status"}
          /\ UNCHANGED faults
       \/ /\ IndexFault                          \* .catch(() => {})
          /\ FinishIndexing(t, filed.ocrStatus)
          /\ excused' = excused \cup {"status"}
    /\ UNCHANGED <<queued, content, textIndex, embedding, found, job, reindexes>>

-----------------------------------------------------------------------------
(* indexDocument of opensearch-service.ts, which also takes documents that *)
(* are deleted.                                                            *)
BeginPut(t) ==
    /\ task[t].pc = "idle" /\ owed.put > 0
    /\ owed' = [owed EXCEPT !.put = @ - 1]
    /\ task' = [task EXCEPT ![t] = [Idle EXCEPT !.pc = "put"]]
    /\ UNCHANGED <<queued, content, filed, textIndex, embedding, found, job, faults,
                   reindexes, excused>>

ReadText(t) ==
    /\ task[t].pc = "put"
    /\ task' = [task EXCEPT ![t].pc = "send", ![t].text = textIndex.text]
    /\ UNCHANGED <<queued, content, filed, textIndex, embedding, found, job, owed, faults,
                   reindexes, excused>>

Send(t) ==
    /\ task[t].pc = "send"
    /\ \/ /\ found' = task[t].text
          /\ excused' = Excuse("found", task[t].text # textIndex.text)
          /\ UNCHANGED faults
       \/ /\ IndexFault
          /\ excused' = excused \cup {"found"}
          /\ UNCHANGED found
    /\ Done(t)
    /\ UNCHANGED <<queued, content, filed, textIndex, embedding, job, owed, reindexes>>

-----------------------------------------------------------------------------
(* indexDocumentEmbedding: the text, whether the embedding is of that text *)
(* already, and the write.                                                 *)
BeginEmbedding(t) ==
    /\ task[t].pc = "idle" /\ owed.embed > 0
    /\ owed' = [owed EXCEPT !.embed = @ - 1]
    /\ task' = [task EXCEPT ![t] =
                  IF textIndex.text = 0 THEN Idle
                  ELSE [Idle EXCEPT !.pc = "look", !.text = textIndex.text]]
    /\ UNCHANGED <<queued, content, filed, textIndex, embedding, found, job, faults,
                   reindexes, excused>>

LookForEmbedding(t) ==
    /\ task[t].pc = "look"
    /\ IF embedding = task[t].text THEN Done(t)
       ELSE Step(t, IF embedding = 0 THEN "create" ELSE "update")
    /\ UNCHANGED <<queued, content, filed, textIndex, embedding, found, job, owed, faults,
                   reindexes, excused>>

(* documentId is unique, so one of two creations is refused. *)
WriteEmbedding(t) ==
    /\ task[t].pc \in {"create", "update"}
    /\ \/ /\ IF task[t].pc = "create" /\ embedding # 0
             THEN UNCHANGED <<embedding, excused>>
             ELSE /\ embedding' = task[t].text
                  /\ excused' = Excuse("embedding", task[t].text # textIndex.text)
          /\ UNCHANGED faults
       \/ /\ IndexFault
          /\ excused' = excused \cup {"embedding"}
          /\ UNCHANGED embedding
    /\ Done(t)
    /\ UNCHANGED <<queued, content, filed, textIndex, found, job, owed, reindexes>>

-----------------------------------------------------------------------------
(* A process stops.  BullMQ gives its job to another; a promise is lost.   *)
Lost(t) ==
    IF task[t].pc \in {"put", "send"} THEN {"found"}
    ELSE IF task[t].of > 0 THEN {"text", "embedding", "status"} ELSE {"embedding"}

Stop(t) ==
    /\ task[t].pc # "idle" /\ IndexFault
    /\ IF queued /\ task[t].of > 0
       THEN /\ job' = [job EXCEPT ![task[t].of] = task[t].left + 1]
            /\ UNCHANGED excused
       ELSE excused' = excused \cup Lost(t) /\ UNCHANGED job
    /\ Done(t)
    /\ UNCHANGED <<queued, content, filed, textIndex, embedding, found, owed, reindexes>>

(* POST admin/search/reindex, scope "all": reindexTenant lists documents   *)
(* that are not deleted, reindexTenantEmbeddings the rows of the index.    *)
Reindex ==
    /\ content # <<>> /\ reindexes < MaxReindexes
    /\ reindexes' = reindexes + 1
    /\ owed' = [put   |-> owed.put + (IF filed.deleted THEN 0 ELSE 1),
                embed |-> owed.embed + (IF textIndex.text = 0 THEN 0 ELSE 1)]
    /\ UNCHANGED <<queued, content, filed, textIndex, embedding, found, job, task, faults,
                   excused>>

SearchNext ==
    \/ AddVersion \/ Redact \/ Save \/ DeleteDocument \/ DestroyKey \/ Reindex
    \/ \E t \in Tasks :
          \/ \E n \in Contents : BeginIndexing(t, n)
          \/ MarkProcessing(t) \/ IndexingFails(t) \/ WriteText(t) \/ SetStatus(t)
          \/ BeginPut(t) \/ ReadText(t) \/ Send(t)
          \/ BeginEmbedding(t) \/ LookForEmbedding(t) \/ WriteEmbedding(t)
          \/ Stop(t)

SearchSpec == SearchInit /\ [][SearchNext]_searchVars

-----------------------------------------------------------------------------
SearchTypeOK ==
    /\ content \in Seq([kind : Kinds, sealed : BOOLEAN]) /\ Len(content) <= MaxContents
    /\ filed \in [deleted : BOOLEAN, key : BOOLEAN,
                  ocrStatus : {"pending", "processing", "success", "failed"}]
    /\ textIndex \in [versionId : Made \cup {0}, text : Made \cup {0}]
    /\ {embedding, found} \subseteq Made \cup {0}
    /\ job \in [Contents -> 0 .. Attempts]
    /\ excused \subseteq {"text", "found", "embedding", "status"}

Quiet ==
    /\ \A t \in Tasks : task[t].pc = "idle"
    /\ \A n \in Contents : job[n] = 0
    /\ owed = [put |-> 0, embed |-> 0]

(* When nothing is under way the row has the newest text, the embedding is *)
(* of that text and OpenSearch has it too, however the work was mixed up:  *)
(* unless the last write of each failed, was lost, or wrote what was       *)
(* already stale; and the document is not said to be processed for ever.   *)
CopiesAgree ==
    Quiet =>
       /\ "text" \notin excused => textIndex.text = Newest
       /\ "embedding" \notin excused => embedding = textIndex.text
       /\ "found" \notin excused => found = textIndex.text
       /\ "status" \notin excused => filed.ocrStatus # "processing"

SearchInv == SearchTypeOK /\ CopiesAgree

(* text-extraction.ts:115: "Extract text from a document version", not from *)
(* the bytes it is sealed in.                                              *)
TextIsReadable == textIndex.versionId = textIndex.text /\ textIndex.text > 0
                     => ~content[textIndex.text].sealed

(* semantic-search.ts:352: an embedding is removed when "the document is   *)
(* deleted".                                                               *)
DeletedIsForgotten == Quiet /\ filed.deleted => embedding = 0
===============================================================================
