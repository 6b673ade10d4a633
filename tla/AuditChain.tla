----------------------------- MODULE AuditChain -----------------------------
(***************************************************************************)
(* The tamper-evident audit log of src/lib/audit/audit-service.ts, as its  *)
(* two kinds of callers use it: API handlers wrapped by createApiHandler   *)
(* (src/lib/api/handler.ts), which commit a business change and then       *)
(* append up to three events, and cron tasks, which append one event and   *)
(* swallow the failure.                                                    *)
(*                                                                         *)
(* An append is a database transaction that reads the tenant's latest row  *)
(* and inserts the next one.  SQLite (development) takes its write lock at *)
(* BEGIN, so transactions run one after the other; PostgreSQL (production) *)
(* runs them at READ COMMITTED, so another append may commit between the   *)
(* read and the insert.  What keeps appends apart in both is what the      *)
(* schema declares: the unique index on (tenantId, sequenceNum).  It also  *)
(* declares foreign keys from the event to Tenant and User.                *)
(***************************************************************************)
EXTENDS Naturals

CONSTANTS
    Requests,      \* invocations of handlers and cron tasks
    Tenants,       \* ids of the rows of table Tenant
    KnownActors,   \* ids of the rows of table User
    Inputs,        \* the audit inputs an invocation may carry
    SerialTransactions,  \* TRUE on SQLite, FALSE on PostgreSQL
    NoInput        \* an invocation that has not started

Callers   == {"api", "cron"}
Metadata  == {"plain", "dated"}             \* "dated": a value is a JS Date
Persisted == {"plain", "isoText"}           \* what the metadata column holds
Kinds     == {"event", "always", "error"}
Pcs       == {"idle", "reading", "writing", "ok", "error", "thrown", "crashed"}
Answered  == {"ok", "error", "thrown"}

ASSUME InputsAssumption ==
    \A i \in Inputs : /\ i.caller \in Callers
                      /\ i.metadata \in Metadata
ASSUME NoInputAssumption == NoInput \notin Inputs
ASSUME SerialAssumption  == SerialTransactions \in BOOLEAN

Genesis == [tenantId |-> "none", sequenceNum |-> 0,
            payload |-> <<>>, prevHash |-> "0"]

VARIABLES
    auditEvent,    \* the rows of table AuditEvent
    req,           \* the invocations: program counter and locals
    changed        \* invocations whose business change is committed

vars == <<auditEvent, req, changed>>

(***************************************************************************)
(* Hashing.  SHA-256 is taken as injective: a digest is the record of what *)
(* went into it.  The canonical form sorts the keys of every object it     *)
(* finds; a Date is an object without own keys, so it comes out as {}.     *)
(***************************************************************************)
Canonical(metadata) == IF metadata = "dated" THEN "emptyObject" ELSE metadata

(* JSON.stringify of the metadata column writes a Date as ISO text. *)
Stored(metadata) == IF metadata = "dated" THEN "isoText" ELSE metadata

ComputeEventHash(t, seq, payload, prev) ==
    [tenantId |-> t, sequenceNum |-> seq, payload |-> payload, prevHash |-> prev]

(* Only the event the handler itself records carries the caller's metadata. *)
MetadataOf(input, kind) == IF kind = "event" THEN input.metadata ELSE "plain"

-----------------------------------------------------------------------------
TenantRows(t) == {e \in auditEvent : e.tenantId = t}

NothingRead == [sequenceNum |-> 0, eventHash |-> Genesis]

(* Operators named ...Bug are the definition after them with a mistake an  *)
(* edit of the code could make; no behaviour of the module uses them.      *)
ReadOfBug(e) == [sequenceNum |-> e.sequenceNum + 1, eventHash |-> e.eventHash]

ReadOf(e) == [sequenceNum |-> e.sequenceNum, eventHash |-> e.eventHash]

(* What findFirst orderBy sequenceNum desc returns. *)
Latest(t) ==
    IF TenantRows(t) = {}
    THEN {NothingRead}
    ELSE {ReadOf(e) : e \in {m \in TenantRows(t) :
              \A o \in TenantRows(t) : o.sequenceNum <= m.sequenceNum}}

Init ==
    /\ auditEvent = {}
    /\ req = [r \in Requests |->
                [pc |-> "idle", input |-> NoInput, kind |-> "event",
                 latest |-> NothingRead]]
    /\ changed = {}

(* The handler runs and commits its change, then records its event; a cron *)
(* task records that it ran.                                               *)
CommitChange(r) ==
    /\ req[r].pc = "idle"
    /\ \E i \in Inputs :
          req' = [req EXCEPT ![r] = [@ EXCEPT !.pc = "reading", !.input = i]]
    /\ changed' = changed \cup {r}
    /\ UNCHANGED auditEvent

(* The handler throws an ApiError before it changes anything. *)
RejectRequest(r) ==
    /\ req[r].pc = "idle"
    /\ \E i \in Inputs :
          /\ i.caller = "api"
          /\ req' = [req EXCEPT ![r] = [@ EXCEPT !.pc = "reading", !.input = i,
                                                !.kind = "error"]]
    /\ UNCHANGED <<auditEvent, changed>>

(* First half of the transaction of recordAuditEvent. *)
ReadLatest(r) ==
    /\ req[r].pc = "reading"
    /\ SerialTransactions => \A o \in Requests : req[o].pc # "writing"
    /\ \E latest \in Latest(req[r].input.tenantId) :
          req' = [req EXCEPT ![r] = [@ EXCEPT !.pc = "writing", !.latest = latest]]
    /\ UNCHANGED <<auditEvent, changed>>

NewRow(r) ==
    LET input == req[r].input
        meta  == MetadataOf(input, req[r].kind)
        seq   == req[r].latest.sequenceNum + 1
        prev  == req[r].latest.eventHash
    IN  [tenantId    |-> input.tenantId,
         sequenceNum |-> seq,
         request     |-> r,
         kind        |-> req[r].kind,
         metadata    |-> Stored(meta),
         prevHash    |-> prev,
         eventHash   |-> ComputeEventHash(input.tenantId, seq,
                             <<r, req[r].kind, Canonical(meta)>>, prev)]

SequenceTakenBug(t, seq) == FALSE

SequenceTaken(t, seq) == \E e \in auditEvent : e.tenantId = t /\ e.sequenceNum = seq

ForeignKeysHold(input) == input.tenantId \in Tenants /\ input.actorId \in KnownActors

InsertAllowed(r) ==
    /\ ForeignKeysHold(req[r].input)
    /\ ~SequenceTaken(req[r].input.tenantId, req[r].latest.sequenceNum + 1)

(* Where the caller goes after a recorded event: the handler's own event   *)
(* is followed by the wrapper's alwaysAudit event, then the answer is      *)
(* sent; after the api.error event the error answer is sent.               *)
AfterInsert(r) ==
    CASE req[r].kind = "event" /\ req[r].input.caller = "api"
            -> [req[r] EXCEPT !.pc = "reading", !.kind = "always"]
      [] req[r].kind = "error" -> [req[r] EXCEPT !.pc = "error"]
      [] OTHER                 -> [req[r] EXCEPT !.pc = "ok"]

SwallowFailureBug(r) == [req[r] EXCEPT !.pc = "ok"]

RetryFailureBug(r) == [req[r] EXCEPT !.pc = "reading"]

(* Where it goes when the append throws: cron swallows it; the wrapper's   *)
(* catch block records api.error; a failure there leaves the wrapper.      *)
AfterFailure(r) ==
    CASE req[r].input.caller = "cron" -> [req[r] EXCEPT !.pc = "ok"]
      [] req[r].kind = "error"        -> [req[r] EXCEPT !.pc = "thrown"]
      [] OTHER                        -> [req[r] EXCEPT !.pc = "reading",
                                                        !.kind = "error"]

Insert(r) ==
    /\ req[r].pc = "writing"
    /\ InsertAllowed(r)
    /\ auditEvent' = auditEvent \cup {NewRow(r)}
    /\ req' = [req EXCEPT ![r] = AfterInsert(r)]
    /\ UNCHANGED changed

InsertFails(r) ==
    /\ req[r].pc = "writing"
    /\ ~InsertAllowed(r)
    /\ req' = [req EXCEPT ![r] = AfterFailure(r)]
    /\ UNCHANGED <<auditEvent, changed>>

(* The process serving r dies; an open transaction is rolled back. *)
Crash(r) ==
    /\ req[r].pc \in {"reading", "writing"}
    /\ req' = [req EXCEPT ![r].pc = "crashed"]
    /\ UNCHANGED <<auditEvent, changed>>

Progress(r) == ReadLatest(r) \/ Insert(r) \/ InsertFails(r)

Next == \E r \in Requests :
    CommitChange(r) \/ RejectRequest(r) \/ Progress(r) \/ Crash(r)

(* The event loop runs every pending continuation. *)
RunsOn(r) == WF_vars(Progress(r))

Fairness == \A r \in Requests : RunsOn(r)

Spec == Init /\ [][Next]_vars /\ Fairness

-----------------------------------------------------------------------------
(***************************************************************************)
(* Properties.                                                             *)
(***************************************************************************)

(* What a read may have returned: a number and the hash of a stored row. *)
ReadResults == [sequenceNum : Nat,
                eventHash : {Genesis} \cup {e.eventHash : e \in auditEvent}]

(* The types of the rows and of the invocations. *)
TypeOK ==
    /\ \A e \in auditEvent :
          /\ e.tenantId \in Tenants
          /\ e.sequenceNum \in Nat \ {0}
          /\ e.request \in Requests
          /\ e.kind \in Kinds
          /\ e.metadata \in Persisted
    /\ req \in [Requests -> [pc : Pcs, input : Inputs \cup {NoInput},
                             kind : Kinds, latest : ReadResults]]
    /\ changed \subseteq Requests

(* A sequence number is used once per tenant. *)
SequenceUnique ==
    \A e, f \in auditEvent :
        e.tenantId = f.tenantId /\ e.sequenceNum = f.sequenceNum => e = f

(* However appends interleave, the rows of a tenant form one chain: the    *)
(* first row hangs from the genesis hash and every other row from the hash *)
(* of the row numbered just before it (recordAuditEvent).                  *)
ChainLinked ==
    \A e \in auditEvent :
        IF e.sequenceNum = 1
        THEN e.prevHash = Genesis
        ELSE \E p \in auditEvent :
                /\ p.tenantId = e.tenantId
                /\ p.sequenceNum + 1 = e.sequenceNum
                /\ e.prevHash = p.eventHash

(* A digest carries the number it was computed with. *)
HashNumbersRow ==
    \A e \in auditEvent : e.eventHash.sequenceNum = e.sequenceNum

(* What an open transaction read is still in the table. *)
ReadIsStored ==
    \A r \in Requests : req[r].pc = "writing" =>
        \/ req[r].latest = NothingRead
        \/ \E e \in auditEvent :
              /\ e.tenantId = req[r].input.tenantId
              /\ e.sequenceNum = req[r].latest.sequenceNum
              /\ e.eventHash = req[r].latest.eventHash

(* Whoever appends has been given an input. *)
AppenderHasInput ==
    \A r \in Requests :
        req[r].pc \in {"reading", "writing"} => req[r].input \in Inputs

(* The inductive invariant. *)
ChainInv ==
    TypeOK /\ AppenderHasInput /\ SequenceUnique /\ ChainLinked /\ HashNumbersRow /\ ReadIsStored

(* The chain never forks: two rows of one tenant never hang from the same  *)
(* predecessor, although two transactions may have read the same one.      *)
NoFork ==
    \A e, f \in auditEvent :
        e.tenantId = f.tenantId /\ e.prevHash = f.prevHash => e = f

(* A handler that answers with success has both its own event and the      *)
(* wrapper's event in the log (createApiHandler with alwaysAudit).         *)
SuccessIsAudited ==
    \A r \in Requests :
        (req[r].pc = "ok" /\ req[r].input.caller = "api") =>
            \A k \in {"event", "always"} :
                \E e \in auditEvent : e.request = r /\ e.kind = k

(* docs/SECURITY.md:129 "Every sensitive action creates an AuditEvent": a  *)
(* change whose handler has answered left an event of that change.         *)
ChangeIsAudited ==
    \A r \in changed :
        req[r].pc \in Answered =>
            \E e \in auditEvent : e.request = r /\ e.kind = "event"

(* An append that was begun has a next step; only where transactions run   *)
(* one after the other may it wait for another before it reads.            *)
AppendIsDue(r) ==
    req[r].pc = "writing" \/ (req[r].pc = "reading" /\ ~SerialTransactions)

AppendCanGoOn(r) == AppendIsDue(r) => ENABLED <<Progress(r)>>_vars

AppendsCanGoOn == \A r \in Requests : AppendCanGoOn(r)

Ends(r) == req[r].pc = "reading" ~> req[r].pc \in Answered \cup {"crashed"}

(* No append gets stuck, and every invocation is eventually answered,      *)
(* whatever it loses races to.                                             *)
EveryRequestEnds == []AppendsCanGoOn /\ \A r \in Requests : Ends(r)

(***************************************************************************)
(* The rows of a tenant, in order, are the abstract log.                   *)
(***************************************************************************)
LogOf(t) ==
    [n \in {e.sequenceNum : e \in TenantRows(t)} |->
        LET e == CHOOSE e \in TenantRows(t) : e.sequenceNum = n
        IN  [request |-> e.request, kind |-> e.kind, metadata |-> e.metadata]]

Abstract == INSTANCE AuditLog WITH
    Entries <- [request : Requests, kind : Kinds, metadata : Persisted],
    log     <- [t \in Tenants |-> LogOf(t)]

(* The table with its unique index implements the append-only log. *)
ImplementsLog == Abstract!LogSpec
=============================================================================
