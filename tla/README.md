# Smart EDMS, specified in TLA+

This directory holds a formal model of the parts of Smart EDMS whose correctness depends
on more than one request at a time: TLA+ modules, TLC configurations that check them on
small instances, and proofs for the TLA+ proof system (TLAPS). Paths below are relative
to the root of the repository (`src/` is the Next.js application's source; `lib/` and
`api/` are short for `src/lib/` and `src/app/api/`).

    tlc -config <run>.cfg <module>      # model-check one run, see "Runs"
    tlapm <name>Proofs.tla              # check the proofs of a module

`PROJECT.json` says which run uses which module, maps every definition to the lines it
models, and lists the findings, the hazards and the theorems.

## The system

Smart EDMS is a multi-tenant document management system: Next.js API handlers over one
Prisma database, an object storage for document bytes, an hourly cron, an optional Redis
(queue, rate limits, challenges) with a worker process, OpenSearch, payment providers and
signature providers that call back, and a desktop edition licensed by a vendor's server.

**The database is the concurrency model.** `prisma/schema.prisma` declares SQLite, used in
development, where transactions that write run one after the other. Production runs
PostgreSQL (`README.md`, `docker-compose.lan.yml`, `k8s/configmap.yaml`) at Prisma's
default, READ COMMITTED: another transaction may commit between any two statements of
mine, a row I updated is locked until I commit, and a unique index or a foreign key may
refuse my insert. Many handlers use no transaction at all: read, check, write by id.
Modules for which it matters take the constant `SerialTransactions` or `SerialReleases`
(TRUE on SQLite).

**Memory is per instance.** What a process keeps for itself (revocation caches, the policy
cache, rate limits without Redis, challenges without Redis, the cron's guard, the key
that wraps keys) is what another instance does not know. Those modules have instances, or
processes, as a constant.

### Inventory

| Component | State it keeps | Operations | Hard behaviour | What makes it correct | Modules |
|---|---|---|---|---|---|
| Audit log (`lib/audit`, `lib/api/handler.ts`) | `AuditEvent` | append, from every handler and cron task | concurrent appends, appends that fail after the change they record | each tenant's chain is linear; what succeeded is in it | `AuditLog`, `AuditChain` |
| Audit verification | none | `verifyAuditChain` | a stored form that differs from the hashed one, limits | reports damage and nothing else | `AuditVerification` |
| Workflow approvals (`api/workflows`, `lib/workflow`) | `Workflow`, `Approval` | create, approve, reject, delegate, escalate | overlapping decisions, row locks, a cron that writes by id | unanimity, rejection is final, nobody waits for ever | `WorkflowApprovals` |
| Electronic signatures (`lib/signatures`, `api/signatures`, `api/public-sign`) | `SignatureRequest` with recipients and trail as JSON columns, `SignatureEnvelope` | create, sign, void, webhook, expire | whole columns written back, events late or repeated | completed only when all signed, no signature lost, closed stays closed | `Signatures` |
| BPMN engine (`lib/bpmn`) | process instances with history | start, advance, terminate | an instance advanced twice, or after its end | completed along the path, closed stays closed | `BpmnProcess` |
| Document versions (`api/documents/[id]`) | `DocumentVersion`, storage | upload, restore, redact, shred, delete | stale source, stale key, storage written inside a transaction | dense immutable history, rows match bytes, shredded means unreadable | `DocumentVersions` |
| Document keys and storage (`lib/storage`, `api/storage`, `api/admin/key-rotation`) | `DocumentEncryptionKey`, the KEK of each process | create, open, rotate, destroy; signed addresses | rotation across a change of the KEK, copies across shredding | a row wraps its document's key and nothing else, destroyed is gone, copies are whole | `DocumentKeys` |
| Document governance (`api/admin/legal-holds`, `dispositions`, `cron/escalate`) | `LegalHold`, `DispositionRecord`, flags on `Document`, the cron's guard | hold, release; request, decide; delete, shred, declare | checks that are stale when acted on, a denormalised flag, a guard that expires | what is held is not destroyed; due documents are requested once | `DocumentGovernance`, `CronRuns` |
| Document editing and folders | `Document`, `ClassificationHistory`, `Folder` | patch, lock, classify; create, move, delete | lock and class checked on a stale row, overlapping moves | history leads to the class; the tree is a tree | `DocumentEditing`, `FolderTree` |
| Shares (`api/shares`) | `Share` | create, visit, revoke | visitors at the view limit | views are limited, revoked is closed | `Shares` |
| Records management (`lib/records`) | `RecordFolder`, category | cut off, dispose, hold, edit | a hold that arrives after its check | disposed once, never on hold | `RecordFolders` |
| Payments (`lib/billing`, `api/billing`) | `PaymentInvoice` | checkout, webhook, refund, reconcile | repeated, late and reordered events, failure between steps | activated once, only when paid, settled is final | `InvoiceLife`, `Payments` |
| Access gate and subscription | `Subscription` | grace, suspend, lock, renew | update by id of what was read before a renewal | a paid tenant is open, a lock is earned | `SubscriptionGate` |
| Licensing | `License` | check, install, expire | a hash over columns each check moves | a lock has a cause | `LicenceGate` |
| Authentication (`lib/auth`, `api/auth`, `api/me`) | `User`, revocation caches, challenges | sign in, step up, reset, passkeys, revoke | two sign-ins at once, a code replayed, a cache in flight | failures lock, codes count once, revoked is seen in time | `SignIn`, `SessionRevocation`, `Passkeys` |
| Policy engine | `Policy`, a cache per instance | evaluate, edit | a load in flight refills a stale cache | rules are obeyed within the cache's life | `PolicyEngine` |
| Rate limiter | Redis or memory | check | failover, racing refusals | no more than the limit in a window | `RateLimiter` |
| Job queue (`lib/queue`, `worker`) | Redis, `Job` | enqueue, work, retry, remove | a worker before the row, retries, stalls | the row tells the outcome, jobs end | `JobQueue` |
| Administration | invitations, users, recertification | invite, accept, edit, suspend, decide | accepting twice, roles written from a stale read | accepted once, suspended is signed out | `Membership` |
| Search indexes (`lib/search`) | text, embedding, OpenSearch | extract, embed, index, reindex | jobs out of order, failures swallowed | copies agree unless something crossed or failed | `SearchIndex` |
| Webhooks (`lib/notifications`) | `WebhookDelivery`, queue | fire, deliver, retry | part of the jobs enqueued, an update lost after the POST | nothing forgotten, twice only for a reason | `WebhookDelivery` |
| Desktop client and vendor server (`electron`, `vendor-server`) | licence in the registry and in the key store | issue, renew, revoke, heartbeat, verify, install | late and lost heartbeats, renewal against revocation | a lock has a cause; the revoked learn of it | `DesktopLicence` |
| Security monitoring, text extraction, malware scan, user interface, deployment | none of their own | | | | none |

Components interact through the database, with these exceptions, which the models make
explicit: every handler calls the audit log after its change (and fails if that fails);
the payment service activates the subscription only after its audit event; the gates,
sessions, policies and limits are asked before a handler runs.

## Modules

Each component module has its own variables, `...Init`, `...Next` and `...Spec`. Five
instances for TLC compose them:

| Instance | Parts |
|---|---|
| `MCPlatform` | audit chain, subscription, job queue |
| `MCPayments` | payments alone, because their liveness needs the room |
| `MCApprovals` | signatures, workflows, BPMN processes, cron runs, a desktop whose licence is revoked |
| `MCApplication` | audit verification, sign-in, members, sessions, rate limiter, policies, licence, governance, versions, editing, folder tree, shares, record folders |
| `MCServices` | search, passkeys, desktop, webhooks, document keys |

The parts of an instance share no state, so a behaviour belongs to one `part` and the others
keep their initial state: a run of an instance is the sum of its parts, not their product.
`AuditVerification` extends `AuditChain`, which implements `AuditLog`, an append-only sequence
per tenant, under the refinement mapping `ImplementsLog`; `DocumentVersions` implements
`VersionHistory`, what a history of versions promises its readers, under `ImplementsHistory`;
`Payments` implements `InvoiceLife`, what tenant and seller see of an invoice, under `ImplementsLife`.

How they are read. Tables are variables, named like their model in the Prisma schema; a
row is a record with the columns a property needs. A function over the invocations holds
the program counter and the locals that survive an `await`. A handler is one action
per database statement other invocations can come between; statements nobody can
observe apart are one action. Early returns are guards or the next program counter.
`Crash`/`Fail` stop an invocation at any such point. Variables called history in a comment
(`overtaken`, `crossed`, `raced`) record that something relevant was committed after an
invocation read, so that a property can say "only in a race". Operators named `...Bug`
stand before the definition they vary: each is a mistake an edit could make. `PROJECT.json`
pairs it with the property that notices it; nothing else uses it.

* **AuditChain.** `ReadLatest` is `findFirst`; `Insert`/`InsertFails` is `create`, refused by
  the unique index on (tenantId, sequenceNum) or by the foreign keys to `Tenant` and
  `User`. SHA-256 is injective: a digest is the record of what went in. `AfterInsert` and
  `AfterFailure` are `createApiHandler`: the handler's own event, then the wrapper's, and in
  the catch block `api.error`; a cron task swallows the failure. Nobody retries.
* **AuditVerification.** `EditRow` and `DeleteRow` are external. A `Date` in metadata is
  hashed as `{}` by `sortKeys` and stored as text, so the walk hashes something else.
* **WorkflowApprovals.** `UpdateOwnRow` takes the row lock, `CountStep` reads what is committed
  plus its own update and keeps the counts as the code computes them (decision added, one
  subtracted), `CommitDecision` writes the outcome. `contested` records the rows that one request of an approver wrote while
  another that had read them was open (two tabs), and those handed on from them. Rows of other steps than step 0 do not
  exist: `workflows/route.ts:104` creates only the first step, whatever it was asked for.
* **Signatures.** `Fetch...` is the read of a handler and `Write...` its update by id. A signature and
  a webhook derive whole columns from what was read. The two signing endpoints do the same and are
  one action. `provider` is external: the events it sent may be delivered at any later time,
  any number of times, and before the row exists.
* **BpmnProcess.** `parseBpmnXml` keeps one path through a diagram, and an instance goes along it;
  an advance reads the instance and writes it by id. The walk stops at an element of a type the
  expression on line 95 does not look for (`Unknown`: `bpmn:task`, intermediate events, a target that
  is not there), and what is drawn behind it is asked of nobody (`TasksAreAsked`). Diagrams without
  a start event are left out: their instances stand on nothing and are never advanced.
* **DocumentVersions.** Begin, read source and key, open the transaction and take a number,
  put the object, insert. Storage is outside the transaction and keeps what was put. A body is
  a text, how often it was redacted, and whether it is only cipher text. `Opened` is decryption. To a reader the history is what storage
  holds under the key of each number's row, which is how it maps to `VersionHistory`.
* **DocumentKeys.** A wrapped key is the number of the KEK that wrapped it; each process keeps the
  KEK it started with (`getKek` caches it). A document's content is known by what it decrypts to
  under its own key: the text, or the sealed bytes of another document. The rotation lists all
  rows, then opens and updates one at a time: who wraps again what it did not open with the key's own
  KEK, or what was spoilt before, spoils the row (`spoilt`). `SignedFields` and `CheckedFields` are the two ends
  of a signed address.
* **DocumentGovernance.** `MayWrite` keeps writers out of an open release transaction on SQLite (`NoneCounts`).
* **CronRuns.** The guard of `cron/escalate` is two module-level variables of a process. What the
  tasks before the retention do is passed over; the list of due documents is any `Take` of them.
* **DocumentEditing, FolderTree.** A PATCH reads the document, checks, and writes by id what it was
  given. A move walks to the root, at most `MaxFolderDepth` levels, and then writes.
* **Shares.** The count is one conditional update; everything before it is a check of a row read earlier.
* **RecordFolders.** Status and category are read, the folder is written by id. The
  `DispositionRecord` that should follow is refused by a foreign key (see below).
* **Payments.** `transitionInvoiceStatus` is five steps: read, compare-and-swap, write back the
  list of events, audit, apply. `provider` is external, and any event it ever sent may be
  delivered at any later time, any number of times. `PseudoActorsHaveRows` says whether
  `AuditEvent.actorId` may be `'webhook'`; with the schema of this repository it is FALSE. In `InvoiceLife`
  an invoice is open, void, paid or refunded, money is received or not, and the plan is granted by an
  invoice once: the one statement that commits such a step is the step, all others stutter.
* **SubscriptionGate, LicenceGate.** Days are ticks. The gate reads and writes as a request passes;
  the cron finds rows and later updates them by id; activation, refund and edits come in between.
* **SignIn.** One account: password, code, step-up, reset, locking. A sign-in reads the row and writes
  counters by id, the last accepted step of the code too (`auth-options.ts:307`, `324`).
* **SessionRevocation.** Two caches per instance, of tokens and of users, with fills in flight: a request
  reads the database, other steps pass, and the answer is put into the cache and used.
* **Passkeys.** Challenges in Redis or in an instance's memory, chosen once (`preferRedis` is latched);
  the column of credentials is written back as a whole by login and registration.
* **PolicyEngine.** Rules are records; the cache is filled by a load that may be in flight during
  an edit. `InWindow` and `InCidr` are the code's arithmetic (`Ones`: two words agree under a mask when
  the bits it keeps are the same); `WindowsGoRound` and `RangesArePrefixes` compare them with what
  windows and ranges are. Of an allow and a deny rule with one priority the code takes the allow rule, against its
  comments: `PoliciesAreObeyed` lets such a tie pass (`Tied`), `DenyWins` is what was meant. Priorities are those the forms accept. `past` keeps the rules there were and until
  when, so that `PoliciesAreObeyed` says by which rules a request was judged while edits keep coming.
* **RateLimiter.** A sorted set in Redis, or a list per instance; each request adds itself, counts, leaves.
* **JobQueue.** BullMQ is external: attempts, stalls and removal as its documentation has them.
* **Membership.** Invitations, the user they make, SSO, roles, suspension, recertification of one address.
* **SearchIndex.** A content is a number; each index holds the content it last was given. Extraction,
  embedding and indexing are separate jobs over the queue or in the process. A job that was tried again and
  then failed for good leaves behind whatever its last try would have renewed, not the text alone:
  the proof of `CopiesAgree` showed that the model had excused too little.
* **WebhookDelivery.** A firing enqueues one job per hook and falls back to delivering in the process;
  deliveries of the worker are tried again when they fail. The guard of outbound requests (HTTPS in
  production, private addresses, names that do not resolve) may stop any attempt before its POST: the worker
  throws and tries again, the handler writes `blocked_...` and drops the event (`NoteBlocked`).
* **DesktopLicence.** The vendor's registry, the key on the desktop, its window and the heartbeats. That the vendor
  answers `lock` to a clock set back or to failed integrity (`vendor-server/.../heartbeat/route.ts:117-127`) is left
  out, because no desktop reports either: `integrityValid` is always true, and `clockRollbackDetected` stays false, its
  query being for tables the schema does not have (`electron/src/license/heartbeat.ts:115-135`).

## Runs

Deadlock is not checked anywhere: requests end, and a bounded number of them then leaves
nothing to do. That nothing waits for ever is said by the liveness properties instead.
A property named `...IsSound` (or `...AreSound`) is the invariant of the part together with
what a step may do to it; `...Inv` is a conjunction whose parts have names and comments. `EveryRequestEnds`, `LapseIsNoticed`,
`InvoiceSettles`, `ExpiryHappens` and `RevocationArrives` are conjunctions too: what must happen, and that the steps it
takes can be taken when they are due, which the theorems about them have for a hypothesis.

| Run | Properties | Bounds and why they are enough |
|---|---|---|
| `Platform` | `ChainInv` (numbered, linked, not forked), `SuccessIsAudited`, `ImplementsLog`, `EveryRequestEnds`; `SubInv` (`PaidIsOpen`, `LockIsEarned`), `LapseIsNoticed`; `JobInv` (`RowTellsOutcome`), `JobsEnd` | 3 invocations with up to 3 appends each, 2 tenants, a pseudo-tenant and a pseudo-actor: three-way races for a number, failures at every position. One gate, one cron pass, one order, ten days against a period of 1 and limits 1, 2, 3: a subscription lapses all the way and is renewed at any point. One job, two workers, two attempts, one stall, one retry by hand |
| `Payments` | `ImplementsLife` with `PaymentsAreSound` (`ActivatedOnce`, `ActivationIsPaid`, `ActivationLostOnlyByFailure`, `SettledIsFinal`), `InvoiceSettles` | 1 invoice, 2 concurrent calls and the cron, 3 calls in all, reports confirming, underpaid, confirmed: every pair of handlers meets at every step |
| `Approvals` | `SignatureInv` (`SignatureLostOnlyInARace`, `SignedByAllIsCompleted`, `TrailProvesSignatures`), `SignatureSteps` (`CompletionIsBacked`, `ClosedStaysClosed`), `ExpiryHappens`; `WorkflowInv` (`ApprovedIsUnanimous`, `PromotionIsSigned`, `SomebodyGoesOn`), `WorkflowSteps` (`RejectionIsFinal`, `DecisionIsKept`), `TransactionsEnd`; `BpmnIsSound` (`CompletedIsApproved`, `TrailIsPath`, `ClosedIsReopenedOnlyLate`); `CronInv` (`RunsAreApart`, `RequestedOnce`), `ListedIsRequested`; `RevocationArrives` | signatures: 2 invocations, two signers, a signer and a copy, one person twice, only a copy, with a provider and without (the theorems hold for any number). Workflows: two approvers and a delegate on PostgreSQL, both modes, 4 rows; one approver has two requests open at once and so can decide a row twice or hand it on while deciding it. Processes: three callers; two tasks in a row, a gateway, loops left before and after they go round, no task at all, a task behind an element the parser does not know. Cron: 2 runs of one process, 2 documents and a list that takes one, one fault, a guard that expires. Desktop: one heartbeat, 2 licences, 2 days, one fault |
| `Application` | `VerdictIsExact`; `SignInIsSound` (`CountedFailuresLock`, `CodeCountsOnce`, `PasswordEndsSessions`, `ResetsOnce`, `LockIsKept`); `MembershipInv` (`AcceptedOnce`, `RolesAreAsDecided`, `SuspendedIsSignedOut`); `SesInv` (`RevocationIsSeenInTime`); `LimiterInv` (`LimitHolds`, `WindowIsHonest`); `PolicyInv` (`PoliciesAreObeyed`), `MatchersAreExact` (`WindowsGoRound`, `RangesArePrefixes`); `LicenceIsSound` (`LockHasCause`, `OnlyRacesUndo`); `GovernanceIsSound` (`FlagFollowsHolds`, `PendingIsSingle`, `HeldIsDestroyedOnlyInARace`, `RecordIsNotJustDeleted`, `DecisionStands`); `VersionInv` (`HistoryIsDense`, `RowMatchesObject`, `RedactionFollowsSource`, `UploadsChangeContent`), `ImplementsHistory` (with `HistoryIsKept`); `EditsAreSound` (`HistoryLeadsToTheClass`, `EditsAreChecked`); `TreeInv` (`TreeIsATree`); `ShareInv` (`ViewsAreLimited`, `RevokedIsClosed`); `FoldersAreSound` (`DisposedOnce`, `DisposalIsChecked`) | two or three overlapping requests of every part, each bound just past the case it is there for: 3 sign-ins with a threshold of 2; a cache and a request of one tick in five; 4 checks against a limit of 2; two policy tables that tell priority, effect and conditions apart, and two edits (with one tick less to its bound `PolicyInv` fails); 3 officers in 9 operations on 2 holds; 3 writers and a cap of 3; 3 visitors, limits 0 to 2; 3 folders and a walk of 2 levels |
| `Services` | `SearchInv` (`CopiesAgree`); `PasskeyInv` (`KeptUnlessCrossed`, `CountersKeepUp`, `OneSessionPerAnswer`, `RefusedForACause`); `DesktopInv` (`LockHasACause`, `LockedOutForACause`); `WebhookInv` (`NoEventIsForgotten`, `AcceptedTwiceForAReason`, `SendingIsBounded`); `KeysAreSound` (`CopiesAreWhole`, `SuccessMeansWrapped`, `RefusedOnlyLocally`, `NoKeyIsSpoilt`, `KeysMoveByRotation`) | search: 2 tasks, 2 contents, one fault, one reindexing, with and without queue. Passkeys: 2 instances, 2 verifications, 2 challenges, one outage or restart. Desktop: 2 heartbeats, 2 licences, 3 days, one fault. Webhooks: 2 hooks, 2 events, 2 deliveries, each attempt stopped by the guard, refused or accepted. Keys: 2 documents, so one copy; 2 KEKs, 2 processes, 2 requests; an address is open only while no request is under way (`AddressesAlone`): what it answers depends only on how it was signed |

Symmetry is used in `Application` and `Services` only, which check no liveness: invocations (and
holds, instances) differ in nothing. In governance officers are numbered as they begin
(`InOrder`), in keys documents as they are stored (`InTurn`).

Seven runs end in a violation, each of one property taken from the repository's own words:

| Run | What the code does | What is said |
|---|---|---|
| `AuditLost` | the append that loses the race for its number is not retried: the change stays, unaudited | `docs/SECURITY.md:129` "Every sensitive action creates an `AuditEvent`" |
| `WorkflowRace` | two approvals that overlap each miss the other: all approved, workflow pending, nobody left to decide | `approve/route.ts:118` "all approvers must approve" |
| `VersionsShred` | an upload or redaction that reads the key after it was destroyed stores plain bytes | `docs/SECURITY.md:111` "content is permanently unrecoverable" |
| `GovernanceFlag` | extending a hold while another is released leaves the document held and unflagged | `records-management.ts:126` "legalHold flag on Document, blocks deletion and disposition" |
| `PaymentsFk` | the audit event of a confirmation breaks the foreign key; the status is confirmed, the subscription never activated, retries count as replays | `billing-policy.ts:99` "fully confirmed — subscription activated" |
| `PolicyOrder` | `policy-engine.ts:174` sorts "allow" before "deny" at one priority, and the first rule that applies decides | `policy-engine.ts:31` "deny wins over allow at the same priority" |
| `LicenceLocks` | a check moves `lastCheckedAt`, which the stored hash covers: the next check locks the licence | `access-gate.ts:18-21` locked when "expiresAt passes" and grace is over |

The `Payments` run sets `PseudoActorsHaveRows` to TRUE, the situation the code was written
for (a `User` row for its pseudo-actors, or a database without that key); otherwise no
transition gets past its audit event and most properties would hold for want of activity.
A refused audit event (`TransitionNotRecorded`) stays possible there: the append may lose a race.

### Further claims that the code contradicts

Stated in the modules, found violated with a configuration of the module's own `...Spec` that names
the property, and kept without a run:

| Property | What the code does | What is said |
|---|---|---|
| `SearchIndex.TextIsReadable` | `text-extraction.ts:137` extracts from the sealed bytes | `text-extraction.ts:115` "Extract text from a document version" |
| `SearchIndex.DeletedIsForgotten` | `removeDocumentEmbedding` is called nowhere | its comment, `semantic-search.ts:352-353`, "called when the document is deleted" |
| `Passkeys.RegisteredIsKept` | `login/verify/route.ts:101` writes the whole column back over a passkey registered since | `register/verify/route.ts:83` "Append to user's credentials" |
| `Passkeys.RecoveryIsComplete` | `challenge-store.ts:180` latches the first answer, so instances keep different stores after an outage | `docs/OPERATIONS-RUNBOOK.md:96` "re-check Redis availability every 30s" |
| `SignIn.CurrentCodeIsTaken` | `me/mfa/route.ts:59` takes the 0 of the current code for a refusal | `totp.ts:47-48` "0 = current period ... or null if the token is invalid" |
| `Membership.AcceptedInAWeek` (`Pauses = {2}`, `LastWeek = 2`) | `admin/invitations/route.ts:92` multiplies by `3600_1000`: seventy days | line 81 "each valid for 7 days", `messages/en.json:1152` |
| `DesktopLicence.LockIsImmediate` | `heartbeat.ts:145` writes a status that neither the open window nor the next start reads | `electron/README.md:90` "application locks immediately" |
| `DesktopLicence.UploadIsHeard` | `locked.html:68` requires Electron in a page that `main.ts:231-233` opens without Node | `verify.ts:99` "Upload a renewed license to restore access." |
| `WebhookDelivery.CallerIsUnharmed` | `notify.ts:458` updates the row outside the try: a webhook deleted meanwhile fails the caller | `notify.ts:301-302` "do not block the calling operation" |
| `WebhookDelivery.ReceiversCanVerify` | `notify.ts:366` signs with the hash of the secret the receiver got | `docs/API-AUTH.md:199` verifies with the secret |
| `BpmnProcess.TasksAreAsked` | `bpmn-engine.ts:156-157` ends the path at an element that `95` does not look for, such as `bpmn:task` | lines 12-13 "the parsed elements are mapped to a WorkflowDefinition (converting BPMN userTasks → approval steps)" |
| `CronRuns.DueIsRequested` (`Take` below the number of due documents, as in `Approvals`) | `cron/escalate/route.ts:188` takes 100, without order, and pending or archived documents stay due | line 10 "auto-create dispositions for due documents" |
| `CronRuns.GuardStands` (3 runs) | line 260 releases the guard of a younger run | line 28 "The lock auto-expires after 10 minutes" |
| `DocumentKeys.RotationRewraps` | `envelope-encryption.ts:61` opens with the KEK it wraps with: after a change of the KEK it throws at the first key | `key-rotation/route.ts:5-6` "Use after rotating the SMART_EDMS_KEK" |
| `DocumentKeys.DownloadIsContent` | `storage/resolve/route.ts:236` streams the object as stored, sealed | `download/route.ts:4-5` "downloading the latest version" |
| `DocumentKeys.BearerIsServed` | `file-storage.ts:129` signs one field more than `resolve/route.ts:176-178` checks: shares get 403 on local storage | `file-storage.ts:42-45` "omit it to get a bearer-token URL as before" |

`CronRuns.RunsEnd` and `WebhookDelivery.FiringsEnd` (every run of the cron, every fired event comes
to its end) were found to hold on such configurations.

### Properties that say less than one would like, and why

* `ApprovedIsUnanimous`, `PromotionIsSigned`, `RejectionIsFinal` and `DecisionIsKept` except rows that are
  `contested`: two open requests of one approver on PostgreSQL both pass the read, and the second, which updates
  the row by id, overwrites the first decision after it was counted. The run has the two sessions of alice.
* `RejectionIsFinal` is about mode `all`. In mode `any` an approval that had not seen the
  rejection turns the workflow to approved, because the count of rejections is one short.
* `NoEventIsForgotten` accepts `blocked`: an attempt of the process itself that the guards against plain HTTP, inner
  addresses or failing DNS stop is dropped without a retry (`notify.ts:384-399`, `421-428`), even if DNS failed for a moment.
* `PoliciesAreObeyed` lets either rule win a tie of priorities; that denial does not win it is the finding of run `PolicyOrder`.
* `KeysMoveByRotation` allows a rotation that opens a key and wraps it again with its own KEK. In the
  code no rotation gets so far: it opens with the KEK it wraps with (`RotationRewraps`, above).
* `FlagFollowsHolds` needs `FlagIsReliable`: PATCH is not a transaction. On PostgreSQL two
  releases that overlap both see the other hold and leave the flag, and a release that
  overlaps a new hold clears it.
* `PendingIsSingle`, `DecisionStands`, `RecordIsNotJustDeleted`, `HeldIsDestroyedOnlyInARace`,
  `EditsAreChecked`, `DisposalIsChecked` name the race in which they fail: checks are made before, and
  outside of, the writes.
* `ActivationLostOnlyByFailure`: a process that stops between the compare-and-swap and the
  activation loses the activation for good; a retry finds the event already processed.
* `ActivatedOnce` does not say the subscription is still right at the end: a refund that
  overtakes a slow activation leaves it active on a refunded invoice (`payment-service.ts:276`).
* `SignatureLostOnlyInARace`, `SignedByAllIsCompleted`: two signers who sign at the same time are both
  told `signed: true`, one of them is gone from the row, and the request does not complete.
* `CompletionIsBacked` accepts the provider's word: `recipient-signed` of one of two signers counts as
  completion. `ClosedStaysClosed`: voiding looks at no status, and a late event takes a completed
  request back to `delivered`.
* `PoliciesAreObeyed` and `RevocationIsSeenInTime` allow the life of a cache entry and the requests in
  flight; other instances see an edit or a revocation only then, where the code says "immediately"
  (`admin/policies/route.ts:55`, `session-revocation.ts:27`). A failed load lets everything pass
  (`policy-engine.ts:188-191`). A download is judged first without the document, so an allow rule with
  conditions on it never overrides a lower deny.
* `LimitHolds` is per place of counting: while Redis is away every instance counts for itself.
* `TreeIsATree` excuses overlapping moves, a deletion that hands children to a folder being moved, and
  trees deeper than the 32 levels the walk looks at; each makes a cycle, which `folders/[id]/route.ts:62-66` promises cannot be.
* `CopiesAgree` and `AcceptedTwiceForAReason` excuse jobs that crossed or failed: extraction overwrites
  newer text, failures of OpenSearch are swallowed, an accepted POST whose row cannot be updated is repeated.
* `KeptUnlessCrossed`: the column of passkeys is written back as a whole, by logins too.
* `RunsAreApart` speaks of one process, and of runs none of which outlived the guard.
* `LockedOutForACause` counts a change of hardware as a cause, and the grace period of the key (30 days
  where the registry has 0).

### Other disagreements met while modelling

* Audit: `lib/security/policy-alerts.ts:114` speaks of the last 1000 events, `verifyAuditChain` reads the
  oldest rows; metadata with a `Date` makes it fail on an untouched table (`VerdictIsExact` counts such rows).
* Workflows: `escalation.ts` marks rows that were decided after it read them; steps after the first are
  dropped. Signatures: `signature-service.ts:520` tells the initiator that all recipients completed after the
  first `recipient-signed`; `docs/E-SIGNATURE.md:35` speaks of replay protection, but nothing compares an event
  with those stored; a signer whose address occurs earlier in the list can never be marked.
* Versions and editing: restores and redactions ignore the cap of 50; taking a class away under hold needs no
  permission (`documents/[id]/route.ts:166-172`); a PATCH that names the class it read leaves no history;
  classification by folder and moves ignore locks; `lockedUntil` is never enforced. Holds and records:
  `DispositionRecord` refers to a document only (`schema.prisma:1012`), so disposing of a folder fails after
  it was done (`records-management.ts:334-347`); `eligibleForDispositionAt` is never looked at.
* Billing: `billing/refund/route.ts:13` says refunds never come from a webhook, the webhook applies `refunded`;
  a refund sets no end of grace, so the gate locks at once; a lapsed tenant cannot check out. The webhook of
  Stripe looks for a subscription by ids (`billing-policy.ts:346-349`) of which only `payment-service.ts:331`
  writes one, that of a crypto invoice; so a card payment activates nothing, against `stripe-checkout/route.ts:6-7`.
* Sign-in and members: an administrator's reset ends the sessions before the password changes; setting a
  user to invited or locked ends no session; an invitation that expired stays `pending` and blocks the next;
  SSO ignores the tenant's status; `gcRevokedSessions` is never called. Break-glass is never approved and dual
  control never executed by the code.
* Queue and webhooks: `completeJobRecord` and `failJobRecord` are never called, webhook jobs have no row;
  bullmq 6 refuses job ids with a colon, so `enqueue` falls back to the process (both ways are modelled);
  `docs/OPERATIONS-RUNBOOK.md:261` disables a webhook to stop it, queued jobs go on.
* Search: redaction tells no index; changes of title, metadata and class never reach OpenSearch; without Redis
  it gets text only by reindexing; `reindexTenant` counts failures as indexed.
* Desktop: expiry is checked before the fingerprint; checks of integrity and clock that `verify.ts:12-13`
  promises do not exist; a renewal does not make the status active again; an unknown key (404) never locks;
  a renewal overwrites `revoked` with `replaced`. Keys: the runbook names a script and a variable that do not exist;
  secrets of MFA and SSO are never wrapped again.

## Fairness

Safety assumes none. Liveness is checked under:

* `AuditChain`, `Payments`: weak fairness of the steps that continue an invocation. Node's event loop
  runs every pending continuation and every database call returns or fails; beginning an
  invocation, and crashes, are not fair. `Payments` also has the reconciliation (the scheduler calls
  it hourly) and time passing (`RunOutOfTime`); the provider and its webhooks are not fair:
  `InvoiceSettles` holds even if nothing is ever delivered.
* `WorkflowApprovals`: strong fairness of a transaction's steps. A waiter for a row lock is
  enabled only while the row is free; PostgreSQL queues waiters, so whoever waits gets
  the row. Deadlocks are broken by the database (`AbortDeadlocked`), which is the only
  thing that keeps `TransactionsEnd` in mode `any`. `SomebodyGoesOn` is the safety half of it: of the
  transactions open on a workflow one can always go on.
* `Signatures`, `SubscriptionGate`: weak fairness of the hourly expiry, and of the steps of the cron's lifecycle task.
* `JobQueue`: weak fairness of each worker's step: the worker's loop takes what waits; stalls and retries are bounded by BullMQ's settings.
* `CronRuns`: weak fairness of the steps of a run and of the scheduler, which calls the route hourly (`cron/escalate/route.ts:12`).
* `DesktopLicence`: weak fairness of the heartbeat, a timer of 24 hours (`electron/src/main.ts:283-314`). `Quit` ends what
  `RevocationArrives` is about, and lost answers are bounded (`AnswersArrive`).

A step that is fair must be possible when it is due, or its fairness says nothing: `AppendsCanGoOn`, `RunsCanGoOn`,
`CallsCanGoOn`, `CanExpire` and `BeatsCanGoOn` say so, and the runs check them in every state.

## What is proved

All for any values of the constants, from the assumptions named in the modules and nothing else. Each proof has an inductive invariant, a lemma per
action that it is preserved, and the theorem; the invariants were checked by TLC on the bounds of
the runs before they were proved. Where a theorem is about a property `...IsSound`, it covers the
invariant and what a step may do. A theorem module extends components that one instance composes.

| Module | Theorems | The inductive invariant, and why it is needed |
|---|---|---|
| `PlatformProofs` | `ChainInvariant`, `ChainIsLinked`, `ChainDoesNotFork` | An insert hangs the new row from a hash read earlier. `ReadIsStored`: what an open transaction read is nothing or a row still in the table; `SequenceUnique` is what the unique index enforces, `HashNumbersRow` ties a digest to its number |
| | `SuccessesAreAudited` | `Owes`: what each program counter of an invocation owes to the table. Rows never go away |
| | `TableImplementsLog` | The refinement of `AuditLog`. `ChainInv` makes the numbers of a tenant 1 to n; a row inserted with number n + 1 appends to the sequence, and no other step changes a sequence |
| | `SubscriptionIsFair` | `RowIsEarned`: the days that must be over at each status of a tenant in order; what the cron holds in its hands was so when it read, or the actor was overtaken |
| | `VerdictsAreExact` | No number is missing but those of deleted rows, and each of those has a row above it (`GapsAreDamage`); a digest is of the row as it went in (`HashedAsInserted`); rows hang from what was before them; a transaction that may still insert read the last row (`WriterIsCurrent`). The row in place i is the one with i rows up to it, so up to the first hit every place holds the row of its number; instead of an induction over the walk, the least hit (`LeastNatural`) |
| | `RequestsEnd` | `StepsLeft` of an invocation, from 6 to 0: no other invocation adds to them, and each step of its own takes at least one away. Without `SerialTransactions` |
| | `LapsesAreNoticed` | `Ahead`, from 5 to 0: how far a run of the cron is from the pass that takes the row out of force. A row stays lapsed until it is taken out of force or renewed, and a run that is about to move it does so whatever it had read (`MoveNotices`); a run that began too early to find the row is followed by one that does |
| | `RowsTellOutcomes` | `JobIsSound`: what the worker, the queue and the row know of one job at each point of its life; attempts are bounded by those made plus the stalls |
| `ApprovalsProofs` | `SignatureInvariant`, `SignaturesAreKept`, `CompletionBacked`, `ClosedIsKept`, `StepsHold` | `ReadIsCurrent` relates what an invocation read to the row (equal unless overtaken, and in any case as sound as the row was); `CreatedFirst`: nothing happens before the row exists |
| | `RequestsExpire` | While nobody writes, only the hourly task changes a row that is there (`QuietStep`), so it closes the row once, for good |
| | `ApprovalsAreUnanimous`, `DecisionsStand` | Counts are taken before they are used; a count is right about every row but those that change later, and each of those brings a count of its own. Rows that two requests of one approver wrote are `contested` and excepted |
| | `NothingIsContested` | Under `OneAtATime` (SQLite, or one session per user) there are no such rows: a request that is about to write holds what it read |
| | `NoWorkflowLocksUp` | Only what a transaction's counter may be (`PcsAreKnown`). Whoever holds a row waits only at its `updateMany`, for other pending rows of the same workflow. If all waited, follow the waiting for two steps: the second's row is pending, so the third, who waits as well, would close it too; the two wait for each other, which is what the database notices and breaks (`LocksComeFree`) |
| | `GuardKeepsApart` | The guard of a process is that of the run under way there (`GuardIsMine`), undisturbed there is one run in all, and what it found is current |
| | `ProcessesHold` | What the parser's walk returns, for any diagram: each step leaves fewer flows to unvisited elements (`Ahead`), so the recursive definition has a value (`WalkUnfolds`), and the place with the fewest flows ahead from which it would go wrong does not exist (`WalkIsFound`); it ends where the code ends it, at an element the parser does not know too (`WalkStops`). Then `StandsWell`: where an instance stands, what is before it on the path was approved |
| `PaymentsProofs` | `PaymentsHold` | `CallIsSound`: the swap is one statement, so of those that try one wins, and only the winner goes on to audit and apply; what was activated, and by whom, is told by the winner's program counter |
| | `InvoicesLiveOnce` | The refinement of `InvoiceLife`. Two facts `PaymentIInv` does not give: the provider hears of an invoice only from a call that saw its row (`AskedFor`), so money is received for an invoice that was issued; and who won a refund is right about it until the downgrade (`RefundsStand`), so the plan is withdrawn only after a refund |
| | `InvoicesSettle` | `Remaining` of the scheduler's call, from 7 to 0, which no other call lengthens: so a reconciliation that begins comes to its end, and one that begins with an overdue invoice takes it out of the stage it is in. An invoice has two such stages, before it is linked to a payment and after |
| `DocumentsProofs` | `HistoryIsSound`, `HistoryStays` | What a write carries: its source is a row of the history, its number one more than one that is there. Versions never go away, so a number that is free when inserted is the next |
| | `HistoryIsImplemented` | The refinement of `VersionHistory`. The row a commit inserts is the next, so what its writer compared it with or took it from, however long ago, is the end of the history or in it (`WritesFit`); the key, once gone, stays gone; a row that goes in appends what storage holds for it (`CommitAppends`), and no other step changes what readers have |
| | `HistoryLeads`, `EditsChecked`, `EditsHold` | What an editor read of class, lock and hold is what the row has, unless the editor was passed |
| | `GovernanceHolds` | What an officer checked still holds, or the officer was overtaken; on SQLite nobody writes inside another's release |
| | `FoldersFormATree` | `Passed`: the folders a walk has behind it lead up to where it is, and none is the folder that moves; so a write that nothing overtook hangs a folder from one that is not below it, at any depth |
| `RecordsProofs` | `ViewsAreCounted` | Cardinality of the visitors past the count (any finite number of visitors) |
| | `FoldersAreDisposedOnce`, `DisposalsAreChecked`, `FoldersHold` | Status and hold are as the clerk saw them unless the clerk was passed; disposed stays disposed |
| `AccessProofs` | `RevocationsAreSeen` | `AnswersInv` dates every answer: a fill in flight is younger than the latency of the database, a cached one than its life, and "valid" was true when it was read |
| | `LicenceHolds` | The clock's peak bounds every mark, and a check in flight holds a row that was there |
| | `LimitsHold` | What was let through lately is marked where it was counted (`RecentAreCounted`), under a number of its own; so there are no more of them than marks, by an injection |
| | `MembersAreAsDecided` | Who inserts the user's rows accepted the invitation, and nobody else is past that point; the roles a stale writer may still insert are known |
| | `RulesAreObeyed` | The first rule that applies denies exactly if no allowance stands over one denial (`DenialsDecide`: among the rules that apply one has the highest priority; on a tie, `Tied`, the code lets the allowance pass). And rules are old only for so long, whatever is edited meanwhile: what a request read was in force since it came, what the cache holds since a request before it was filled (`RulesAreRecent`), so each judgement went by rules in force no longer before the request than an entry lives and a request takes (`AnswersFitTheRules`); an edit only adds to the rules that were in force since some tick, and a longer look back sees no fewer (`EarlierSeesMore`) |
| | `WindowsAreExact`, `AddressesAreExact`, `MatchersHold` | A window of hours, for a day of any length: remainders next to the modulus (`RemainderNear`). Addresses of any width: the provers know nothing of `2 ^ n`, so a power of two is the number of subsets of a set (`PowersCount`), which gives how powers multiply; two words have the same quotient if they have the same bits above a place, by the highest place they differ at, and conversely by the bits of a quotient (`SameBitsSameQuotient`, `SameQuotientSameBits`) |
| `SignInProofs` | `SignInIsSafe` | Counters are bounded by the calls that may still count, `Cardinality(Fresh)`, each of which adds at most one (any finite set of calls) |
| `ServicesProofs` | `KeysStaySound` | A key belongs to a stored document, whoever holds a key read it there, and what a rotation has passed is wrapped with its KEK. What was opened was opened with the KEK it was wrapped with, so no row is spoilt |
| | `LocksHaveCauses` | What the desktop keeps was issued once, and an answer under way was true when it was given |
| | `RevocationsArrive` | `BeatsAway` of one heartbeat, from 4 to 0: one that is under way for another key, or was answered before the revocation, is followed by one that asks for this key, and is told (`FreshBeats`: nothing is left of an earlier answer) |
| | `EventsAreDelivered` | `PairSound`, about one delivery: how often the event was sent is bounded by the attempts its job has used, the tries of the promise, and the faults; one job at most, and none without an addition. How often the receiver accepted is bounded by the same (`AcceptedOnce`), and a delivery that is over was accepted, or its attempts are used up, or the guards stopped it, or a reason is on record (`Ending`) |
| | `CopiesComeToAgree` | For each copy, who will still bring it up to date: as long as a copy is not of what it should be of and nothing excuses that, a job waits, a task is under way, or a promise is owed (`TextComes`, `EmbeddingComes`, `FoundComes`, `StatusComes`); when all is quiet nobody is left, so the copies agree |
| | `PasskeysAreSafe` | `WaitingIsStored`: a challenge that is neither late, superseded nor used is in Redis under its key, unless the stores are apart; `UsedIsForgotten`: one that opened a session is gone, or the call that used it is about to delete it; the counter that a login checks is the one in the column, unless a write crossed |

**Two sessions of one approver.** `ApprovalsAreUnanimous` and `DecisionsStand` hold for any sessions, two tabs of one
approver included. What they except are the rows that are `contested`, and `NothingIsContested` says where there are none:
on SQLite, and where no user has two sessions. The run has two sessions of alice and one of bob.

**Assumptions on constants**, each what the code has: `LockAfter < LastDay` (the bound on days lets the last
stage be reached), `None` is neither a job nor a worker, `"redis"` is not the name of an instance, an element of a
diagram has one type and flows are between elements, limits of a verification are numbers, the rules of a
table allow or deny with a priority from 0 to 1000 (`admin/policies/route.ts:28,32`), the clock of a licence
starts at 1, calls of `SignIn` are finitely many and its threshold is not 0, `Tries <= HookAttempts`
(`redis-queue.ts:138` and `notify.ts:370` both say 4; with more tries than attempts `SendingIsBounded` would be
too strict for a firing that stops), and the keys of processes are among the KEKs there are.

**Liveness.** The provers know nothing of ENABLED, so five theorems have it as their hypothesis that what is fair can
be done when it is due: `RequestsEnd` (`AppendsCanGoOn`), `LapsesAreNoticed` (`RunsCanGoOn`), `InvoicesSettle`
(`CallsCanGoOn`), `RequestsExpire` (`CanExpire`) and `RevocationsArrive` (`BeatsCanGoOn`). The property each of them
is about has that hypothesis as its first conjunct, so TLC checks it, while what is proved is the rest, for any
number of requests, calls, keys and runs. Each says how far the fair step is from its aim, by a rank with
constantly many values, shows that no step of another makes it farther, and chains the ranks. Two need something
more, which the bounds of the model grant and TLC checks as well: `RequestsExpire` that invocations write a last
time (`WritesEnd`), `RevocationsArrive` that from some time on answers arrive (`AnswersArrive`). `LapsesAreNoticed`
and `RevocationsArrive` assume that there is a scheduler, and a heartbeat. `RequestsEnd` is for READ COMMITTED; on SQLite, where a
transaction waits for another, `EveryRequestEnds` is neither proved nor checked (the run has `SerialTransactions = FALSE`).

**What stays with TLC, and why.** Those conjuncts about ENABLED, and three properties whose steps are counted by a number or a set
that is a parameter, which takes an induction over temporal formulas: `JobsEnd` (attempts and
stalls), `ListedIsRequested` (documents) and `TransactionsEnd` (rows that others lock in turn; `NoWorkflowLocksUp` is the
part of it that is proved).
Every other property of a passing run is proved. The installed provers cannot instantiate the library's
induction theorems, whose parameters are operators; where a proof goes over data (the walk of `verifyAuditChain`, the parser's
walk over a diagram, the places of an address) it takes the least number of a set instead, which `WFMin` of
`WellFoundedInduction` gives (`LeastNatural`), or the size of a set.

## Not modelled

Bytes, hashes and encryption beyond what properties tell apart; formatting, mail, translations and reports; pages and
components, which are more than a third of the source; the static table of permissions; card payments by Stripe; anomaly detection, which only reads;
virus scanning and file validation; seats and storage quotas, which nothing enforces; break-glass and dual control, which
have no executing step; API keys, back-up codes and devices; vital records, retention schedules, comments, tags and
favourites, which are single writes; multipart uploads; collaboration beyond its effect on text; the updater of the desktop.
Several documents or tenants are modelled only where they interact. What passes through the 100-entry cut of
`processedWebhooks` and the 100-row cap of a reconciliation is not distinguished.

## Plan

What would come next:

1. Abstract specifications: a lock over the rows of a rate limit that `RateLimiter` implements; the vault of
   keys that `DocumentKeys` implements.
2. Compositions over shared rows: `Payments` with `SubscriptionGate`, `DocumentGovernance` with `CronRuns`, `SignIn` with `SessionRevocation`.
3. API keys with their cache, back-up codes, and the collaboration server's document.
