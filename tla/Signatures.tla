----------------------------- MODULE Signatures -----------------------------
(***************************************************************************)
(* One electronic signature request: its creation and its voiding          *)
(* (src/lib/signatures/signature-service.ts), signing inside the           *)
(* application (src/app/api/signatures/[id]/sign and public-sign/[id],     *)
(* which do the same), the webhooks of an outside provider, and its expiry *)
(* by the hourly task (src/app/api/cron/escalate).                         *)
(*                                                                         *)
(* No handler uses a transaction.  Signing reads the row, and writes back  *)
(* the whole recipients column and the whole audit trail, both derived     *)
(* from what it read, by id; a webhook does so with the status and the     *)
(* trail.  The envelope exists at the provider before the row exists here. *)
(* An invocation whose process stops simply takes no further step.         *)
(***************************************************************************)
EXTENDS Naturals, Sequences

CONSTANTS
    Requests,        \* invocations of the handlers
    Emails,          \* who may call the signing endpoints
    RecipientLists,  \* the recipients a request may be created with
    Providers        \* the providers that may be configured

ASSUME ProvidersAssumption ==
    Providers \subseteq {"internal", "docusign", "adobe_sign"}
ASSUME ListsAssumption ==
    \A l \in RecipientLists :
        l \in Seq([email : Emails, role : {"signer", "cc"}])

Open   == {"sent", "delivered"}
Closed == {"completed", "voided", "expired"}

Statuses == {"none", "declined"} \cup Open \cup Closed

Operations == {"sign", "void", "webhook"}
Pcs == {"idle", "fetched", "done"}

(* Operators named ...Bug are the definition after them with a mistake an  *)
(* edit of the code could make; no behaviour of the module uses them.      *)
StatusMapBug == [sent |-> "sent", delivered |-> "delivered",
                 completed |-> "completed", declined |-> "declined",
                 voided |-> "voided", recipientSigned |-> "signed"]

(* What processSignatureWebhook makes of an event; others it only files. *)
StatusMap == [sent |-> "sent", delivered |-> "delivered",
              completed |-> "completed", declined |-> "declined",
              voided |-> "voided", recipientSigned |-> "completed"]

Events == DOMAIN StatusMap \cup {"recipientDelivered"}

VARIABLES
    recipients,  \* who was asked: emails and roles, which never change
    request,     \* the row of SignatureRequest: status, whose entry in the
                 \* recipients column is signed, and the audit trail
    envelope,    \* events with a row in SignatureEnvelope
    overdue,     \* expiresAt has passed
    provider,    \* external: the envelope at the provider
    req,         \* the invocations: program counter and locals
    attested,    \* history: recipients whose signing was written
    raced        \* history: a write used a row that had changed since

vars == <<recipients, request, envelope, overdue, provider, req, attested, raced>>

NoRequest == [status |-> "none", signed |-> {}, trail |-> {}]

NothingDone == [pc |-> "idle", op |-> "sign", index |-> 0, event |-> "sent",
                read |-> NoRequest, overtaken |-> FALSE]

(* What follows the write, an audit event and a notification, changes      *)
(* nothing here, whether it succeeds or not.                               *)
Finished == [NothingDone EXCEPT !.pc = "done"]

Init ==
    /\ recipients = <<>>
    /\ request = NoRequest
    /\ envelope = {}
    /\ overdue = FALSE
    /\ provider = [kind |-> "none", sent |-> {}, signed |-> {}]
    /\ req = [r \in Requests |-> NothingDone]
    /\ attested = {}
    /\ raced = FALSE

Signers == {i \in DOMAIN recipients : recipients[i].role = "signer"}

(* recipients.find by email: the first entry with that address. *)
Found(email) ==
    {i \in DOMAIN recipients :
        /\ recipients[i].email = email
        /\ \A j \in DOMAIN recipients : recipients[j].email = email => i <= j}

(* Others that have read the row and not yet written it are overtaken. *)
Overtaken(o) ==
    IF req[o].pc = "fetched" THEN [req[o] EXCEPT !.overtaken = TRUE] ELSE req[o]

(* r writes the row, which other invocations may have read before. *)
WriteRow(r, row) ==
    /\ request' = row
    /\ req' = [o \in Requests |->
                  IF o = r THEN Finished ELSE Overtaken(o)]

(* r reads the row, on behalf of the recipient with index i or to apply e. *)
Fetch(r, op, i, e) ==
    /\ req[r].pc = "idle"
    /\ req' = [req EXCEPT ![r] = [pc |-> "fetched", op |-> op, index |-> i,
                  event |-> e, read |-> request, overtaken |-> FALSE]]

-----------------------------------------------------------------------------
(***************************************************************************)
(* Creation.  The provider is called first; the process may stop before    *)
(* the row is inserted.                                                    *)
(***************************************************************************)
CreateEnvelope ==
    /\ provider.kind = "none"
    /\ recipients' \in RecipientLists
    /\ \E k \in Providers :
          provider' = [kind |-> k, signed |-> {},
                       sent |-> IF k = "internal" THEN {} ELSE {"sent"}]
    /\ UNCHANGED <<request, envelope, overdue, req, attested, raced>>

InsertRequest ==
    /\ provider.kind # "none"
    /\ request.status = "none"
    /\ request' = [request EXCEPT !.status = "sent"]
    /\ UNCHANGED <<recipients, envelope, overdue, provider, req, attested, raced>>

(***************************************************************************)
(* The outside provider: its envelope is opened, signed by each signer,    *)
(* declined or voided, and every event it sent may be delivered at any     *)
(* later time, any number of times.                                        *)
(***************************************************************************)
AtProvider ==
    /\ provider.kind \in {"docusign", "adobe_sign"}
    /\ provider.sent \cap {"completed", "declined", "voided"} = {}

ProviderDelivers ==
    /\ AtProvider
    /\ provider' = [provider EXCEPT !.sent = @ \cup {"delivered", "recipientDelivered"}]
    /\ UNCHANGED <<recipients, request, envelope, overdue, req, attested, raced>>

ProviderSigns(i) ==
    /\ AtProvider
    /\ i \notin provider.signed
    /\ provider' = [provider EXCEPT
          !.signed = @ \cup {i},
          !.sent   = @ \cup {"recipientSigned"}
                       \cup IF Signers \subseteq provider.signed \cup {i}
                            THEN {"completed"} ELSE {}]
    /\ UNCHANGED <<recipients, request, envelope, overdue, req, attested, raced>>

ProviderDeclines ==
    /\ AtProvider
    /\ provider' = [provider EXCEPT !.sent = @ \cup {"declined"}]
    /\ UNCHANGED <<recipients, request, envelope, overdue, req, attested, raced>>

(***************************************************************************)
(* Signing.                                                                *)
(***************************************************************************)
Refused(status) == status \in Closed

FetchToSign(r, email) ==
    /\ request.status # "none"
    /\ ~Refused(request.status)
    /\ \E i \in Found(email) : Fetch(r, "sign", i, "sent")
    /\ UNCHANGED <<recipients, request, envelope, overdue, provider, attested, raced>>

AnySignedBug(signed) == Signers \cap signed # {}

AllSigned(signed) == Signers \subseteq signed

Entry(r) == [event |-> "signed", index |-> req[r].index]

NewTrail(r, entry) == req[r].read.trail \cup {entry}

SignedAfter(r) == req[r].read.signed \cup {req[r].index}

WriteSignature(r) ==
    LET signed == SignedAfter(r)
    IN  /\ req[r].pc = "fetched"
        /\ req[r].op = "sign"
        /\ WriteRow(r, [signed |-> signed,
                        trail  |-> NewTrail(r, Entry(r)),
                        status |-> CASE AllSigned(signed) -> "completed"
                                     [] ~AllSigned(signed) /\ req[r].read.status = "sent"
                                            -> "delivered"
                                     [] OTHER -> request.status])
        /\ attested' = attested \cup {req[r].index}
        /\ raced' = (raced \/ req[r].overtaken)
        /\ UNCHANGED <<recipients, envelope, overdue, provider>>

(***************************************************************************)
(* Voiding.  A DocuSign envelope is voided there first; if that fails, the *)
(* row is voided all the same.                                             *)
(***************************************************************************)
FetchToVoid(r) ==
    /\ request.status # "none"
    /\ Fetch(r, "void", 0, "sent")
    /\ \/ UNCHANGED provider
       \/ /\ AtProvider
          /\ provider.kind = "docusign"
          /\ provider' = [provider EXCEPT !.sent = @ \cup {"voided"}]
    /\ UNCHANGED <<recipients, request, envelope, overdue, attested, raced>>

WriteVoid(r) ==
    /\ req[r].pc = "fetched"
    /\ req[r].op = "void"
    /\ WriteRow(r, [request EXCEPT !.status = "voided"])
    /\ UNCHANGED <<recipients, envelope, overdue, provider, attested, raced>>

(***************************************************************************)
(* Webhooks.  An event for a row that is not there yet is dropped and      *)
(* acknowledged.  The event is filed in SignatureEnvelope, never compared  *)
(* with what is filed there already, and applied if its type is known.     *)
(***************************************************************************)
DropEvent(r) ==
    /\ req[r].pc = "idle"
    /\ request.status = "none"
    /\ provider.sent # {}
    /\ req' = [req EXCEPT ![r] = Finished]
    /\ UNCHANGED <<recipients, request, envelope, overdue, provider, attested, raced>>

FetchForEvent(r) ==
    /\ request.status # "none"
    /\ \E e \in provider.sent :
          /\ Fetch(r, "webhook", 0, e)
          /\ envelope' = envelope \cup {e}
    /\ UNCHANGED <<recipients, request, overdue, provider, attested, raced>>

IgnoreEvent(r) ==
    /\ req[r].pc = "fetched"
    /\ req[r].op = "webhook"
    /\ req[r].event \notin DOMAIN StatusMap
    /\ req' = [req EXCEPT ![r] = Finished]
    /\ UNCHANGED <<recipients, request, envelope, overdue, provider, attested, raced>>

ApplyEvent(r) ==
    /\ req[r].pc = "fetched"
    /\ req[r].op = "webhook"
    /\ req[r].event \in DOMAIN StatusMap
    /\ WriteRow(r, [request EXCEPT
                      !.status = StatusMap[req[r].event],
                      !.trail  = NewTrail(r, [event |-> req[r].event, index |-> 0])])
    /\ raced' = (raced \/ req[r].overtaken)
    /\ UNCHANGED <<recipients, envelope, overdue, provider, attested>>

(***************************************************************************)
(* Time.                                                                   *)
(***************************************************************************)
TimePasses ==
    /\ request.status # "none"
    /\ overdue' = TRUE
    /\ UNCHANGED <<recipients, request, envelope, provider, req, attested, raced>>

ExpirableBug(status) == status = "sent"

Expirable(status) == status \in Open

(* The hourly task: one conditional UPDATE. *)
Expire ==
    /\ overdue
    /\ Expirable(request.status)
    /\ request' = [request EXCEPT !.status = "expired"]
    /\ req' = [o \in Requests |-> Overtaken(o)]
    /\ UNCHANGED <<recipients, envelope, overdue, provider, attested, raced>>

-----------------------------------------------------------------------------
Write(r) == WriteSignature(r) \/ WriteVoid(r) \/ ApplyEvent(r)

Handle(r) ==
    \/ \E email \in Emails : FetchToSign(r, email)
    \/ FetchToVoid(r) \/ DropEvent(r) \/ FetchForEvent(r)
    \/ Write(r) \/ IgnoreEvent(r)

Next ==
    \/ CreateEnvelope \/ InsertRequest
    \/ ProviderDelivers \/ ProviderDeclines
    \/ \E i \in Signers : ProviderSigns(i)
    \/ \E r \in Requests : Handle(r)
    \/ TimePasses \/ Expire

(* The scheduler calls the hourly task; nothing else has to happen. *)
Spec == Init /\ [][Next]_vars /\ WF_vars(Expire)

-----------------------------------------------------------------------------
(***************************************************************************)
(* Properties.                                                             *)
(***************************************************************************)
Rows == [status : Statuses, signed : SUBSET DOMAIN recipients,
         trail : SUBSET [event : Events \cup {"signed"},
                         index : {0} \cup DOMAIN recipients]]

(* The types of the row, of the provider's envelope and of the invocations. *)
TypeOK ==
    /\ recipients \in RecipientLists \cup {<<>>}
    /\ request \in Rows
    /\ envelope \subseteq Events
    /\ overdue \in BOOLEAN /\ raced \in BOOLEAN
    /\ provider \in [kind : Providers \cup {"none"}, sent : SUBSET Events,
                     signed : SUBSET Signers]
    /\ req \in [Requests -> [pc : Pcs, op : Operations,
                             index : {0} \cup DOMAIN recipients, event : Events,
                             read : Rows, overtaken : BOOLEAN]]
    /\ attested \subseteq DOMAIN recipients

(* A request becomes completed only by the signature of its last signer,   *)
(* as the row then shows, or on the word of the provider, which is on file *)
(* by then (sign/route.ts, processSignatureWebhook).                       *)
CompletionIsBacked ==
    [][(request.status # "completed" /\ request'.status = "completed") =>
          \/ Signers \subseteq request'.signed \cap attested'
          \/ {"completed", "recipientSigned"} \cap envelope # {}]_vars

(* Nobody is marked as signed who did not sign, and a signature that was   *)
(* written is lost from the row only if a write was based on a row that    *)
(* had changed since it was read (the recipients column is written back    *)
(* as a whole).                                                            *)
SignatureLostOnlyInARace ==
    /\ request.signed \subseteq attested
    /\ ~raced => request.signed = attested

(* Once every signer has signed inside the application, and no write was   *)
(* overtaken, the request is completed, unless somebody voided it since.   *)
(* Signers who share an address with an earlier entry never can.           *)
SignedByAllIsCompleted ==
    (provider.kind = "internal" /\ ~raced /\ attested # {} /\ Signers \subseteq attested)
        => request.status \in {"completed", "voided"}

(* Every recipient a row shows as signed has an entry in its trail. *)
Proven(row) == \A i \in row.signed : \E t \in row.trail : t.event = "signed" /\ t.index = i

(* Whoever the row shows as signed has an attestation in its audit trail,  *)
(* whatever the writes have overtaken: both columns come from one read. A  *)
(* webhook writes the trail alone, so without a provider, or without races.*)
TrailProvesSignatures ==
    (provider.kind = "internal" \/ ~raced) => Proven(request)

(* A request that is completed, voided or expired changes its status only  *)
(* by being voided, on the word of the provider, or by a signature that    *)
(* began before the row last changed.                                      *)
ClosedStaysClosed ==
    [][(request.status \in Closed /\ request'.status # request.status) =>
          \E r \in Requests :
              /\ Write(r)
              /\ req[r].op \in {"void", "webhook"} \/ req[r].overtaken]_vars

(* Nothing holds up the hourly task, ... *)
CanExpire == overdue /\ Expirable(request.status) => ENABLED <<Expire>>_vars

(* ... and the invocations write the row a last time.                      *)
WritesEnd == <>[][\A r \in Requests : ~Write(r)]_vars

(* A request past its date does not stay open: signatures that began in    *)
(* time may reopen it, and the next pass closes it again.                  *)
StaysClosed == <>[](overdue => request.status \notin Open)

ExpiryHappens == []CanExpire /\ WritesEnd /\ StaysClosed

-----------------------------------------------------------------------------
(***************************************************************************)
(* The inductive invariant.                                                *)
(***************************************************************************)

(* Nothing happens to a request before it is there. *)
CreatedFirst ==
    /\ provider.kind = "none" => recipients = <<>> /\ request.status = "none"
    /\ provider.kind \in {"none", "internal"} => provider.sent = {} /\ provider.signed = {}
    /\ request.status = "none" =>
          /\ request.signed = {} /\ attested = {}
          /\ \A r \in Requests : req[r].pc # "fetched"

(* What an invocation read is the row, unless it was overtaken; and it was *)
(* once the row, so it is as good as the row was.                          *)
ReadIsCurrent ==
    \A r \in Requests : req[r].pc = "fetched" =>
        /\ ~req[r].overtaken => req[r].read = request
        /\ req[r].read.signed \subseteq attested
        /\ (provider.kind = "internal" \/ ~raced) => Proven(req[r].read)
        /\ req[r].op = "sign" => /\ req[r].read.status \notin Closed
                                 /\ req[r].index \in DOMAIN recipients
        /\ req[r].op = "webhook" => /\ provider.kind # "internal"
                                    /\ req[r].event \in envelope

SignatureInv ==
    /\ TypeOK /\ CreatedFirst /\ ReadIsCurrent
    /\ SignatureLostOnlyInARace /\ SignedByAllIsCompleted /\ TrailProvesSignatures


(* What a step may do to a request: completion has its backing, and what   *)
(* is closed stays so.                                                     *)
SignatureSteps == CompletionIsBacked /\ ClosedStaysClosed
=============================================================================
