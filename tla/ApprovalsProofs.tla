-------------------------- MODULE ApprovalsProofs ---------------------------
(*************************************************************************)
(* Approvals: envelopes and providers, workflows, the runs of cron, and  *)
(* processes drawn in BPMN.                                              *)
(*************************************************************************)
EXTENDS Signatures, WorkflowApprovals, CronRuns, BpmnProcess, FiniteSetTheorems,
        SequenceTheorems, WellFoundedInduction, TLAPS

-----------------------------------------------------------------------------
(*************************************************************************)
(* The safety properties of Signatures, for any invocations, addresses,  *)
(* lists of recipients and providers.                                    *)
(*************************************************************************)

(* What is known of a status an event is mapped to. *)
LEMMA MappedStatus ==
    ASSUME NEW e \in DOMAIN StatusMap
    PROVE  /\ StatusMap[e] \in Statuses \ {"none"}
           /\ StatusMap[e] = "completed" => e \in {"completed", "recipientSigned"}
           /\ e \in Events
  BY DEF StatusMap, Statuses, Open, Closed, Events

LEMMA FinishedTyped ==
    /\ Finished = [NothingDone EXCEPT !.pc = "done"]
    /\ Finished.pc = "done"
    /\ Finished \in [pc : Pcs, op : Operations, index : {0} \cup DOMAIN recipients,
                     event : Events, read : Rows, overtaken : BOOLEAN]
  BY DEF Finished, NothingDone, NoRequest, Pcs, Operations, Events, StatusMap,
         Rows, Statuses

LEMMA InitEstablishes == Init => SignatureInv
  <1> SUFFICES ASSUME Init PROVE SignatureInv
    OBVIOUS
  <1>1. NoRequest \in Rows
    BY DEF NoRequest, Rows, Statuses
  <1>2. NothingDone \in [pc : Pcs, op : Operations, index : {0} \cup DOMAIN recipients,
                         event : Events, read : Rows, overtaken : BOOLEAN]
    BY <1>1 DEF NothingDone, Pcs, Operations, Events, StatusMap
  <1>3. NothingDone.pc = "idle"
    BY DEF NothingDone
  <1>4. TypeOK
    BY <1>1, <1>2 DEF Init, TypeOK
  <1>5. CreatedFirst /\ ReadIsCurrent
    BY <1>3 DEF Init, CreatedFirst, ReadIsCurrent, NoRequest
  <1>6. SignatureLostOnlyInARace /\ SignedByAllIsCompleted /\ TrailProvesSignatures
    BY DEF Init, SignatureLostOnlyInARace, SignedByAllIsCompleted,
           TrailProvesSignatures, Proven, NoRequest
  <1> QED
    BY <1>4, <1>5, <1>6 DEF SignatureInv

(* What every change of the row has in common: whoever else had read it is *)
(* overtaken, and keeps what was known of what it read.                    *)
LEMMA RowChanged ==
    ASSUME SignatureInv, request.status # "none",
           NEW row \in Rows, row.status # "none", request' = row,
           req' \in [Requests -> {Finished} \cup {Overtaken(o) : o \in Requests}],
           \A o \in Requests : req'[o] = Finished \/ req'[o] = Overtaken(o),
           UNCHANGED <<recipients, envelope, overdue, provider>>,
           attested \subseteq attested', attested' \subseteq DOMAIN recipients,
           raced' \in BOOLEAN, raced => raced'
    PROVE  TypeOK' /\ CreatedFirst' /\ ReadIsCurrent'
  <1> USE DEF SignatureInv
  <1>1. Rows' = Rows /\ Signers' = Signers
    BY DEF Rows, Signers
  <1>2. \A o \in Requests :
           req'[o] \in [pc : Pcs, op : Operations, index : {0} \cup DOMAIN recipients,
                        event : Events, read : Rows, overtaken : BOOLEAN]
    <2> SUFFICES ASSUME NEW o \in Requests
                 PROVE  req'[o] \in [pc : Pcs, op : Operations,
                             index : {0} \cup DOMAIN recipients,
                             event : Events, read : Rows, overtaken : BOOLEAN]
      OBVIOUS
    <2>1. req[o] \in [pc : Pcs, op : Operations, index : {0} \cup DOMAIN recipients,
                      event : Events, read : Rows, overtaken : BOOLEAN]
      BY DEF TypeOK
    <2>2. Overtaken(o) \in [pc : Pcs, op : Operations,
                            index : {0} \cup DOMAIN recipients,
                            event : Events, read : Rows, overtaken : BOOLEAN]
      BY <2>1 DEF Overtaken
    <2> QED
      BY <2>2, FinishedTyped
  <1>3. TypeOK'
    BY <1>1, <1>2 DEF TypeOK
  <1>4. CreatedFirst'
    BY DEF CreatedFirst
  <1>5. ReadIsCurrent'
    <2> SUFFICES ASSUME NEW o \in Requests, req'[o].pc = "fetched"
                 PROVE  /\ ~req'[o].overtaken => req'[o].read = request'
                        /\ req'[o].read.signed \subseteq attested'
                        /\ (provider'.kind = "internal" \/ ~raced') => Proven(req'[o].read)
                        /\ req'[o].op = "sign" =>
                              /\ req'[o].read.status \notin Closed
                              /\ req'[o].index \in DOMAIN recipients'
                        /\ req'[o].op = "webhook" =>
                              /\ provider'.kind # "internal"
                              /\ req'[o].event \in envelope'
      BY DEF ReadIsCurrent, Proven
    <2>1. req'[o] = Overtaken(o)
      BY FinishedTyped
    <2>2. req[o] \in [pc : Pcs, op : Operations, index : {0} \cup DOMAIN recipients,
                      event : Events, read : Rows, overtaken : BOOLEAN]
      BY DEF TypeOK
    <2>3. req[o].pc = "fetched" /\ req'[o] = [req[o] EXCEPT !.overtaken = TRUE]
      BY <2>1, <2>2 DEF Overtaken
    <2>4. /\ req'[o].overtaken
          /\ req'[o].read = req[o].read /\ req'[o].op = req[o].op
          /\ req'[o].index = req[o].index /\ req'[o].event = req[o].event
      BY <2>2, <2>3
    <2> QED
      BY <2>3, <2>4 DEF ReadIsCurrent
  <1> QED
    BY <1>3, <1>4, <1>5

(* What a write makes of the program counters: r is finished, the others   *)
(* are overtaken.                                                          *)
LEMMA WriteRowCounters ==
    ASSUME NEW r \in Requests, NEW row, WriteRow(r, row)
    PROVE  /\ request' = row
           /\ req' \in [Requests -> {Finished} \cup {Overtaken(o) : o \in Requests}]
           /\ \A o \in Requests : req'[o] = Finished \/ req'[o] = Overtaken(o)
  BY DEF WriteRow

LEMMA SignaturePreserves ==
    ASSUME SignatureInv, NEW r \in Requests, WriteSignature(r)
    PROVE  SignatureInv'
  <1> DEFINE signed == SignedAfter(r)
             row    == request'
  <1> USE DEF SignatureInv
  <1>1. /\ req[r].pc = "fetched" /\ req[r].op = "sign"
        /\ req[r] \in [pc : Pcs, op : Operations, index : {0} \cup DOMAIN recipients,
                       event : Events, read : Rows, overtaken : BOOLEAN]
        /\ req[r].index \in DOMAIN recipients
        /\ req[r].read.signed \subseteq attested
        /\ ~req[r].overtaken => req[r].read = request
        /\ (provider.kind = "internal" \/ ~raced) => Proven(req[r].read)
    BY DEF WriteSignature, TypeOK, ReadIsCurrent
  <1>2. request.status # "none" /\ request \in Rows
    BY <1>1 DEF CreatedFirst, TypeOK
  <1>3. /\ row.signed = signed
        /\ row.trail = req[r].read.trail \cup {Entry(r)}
        /\ row.status \in {"completed", "delivered", request.status}
        /\ AllSigned(signed) => row.status = "completed"
        /\ row = [signed |-> row.signed, trail |-> row.trail, status |-> row.status]
    BY DEF WriteSignature, WriteRow, NewTrail
  <1>4. /\ attested' = attested \cup {req[r].index}
        /\ raced' = (raced \/ req[r].overtaken)
        /\ UNCHANGED <<recipients, envelope, overdue, provider>>
    BY DEF WriteSignature
  <1>5. signed \subseteq DOMAIN recipients
    BY <1>1 DEF SignedAfter, Rows
  <1>6. Entry(r) \in [event : Events \cup {"signed"}, index : {0} \cup DOMAIN recipients]
    BY <1>1 DEF Entry
  <1>7. row.trail \in SUBSET [event : Events \cup {"signed"},
                              index : {0} \cup DOMAIN recipients]
    BY <1>1, <1>3, <1>6 DEF Rows
  <1>8. row.status \in Statuses \ {"none"}
    BY <1>2, <1>3 DEF Rows, Statuses, Open, Closed
  <1>9. row \in Rows
    BY <1>3, <1>5, <1>7, <1>8 DEF Rows
  <1>10. TypeOK' /\ CreatedFirst' /\ ReadIsCurrent'
    <2>1. PICK w : WriteRow(r, w)
      BY DEF WriteSignature
    <2>2. attested' \subseteq DOMAIN recipients /\ raced' \in BOOLEAN
      BY <1>1, <1>4 DEF TypeOK
    <2>3. request' = row /\ row.status # "none" /\ attested \subseteq attested'
      BY <1>4, <1>8
    <2>4. /\ req' \in [Requests -> {Finished} \cup {Overtaken(o) : o \in Requests}]
          /\ \A o \in Requests : req'[o] = Finished \/ req'[o] = Overtaken(o)
      BY <2>1, WriteRowCounters
    <2> HIDE DEF row, SignatureInv
    <2> QED
      BY <1>2, <1>4, <1>9, <2>2, <2>3, <2>4, RowChanged
  <1>11. SignatureLostOnlyInARace'
    BY <1>1, <1>3, <1>4 DEF SignedAfter, SignatureLostOnlyInARace
  <1>12. SignedByAllIsCompleted'
    <2>1. ~raced' => attested' = signed
      BY <1>3, <1>4, <1>11 DEF SignatureLostOnlyInARace
    <2>2. Signers' = Signers
      BY <1>4 DEF Signers
    <2> QED
      BY <1>3, <2>1, <2>2 DEF SignedByAllIsCompleted, AllSigned
  <1>13. TrailProvesSignatures'
    <2>1. Entry(r).event = "signed" /\ Entry(r).index = req[r].index
      BY DEF Entry
    <2>2. Proven(req[r].read) => Proven(row)
      BY <1>3, <2>1 DEF Proven, SignedAfter
    <2> QED
      BY <1>1, <1>4, <2>2 DEF TrailProvesSignatures
  <1> QED
    BY <1>10, <1>11, <1>12, <1>13

LEMMA VoidPreserves ==
    ASSUME SignatureInv, NEW r \in Requests, WriteVoid(r)
    PROVE  SignatureInv'
  <1> DEFINE row == [request EXCEPT !.status = "voided"]
  <1>1. /\ WriteRow(r, row) /\ req[r].pc = "fetched"
        /\ UNCHANGED <<recipients, envelope, overdue, provider, attested, raced>>
    BY DEF WriteVoid
  <1>2. request.status # "none" /\ request \in Rows /\ raced \in BOOLEAN
        /\ attested \subseteq DOMAIN recipients
    BY <1>1 DEF SignatureInv, CreatedFirst, TypeOK
  <1>3. /\ row \in Rows /\ row.status = "voided"
        /\ row.signed = request.signed /\ row.trail = request.trail
    BY <1>2 DEF Rows, Statuses, Closed
  <1>4. request' = row
    BY <1>1 DEF WriteRow
  <1> HIDE DEF row
  <1>5. TypeOK' /\ CreatedFirst' /\ ReadIsCurrent'
    BY <1>1, <1>2, <1>3, <1>4, WriteRowCounters, RowChanged
  <1>6. SignatureLostOnlyInARace' /\ SignedByAllIsCompleted' /\ TrailProvesSignatures'
    BY <1>1, <1>3, <1>4 DEF SignatureInv, SignatureLostOnlyInARace,
       SignedByAllIsCompleted, TrailProvesSignatures, Proven
  <1> QED
    BY <1>5, <1>6 DEF SignatureInv

LEMMA EventPreserves ==
    ASSUME SignatureInv, NEW r \in Requests, ApplyEvent(r)
    PROVE  SignatureInv'
  <1> DEFINE entry == [event |-> req[r].event, index |-> 0]
             row   == [request EXCEPT !.status = StatusMap[req[r].event],
                                      !.trail  = NewTrail(r, entry)]
  <1>1. /\ WriteRow(r, row) /\ req[r].pc = "fetched" /\ req[r].op = "webhook"
        /\ req[r].event \in DOMAIN StatusMap
        /\ raced' = (raced \/ req[r].overtaken)
        /\ UNCHANGED <<recipients, envelope, overdue, provider, attested>>
    BY DEF ApplyEvent
  <1>2. /\ request.status # "none" /\ request \in Rows
        /\ raced \in BOOLEAN /\ raced' \in BOOLEAN
        /\ attested \subseteq DOMAIN recipients
        /\ req[r] \in [pc : Pcs, op : Operations, index : {0} \cup DOMAIN recipients,
                       event : Events, read : Rows, overtaken : BOOLEAN]
        /\ ~req[r].overtaken => req[r].read = request
        /\ provider.kind # "internal"
    BY <1>1 DEF SignatureInv, CreatedFirst, TypeOK, ReadIsCurrent
  <1>3. StatusMap[req[r].event] \in Statuses \ {"none"} /\ req[r].event \in Events
    BY <1>1, MappedStatus
  <1>4. NewTrail(r, entry) = req[r].read.trail \cup {entry}
    BY DEF NewTrail
  <1>5. entry \in [event : Events \cup {"signed"}, index : {0} \cup DOMAIN recipients]
    BY <1>3
  <1>6. /\ row \in Rows /\ row.status # "none"
        /\ row.signed = request.signed
        /\ row.trail = req[r].read.trail \cup {entry}
    BY <1>2, <1>3, <1>4, <1>5 DEF Rows
  <1>7. request' = row
    BY <1>1 DEF WriteRow
  <1> HIDE DEF row, entry
  <1>8. TypeOK' /\ CreatedFirst' /\ ReadIsCurrent'
    BY <1>1, <1>2, <1>6, <1>7, WriteRowCounters, RowChanged
  <1>9. SignatureLostOnlyInARace'
    BY <1>1, <1>6, <1>7 DEF SignatureInv, SignatureLostOnlyInARace
  <1>10. SignedByAllIsCompleted'
    BY <1>1, <1>2 DEF SignedByAllIsCompleted
  <1>11. TrailProvesSignatures'
    BY <1>1, <1>2, <1>6, <1>7 DEF SignatureInv, TrailProvesSignatures, Proven
  <1> QED
    BY <1>8, <1>9, <1>10, <1>11 DEF SignatureInv

LEMMA ExpirePreserves ==
    ASSUME SignatureInv, Expire
    PROVE  SignatureInv'
  <1> DEFINE row == [request EXCEPT !.status = "expired"]
  <1>1. /\ request' = row /\ request.status \in Open
        /\ req' = [o \in Requests |-> Overtaken(o)]
        /\ UNCHANGED <<recipients, envelope, overdue, provider, attested, raced>>
    BY DEF Expire, Expirable
  <1>2. request.status # "none" /\ request \in Rows /\ raced \in BOOLEAN
        /\ attested \subseteq DOMAIN recipients
    BY <1>1 DEF SignatureInv, Open, TypeOK
  <1>3. /\ row \in Rows /\ row.status = "expired"
        /\ row.signed = request.signed /\ row.trail = request.trail
    BY <1>2 DEF Rows, Statuses, Closed
  <1> HIDE DEF row
  <1>4. /\ req' \in [Requests -> {Finished} \cup {Overtaken(o) : o \in Requests}]
        /\ \A o \in Requests : req'[o] = Finished \/ req'[o] = Overtaken(o)
    BY <1>1
  <1>5. TypeOK' /\ CreatedFirst' /\ ReadIsCurrent'
    BY <1>1, <1>2, <1>3, <1>4, RowChanged
  <1>6. SignatureLostOnlyInARace' /\ TrailProvesSignatures'
    BY <1>1, <1>3 DEF SignatureInv, SignatureLostOnlyInARace,
       TrailProvesSignatures, Proven
  <1>7. SignedByAllIsCompleted'
    <2>1. Signers' = Signers /\ request.status \notin {"completed", "voided"}
      BY <1>1 DEF Signers, Open
    <2> QED
      BY <1>1, <2>1 DEF SignatureInv, SignedByAllIsCompleted
  <1> QED
    BY <1>5, <1>6, <1>7 DEF SignatureInv

(* Creation: what exists before has no recipients in it, so it stays well  *)
(* typed whatever the recipients become.                                   *)
LEMMA CreatePreserves ==
    ASSUME SignatureInv, CreateEnvelope
    PROVE  SignatureInv'
  <1> USE DEF SignatureInv
  <1>1. /\ recipients = <<>> /\ request.status = "none"
        /\ request.signed = {} /\ attested = {}
        /\ \A r \in Requests : req[r].pc # "fetched"
        /\ recipients' \in RecipientLists
        /\ UNCHANGED <<request, envelope, overdue, req, attested, raced>>
    BY DEF CreateEnvelope, CreatedFirst
  <1>2. /\ provider' \in [kind : Providers, sent : SUBSET Events, signed : {{}}]
        /\ provider'.kind = "internal" => provider'.sent = {}
    BY DEF CreateEnvelope, Events, StatusMap
  <1>3. DOMAIN recipients = {}
    BY <1>1
  <1>4. Rows \subseteq Rows'
    BY <1>3 DEF Rows
  <1>5. TypeOK'
    <2>1. req' \in [Requests -> [pc : Pcs, op : Operations,
                      index : {0} \cup DOMAIN recipients', event : Events,
                      read : Rows', overtaken : BOOLEAN]]
      BY <1>1, <1>3, <1>4 DEF TypeOK
    <2>2. provider' \in [kind : Providers \cup {"none"}, sent : SUBSET Events,
                         signed : SUBSET Signers']
      BY <1>2
    <2> QED
      BY <1>1, <1>4, <2>1, <2>2 DEF TypeOK
  <1>6. CreatedFirst' /\ ReadIsCurrent'
    BY <1>1, <1>2, ProvidersAssumption DEF CreatedFirst, ReadIsCurrent
  <1>7. SignatureLostOnlyInARace' /\ SignedByAllIsCompleted' /\ TrailProvesSignatures'
    BY <1>1 DEF SignatureLostOnlyInARace, SignedByAllIsCompleted,
                TrailProvesSignatures, Proven
  <1> QED
    BY <1>5, <1>6, <1>7

LEMMA InsertPreserves ==
    ASSUME SignatureInv, InsertRequest
    PROVE  SignatureInv'
  <1> USE DEF SignatureInv
  <1>1. /\ request.status = "none" /\ provider.kind # "none"
        /\ request.signed = {} /\ attested = {}
        /\ \A r \in Requests : req[r].pc # "fetched"
        /\ request' = [request EXCEPT !.status = "sent"]
        /\ UNCHANGED <<recipients, envelope, overdue, provider, req, attested, raced>>
    BY DEF InsertRequest, CreatedFirst
  <1>2. request \in Rows
    BY DEF TypeOK
  <1>3. request' \in Rows /\ request'.status = "sent" /\ request'.signed = {}
    BY <1>1, <1>2 DEF Rows, Statuses, Open
  <1>4. TypeOK'
    BY <1>1, <1>3 DEF TypeOK, Rows, Signers
  <1>5. CreatedFirst' /\ ReadIsCurrent'
    BY <1>1, <1>3 DEF CreatedFirst, ReadIsCurrent
  <1>6. SignatureLostOnlyInARace' /\ SignedByAllIsCompleted' /\ TrailProvesSignatures'
    BY <1>1, <1>3 DEF SignatureLostOnlyInARace, SignedByAllIsCompleted,
                      TrailProvesSignatures, Proven
  <1> QED
    BY <1>4, <1>5, <1>6

(* Steps that touch no row and no invocation. *)
LEMMA ProviderPreserves ==
    ASSUME SignatureInv,
           provider' \in [kind : {provider.kind}, sent : SUBSET Events,
                          signed : SUBSET Signers],
           provider.kind \in {"none", "internal"} => provider' = provider,
           overdue' \in BOOLEAN,
           UNCHANGED <<recipients, request, envelope, req, attested, raced>>
    PROVE  SignatureInv'
  <1> USE DEF SignatureInv
  <1>1. provider'.kind = provider.kind /\ Rows' = Rows /\ Signers' = Signers
    BY DEF Rows, Signers
  <1>2. provider.kind \in Providers \cup {"none"}
    BY DEF TypeOK
  <1>3. TypeOK'
    BY <1>1, <1>2 DEF TypeOK
  <1>4. CreatedFirst' /\ ReadIsCurrent'
    BY <1>1 DEF CreatedFirst, ReadIsCurrent, Proven
  <1>5. SignatureLostOnlyInARace' /\ SignedByAllIsCompleted' /\ TrailProvesSignatures'
    BY <1>1 DEF SignatureLostOnlyInARace, SignedByAllIsCompleted,
                TrailProvesSignatures, Proven
  <1> QED
    BY <1>3, <1>4, <1>5

LEMMA OutsidePreserves ==
    ASSUME SignatureInv,
           \/ ProviderDelivers \/ ProviderDeclines \/ TimePasses
           \/ \E i \in Signers : ProviderSigns(i)
    PROVE  SignatureInv'
  <1>1. /\ provider \in [kind : Providers \cup {"none"}, sent : SUBSET Events,
                         signed : SUBSET Signers]
        /\ overdue \in BOOLEAN
    BY DEF SignatureInv, TypeOK
  <1>2. {"delivered", "recipientDelivered", "recipientSigned", "completed",
         "declined", "voided"} \subseteq Events
    BY DEF Events, StatusMap
  <1>3. CASE ProviderDelivers
    <2>1. provider' \in [kind : {provider.kind}, sent : SUBSET Events,
                         signed : SUBSET Signers]
      BY <1>1, <1>2, <1>3 DEF ProviderDelivers
    <2> QED
      BY <1>1, <1>3, <2>1, ProviderPreserves DEF ProviderDelivers, AtProvider
  <1>4. CASE ProviderDeclines
    <2>1. provider' \in [kind : {provider.kind}, sent : SUBSET Events,
                         signed : SUBSET Signers]
      BY <1>1, <1>2, <1>4 DEF ProviderDeclines
    <2> QED
      BY <1>1, <1>4, <2>1, ProviderPreserves DEF ProviderDeclines, AtProvider
  <1>5. CASE TimePasses
    BY <1>1, <1>5, ProviderPreserves DEF TimePasses
  <1>6. ASSUME NEW i \in Signers, ProviderSigns(i) PROVE SignatureInv'
    <2>1. provider' \in [kind : {provider.kind}, sent : SUBSET Events,
                         signed : SUBSET Signers]
      BY <1>1, <1>2, <1>6 DEF ProviderSigns
    <2> QED
      BY <1>1, <1>6, <2>1, ProviderPreserves DEF ProviderSigns, AtProvider
  <1> QED
    BY <1>3, <1>4, <1>5, <1>6

(* What every read has in common. *)
LEMMA FetchPreserves ==
    ASSUME SignatureInv, request.status # "none",
           NEW r \in Requests, NEW op \in Operations,
           NEW i \in {0} \cup DOMAIN recipients, NEW e \in Events,
           Fetch(r, op, i, e),
           op = "sign" => request.status \notin Closed /\ i \in DOMAIN recipients,
           op = "webhook" => provider.kind # "internal" /\ e \in envelope',
           envelope \subseteq envelope', envelope' \subseteq Events,
           provider' \in [kind : {provider.kind}, sent : SUBSET Events,
                          signed : SUBSET Signers],
           provider.kind \in {"none", "internal"} => provider' = provider,
           UNCHANGED <<recipients, request, overdue, attested, raced>>
    PROVE  SignatureInv'
  <1> USE DEF SignatureInv
  <1> DEFINE new == [pc |-> "fetched", op |-> op, index |-> i, event |-> e,
                     read |-> request, overtaken |-> FALSE]
  <1>1. provider'.kind = provider.kind /\ Rows' = Rows /\ Signers' = Signers
    BY DEF Rows, Signers
  <1>2. /\ provider.kind \in Providers \cup {"none"}
        /\ request \in Rows
        /\ req' = [req EXCEPT ![r] = new]
    BY DEF TypeOK, Fetch
  <1>3. new \in [pc : Pcs, op : Operations, index : {0} \cup DOMAIN recipients,
                 event : Events, read : Rows, overtaken : BOOLEAN]
    BY <1>2 DEF Pcs
  <1>4. /\ new.pc = "fetched" /\ new.op = op /\ new.index = i /\ new.event = e
        /\ new.read = request
    OBVIOUS
  <1> HIDE DEF new
  <1>5. /\ req'[r] = new
        /\ \A o \in Requests \ {r} : req'[o] = req[o]
    BY <1>2 DEF TypeOK
  <1>6. TypeOK'
    BY <1>1, <1>2, <1>3 DEF TypeOK
  <1>7. CreatedFirst'
    BY <1>1 DEF CreatedFirst
  <1>8. ReadIsCurrent'
    <2>1. request.signed \subseteq attested
          /\ ((provider.kind = "internal" \/ ~raced) => Proven(request))
      BY DEF SignatureLostOnlyInARace, TrailProvesSignatures
    <2> QED
      BY <1>1, <1>4, <1>5, <2>1 DEF ReadIsCurrent, Proven
  <1>9. SignatureLostOnlyInARace' /\ SignedByAllIsCompleted' /\ TrailProvesSignatures'
    BY <1>1 DEF SignatureLostOnlyInARace, SignedByAllIsCompleted,
                TrailProvesSignatures, Proven
  <1> QED
    BY <1>6, <1>7, <1>8, <1>9

LEMMA ReadsPreserve ==
    ASSUME SignatureInv, NEW r \in Requests,
           \/ \E email \in Emails : FetchToSign(r, email)
           \/ FetchToVoid(r) \/ FetchForEvent(r)
    PROVE  SignatureInv'
  <1>1. /\ provider \in [kind : Providers \cup {"none"}, sent : SUBSET Events,
                         signed : SUBSET Signers]
        /\ envelope \subseteq Events
    BY DEF SignatureInv, TypeOK
  <1>2. "sent" \in Events /\ "voided" \in Events
    BY DEF Events, StatusMap
  <1>3. ASSUME NEW email \in Emails, FetchToSign(r, email) PROVE SignatureInv'
    <2>1. PICK i \in Found(email) : Fetch(r, "sign", i, "sent")
      BY <1>3 DEF FetchToSign
    <2>2. i \in DOMAIN recipients
      BY DEF Found
    <2>3. /\ request.status # "none" /\ request.status \notin Closed
          /\ UNCHANGED <<recipients, request, envelope, overdue, provider, attested, raced>>
      BY <1>3 DEF FetchToSign, Refused
    <2>4. provider' \in [kind : {provider.kind}, sent : SUBSET Events,
                         signed : SUBSET Signers]
      BY <1>1, <2>3
    <2> QED
      BY <1>1, <1>2, <2>1, <2>2, <2>3, <2>4, FetchPreserves DEF Operations
  <1>4. CASE FetchToVoid(r)
    <2>1. /\ request.status # "none" /\ Fetch(r, "void", 0, "sent")
          /\ UNCHANGED <<recipients, request, envelope, overdue, attested, raced>>
      BY <1>4 DEF FetchToVoid
    <2>2. /\ provider' \in [kind : {provider.kind}, sent : SUBSET Events,
                            signed : SUBSET Signers]
          /\ provider.kind \in {"none", "internal"} => provider' = provider
      BY <1>1, <1>2, <1>4 DEF FetchToVoid
    <2> QED
      BY <1>1, <1>2, <2>1, <2>2, FetchPreserves DEF Operations
  <1>5. CASE FetchForEvent(r)
    <2>1. PICK e \in provider.sent : /\ Fetch(r, "webhook", 0, e)
                                     /\ envelope' = envelope \cup {e}
      BY <1>5 DEF FetchForEvent
    <2>2. /\ request.status # "none"
          /\ UNCHANGED <<recipients, request, overdue, provider, attested, raced>>
      BY <1>5 DEF FetchForEvent
    <2>3. e \in Events /\ provider.kind # "internal"
      BY <1>1 DEF SignatureInv, CreatedFirst
    <2>4. provider' \in [kind : {provider.kind}, sent : SUBSET Events,
                         signed : SUBSET Signers]
      BY <1>1, <2>2
    <2> QED
      BY <1>1, <2>1, <2>2, <2>3, <2>4, FetchPreserves DEF Operations
  <1> QED
    BY <1>3, <1>4, <1>5

(* Events that are dropped or ignored finish an invocation, no more. *)
LEMMA IgnoredPreserves ==
    ASSUME SignatureInv, NEW r \in Requests, DropEvent(r) \/ IgnoreEvent(r)
    PROVE  SignatureInv'
  <1> USE DEF SignatureInv
  <1>1. /\ req' = [req EXCEPT ![r] = Finished]
        /\ UNCHANGED <<recipients, request, envelope, overdue, provider, attested, raced>>
    BY DEF DropEvent, IgnoreEvent
  <1>2. Rows' = Rows /\ Signers' = Signers
    BY <1>1 DEF Rows, Signers
  <1>3. req'[r] = Finished /\ \A o \in Requests \ {r} : req'[o] = req[o]
    BY <1>1 DEF TypeOK
  <1>4. TypeOK'
    BY <1>1, <1>2, FinishedTyped DEF TypeOK
  <1>5. CreatedFirst' /\ ReadIsCurrent'
    BY <1>1, <1>3, FinishedTyped DEF CreatedFirst, ReadIsCurrent, Proven
  <1>6. SignatureLostOnlyInARace' /\ SignedByAllIsCompleted' /\ TrailProvesSignatures'
    BY <1>1, <1>2 DEF SignatureLostOnlyInARace, SignedByAllIsCompleted,
                      TrailProvesSignatures, Proven
  <1> QED
    BY <1>4, <1>5, <1>6

LEMMA StutterPreserves == SignatureInv /\ UNCHANGED vars => SignatureInv'
  <1> SUFFICES ASSUME SignatureInv, UNCHANGED vars PROVE SignatureInv'
    OBVIOUS
  <1>1. Rows' = Rows /\ Signers' = Signers
    BY DEF vars, Rows, Signers
  <1> QED
    BY <1>1 DEF vars, SignatureInv, TypeOK, CreatedFirst, ReadIsCurrent,
       SignatureLostOnlyInARace, SignedByAllIsCompleted, TrailProvesSignatures, Proven

LEMMA StepPreserves == SignatureInv /\ [Next]_vars => SignatureInv'
  <1> SUFFICES ASSUME SignatureInv, [Next]_vars PROVE SignatureInv'
    OBVIOUS
  <1>1. ASSUME NEW r \in Requests, Handle(r) PROVE SignatureInv'
    BY <1>1, SignaturePreserves, VoidPreserves, EventPreserves, ReadsPreserve,
       IgnoredPreserves DEF Handle, Write
  <1>2. CASE UNCHANGED vars
    BY <1>2, StutterPreserves
  <1> QED
    BY <1>1, <1>2, CreatePreserves, InsertPreserves, OutsidePreserves,
       ExpirePreserves DEF Next

(* SignatureInv holds in every state, for any invocations, addresses and   *)
(* lists of recipients, with and without an outside provider.              *)
THEOREM SignatureInvariant == Spec => []SignatureInv
  BY InitEstablishes, StepPreserves, PTL DEF Spec

(* Signatures are lost from the row only by overtaken writes, and whoever  *)
(* the row shows as signed has an attestation (the sign endpoints).        *)
THEOREM SignaturesAreKept == Spec => [](SignatureLostOnlyInARace /\ TrailProvesSignatures)
  <1>1. SignatureInv => SignatureLostOnlyInARace /\ TrailProvesSignatures
    BY DEF SignatureInv
  <1> QED
    BY <1>1, SignatureInvariant, PTL

(* One step completes a request only with all signatures, or on the word   *)
(* of the provider.                                                        *)
LEMMA CompletingStep ==
    SignatureInv /\ [Next]_vars =>
        [(request.status # "completed" /\ request'.status = "completed") =>
              \/ Signers \subseteq request'.signed \cap attested'
              \/ {"completed", "recipientSigned"} \cap envelope # {}]_vars
  <1> SUFFICES ASSUME SignatureInv, [Next]_vars,
                      request.status # "completed", request'.status = "completed"
               PROVE  \/ Signers \subseteq request'.signed \cap attested'
                      \/ {"completed", "recipientSigned"} \cap envelope # {}
    OBVIOUS
  <1>0. request' # request
    OBVIOUS
  <1>1. ASSUME NEW r \in Requests, WriteSignature(r)
        PROVE  Signers \subseteq request'.signed \cap attested'
    <2>1. req[r].read.signed \subseteq attested
      BY <1>1 DEF SignatureInv, ReadIsCurrent, WriteSignature
    <2>2. /\ request'.signed = SignedAfter(r)
          /\ attested' = attested \cup {req[r].index}
          /\ ~AllSigned(SignedAfter(r)) =>
                request'.status \in {"delivered", request.status}
      BY <1>1 DEF WriteSignature, WriteRow
    <2> QED
      BY <2>1, <2>2 DEF SignedAfter, AllSigned
  <1>2. ASSUME NEW r \in Requests, ApplyEvent(r)
        PROVE  {"completed", "recipientSigned"} \cap envelope # {}
    <2>1. /\ req[r].event \in DOMAIN StatusMap /\ req[r].event \in envelope
      BY <1>2 DEF SignatureInv, ReadIsCurrent, ApplyEvent
    <2>2. request \in Rows
      BY DEF SignatureInv, TypeOK
    <2>3. request'.status = StatusMap[req[r].event]
      BY <1>2, <2>2 DEF ApplyEvent, WriteRow, Rows
    <2> QED
      BY <2>1, <2>3, MappedStatus
  <1>3. ASSUME NEW r \in Requests, WriteVoid(r) PROVE FALSE
    BY <1>3 DEF WriteVoid, WriteRow, SignatureInv, TypeOK, Rows
  <1>4. ASSUME Expire \/ InsertRequest PROVE FALSE
    BY <1>4 DEF Expire, InsertRequest, SignatureInv, TypeOK, Rows
  <1> QED
    BY <1>0, <1>1, <1>2, <1>3, <1>4
    DEF Next, Handle, Write, vars, CreateEnvelope, ProviderDelivers, ProviderSigns,
        ProviderDeclines, FetchToSign, FetchToVoid, DropEvent, FetchForEvent,
        IgnoreEvent, TimePasses

(* The status of a request becomes completed only with the signatures of   *)
(* all signers, each of whom signed, or after an event of the provider.    *)
THEOREM CompletionBacked == Spec => CompletionIsBacked
  BY SignatureInvariant, CompletingStep, PTL DEF Spec, CompletionIsBacked

(* A closed row changes its status only by voiding, webhooks, and          *)
(* signatures that were overtaken: one that was not read this very row,    *)
(* and was refused.                                                        *)
LEMMA ClosingStep ==
    SignatureInv /\ [Next]_vars =>
        [(request.status \in Closed /\ request'.status # request.status) =>
              \E r \in Requests :
                  /\ Write(r)
                  /\ req[r].op \in {"void", "webhook"} \/ req[r].overtaken]_vars
  <1> SUFFICES ASSUME SignatureInv, [Next]_vars,
                      request.status \in Closed, request'.status # request.status
               PROVE  \E r \in Requests :
                          /\ Write(r)
                          /\ req[r].op \in {"void", "webhook"} \/ req[r].overtaken
    OBVIOUS
  <1>0. request' # request
    OBVIOUS
  <1>1. ASSUME NEW r \in Requests, Write(r)
        PROVE  req[r].op \in {"void", "webhook"} \/ req[r].overtaken
    <2>1. CASE WriteSignature(r)
      <3>1. /\ req[r].pc = "fetched" /\ req[r].op = "sign"
            /\ req[r].overtaken \in BOOLEAN
        BY <2>1 DEF WriteSignature, SignatureInv, TypeOK
      <3> QED
        BY <3>1 DEF SignatureInv, ReadIsCurrent
    <2>2. CASE WriteVoid(r) \/ ApplyEvent(r)
      BY <2>2 DEF WriteVoid, ApplyEvent
    <2> QED
      BY <1>1, <2>1, <2>2 DEF Write
  <1>2. ASSUME Expire \/ InsertRequest PROVE FALSE
    BY <1>2 DEF Expire, Expirable, InsertRequest, Open, Closed
  <1> QED
    BY <1>0, <1>1, <1>2
    DEF Next, Handle, vars, CreateEnvelope, ProviderDelivers, ProviderSigns,
        ProviderDeclines, FetchToSign, FetchToVoid, DropEvent, FetchForEvent,
        IgnoreEvent, TimePasses

(* Completed, voided and expired requests stay so but for those causes. *)
THEOREM ClosedIsKept == Spec => ClosedStaysClosed
  BY SignatureInvariant, ClosingStep, PTL DEF Spec, ClosedStaysClosed

(* For any invocations, recipients and providers: completion is backed,    *)
(* and closed requests stay closed.                                        *)
THEOREM StepsHold == Spec => SignatureSteps
  BY CompletionBacked, ClosedIsKept DEF SignatureSteps

(* A request past its date is there, and is open or not. *)
OverdueOpen   == overdue /\ request.status # "none" /\ request.status \in Open
OverdueClosed == overdue /\ request.status # "none" /\ request.status \notin Open

OverdueIsThere == overdue => request.status # "none"

(* Only writes, the insertion and the hourly task change the row. *)
NoWrites == \A r \in Requests : ~Write(r)

LEMMA OthersLeaveTheRow ==
    ASSUME Next, NoWrites, ~InsertRequest, ~Expire
    PROVE  UNCHANGED request /\ (UNCHANGED overdue \/ TimePasses)
  <1>1. ASSUME NEW r \in Requests, Handle(r) PROVE UNCHANGED <<request, overdue>>
    <2>1. ASSUME NEW email \in Emails, FetchToSign(r, email) PROVE UNCHANGED <<request, overdue>>
      BY <2>1 DEF FetchToSign
    <2>2. CASE FetchToVoid(r) \/ DropEvent(r)
      BY <2>2 DEF FetchToVoid, DropEvent
    <2>3. CASE FetchForEvent(r) \/ IgnoreEvent(r)
      BY <2>3 DEF FetchForEvent, IgnoreEvent
    <2> QED
      BY <1>1, <2>1, <2>2, <2>3 DEF Handle, NoWrites
  <1>2. ASSUME NEW i \in Signers, ProviderSigns(i) PROVE UNCHANGED <<request, overdue>>
    BY <1>2 DEF ProviderSigns
  <1>3. CASE CreateEnvelope \/ ProviderDelivers \/ ProviderDeclines
    BY <1>3 DEF CreateEnvelope, ProviderDelivers, ProviderDeclines
  <1>4. CASE TimePasses
    BY <1>4 DEF TimePasses
  <1> QED
    BY <1>1, <1>2, <1>3, <1>4 DEF Next

LEMMA ExpireCloses ==
    ASSUME SignatureInv, Expire PROVE OverdueClosed'
  <1>1. request \in Rows
    BY DEF SignatureInv, TypeOK
  <1>2. request'.status = "expired" /\ overdue'
    BY <1>1 DEF Expire, Rows
  <1> QED
    BY <1>2 DEF OverdueClosed, Open

LEMMA WritesKeepTheRow ==
    ASSUME SignatureInv, NEW r \in Requests, Write(r) PROVE request'.status # "none"
  <1>0. request \in Rows
    BY DEF SignatureInv, TypeOK
  <1>1. CASE WriteSignature(r)
    <2>1. request.status # "none"
      BY <1>1 DEF WriteSignature, SignatureInv, CreatedFirst
    <2> QED
      BY <1>1, <2>1 DEF WriteSignature, WriteRow
  <1>2. CASE WriteVoid(r)
    BY <1>0, <1>2 DEF WriteVoid, WriteRow, Rows
  <1>3. CASE ApplyEvent(r)
    BY <1>0, <1>3, MappedStatus DEF ApplyEvent, WriteRow, Rows
  <1> QED
    BY <1>1, <1>2, <1>3 DEF Write

LEMMA OnlyThereIsOverdue ==
    SignatureInv /\ OverdueIsThere /\ [Next]_vars => OverdueIsThere'
  <1> SUFFICES ASSUME SignatureInv, OverdueIsThere, [Next]_vars PROVE OverdueIsThere'
    OBVIOUS
  <1>1. CASE \E r \in Requests : Write(r)
    BY <1>1, WritesKeepTheRow DEF OverdueIsThere
  <1>2. CASE InsertRequest
    <2>1. request \in Rows
      BY DEF SignatureInv, TypeOK
    <2> QED
      BY <1>2, <2>1 DEF InsertRequest, OverdueIsThere, Rows
  <1>3. CASE Expire
    BY <1>3, ExpireCloses DEF OverdueIsThere, OverdueClosed
  <1>4. CASE Next /\ NoWrites /\ ~InsertRequest /\ ~Expire
    BY <1>4, OthersLeaveTheRow DEF OverdueIsThere, TimePasses
  <1>5. CASE UNCHANGED vars
    BY <1>5 DEF vars, OverdueIsThere
  <1> QED
    BY <1>1, <1>2, <1>3, <1>4, <1>5 DEF NoWrites

LEMMA QuietStep ==
    ASSUME [Next]_vars, [NoWrites]_vars, overdue, request.status # "none"
    PROVE  Expire \/ UNCHANGED <<request, overdue>>
  <1>1. CASE UNCHANGED vars
    BY <1>1 DEF vars
  <1>2. CASE Next /\ NoWrites /\ ~Expire
    <2>1. ~InsertRequest
      BY DEF InsertRequest
    <2> QED
      BY <1>2, <2>1, OthersLeaveTheRow DEF TimePasses
  <1> QED
    BY <1>1, <1>2

(* However signing, voiding, webhooks and the hourly task cross, and        *)
(* whatever an invocation had read before: a request past its date is not   *)
(* open any more, from some time after the last invocation has written.     *)
(* That the hourly task can run when there is something to expire, and that *)
(* invocations write a last time, are the hypotheses (cron/escalate).       *)
THEOREM RequestsExpire == Spec /\ []CanExpire /\ WritesEnd => ExpiryHappens
  <1>1. SignatureInv /\ [Next]_vars /\ [NoWrites]_vars /\ OverdueOpen
           => OverdueOpen' \/ OverdueClosed'
    BY QuietStep, ExpireCloses DEF OverdueOpen
  <1>2. SignatureInv /\ [Next]_vars /\ [NoWrites]_vars /\ OverdueClosed => OverdueClosed'
    BY QuietStep, ExpireCloses DEF OverdueClosed
  <1>3. SignatureInv /\ <<Expire>>_vars => OverdueClosed'
    BY ExpireCloses
  <1>4. OverdueOpen /\ CanExpire => ENABLED <<Expire>>_vars
    BY DEF OverdueOpen, CanExpire, Expirable
  <1>5. OverdueIsThere => ~overdue \/ OverdueOpen \/ OverdueClosed
    BY DEF OverdueIsThere, OverdueOpen, OverdueClosed
  <1>6. ~overdue \/ OverdueClosed => (overdue => request.status \notin Open)
    BY DEF OverdueClosed
  <1>7. Init => OverdueIsThere
    BY DEF Init, OverdueIsThere
  <1>8. Spec => []SignatureInv
    BY SignatureInvariant
  <1>9. Spec => []OverdueIsThere
    BY <1>7, <1>8, OnlyThereIsOverdue, PTL DEF Spec
  <1> QED
    BY <1>1, <1>2, <1>3, <1>4, <1>5, <1>6, <1>8, <1>9, PTL
       DEF Spec, WritesEnd, NoWrites, StaysClosed, ExpiryHappens

-----------------------------------------------------------------------------
(*************************************************************************)
(* The properties of WorkflowApprovals, for any sessions, workflows and  *)
(* approvers.  A transaction decides upon counts it took before it writes; *)
(* what makes the counts sound is that a row nobody contests is written by *)
(* one request: whoever still has it open works on an undecided row.     *)
(*************************************************************************)

(* What a row's status says about the decision it holds. *)
RowIsSound(r) ==
    /\ r.status = "pending"  => r.signed = "none"
    /\ r.status = "approved" => r.signed = "approve"
    /\ r.status = "rejected" => r.signed = "reject"

(* What a transaction that has counted knows of the other rows of its step, *)
(* however old the count is.                                                *)
SawApprovals(s) ==
    tx[s].op = "approve" /\ Enough(tx[s]) =>
        \A a \in RowsOf(FlowOf(s)) \ ({tx[s].row} \cup contested) : approval[a].signed = "approve"

SawRejection(s) ==
    tx[s].op = "approve" /\ tx[s].rejected > 0 =>
        \E a \in RowsOf(FlowOf(s)) : approval[a].signed = "reject" \/ a \in contested

(* A transaction works on a row of its own user, undecided or contested. *)
TxIsSound(s) ==
    ~Idle(s) =>
        /\ approval[tx[s].row].approver = UserOf[s]
        /\ approval[tx[s].row].signed = "none" \/ tx[s].row \in contested
        /\ tx[s].pc \in {"updated", "counted"} => tx[s].op \in {"approve", "reject"}
        /\ tx[s].pc = "counted" => SawApprovals(s) /\ SawRejection(s)

(* A serial database has one transaction open. *)
Serial == SerialTransactions => \A s, t \in Sessions : ~Idle(s) /\ ~Idle(t) => s = t

(* What a workflow's status says about its rows. *)
FlowsAreSound ==
    \A w \in Workflows :
        /\ workflow[w].status = "none" => RowsOf(w) = {} /\ w \notin promoted
        /\ workflow[w].status = "rejected" =>
              \E a \in RowsOf(w) : approval[a].signed = "reject" \/ a \in contested

(* WorkflowInv but for the locks, of which the types suffice. *)
TablesAreSound == WorkflowTypeOK /\ PromotionIsSigned /\ ApprovedIsUnanimous

WorkflowIInv ==
    /\ TablesAreSound
    /\ \A a \in ApprovalRows : RowIsSound(approval[a])
    /\ \A s \in Sessions : TxIsSound(s)
    /\ Serial
    /\ FlowsAreSound

(* Rows are only added, keep who decides what and how, and keep what was    *)
(* decided unless they are contested.                                       *)
Grows ==
    /\ approval' \in Seq(ApprovalType)
    /\ ApprovalRows \subseteq ApprovalRows'
    /\ \A a \in ApprovalRows :
          /\ approval'[a].workflow = approval[a].workflow
          /\ approval'[a].approver = approval[a].approver
          /\ approval'[a].mode = approval[a].mode
          /\ approval[a].signed # "none" /\ approval'[a].signed # approval[a].signed
                => a \in contested
    /\ contested \subseteq contested'

LEMMA RowsGrow ==
    ASSUME Grows
    PROVE  /\ \A w : RowsOf(w) \subseteq RowsOf(w)'
           /\ \A w : \A a \in RowsOf(w)' : a \in ApprovalRows => a \in RowsOf(w)
           /\ \A w : IsAll(w)' => IsAll(w)
  BY DEF Grows, RowsOf, ApprovalRows, IsAll

LEMMA WorkflowTypes ==
    ASSUME WorkflowTypeOK
    PROVE  /\ ApprovalRows = 1 .. Len(approval) /\ Len(approval) \in Nat
           /\ \A a \in ApprovalRows : approval[a] \in ApprovalType /\ a \in Nat
           /\ \A s \in Sessions : tx[s] \in TxType
           /\ \A s \in Sessions : ~Idle(s) => tx[s].row \in ApprovalRows
           /\ \A s \in Sessions : NoTx \in TxType /\ NoTx.pc = "idle"
  <1>1. \A s \in Sessions : NoTx \in TxType /\ NoTx.pc = "idle"
    <2> SUFFICES ASSUME NEW s \in Sessions PROVE NoTx \in TxType /\ NoTx.pc = "idle"
      OBVIOUS
    <2>1. UserOf[s] \in Users
      BY UserOfAssumption
    <2>2. (CHOOSE u \in Users : TRUE) \in Users
      BY <2>1
    <2> QED
      BY <2>2 DEF NoTx, TxType, TxPcs, Decisions
  <1> QED
    BY <1>1 DEF WorkflowTypeOK, ApprovalRows, Idle

(* The rows of a workflow somebody is deciding. *)
LEMMA FlowOfTx ==
    ASSUME WorkflowIInv, NEW s \in Sessions, ~Idle(s)
    PROVE  /\ tx[s].row \in RowsOf(FlowOf(s)) /\ FlowOf(s) \in Workflows
           /\ workflow[FlowOf(s)].status # "none"
           /\ approval[tx[s].row] \in ApprovalType /\ tx[s].row \in ApprovalRows
           /\ approval[tx[s].row].approver = UserOf[s]
           /\ approval[tx[s].row].signed = "none" \/ tx[s].row \in contested
  <1>1. WorkflowTypeOK
    BY DEF WorkflowIInv, TablesAreSound
  <1>2. tx[s].row \in ApprovalRows /\ approval[tx[s].row] \in ApprovalType
    BY <1>1, WorkflowTypes
  <1>3. tx[s].row \in RowsOf(FlowOf(s)) /\ FlowOf(s) \in Workflows
    BY <1>2 DEF RowsOf, FlowOf, ApprovalType
  <1> QED
    BY <1>2, <1>3 DEF WorkflowIInv, FlowsAreSound, TxIsSound

(* What a transaction knows stays true while others add rows, unless they    *)
(* add one to the step it has counted.                                      *)
LEMMA TxStays ==
    ASSUME WorkflowIInv, Grows, NEW s \in Sessions, tx'[s] = tx[s],
           ~Idle(s) => /\ approval'[tx[s].row].signed = "none" \/ tx[s].row \in contested'
                       /\ tx[s].pc = "counted" /\ tx[s].op = "approve" /\ Enough(tx[s])
                             => \A a \in ApprovalRows' \ (ApprovalRows \cup contested') :
                                   approval'[a].workflow # FlowOf(s)
    PROVE  TxIsSound(s)'
  <1> SUFFICES ASSUME ~Idle(s) PROVE TxIsSound(s)'
    BY DEF TxIsSound, Idle
  <1>1. TxIsSound(s) /\ tx[s].row \in ApprovalRows
    BY FlowOfTx DEF WorkflowIInv
  <1>2. FlowOf(s)' = FlowOf(s) /\ approval'[tx[s].row].approver = UserOf[s]
    BY <1>1 DEF Grows, FlowOf, TxIsSound
  <1>3. ASSUME tx[s].pc = "counted" PROVE SawApprovals(s)'
    <2>1. SUFFICES ASSUME tx[s].op = "approve", Enough(tx[s]),
                          NEW a \in RowsOf(FlowOf(s))', a # tx[s].row, a \notin contested'
                   PROVE  approval'[a].signed = "approve"
      BY <1>2 DEF SawApprovals
    <2>2. a \in ApprovalRows' /\ approval'[a].workflow = FlowOf(s) /\ a \notin contested
      BY <1>2, <2>1 DEF RowsOf, Grows
    <2>3. a \in ApprovalRows
      BY <1>1, <1>3, <2>1, <2>2 DEF TxIsSound
    <2>4. a \in RowsOf(FlowOf(s)) /\ approval[a].signed = "approve"
      BY <1>1, <1>2, <1>3, <2>1, <2>2, <2>3, RowsGrow DEF TxIsSound, SawApprovals
    <2> QED
      BY <2>2, <2>3, <2>4 DEF Grows
  <1>4. ASSUME tx[s].pc = "counted" PROVE SawRejection(s)'
    <2>1. SUFFICES ASSUME tx[s].op = "approve", tx[s].rejected > 0
                   PROVE  \E a \in RowsOf(FlowOf(s))' :
                             approval'[a].signed = "reject" \/ a \in contested'
      BY <1>2 DEF SawRejection
    <2>2. PICK a \in RowsOf(FlowOf(s)) : approval[a].signed = "reject" \/ a \in contested
      BY <1>1, <1>4, <2>1 DEF TxIsSound, SawRejection
    <2>3. a \in RowsOf(FlowOf(s))' /\ a \in ApprovalRows
      BY <1>2, RowsGrow DEF RowsOf
    <2> QED
      BY <2>2, <2>3 DEF Grows
  <1> QED
    BY <1>1, <1>2, <1>3, <1>4 DEF TxIsSound, Idle

(* An undecided row that nobody is deciding any more. *)
Replaceable(b) ==
    /\ approval[b].signed = "none" /\ b \notin contested
    /\ \A s \in Sessions : ~Idle(s)' => tx'[s].row # b

(* The steps that decide nothing: rows keep what they hold, and a new row   *)
(* replaces an undecided one nobody is deciding any more, or is contested.  *)
LEMMA UndecidedStep ==
    ASSUME WorkflowIInv, WorkflowTypeOK', Grows, Serial',
           \A a \in ApprovalRows' : RowIsSound(approval'[a]),
           \A a \in ApprovalRows : approval'[a].signed = approval[a].signed,
           UNCHANGED <<workflow, promoted>>,
           \A s \in Sessions : tx'[s] = tx[s] \/ TxIsSound(s)',
           \A a \in ApprovalRows' \ ApprovalRows : \E b \in ApprovalRows :
               /\ approval'[a].workflow = approval[b].workflow
               /\ a \in contested' \/ Replaceable(b)
    PROVE  WorkflowIInv'
  <1>1. /\ PromotionIsSigned /\ ApprovedIsUnanimous /\ FlowsAreSound
        /\ \A s \in Sessions : TxIsSound(s)
    BY DEF WorkflowIInv, TablesAreSound
  <1>2. \A w : /\ RowsOf(w) \subseteq RowsOf(w)' /\ (IsAll(w)' => IsAll(w))
               /\ \A a \in RowsOf(w)' : a \in ApprovalRows => a \in RowsOf(w)
    BY RowsGrow
  <1>3. \A w : \A a \in RowsOf(w)' : a \notin ApprovalRows =>
           \E b \in RowsOf(w) : a \in contested' \/ (approval[b].signed = "none" /\ b \notin contested)
    BY DEF RowsOf, Replaceable
  <1>3a. contested \subseteq contested'
    BY DEF Grows
  <1>4. ApprovedIsUnanimous'
    <2> SUFFICES ASSUME NEW w \in Workflows, Approved(w), IsAll(w),
                        NEW a \in RowsOf(w)', a \notin contested'
                 PROVE  approval'[a].signed = "approve"
      BY <1>2 DEF ApprovedIsUnanimous, Approved
    <2>1. \A b \in RowsOf(w) \ contested : approval[b].signed = "approve"
      BY <1>1 DEF ApprovedIsUnanimous
    <2>2. a \in ApprovalRows
      BY <1>3, <2>1
    <2> QED
      BY <1>2, <1>3a, <2>1, <2>2
  <1>5. PromotionIsSigned'
    <2>1. \A w : \A a \in RowsOf(w) : approval'[a].signed = approval[a].signed
      BY DEF RowsOf
    <2> QED
      BY <1>1, <1>2, <1>3a, <2>1 DEF PromotionIsSigned
  <1>6. FlowsAreSound'
    <2>1. \A w : \A a \in RowsOf(w) : approval'[a].signed = approval[a].signed
      BY DEF RowsOf
    <2>2. \A w : RowsOf(w) = {} => RowsOf(w)' = {}
      BY <1>2, <1>3
    <2> QED
      BY <1>1, <1>2, <1>3a, <2>1, <2>2 DEF FlowsAreSound
  <1>7. ASSUME NEW s \in Sessions PROVE TxIsSound(s)'
    <2>1. CASE tx'[s] = tx[s]
      <3>1. ASSUME ~Idle(s)
            PROVE  /\ approval'[tx[s].row].signed = "none" \/ tx[s].row \in contested'
                   /\ tx[s].pc = "counted" /\ tx[s].op = "approve" /\ Enough(tx[s])
                         => \A a \in ApprovalRows' \ (ApprovalRows \cup contested') :
                               approval'[a].workflow # FlowOf(s)
        <4>1. /\ tx[s].row \in ApprovalRows /\ ~Idle(s)'
              /\ approval[tx[s].row].signed = "none" \/ tx[s].row \in contested
          BY <2>1, <3>1, FlowOfTx DEF Idle
        <4>2. ASSUME tx[s].pc = "counted", tx[s].op = "approve", Enough(tx[s]),
                     NEW a \in ApprovalRows' \ (ApprovalRows \cup contested'),
                     approval'[a].workflow = FlowOf(s)
              PROVE  FALSE
          <5>1. PICK b \in ApprovalRows :
                   approval'[a].workflow = approval[b].workflow /\ Replaceable(b)
            BY <4>2
          <5>2. b \in RowsOf(FlowOf(s)) \ ({tx[s].row} \cup contested)
            BY <2>1, <4>1, <4>2, <5>1 DEF RowsOf, Replaceable
          <5> QED
            BY <1>1, <3>1, <4>2, <5>1, <5>2 DEF TxIsSound, SawApprovals, Replaceable
        <4> QED
          BY <1>3a, <4>1, <4>2
      <3> QED
        BY <2>1, <3>1, TxStays
    <2> QED
      BY <2>1
  <1> QED
    BY <1>4, <1>5, <1>6, <1>7 DEF WorkflowIInv, TablesAreSound

(* Nothing but the transactions changes. *)
LEMMA RowsStay ==
    ASSUME WorkflowIInv, UNCHANGED <<approval, contested>>
    PROVE  Grows /\ ApprovalRows' = ApprovalRows /\ \A a \in ApprovalRows' : RowIsSound(approval'[a])
  BY DEF WorkflowIInv, TablesAreSound, WorkflowTypeOK, Grows, ApprovalRows, RowIsSound

LEMMA OnlyTx ==
    ASSUME WorkflowIInv, UNCHANGED <<workflow, approval, promoted, contested>>,
           tx' \in [Sessions -> TxType],
           \A s \in Sessions : ~Idle(s)' => tx'[s].row \in ApprovalRows,
           batch' \subseteq ApprovalRows, Serial',
           \A s \in Sessions : tx'[s] = tx[s] \/ TxIsSound(s)'
    PROVE  WorkflowIInv'
  <1>1. WorkflowTypeOK'
    BY DEF WorkflowIInv, TablesAreSound, WorkflowTypeOK, ApprovalRows, Idle
  <1> QED
    BY <1>1, RowsStay, UndecidedStep

LEMMA SerialKept ==
    ASSUME WorkflowIInv, \A s \in Sessions : ~Idle(s)' => ~Idle(s) PROVE Serial'
  BY DEF WorkflowIInv, Serial

LEMMA BeginKeeps ==
    ASSUME WorkflowIInv, NEW s \in Sessions, NEW a \in ApprovalRows, NEW c \in TxType,
           Idle(s), MayBegin, approval[a].status = "pending", approval[a].approver = UserOf[s],
           c.pc = "read", c.row = a, tx' = [tx EXCEPT ![s] = c],
           UNCHANGED <<workflow, approval, promoted, batch, contested>>
    PROVE  WorkflowIInv'
  <1>1. WorkflowTypeOK /\ RowIsSound(approval[a])
    BY DEF WorkflowIInv, TablesAreSound
  <1>2. /\ tx' \in [Sessions -> TxType]
        /\ \A t \in Sessions : tx'[t] = IF t = s THEN c ELSE tx[t]
    BY <1>1 DEF WorkflowTypeOK
  <1>3. \A t \in Sessions : ~Idle(t)' => tx'[t].row \in ApprovalRows
    BY <1>1, <1>2, WorkflowTypes DEF Idle
  <1>4. Serial'
    BY <1>2 DEF Serial, MayBegin, Idle
  <1>5. TxIsSound(s)'
    BY <1>1, <1>2 DEF TxIsSound, RowIsSound
  <1>6. batch' \subseteq ApprovalRows
    BY <1>1 DEF WorkflowTypeOK
  <1> QED
    BY <1>2, <1>3, <1>4, <1>5, <1>6, OnlyTx

LEMMA BeginDecisionKeeps ==
    ASSUME WorkflowIInv, NEW s \in Sessions, NEW a \in ApprovalRows,
           NEW d \in {"approve", "reject"}, BeginDecision(s, a, d)
    PROVE  WorkflowIInv'
  <1>1. NoTx \in TxType /\ a \in Nat
    BY WorkflowTypes DEF WorkflowIInv, TablesAreSound
  <1>2. PICK c : c = [NoTx EXCEPT !.pc = "read", !.row = a, !.op = d]
    OBVIOUS
  <1>3. c \in TxType /\ c.pc = "read" /\ c.row = a
    BY <1>1, <1>2 DEF TxType, TxPcs, Decisions
  <1> QED
    BY <1>2, <1>3, BeginKeeps DEF BeginDecision

LEMMA BeginDelegationKeeps ==
    ASSUME WorkflowIInv, NEW s \in Sessions, NEW a \in ApprovalRows,
           NEW u \in Users, BeginDelegation(s, a, u)
    PROVE  WorkflowIInv'
  <1>1. NoTx \in TxType /\ a \in Nat
    BY WorkflowTypes DEF WorkflowIInv, TablesAreSound
  <1>2. PICK c : c = [NoTx EXCEPT !.pc = "read", !.row = a, !.op = "delegate", !.to = u]
    OBVIOUS
  <1>3. c \in TxType /\ c.pc = "read" /\ c.row = a
    BY <1>1, <1>2 DEF TxType, TxPcs, Decisions
  <1> QED
    BY <1>2, <1>3, BeginKeeps DEF BeginDelegation

LEMMA UpdateOwnRowKeeps ==
    ASSUME WorkflowIInv, NEW s \in Sessions, UpdateOwnRow(s) PROVE WorkflowIInv'
  <1>0. WorkflowTypeOK /\ tx[s] \in TxType /\ ~Idle(s) /\ TxIsSound(s)
    BY WorkflowTypes DEF WorkflowIInv, TablesAreSound, UpdateOwnRow, Idle
  <1>1. PICK c : c = [tx[s] EXCEPT !.pc = "updated"]
    OBVIOUS
  <1>2. c \in TxType /\ c.pc = "updated" /\ c.row = tx[s].row /\ c.op = tx[s].op
    BY <1>0, <1>1 DEF TxType, TxPcs
  <1>3. tx' = [tx EXCEPT ![s] = c]
    BY <1>1 DEF UpdateOwnRow
  <1>4. /\ tx' \in [Sessions -> TxType]
        /\ \A t \in Sessions : tx'[t] = IF t = s THEN c ELSE tx[t]
    BY <1>0, <1>2, <1>3 DEF WorkflowTypeOK
  <1>5. \A t \in Sessions : ~Idle(t)' => ~Idle(t) /\ tx'[t].row = tx[t].row
    BY <1>0, <1>2, <1>4 DEF Idle
  <1>6. \A t \in Sessions : ~Idle(t)' => tx'[t].row \in ApprovalRows
    BY <1>0, <1>5, WorkflowTypes
  <1>7. TxIsSound(s)'
    BY <1>0, <1>2, <1>4 DEF TxIsSound, UpdateOwnRow
  <1>8. batch' \subseteq ApprovalRows
    BY <1>0 DEF WorkflowTypeOK, UpdateOwnRow
  <1> QED
    BY <1>4, <1>5, <1>6, <1>7, <1>8, SerialKept, OnlyTx DEF UpdateOwnRow

(* The count is of the whole step: as many approvals as rows are the        *)
(* approval of every row, and a rejection that is counted is somebody's.    *)
LEMMA CountStepKeeps ==
    ASSUME WorkflowIInv, NEW s \in Sessions, CountStep(s) PROVE WorkflowIInv'
  <1>0. WorkflowTypeOK /\ tx[s] \in TxType /\ ~Idle(s) /\ TxIsSound(s) /\ tx[s].pc = "updated"
    BY WorkflowTypes DEF WorkflowIInv, TablesAreSound, CountStep, Idle
  <1>1. /\ tx[s].row \in RowsOf(FlowOf(s)) /\ tx[s].row \in ApprovalRows
        /\ tx[s].op \in {"approve", "reject"}
    BY <1>0, FlowOfTx DEF TxIsSound
  <1>2. PICK step : step = RowsOf(FlowOf(s))
    OBVIOUS
  <1>3. PICK yes : yes = {a \in step : Seen(s, a) = "approved"}
    OBVIOUS
  <1>4. PICK no : no = {a \in step : Seen(s, a) = "rejected"}
    OBVIOUS
  <1>5. IsFiniteSet(step) /\ IsFiniteSet(yes) /\ IsFiniteSet(no)
    <2>1. IsFiniteSet(ApprovalRows)
      BY <1>0, WorkflowTypes, FS_Interval
    <2> QED
      BY <1>2, <1>3, <1>4, <2>1, FS_Subset DEF RowsOf
  <1>6. Cardinality(step) \in Nat /\ Cardinality(yes) \in Nat /\ Cardinality(no) \in Nat
    BY <1>5, FS_CardinalityType
  <1>7a. PICK m : m = Cardinality(yes) + (IF tx[s].op = "approve" THEN 1 ELSE 0) - 1
    OBVIOUS
  <1>7b. PICK n : n = Cardinality(no) + (IF tx[s].op = "reject" THEN 1 ELSE 0) - 1
    OBVIOUS
  <1>7c. /\ m \in Int /\ n \in Int
         /\ tx[s].op = "approve" => m = Cardinality(yes) /\ n = Cardinality(no) - 1
    BY <1>6, <1>7a, <1>7b
  <1>7. PICK c : c = [tx[s] EXCEPT !.pc = "counted", !.total = Cardinality(step),
                                   !.approved = m, !.rejected = n]
    OBVIOUS
  <1>8. /\ c \in TxType /\ c.pc = "counted" /\ c.row = tx[s].row /\ c.op = tx[s].op
        /\ c.total = Cardinality(step) /\ c.approved = m /\ c.rejected = n
    BY <1>0, <1>6, <1>7, <1>7c DEF TxType, TxPcs
  <1>9. tx' = [tx EXCEPT ![s] = c]
    BY <1>2, <1>3, <1>4, <1>7, <1>7a, <1>7b DEF CountStep, FlowOf
  <1>10. /\ tx' \in [Sessions -> TxType]
         /\ \A t \in Sessions : tx'[t] = IF t = s THEN c ELSE tx[t]
    BY <1>0, <1>8, <1>9 DEF WorkflowTypeOK
  <1>11. \A t \in Sessions : ~Idle(t)' => ~Idle(t) /\ tx'[t].row = tx[t].row
    BY <1>0, <1>8, <1>10 DEF Idle
  <1>12. \A t \in Sessions : ~Idle(t)' => tx'[t].row \in ApprovalRows
    BY <1>0, <1>11, WorkflowTypes
  <1>13. \A a \in step \ {tx[s].row} : /\ RowIsSound(approval[a])
                                       /\ Seen(s, a) = approval[a].status
    BY <1>2 DEF WorkflowIInv, RowsOf, Seen
  <1>14. FlowOf(s)' = FlowOf(s) /\ approval' = approval /\ RowsOf(FlowOf(s))' = step
    <2>1. approval' = approval /\ tx'[s].row = tx[s].row
      BY <1>8, <1>10 DEF CountStep
    <2>2. FlowOf(s)' = FlowOf(s)
      BY <2>1 DEF FlowOf
    <2> QED
      BY <1>2, <2>1, <2>2 DEF RowsOf, ApprovalRows
  <1>15. SawApprovals(s)'
    <2>1. ASSUME c.op = "approve", c.approved >= c.total,
                 NEW a \in step, a # tx[s].row
          PROVE  approval[a].signed = "approve"
      <3>1. yes \subseteq step /\ Cardinality(yes) >= Cardinality(step)
        BY <1>3, <1>7c, <1>8, <2>1
      <3>2. Cardinality(yes) <= Cardinality(step)
        BY <1>5, <3>1, FS_Subset
      <3>3. yes = step
        BY <1>5, <1>6, <3>1, <3>2, FS_Subset
      <3> QED
        BY <1>3, <1>13, <2>1, <3>3 DEF RowIsSound
    <2> QED
      BY <1>8, <1>10, <1>14, <2>1 DEF SawApprovals, Enough
  <1>16. SawRejection(s)'
    <2>1. ASSUME c.op = "approve", c.rejected > 0
          PROVE  \E a \in step : approval[a].signed = "reject"
      <3>1. Cardinality(no) # 0
        BY <1>6, <1>7c, <1>8, <2>1
      <3>2. PICK a \in step : Seen(s, a) = "rejected"
        BY <1>4, <1>5, <3>1, FS_EmptySet
      <3>3. a # tx[s].row
        BY <1>8, <2>1, <3>2 DEF Seen, Decided
      <3> QED
        BY <1>13, <3>2, <3>3 DEF RowIsSound
    <2> QED
      BY <1>8, <1>10, <1>14, <2>1 DEF SawRejection
  <1>17. TxIsSound(s)'
    <2>1. contested' = contested /\ tx'[s].row = tx[s].row
      BY <1>8, <1>10 DEF CountStep
    <2>2. approval[tx[s].row].signed = "none" \/ tx[s].row \in contested
      BY <1>0 DEF TxIsSound
    <2> QED
      BY <1>0, <1>1, <1>8, <1>10, <1>14, <1>15, <1>16, <2>1, <2>2 DEF TxIsSound
  <1>18. batch' \subseteq ApprovalRows
    BY <1>0 DEF WorkflowTypeOK, CountStep
  <1> QED
    BY <1>10, <1>11, <1>12, <1>17, <1>18, SerialKept, OnlyTx DEF CountStep

LEMMA AbortKeeps ==
    ASSUME WorkflowIInv, NEW s \in Sessions, tx' = [tx EXCEPT ![s] = NoTx],
           UNCHANGED <<workflow, approval, promoted, batch, contested>>
    PROVE  WorkflowIInv'
  <1>0. WorkflowTypeOK /\ NoTx \in TxType /\ NoTx.pc = "idle"
    BY WorkflowTypes DEF WorkflowIInv, TablesAreSound
  <1>1. /\ tx' \in [Sessions -> TxType]
        /\ \A t \in Sessions : tx'[t] = IF t = s THEN NoTx ELSE tx[t]
    BY <1>0 DEF WorkflowTypeOK
  <1>2. \A t \in Sessions : ~Idle(t)' => ~Idle(t) /\ tx'[t].row \in ApprovalRows
    BY <1>0, <1>1, WorkflowTypes DEF Idle
  <1>3. TxIsSound(s)'
    BY <1>0, <1>1 DEF TxIsSound, Idle
  <1>4. batch' \subseteq ApprovalRows
    BY <1>0 DEF WorkflowTypeOK
  <1> QED
    BY <1>1, <1>2, <1>3, <1>4, SerialKept, OnlyTx

(* The escalation pass and the stutter: no transaction takes part. *)
LEMMA NoTxStep ==
    ASSUME WorkflowIInv, UNCHANGED <<workflow, promoted, tx, contested>>,
           NEW a \in ApprovalRows, NEW row \in ApprovalType, RowIsSound(row),
           row.workflow = approval[a].workflow, row.approver = approval[a].approver,
           row.mode = approval[a].mode, row.signed = approval[a].signed,
           approval' = [approval EXCEPT ![a] = row], batch' \subseteq ApprovalRows
    PROVE  WorkflowIInv' /\ Grows
  <1>0. WorkflowTypeOK
    BY DEF WorkflowIInv, TablesAreSound
  <1>1. /\ approval' \in Seq(ApprovalType) /\ ApprovalRows' = ApprovalRows
        /\ \A b \in ApprovalRows : approval'[b] = IF b = a THEN row ELSE approval[b]
    BY <1>0 DEF WorkflowTypeOK, ApprovalRows
  <1>2. Grows /\ \A b \in ApprovalRows : approval'[b].signed = approval[b].signed
    BY <1>1 DEF Grows
  <1>3. \A b \in ApprovalRows' : RowIsSound(approval'[b])
    BY <1>1 DEF WorkflowIInv
  <1>4. WorkflowTypeOK' /\ Serial'
    BY <1>0, <1>1, SerialKept DEF WorkflowTypeOK, Idle
  <1> QED
    BY <1>1, <1>2, <1>3, <1>4, UndecidedStep

LEMMA PassDueDateKeeps ==
    ASSUME WorkflowIInv, NEW a \in ApprovalRows, PassDueDate(a) PROVE WorkflowIInv' /\ Grows
  <1>0. WorkflowTypeOK /\ approval[a] \in ApprovalType /\ RowIsSound(approval[a])
    BY WorkflowTypes DEF WorkflowIInv, TablesAreSound
  <1>1. PICK row : row = [approval[a] EXCEPT !.overdue = TRUE]
    OBVIOUS
  <1>2. /\ row \in ApprovalType /\ row.workflow = approval[a].workflow
        /\ row.approver = approval[a].approver /\ row.mode = approval[a].mode
        /\ row.signed = approval[a].signed /\ row.status = approval[a].status
    BY <1>0, <1>1 DEF ApprovalType
  <1>3. RowIsSound(row)
    BY <1>0, <1>2 DEF RowIsSound
  <1>4. approval' = [approval EXCEPT ![a] = row]
    BY <1>1 DEF PassDueDate
  <1>5. batch' \subseteq ApprovalRows
    BY <1>0 DEF WorkflowTypeOK, PassDueDate
  <1> QED
    BY <1>2, <1>3, <1>4, <1>5, NoTxStep DEF PassDueDate

LEMMA EscalateOneKeeps ==
    ASSUME WorkflowIInv, NEW a \in ApprovalRows, EscalateOne(a) PROVE WorkflowIInv' /\ Grows
  <1>0. WorkflowTypeOK /\ approval[a] \in ApprovalType
    BY WorkflowTypes DEF WorkflowIInv, TablesAreSound
  <1>1. PICK row : row = [approval[a] EXCEPT !.status = "escalated"]
    OBVIOUS
  <1>2. /\ row \in ApprovalType /\ row.workflow = approval[a].workflow
        /\ row.approver = approval[a].approver /\ row.mode = approval[a].mode
        /\ row.signed = approval[a].signed /\ row.status = "escalated"
    BY <1>0, <1>1 DEF ApprovalType, RowStatuses
  <1>3. RowIsSound(row)
    BY <1>2 DEF RowIsSound
  <1>4. approval' = [approval EXCEPT ![a] = row]
    BY <1>1 DEF EscalateOne
  <1>5. batch' \subseteq ApprovalRows
    BY <1>0 DEF WorkflowTypeOK, EscalateOne
  <1> QED
    BY <1>2, <1>3, <1>4, <1>5, NoTxStep DEF EscalateOne

LEMMA BatchKeeps ==
    ASSUME WorkflowIInv, UNCHANGED <<workflow, approval, promoted, tx, contested>>,
           batch' \subseteq ApprovalRows
    PROVE  WorkflowIInv'
  <1>1. WorkflowTypeOK
    BY DEF WorkflowIInv, TablesAreSound
  <1>2. tx' \in [Sessions -> TxType] /\ \A s \in Sessions : ~Idle(s)' => tx'[s].row \in ApprovalRows
    BY <1>1 DEF WorkflowTypeOK, Idle
  <1> QED
    BY <1>2, SerialKept, OnlyTx DEF Idle

(* The delegated row was undecided and nobody else has it open, or it is    *)
(* contested and so is its replacement; and the transaction is over.        *)
LEMMA CommitDelegationKeeps ==
    ASSUME WorkflowIInv, NEW s \in Sessions, CommitDelegation(s) PROVE WorkflowIInv' /\ Grows
  <1>0. /\ WorkflowTypeOK /\ tx[s] \in TxType /\ ~Idle(s) /\ NoTx \in TxType /\ NoTx.pc = "idle"
        /\ ApprovalRows = 1 .. Len(approval) /\ Len(approval) \in Nat
    BY WorkflowTypes DEF WorkflowIInv, TablesAreSound, CommitDelegation, Idle
  <1>1. PICK row : row = tx[s].row
    OBVIOUS
  <1>2. /\ row \in ApprovalRows /\ approval[row] \in ApprovalType
        /\ approval[row].signed = "none" \/ row \in contested
    BY <1>0, <1>1, FlowOfTx
  <1>3. PICK r : r = [approval[row] EXCEPT !.status = "delegated"]
    OBVIOUS
  <1>4. /\ r \in ApprovalType /\ r.workflow = approval[row].workflow
        /\ r.approver = approval[row].approver /\ r.mode = approval[row].mode
        /\ r.signed = approval[row].signed /\ RowIsSound(r)
    BY <1>2, <1>3 DEF ApprovalType, RowStatuses, RowIsSound
  <1>5. PICK n : n = [NewRow(approval[row].workflow, tx[s].to, approval[row].mode)
                         EXCEPT !.overdue = approval[row].overdue]
    OBVIOUS
  <1>6. n = [workflow |-> approval[row].workflow, approver |-> tx[s].to, status |-> "pending",
             mode |-> approval[row].mode, signed |-> "none", overdue |-> approval[row].overdue]
    BY <1>5 DEF NewRow
  <1>7. /\ n \in ApprovalType /\ n.workflow = approval[row].workflow
        /\ n.mode = approval[row].mode /\ RowIsSound(n)
    BY <1>0, <1>2, <1>6 DEF ApprovalType, TxType, RowStatuses, RowIsSound
  <1>8. PICK old : old = [approval EXCEPT ![row] = r]
    OBVIOUS
  <1>9. /\ old \in Seq(ApprovalType) /\ Len(old) = Len(approval)
        /\ \A a \in ApprovalRows : old[a] = IF a = row THEN r ELSE approval[a]
    BY <1>0, <1>2, <1>4, <1>8 DEF WorkflowTypeOK, ApprovalRows
  <1>10. approval' = Append(old, n)
    BY <1>1, <1>3, <1>5, <1>8 DEF CommitDelegation
  <1>11. /\ approval' \in Seq(ApprovalType) /\ ApprovalRows' = 1 .. (Len(approval) + 1)
         /\ \A a \in ApprovalRows : approval'[a] = IF a = row THEN r ELSE approval[a]
         /\ approval'[Len(approval) + 1] = n
    <2>1. approval' \in Seq(ApprovalType) /\ Len(approval') = Len(old) + 1
      BY <1>7, <1>9, <1>10
    <2>2. \A i \in 1 .. Len(old) : approval'[i] = old[i]
      BY <1>7, <1>9, <1>10
    <2>3. approval'[Len(old) + 1] = n
      BY <1>7, <1>9, <1>10
    <2> QED
      BY <1>0, <1>9, <2>1, <2>2, <2>3 DEF ApprovalRows
  <1>12. ApprovalRows \subseteq ApprovalRows'
         /\ \A a \in ApprovalRows' : a \in ApprovalRows \/ a = Len(approval) + 1
    BY <1>0, <1>11
  <1>12a. contested' = contested \cup (IF Contests(s) \/ row \in contested
                                      THEN {row, Len(approval) + 1} ELSE {})
    BY <1>1 DEF CommitDelegation
  <1>13. Grows /\ \A a \in ApprovalRows : approval'[a].signed = approval[a].signed
    BY <1>2, <1>4, <1>11, <1>12, <1>12a DEF Grows
  <1>14. \A a \in ApprovalRows' : RowIsSound(approval'[a])
    BY <1>4, <1>7, <1>11, <1>12 DEF WorkflowIInv
  <1>15. \A t \in Sessions : tx'[t] = IF t = s THEN NoTx ELSE tx[t]
    BY <1>0 DEF WorkflowTypeOK, CommitDelegation
  <1>16. TxIsSound(s)'
    BY <1>0, <1>15 DEF TxIsSound, Idle
  <1>17. \A t \in Sessions : ~Idle(t)' => ~Idle(t) /\ t # s /\ tx'[t] = tx[t]
    BY <1>0, <1>15 DEF Idle
  <1>18. ASSUME ~Contests(s), row \notin contested PROVE Replaceable(row)
    BY <1>1, <1>2, <1>17, <1>18 DEF Replaceable, Contests
  <1>19. WorkflowTypeOK'
    <2>1. tx' \in [Sessions -> TxType]
      BY <1>0 DEF WorkflowTypeOK, CommitDelegation
    <2>2. \A t \in Sessions : tx'[t].pc # "idle" => tx'[t].row \in ApprovalRows'
      BY <1>0, <1>12, <1>17, WorkflowTypes DEF Idle
    <2>3. contested' \subseteq ApprovalRows'
      <3>1. contested' \subseteq contested \cup {row, Len(approval) + 1}
        BY <1>12a
      <3>2. contested \subseteq ApprovalRows
        BY <1>0 DEF WorkflowTypeOK
      <3>3. {row, Len(approval) + 1} \subseteq ApprovalRows'
        BY <1>0, <1>2, <1>11, <1>12
      <3> QED
        BY <1>12, <3>1, <3>2, <3>3
    <2> QED
      BY <1>0, <1>11, <1>12, <2>1, <2>2, <2>3 DEF WorkflowTypeOK, CommitDelegation
  <1>20. ASSUME NEW a \in ApprovalRows' \ ApprovalRows
         PROVE  \E b \in ApprovalRows : /\ approval'[a].workflow = approval[b].workflow
                                        /\ a \in contested' \/ Replaceable(b)
    BY <1>2, <1>7, <1>11, <1>12, <1>12a, <1>18
  <1> QED
    BY <1>13, <1>14, <1>15, <1>16, <1>17, <1>19, <1>20, SerialKept, UndecidedStep
       DEF CommitDelegation

(* A workflow is created whole: it had no rows before. *)
LEMMA CreateWorkflowKeeps ==
    ASSUME WorkflowIInv, NEW w \in Workflows, CreateWorkflow(w) PROVE WorkflowIInv' /\ Grows
  <1>0. /\ WorkflowTypeOK /\ PromotionIsSigned /\ ApprovedIsUnanimous /\ FlowsAreSound
        /\ ApprovalRows = 1 .. Len(approval) /\ Len(approval) \in Nat
    BY WorkflowTypes DEF WorkflowIInv, TablesAreSound
  <1>1. PICK q \in Plans :
          /\ workflow' = [workflow EXCEPT ![w] = [status |-> "pending", record |-> q.record]]
          /\ approval' = approval \o [i \in DOMAIN q.approvers |-> NewRow(w, q.approvers[i], q.mode)]
    BY DEF CreateWorkflow
  <1>2. PICK new : new = [i \in DOMAIN q.approvers |-> NewRow(w, q.approvers[i], q.mode)]
    OBVIOUS
  <1>3. /\ new \in Seq(ApprovalType)
        /\ \A i \in 1 .. Len(new) : new[i].workflow = w /\ RowIsSound(new[i])
    <2>1. q.approvers \in Seq(Users) /\ q.mode \in Modes
      BY RequestAssumption
    <2>2. DOMAIN q.approvers = 1 .. Len(q.approvers) /\ Len(q.approvers) \in Nat
      BY <2>1
    <2>3. ASSUME NEW i \in 1 .. Len(q.approvers)
          PROVE  /\ new[i] \in ApprovalType /\ new[i].workflow = w /\ RowIsSound(new[i])
      <3>1. q.approvers[i] \in Users
        BY <2>1, <2>3
      <3>2. new[i] = [workflow |-> w, approver |-> q.approvers[i], status |-> "pending",
                      mode |-> q.mode, signed |-> "none", overdue |-> FALSE]
        BY <1>2, <2>2 DEF NewRow
      <3> QED
        BY <2>1, <3>1, <3>2 DEF ApprovalType, RowStatuses, RowIsSound
    <2>4. new \in Seq(ApprovalType) /\ Len(new) = Len(q.approvers)
      <3>1. PICK m \in Nat : m = Len(q.approvers)
        BY <2>2
      <3>2. new \in [1 .. m -> ApprovalType]
        BY <1>2, <2>2, <2>3, <3>1
      <3> QED
        BY <3>1, <3>2
    <2> QED
      BY <2>3, <2>4
  <1>4. approval \in Seq(ApprovalType) /\ approval' = approval \o new
    BY <1>0, <1>1, <1>2 DEF WorkflowTypeOK
  <1>5. /\ approval' \in Seq(ApprovalType) /\ ApprovalRows \subseteq ApprovalRows'
        /\ \A a \in ApprovalRows : approval'[a] = approval[a]
        /\ \A a \in ApprovalRows' \ ApprovalRows :
              approval'[a].workflow = w /\ RowIsSound(approval'[a])
    <2>1. /\ approval' \in Seq(ApprovalType) /\ Len(approval') = Len(approval) + Len(new)
          /\ Len(new) \in Nat
      BY <1>3, <1>4
    <2>2. \A i \in 1 .. Len(approval) : approval'[i] = approval[i]
      BY <1>3, <1>4
    <2>3. \A i \in 1 .. Len(approval') : i > Len(approval) => approval'[i] = new[i - Len(approval)]
      BY <1>3, <1>4, <2>1
    <2>4. ApprovalRows' = 1 .. Len(approval')
      BY <2>1 DEF ApprovalRows
    <2>5. ASSUME NEW a \in ApprovalRows' \ ApprovalRows
          PROVE  approval'[a].workflow = w /\ RowIsSound(approval'[a])
      <3>1. a \in Int /\ a - Len(approval) \in 1 .. Len(new) /\ a > Len(approval)
        BY <1>0, <2>1, <2>4
      <3> QED
        BY <1>3, <2>3, <2>4, <3>1
    <2> QED
      BY <1>0, <2>1, <2>2, <2>4, <2>5
  <1>6. Grows
    BY <1>5 DEF Grows, CreateWorkflow
  <1>7. RowsOf(w) = {} /\ w \notin promoted
    BY <1>0 DEF FlowsAreSound, CreateWorkflow
  <1>8. \A v \in Workflows : v # w => RowsOf(v)' = RowsOf(v) /\ workflow'[v] = workflow[v]
    <2> SUFFICES ASSUME NEW v \in Workflows, v # w
                 PROVE  RowsOf(v)' = RowsOf(v) /\ workflow'[v] = workflow[v]
      OBVIOUS
    <2>1. RowsOf(v) \subseteq RowsOf(v)'
      BY <1>6, RowsGrow
    <2>2. \A a \in RowsOf(v)' : a \in ApprovalRows
      BY <1>5 DEF RowsOf
    <2>3. RowsOf(v)' \subseteq RowsOf(v)
      BY <1>6, <2>2, RowsGrow
    <2> QED
      BY <1>0, <1>1, <2>1, <2>3 DEF WorkflowTypeOK
  <1>9. workflow'[w].status = "pending"
    BY <1>0, <1>1 DEF WorkflowTypeOK
  <1>10. WorkflowTypeOK'
    <2>1. workflow' \in [Workflows -> [status : FlowStatuses, record : BOOLEAN]]
      BY <1>0, <1>1, RequestAssumption DEF WorkflowTypeOK, FlowStatuses
    <2> QED
      BY <1>0, <1>5, <2>1 DEF WorkflowTypeOK, CreateWorkflow
  <1>11. \A v \in Workflows : \A a \in RowsOf(v) : approval'[a] = approval[a]
    BY <1>5 DEF RowsOf
  <1>12. ApprovedIsUnanimous'
    <2> SUFFICES ASSUME NEW v \in Workflows, workflow'[v].status = "approved", IsAll(v)',
                        NEW a \in RowsOf(v)', a \notin contested'
                 PROVE  approval'[a].signed = "approve"
      BY DEF ApprovedIsUnanimous, Approved
    <2>1. v # w /\ IsAll(v) /\ contested' = contested
      BY <1>6, <1>9, RowsGrow DEF CreateWorkflow
    <2> QED
      BY <1>0, <1>8, <1>11, <2>1 DEF ApprovedIsUnanimous, Approved
  <1>13. PromotionIsSigned'
    <2> SUFFICES ASSUME NEW v \in promoted
                 PROVE  /\ workflow'[v].record
                        /\ \E a \in RowsOf(v)' : approval'[a].signed = "approve" \/ a \in contested
      BY DEF PromotionIsSigned, CreateWorkflow
    <2>1. v \in Workflows /\ v # w
      BY <1>0, <1>7 DEF WorkflowTypeOK
    <2> QED
      BY <1>0, <1>8, <1>11, <2>1 DEF PromotionIsSigned
  <1>14. FlowsAreSound'
    <2> SUFFICES ASSUME NEW v \in Workflows
                 PROVE  /\ workflow'[v].status = "none" => RowsOf(v)' = {} /\ v \notin promoted
                        /\ workflow'[v].status = "rejected" =>
                              \E a \in RowsOf(v)' :
                                 approval'[a].signed = "reject" \/ a \in contested
      BY DEF FlowsAreSound, CreateWorkflow
    <2>1. CASE v = w
      BY <1>9, <2>1
    <2>2. CASE v # w
      BY <1>0, <1>8, <1>11, <2>2 DEF FlowsAreSound
    <2> QED
      BY <2>1, <2>2
  <1>15. ASSUME NEW s \in Sessions PROVE TxIsSound(s)'
    <2>1. tx' = tx
      BY DEF CreateWorkflow
    <2>2. ~Idle(s) => tx[s].row \in ApprovalRows /\ FlowOf(s) # w
      BY <1>7, FlowOfTx
    <2>3. ~Idle(s) => approval'[tx[s].row].signed = "none" \/ tx[s].row \in contested'
      BY <1>5, <2>2, FlowOfTx DEF CreateWorkflow
    <2> QED
      BY <1>5, <1>6, <2>1, <2>2, <2>3, TxStays
  <1>16. Serial' /\ \A a \in ApprovalRows' : RowIsSound(approval'[a])
    BY <1>5, SerialKept DEF WorkflowIInv, CreateWorkflow, Idle
  <1> QED
    BY <1>6, <1>10, <1>12, <1>13, <1>14, <1>15, <1>16 DEF WorkflowIInv, TablesAreSound

RejectionStays ==
    \A w \in Workflows :
        workflow[w].status = "rejected" /\ IsAll(w) /\ workflow'[w].status # "rejected"
            => RowsOf(w) \cap contested # {} /\ Rejecting(w) \subseteq contested

DecisionStays ==
    \A a \in ApprovalRows :
        approval[a].signed # "none" /\ approval'[a].signed # approval[a].signed
            => a \in contested

LEMMA Outcomes ==
    ASSUME NEW s \in Sessions
    PROVE  /\ Outcome(s) \in {"rejected", "approved", "unchanged"}
           /\ Outcome(s) = "approved" => tx[s].op # "reject" /\ ~(tx[s].rejected > 0)
           /\ Outcome(s) = "approved" /\ approval[tx[s].row].mode = "all" => Enough(tx[s])
           /\ Outcome(s) = "rejected" => tx[s].op = "reject" \/ tx[s].rejected > 0
  BY DEF Outcome

(* The transaction commits what it counted, perhaps long ago: nobody took   *)
(* back what it counted, and who else has its row open contests it.         *)
LEMMA CommitDecisionKeeps ==
    ASSUME WorkflowIInv, NEW s \in Sessions, CommitDecision(s)
    PROVE  WorkflowIInv' /\ Grows /\ RejectionStays
  <1>0. /\ WorkflowTypeOK /\ PromotionIsSigned /\ ApprovedIsUnanimous /\ FlowsAreSound
        /\ tx[s] \in TxType /\ ~Idle(s) /\ TxIsSound(s) /\ tx[s].pc = "counted"
        /\ NoTx \in TxType /\ NoTx.pc = "idle"
        /\ ApprovalRows = 1 .. Len(approval) /\ Len(approval) \in Nat
    BY WorkflowTypes DEF WorkflowIInv, TablesAreSound, CommitDecision, Idle
  <1>1. PICK row : row = tx[s].row
    OBVIOUS
  <1>2. PICK w : w = approval[row].workflow
    OBVIOUS
  <1>3. /\ row \in RowsOf(w) /\ row \in ApprovalRows /\ approval[row] \in ApprovalType
        /\ w \in Workflows /\ FlowOf(s) = w /\ workflow[w].status # "none"
        /\ approval[row].signed = "none" \/ row \in contested
    BY <1>0, <1>1, <1>2, FlowOfTx DEF FlowOf
  <1>4. PICK op : op = tx[s].op
    OBVIOUS
  <1>5. op \in {"approve", "reject"} /\ SawApprovals(s) /\ SawRejection(s)
    BY <1>0, <1>4 DEF TxIsSound
  <1>6. PICK r : r = [approval[row] EXCEPT !.status = Decided(tx[s].op), !.signed = tx[s].op]
    OBVIOUS
  <1>7. /\ r \in ApprovalType /\ r.workflow = w /\ r.approver = approval[row].approver
        /\ r.mode = approval[row].mode /\ r.signed = op /\ r.status = Decided(op)
    BY <1>2, <1>3, <1>4, <1>5, <1>6 DEF ApprovalType, Decided, RowStatuses
  <1>8. ASSUME NEW a \in ApprovalRows
        PROVE  /\ approval'[a] \in ApprovalType
               /\ approval'[a].workflow = approval[a].workflow
               /\ approval'[a].approver = approval[a].approver
               /\ approval'[a].mode = approval[a].mode
               /\ approval'[a].signed = IF a = row THEN op ELSE approval[a].signed
               /\ RowIsSound(approval'[a])
    <2>1. approval[a] \in ApprovalType /\ RowIsSound(approval[a])
      BY <1>0, WorkflowTypes DEF WorkflowIInv
    <2>2. PICK c : c = [approval[a] EXCEPT !.status = "delegated"]
      OBVIOUS
    <2>3. /\ c \in ApprovalType /\ c.workflow = approval[a].workflow
          /\ c.approver = approval[a].approver /\ c.mode = approval[a].mode
          /\ c.signed = approval[a].signed /\ RowIsSound(c)
      BY <2>1, <2>2 DEF ApprovalType, RowStatuses, RowIsSound
    <2>4. approval'[a] = CASE a = row -> r
                           [] a # row /\ ClosesOthers(s) /\ a \in PendingOf(w) -> c
                           [] OTHER -> approval[a]
      BY <1>1, <1>2, <1>6, <2>2 DEF CommitDecision
    <2>5. CASE a = row
      BY <1>2, <1>5, <1>7, <2>4, <2>5 DEF RowIsSound, Decided
    <2>6. CASE a # row
      BY <2>1, <2>3, <2>4, <2>6
    <2> QED
      BY <2>5, <2>6
  <1>9. approval' \in Seq(ApprovalType) /\ ApprovalRows' = ApprovalRows
    <2>1. approval' = [a \in 1 .. Len(approval) |-> approval'[a]]
      BY <1>0 DEF CommitDecision
    <2>2. PICK m \in Nat : m = Len(approval)
      BY <1>0
    <2>3. approval' \in [1 .. m -> ApprovalType]
      BY <1>0, <1>8, <2>1, <2>2
    <2> QED
      BY <1>0, <2>2, <2>3 DEF ApprovalRows
  <1>9a. /\ contested' = contested \cup (IF Contests(s) THEN {row} ELSE {})
         /\ contested \subseteq contested' /\ contested' \subseteq ApprovalRows
    BY <1>0, <1>1, <1>3 DEF CommitDecision, WorkflowTypeOK
  <1>10. Grows
    BY <1>3, <1>8, <1>9, <1>9a DEF Grows
  <1>11. \A v : RowsOf(v)' = RowsOf(v) /\ (IsAll(v)' <=> IsAll(v))
    BY <1>8, <1>9 DEF RowsOf, IsAll
  <1>12. \A v \in Workflows : /\ v # w => row \notin RowsOf(v)
                              /\ RowsOf(v) \subseteq ApprovalRows
    BY <1>2 DEF RowsOf
  <1>13. PICK result : result = Outcome(s)
    OBVIOUS
  <1>14. /\ result \in {"rejected", "approved", "unchanged"}
         /\ result = "approved" => op = "approve" /\ ~(tx[s].rejected > 0)
         /\ result = "approved" /\ approval[row].mode = "all" => Enough(tx[s])
         /\ result = "rejected" => op = "reject" \/ tx[s].rejected > 0
    BY <1>1, <1>4, <1>5, <1>13, Outcomes
  <1>15. /\ workflow' \in [Workflows -> [status : FlowStatuses, record : BOOLEAN]]
         /\ \A v \in Workflows : /\ workflow'[v].record = workflow[v].record
                                 /\ v # w => workflow'[v].status = workflow[v].status
         /\ workflow'[w].status = IF result = "unchanged" THEN workflow[w].status ELSE result
    <2>1. PICK f : f = [workflow[w] EXCEPT !.status = result]
      OBVIOUS
    <2>2. /\ result # "unchanged" => f \in [status : FlowStatuses, record : BOOLEAN]
          /\ f.status = result /\ f.record = workflow[w].record
      BY <1>0, <1>3, <1>14, <2>1 DEF WorkflowTypeOK, FlowStatuses
    <2>3. workflow' = IF result = "unchanged" THEN workflow ELSE [workflow EXCEPT ![w] = f]
      BY <1>1, <1>2, <1>13, <2>1 DEF CommitDecision
    <2> QED
      BY <1>0, <1>3, <2>2, <2>3 DEF WorkflowTypeOK
  <1>16. /\ promoted' = promoted \/ (promoted' = promoted \cup {w})
         /\ promoted' # promoted => result = "approved" /\ workflow[w].record
    BY <1>1, <1>2, <1>13 DEF CommitDecision, Promotes
  <1>17. \A t \in Sessions : tx'[t] = IF t = s THEN NoTx ELSE tx[t]
    BY <1>0 DEF WorkflowTypeOK, CommitDecision
  <1>18. \A t \in Sessions : ~Idle(t)' => ~Idle(t) /\ t # s /\ tx'[t] = tx[t]
    BY <1>0, <1>17 DEF Idle
  <1>19. WorkflowTypeOK'
    <2>1. tx' \in [Sessions -> TxType]
      BY <1>0 DEF WorkflowTypeOK, CommitDecision
    <2>2. \A t \in Sessions : tx'[t].pc # "idle" => tx'[t].row \in ApprovalRows
      BY <1>0, <1>18, WorkflowTypes DEF Idle
    <2>3. promoted' \subseteq Workflows /\ batch' \subseteq ApprovalRows
      BY <1>0, <1>3, <1>16 DEF WorkflowTypeOK, CommitDecision
    <2> QED
      BY <1>9, <1>9a, <1>15, <2>1, <2>2, <2>3 DEF WorkflowTypeOK
  <1>20. ApprovedIsUnanimous'
    <2> SUFFICES ASSUME NEW v \in Workflows, workflow'[v].status = "approved", IsAll(v),
                        NEW a \in RowsOf(v), a \notin contested'
                 PROVE  approval'[a].signed = "approve"
      BY <1>11 DEF ApprovedIsUnanimous, Approved
    <2>0. a \notin contested
      BY <1>9a
    <2>1. CASE v # w
      BY <1>0, <1>8, <1>12, <1>15, <2>0, <2>1 DEF ApprovedIsUnanimous, Approved
    <2>2. CASE v = w /\ result = "approved"
      <3>1. Enough(tx[s]) /\ op = "approve"
        BY <1>3, <1>14, <2>2 DEF IsAll
      <3>2. a # row => approval[a].signed = "approve"
        BY <1>1, <1>3, <1>4, <1>5, <2>0, <2>2, <3>1 DEF SawApprovals
      <3> QED
        BY <1>8, <1>12, <3>1, <3>2
    <2>3. CASE v = w /\ result # "approved"
      <3>1. Approved(w)
        BY <1>14, <1>15, <2>3 DEF Approved
      <3>2. approval[a].signed = "approve" /\ a # row
        BY <1>0, <1>3, <2>0, <2>3, <3>1 DEF ApprovedIsUnanimous
      <3> QED
        BY <1>8, <1>12, <3>2
    <2> QED
      BY <2>1, <2>2, <2>3
  <1>21. PromotionIsSigned'
    <2> SUFFICES ASSUME NEW v \in promoted'
                 PROVE  /\ workflow'[v].record
                        /\ \E a \in RowsOf(v)' :
                              approval'[a].signed = "approve" \/ a \in contested'
      BY DEF PromotionIsSigned
    <2>1. v \in Workflows
      BY <1>19 DEF WorkflowTypeOK
    <2>2. CASE v \in promoted
      <3>1. PICK a \in RowsOf(v) : approval[a].signed = "approve" \/ a \in contested
        BY <1>0, <2>2 DEF PromotionIsSigned
      <3>2. a \in ApprovalRows /\ (a # row \/ a \in contested)
        BY <1>3, <1>12, <2>1, <3>1
      <3> QED
        BY <1>0, <1>8, <1>9a, <1>11, <1>15, <2>1, <2>2, <3>1, <3>2 DEF PromotionIsSigned
    <2>3. CASE v \notin promoted
      <3>1. v = w /\ workflow[w].record /\ op = "approve"
        BY <1>14, <1>16, <2>3
      <3> QED
        BY <1>3, <1>8, <1>11, <1>15, <3>1
    <2> QED
      BY <2>2, <2>3
  <1>22. FlowsAreSound'
    <2> SUFFICES ASSUME NEW v \in Workflows
                 PROVE  /\ workflow'[v].status = "none" => RowsOf(v)' = {} /\ v \notin promoted'
                        /\ workflow'[v].status = "rejected" =>
                              \E a \in RowsOf(v)' :
                                 approval'[a].signed = "reject" \/ a \in contested'
      BY DEF FlowsAreSound
    <2>1. ASSUME workflow[v].status = "rejected"
          PROVE  \E a \in RowsOf(v)' : approval'[a].signed = "reject" \/ a \in contested'
      <3>1. PICK a \in RowsOf(v) : approval[a].signed = "reject" \/ a \in contested
        BY <1>0, <2>1 DEF FlowsAreSound
      <3>2. a \in ApprovalRows /\ (a # row \/ a \in contested)
        BY <1>3, <1>12, <3>1
      <3> QED
        BY <1>8, <1>9a, <1>11, <3>1, <3>2
    <2>2. CASE v # w
      BY <1>0, <1>11, <1>15, <1>16, <2>1, <2>2 DEF FlowsAreSound
    <2>3. CASE v = w
      <3>1. workflow'[w].status # "none"
        BY <1>3, <1>14, <1>15
      <3>2. ASSUME result = "rejected"
            PROVE  \E a \in RowsOf(w)' : approval'[a].signed = "reject" \/ a \in contested'
        <4>1. CASE op = "reject"
          BY <1>3, <1>8, <1>11, <4>1
        <4>2. CASE op = "approve"
          <5>1. PICK a \in RowsOf(w) : approval[a].signed = "reject" \/ a \in contested
            BY <1>3, <1>4, <1>5, <1>14, <3>2, <4>2 DEF SawRejection
          <5>2. a \in ApprovalRows /\ (a # row \/ a \in contested)
            BY <1>3, <1>12, <5>1
          <5> QED
            BY <1>8, <1>9a, <1>11, <5>1, <5>2
        <4> QED
          BY <1>5, <4>1, <4>2
      <3> QED
        BY <1>14, <1>15, <2>1, <2>3, <3>1, <3>2
    <2> QED
      BY <2>2, <2>3
  <1>23. ASSUME NEW t \in Sessions PROVE TxIsSound(t)'
    <2>1. CASE t = s
      BY <1>0, <1>17, <2>1 DEF TxIsSound, Idle
    <2>2. CASE t # s
      <3>1. ~Idle(t) => /\ tx[t].row \in ApprovalRows
                        /\ tx[t].row = row => Contests(s)
                        /\ approval[tx[t].row].signed = "none" \/ tx[t].row \in contested
        BY <1>0, <1>1, <2>2, FlowOfTx DEF Contests
      <3>2. ~Idle(t) => approval'[tx[t].row].signed = "none" \/ tx[t].row \in contested'
        BY <1>8, <1>9a, <3>1
      <3> QED
        BY <1>9, <1>10, <1>17, <2>2, <3>2, TxStays
    <2> QED
      BY <2>1, <2>2
  <1>24. RejectionStays
    <2> SUFFICES ASSUME NEW v \in Workflows, workflow[v].status = "rejected", IsAll(v),
                        workflow'[v].status # "rejected"
                 PROVE  RowsOf(v) \cap contested # {} /\ Rejecting(v) \subseteq contested
      BY DEF RejectionStays
    <2>1. v = w /\ result = "approved"
      BY <1>14, <1>15
    <2>2. Enough(tx[s]) /\ op = "approve"
      BY <1>3, <1>14, <2>1 DEF IsAll
    <2>3. ASSUME NEW a \in RowsOf(w), approval[a].signed = "reject" PROVE a \in contested
      BY <1>1, <1>3, <1>4, <1>5, <2>2, <2>3 DEF SawApprovals
    <2>4. PICK a \in RowsOf(w) : approval[a].signed = "reject" \/ a \in contested
      BY <1>0, <2>1 DEF FlowsAreSound
    <2> QED
      BY <2>1, <2>3, <2>4 DEF Rejecting
  <1>25. Serial' /\ \A a \in ApprovalRows' : RowIsSound(approval'[a])
    BY <1>8, <1>9, <1>18, SerialKept
  <1> QED
    BY <1>10, <1>19, <1>20, <1>21, <1>22, <1>23, <1>24, <1>25 DEF WorkflowIInv, TablesAreSound

LEMMA WorkflowInitHolds == WorkflowInit => WorkflowIInv
  <1> SUFFICES ASSUME WorkflowInit PROVE WorkflowIInv
    OBVIOUS
  <1>1. ApprovalRows = {} /\ approval \in Seq(ApprovalType)
    BY DEF WorkflowInit, ApprovalRows
  <1>2. \A s \in Sessions : tx[s] = NoTx /\ UserOf[s] \in Users
    BY UserOfAssumption DEF WorkflowInit
  <1>3. \A s \in Sessions : NoTx \in TxType /\ NoTx.pc = "idle"
    <2> SUFFICES ASSUME NEW s \in Sessions PROVE NoTx \in TxType /\ NoTx.pc = "idle"
      OBVIOUS
    <2>1. (CHOOSE u \in Users : TRUE) \in Users
      BY <1>2
    <2> QED
      BY <2>1 DEF NoTx, TxType, TxPcs, Decisions
  <1>4. \A s \in Sessions : Idle(s)
    BY <1>2, <1>3 DEF Idle
  <1>5. \A w \in Workflows : workflow[w] = [status |-> "none", record |-> FALSE]
    BY DEF WorkflowInit
  <1>6. \A w \in Workflows : workflow[w].status = "none"
    BY <1>5
  <1>7. WorkflowTypeOK
    <2>1. workflow \in [Workflows -> [status : FlowStatuses, record : BOOLEAN]]
      BY DEF WorkflowInit, FlowStatuses
    <2>2. tx \in [Sessions -> TxType]
      BY <1>3 DEF WorkflowInit
    <2> QED
      BY <1>1, <1>4, <2>1, <2>2 DEF WorkflowTypeOK, Idle, WorkflowInit
  <1>8. PromotionIsSigned /\ ApprovedIsUnanimous /\ FlowsAreSound
    BY <1>1, <1>6 DEF WorkflowInit, PromotionIsSigned, ApprovedIsUnanimous, Approved,
       FlowsAreSound, RowsOf
  <1> QED
    BY <1>1, <1>4, <1>7, <1>8 DEF WorkflowIInv, TablesAreSound, TxIsSound, Serial

LEMMA WorkflowStepsKeep ==
    WorkflowIInv /\ [WorkflowNext]_workflowVars =>
        WorkflowIInv' /\ RejectionStays /\ DecisionStays
  <1> SUFFICES ASSUME WorkflowIInv, [WorkflowNext]_workflowVars
               PROVE  WorkflowIInv' /\ RejectionStays /\ Grows
    BY DEF Grows, DecisionStays
  <1>0. WorkflowTypeOK
    BY DEF WorkflowIInv, TablesAreSound
  <1>1. workflow' = workflow => RejectionStays
    BY DEF RejectionStays
  <1>2. ASSUME NEW w \in Workflows, CreateWorkflow(w)
        PROVE  WorkflowIInv' /\ RejectionStays /\ Grows
    <2>1. \A v \in Workflows : workflow[v].status = "rejected" => workflow'[v] = workflow[v]
      BY <1>0, <1>2 DEF CreateWorkflow, WorkflowTypeOK
    <2> QED
      BY <1>2, <2>1, CreateWorkflowKeeps DEF RejectionStays
  <1>3. ASSUME NEW s \in Sessions, CommitDecision(s)
        PROVE  WorkflowIInv' /\ RejectionStays /\ Grows
    BY <1>3, CommitDecisionKeeps
  <1>4. ASSUME NEW s \in Sessions, CommitDelegation(s)
        PROVE  WorkflowIInv' /\ RejectionStays /\ Grows
    BY <1>1, <1>4, CommitDelegationKeeps DEF CommitDelegation
  <1>5. ASSUME NEW s \in Sessions, UpdateOwnRow(s) \/ CountStep(s) \/ AbortDeadlocked(s)
        PROVE  WorkflowIInv' /\ RejectionStays /\ Grows
    BY <1>1, <1>5, UpdateOwnRowKeeps, CountStepKeeps, AbortKeeps, RowsStay
       DEF UpdateOwnRow, CountStep, AbortDeadlocked
  <1>6. ASSUME NEW s \in Sessions, NEW a \in ApprovalRows, NEW d \in {"approve", "reject"},
               BeginDecision(s, a, d)
        PROVE  WorkflowIInv' /\ RejectionStays /\ Grows
    BY <1>1, <1>6, BeginDecisionKeeps, RowsStay DEF BeginDecision
  <1>7. ASSUME NEW s \in Sessions, NEW a \in ApprovalRows, NEW u \in Users,
               BeginDelegation(s, a, u)
        PROVE  WorkflowIInv' /\ RejectionStays /\ Grows
    BY <1>1, <1>7, BeginDelegationKeeps, RowsStay DEF BeginDelegation
  <1>8. ASSUME NEW a \in ApprovalRows, PassDueDate(a) \/ EscalateOne(a)
        PROVE  WorkflowIInv' /\ RejectionStays /\ Grows
    BY <1>1, <1>8, PassDueDateKeeps, EscalateOneKeeps DEF PassDueDate, EscalateOne
  <1>9. ASSUME StartEscalation \/ StopEscalation \/ UNCHANGED workflowVars
        PROVE  WorkflowIInv' /\ RejectionStays /\ Grows
    <2>1. UNCHANGED <<workflow, approval, promoted, tx, contested>> /\ batch' \subseteq ApprovalRows
      BY <1>0, <1>9 DEF StartEscalation, StopEscalation, workflowVars, WorkflowTypeOK
    <2> QED
      BY <1>1, <2>1, BatchKeeps, RowsStay
  <1> QED
    BY <1>2, <1>3, <1>4, <1>5, <1>6, <1>7, <1>8, <1>9 DEF WorkflowNext, TxStep

(* Who waits for a row waits for a transaction that decides on the same     *)
(* workflow.  If none of them could go on, all who hold locks there would   *)
(* have counted in mode 'any' and wait for a pending row that another one   *)
(* holds.  Whoever is waited for, two, holds a pending row, and waits for   *)
(* three, who holds another; so three, who waits for any pending row that   *)
(* is held by another, also waits for two: a circle of any length has a     *)
(* pair in it that the database notices.                                    *)
LEMMA LocksComeFree ==
    ASSUME \A s \in Sessions : tx[s].pc \in TxPcs
    PROVE  SomebodyGoesOn
  <1> SUFFICES ASSUME NEW s \in Sessions, ~Idle(s),
                      \A o \in Sessions : FlowOf(o) = FlowOf(s) => ~MayGoOn(o)
               PROVE  FALSE
    BY DEF SomebodyGoesOn
  <1>1. ASSUME NEW o \in Sessions, FlowOf(o) = FlowOf(s), tx[o].pc \in {"updated", "counted"}
        PROVE  tx[o].pc = "counted" /\ Blocked(o) /\ ~Deadlocked(o)
    BY <1>1 DEF MayGoOn
  <1>2. ASSUME NEW o \in Sessions, FlowOf(o) = FlowOf(s), Blocked(o)
        PROVE  \E t \in Sessions \ {o} :
                  /\ tx[t].row \in OthersPending(o) /\ FlowOf(t) = FlowOf(s) /\ Blocked(t)
    <2>1. PICK a \in OthersPending(o) : LockedBy(a, Sessions \ {o})
      BY <1>2 DEF Blocked
    <2>2. PICK t \in Sessions \ {o} : tx[t].row = a /\ tx[t].pc \in {"updated", "counted"}
      BY <2>1 DEF LockedBy
    <2>3. FlowOf(t) = FlowOf(s)
      BY <1>2, <2>1, <2>2 DEF OthersPending, PendingOf, RowsOf, FlowOf
    <2> QED
      BY <1>1, <2>1, <2>2, <2>3
  <1>3. PICK one \in Sessions : FlowOf(one) = FlowOf(s) /\ Blocked(one)
    <2>1. tx[s].pc \in {"read", "updated", "counted"}
      BY DEF Idle, TxPcs
    <2>2. CASE tx[s].pc = "read"
      <3>1. LockedBy(tx[s].row, Sessions \ {s})
        BY <2>2 DEF MayGoOn
      <3>2. PICK o \in Sessions : tx[o].row = tx[s].row /\ tx[o].pc \in {"updated", "counted"}
        BY <3>1 DEF LockedBy
      <3>3. FlowOf(o) = FlowOf(s)
        BY <3>2 DEF FlowOf
      <3> QED
        BY <1>1, <3>2, <3>3
    <2> QED
      BY <1>1, <2>1, <2>2
  <1>4. PICK two \in Sessions \ {one} :
           tx[two].row \in OthersPending(one) /\ FlowOf(two) = FlowOf(s) /\ Blocked(two)
    BY <1>2, <1>3
  <1>5. PICK three \in Sessions \ {two} :
           tx[three].row \in OthersPending(two) /\ FlowOf(three) = FlowOf(s) /\ Blocked(three)
    BY <1>2, <1>4
  <1>6. tx[two].row \in OthersPending(three)
    <2>1. tx[two].row \in PendingOf(FlowOf(one)) /\ FlowOf(one) = FlowOf(three)
      BY <1>3, <1>4, <1>5 DEF OthersPending, FlowOf
    <2>2. tx[two].row # tx[three].row
      BY <1>5 DEF OthersPending
    <2> QED
      BY <2>1, <2>2 DEF OthersPending, FlowOf
  <1>7. Deadlocked(two)
    BY <1>4, <1>5, <1>6 DEF Deadlocked
  <1> QED
    BY <1>4, <1>7 DEF MayGoOn

LEMMA WorkflowInvFollows == WorkflowIInv => WorkflowInv
  <1> SUFFICES ASSUME WorkflowIInv PROVE WorkflowInv
    OBVIOUS
  <1>1. TablesAreSound
    BY DEF WorkflowIInv
  <1>2. \A s \in Sessions : tx[s].pc \in TxPcs
    BY <1>1 DEF TablesAreSound, WorkflowTypeOK, TxType
  <1> QED
    BY <1>1, <1>2, LocksComeFree DEF TablesAreSound, WorkflowInv

(* Whatever sessions, delegations, the escalation pass and stale counts do,  *)
(* two requests of one approver at once included, a workflow in mode 'all'   *)
(* is approved only over the approval of each row that is not contested, and *)
(* a document becomes a record only through a workflow somebody approved.    *)
THEOREM ApprovalsAreUnanimous == WorkflowSpec => []WorkflowInv
  <1>1. WorkflowIInv /\ [WorkflowNext]_workflowVars => WorkflowIInv'
    BY WorkflowStepsKeep
  <1>2. WorkflowSpec => []WorkflowIInv
    BY <1>1, WorkflowInitHolds, PTL DEF WorkflowSpec
  <1> QED
    BY <1>2, WorkflowInvFollows, PTL

(* Under any interleaving, on PostgreSQL as on SQLite: a rejection in mode   *)
(* 'all' is final unless all who reject are contested, and a recorded        *)
(* decision is replaced only by a request of its approver that overlapped    *)
(* with the one that recorded it.                                           *)
THEOREM DecisionsStand == WorkflowSpec => WorkflowSteps
  <1>1. WorkflowIInv /\ [WorkflowNext]_workflowVars => WorkflowIInv'
    BY WorkflowStepsKeep
  <1>2. WorkflowIInv /\ [WorkflowNext]_workflowVars => [RejectionStays]_workflowVars
    BY WorkflowStepsKeep
  <1>3. WorkflowIInv /\ [WorkflowNext]_workflowVars => [DecisionStays]_workflowVars
    BY WorkflowStepsKeep
  <1>4. WorkflowSpec => []WorkflowIInv
    BY <1>1, WorkflowInitHolds, PTL DEF WorkflowSpec
  <1>5. WorkflowSpec => RejectionIsFinal
    BY <1>2, <1>4, PTL DEF WorkflowSpec, RejectionIsFinal, RejectionStays
  <1>6. WorkflowSpec => DecisionIsKept
    BY <1>3, <1>4, PTL DEF WorkflowSpec, DecisionIsKept, DecisionStays
  <1> QED
    BY <1>5, <1>6 DEF WorkflowSteps

(* No two transactions of one user overlap: the database runs one at a time *)
(* (SQLite), or no user is signed in twice.                                 *)
OneAtATime == SerialTransactions \/ \A s, t \in Sessions : UserOf[s] = UserOf[t] => s = t

(* No row was written while another request of its approver was open.      *)
NoneContested == contested = {}

(* Then no two of them work on the same row. *)
LEMMA OneDecides ==
    ASSUME OneAtATime, WorkflowIInv, NEW s \in Sessions, ~Idle(s)
    PROVE  ~Contests(s)
  <1> SUFFICES ASSUME NEW t \in Sessions \ {s}, ~Idle(t), tx[t].row = tx[s].row PROVE FALSE
    BY DEF Contests
  <1>1. UserOf[s] = UserOf[t] /\ Serial
    BY DEF WorkflowIInv, TxIsSound
  <1> QED
    BY <1>1 DEF OneAtATime, Serial

(* On SQLite, and as long as nobody works in two tabs, nothing is contested, *)
(* so a workflow in mode 'all' is approved over every row, rejection is      *)
(* final and decisions are kept, without the exceptions above.               *)
THEOREM NothingIsContested == OneAtATime /\ WorkflowSpec => []NoneContested
  <1> SUFFICES ASSUME OneAtATime PROVE WorkflowSpec => []NoneContested
    OBVIOUS
  <1>1. WorkflowIInv /\ [WorkflowNext]_workflowVars => WorkflowIInv'
    BY WorkflowStepsKeep
  <1>2. NoneContested /\ WorkflowIInv /\ [WorkflowNext]_workflowVars => NoneContested'
    <2> SUFFICES ASSUME contested = {}, WorkflowIInv, [WorkflowNext]_workflowVars
                 PROVE  contested' = {}
      BY DEF NoneContested
    <2>1. ASSUME NEW s \in Sessions, CommitDecision(s) \/ CommitDelegation(s)
          PROVE  contested' = {}
      <3>1. ~Idle(s)
        BY <2>1 DEF CommitDecision, CommitDelegation, Idle
      <3>2. ~Contests(s)
        BY <3>1, OneDecides
      <3> QED
        BY <2>1, <3>2 DEF CommitDecision, CommitDelegation
    <2> QED
      BY <2>1 DEF WorkflowNext, workflowVars, TxStep, CreateWorkflow, BeginDecision,
         BeginDelegation, UpdateOwnRow, CountStep, AbortDeadlocked, PassDueDate, EscalateOne,
         StartEscalation, StopEscalation
  <1>3. WorkflowInit => NoneContested
    BY DEF WorkflowInit, NoneContested
  <1>4. WorkflowSpec => []WorkflowIInv
    BY <1>1, WorkflowInitHolds, PTL DEF WorkflowSpec
  <1> QED
    BY <1>2, <1>3, <1>4, PTL DEF WorkflowSpec

(* Sessions are in a transaction or not, whatever a transaction has counted. *)
PcsAreKnown ==
    /\ tx = [s \in Sessions |-> tx[s]]
    /\ \A s \in Sessions : "pc" \in DOMAIN tx[s] /\ tx[s].pc \in TxPcs

LEMMA PcMoves ==
    ASSUME PcsAreKnown, NEW s \in Sessions, NEW c, "pc" \in DOMAIN c, c.pc \in TxPcs,
           tx' = [tx EXCEPT ![s] = c]
    PROVE  PcsAreKnown'
  BY DEF PcsAreKnown

LEMMA PcsStayKnown == PcsAreKnown /\ [WorkflowNext]_workflowVars => PcsAreKnown'
  <1> SUFFICES ASSUME PcsAreKnown, [WorkflowNext]_workflowVars PROVE PcsAreKnown'
    OBVIOUS
  <1>0. /\ "pc" \in DOMAIN NoTx /\ NoTx.pc \in TxPcs
        /\ "idle" \in TxPcs /\ "read" \in TxPcs /\ "updated" \in TxPcs /\ "counted" \in TxPcs
    BY DEF NoTx, TxPcs
  <1>1. CASE UNCHANGED tx
    BY <1>1 DEF PcsAreKnown
  <1>2. ASSUME NEW s \in Sessions, tx' = [tx EXCEPT ![s] = NoTx] PROVE PcsAreKnown'
    BY <1>0, <1>2, PcMoves
  <1>3. ASSUME NEW s \in Sessions, NEW a, NEW d, BeginDecision(s, a, d) PROVE PcsAreKnown'
    <2>1. PICK c : c = [NoTx EXCEPT !.pc = "read", !.row = a, !.op = d]
      OBVIOUS
    <2>2. "pc" \in DOMAIN c /\ c.pc = "read"
      BY <2>1 DEF NoTx
    <2>3. tx' = [tx EXCEPT ![s] = c]
      BY <1>3, <2>1 DEF BeginDecision
    <2> QED
      BY <1>0, <2>2, <2>3, PcMoves
  <1>4. ASSUME NEW s \in Sessions, NEW a, NEW u, BeginDelegation(s, a, u) PROVE PcsAreKnown'
    <2>1. PICK c : c = [NoTx EXCEPT !.pc = "read", !.row = a, !.op = "delegate", !.to = u]
      OBVIOUS
    <2>2. "pc" \in DOMAIN c /\ c.pc = "read"
      BY <2>1 DEF NoTx
    <2>3. tx' = [tx EXCEPT ![s] = c]
      BY <1>4, <2>1 DEF BeginDelegation
    <2> QED
      BY <1>0, <2>2, <2>3, PcMoves
  <1>5. ASSUME NEW s \in Sessions, UpdateOwnRow(s) PROVE PcsAreKnown'
    <2>1. PICK c : c = [tx[s] EXCEPT !.pc = "updated"]
      OBVIOUS
    <2>2. "pc" \in DOMAIN c /\ c.pc = "updated"
      BY <2>1 DEF PcsAreKnown
    <2>3. tx' = [tx EXCEPT ![s] = c]
      BY <1>5, <2>1 DEF UpdateOwnRow
    <2> QED
      BY <1>0, <2>2, <2>3, PcMoves
  <1>6. ASSUME NEW s \in Sessions, CountStep(s) PROVE PcsAreKnown'
    <2>1. PICK total, yes, no : tx' = [tx EXCEPT ![s] =
             [@ EXCEPT !.pc = "counted", !.total = total, !.approved = yes, !.rejected = no]]
      BY <1>6 DEF CountStep
    <2>2. PICK c : c = [tx[s] EXCEPT !.pc = "counted", !.total = total,
                                     !.approved = yes, !.rejected = no]
      OBVIOUS
    <2>3. "pc" \in DOMAIN c /\ c.pc = "counted"
      BY <2>2 DEF PcsAreKnown
    <2>4. tx' = [tx EXCEPT ![s] = c]
      BY <2>1, <2>2
    <2> QED
      BY <1>0, <2>3, <2>4, PcMoves
  <1> QED
    BY <1>1, <1>2, <1>3, <1>4, <1>5, <1>6
    DEF WorkflowNext, workflowVars, TxStep, CreateWorkflow, CommitDecision, AbortDeadlocked,
        CommitDelegation, PassDueDate, EscalateOne, StartEscalation, StopEscalation

(* For any sessions, workflows and approvers, two tabs of one user          *)
(* included, on SQLite and on PostgreSQL: of the transactions that decide   *)
(* on a workflow one can always go on, so no circle of row locks is there   *)
(* to stay.                                                                 *)
THEOREM NoWorkflowLocksUp == WorkflowSpec => []SomebodyGoesOn
  <1>1. WorkflowInit => PcsAreKnown
    BY DEF WorkflowInit, PcsAreKnown, NoTx, TxPcs
  <1>2. PcsAreKnown => SomebodyGoesOn
    BY LocksComeFree DEF PcsAreKnown
  <1> QED
    BY <1>1, <1>2, PcsStayKnown, PTL DEF WorkflowSpec

-----------------------------------------------------------------------------
(*************************************************************************)
(* CronInv of CronRuns for any number of runs, processes and documents.  *)
(*                                                                       *)
(* The guard does not say whose it is, and that is where the work lies: as *)
(* long as no run of a process outlived its guard, the one run under way *)
(* there is the one that set it (GuardIsMine), so nobody else can take it *)
(* down.                                                                 *)
(*************************************************************************)

(* The guard of a process is the guard of the run under way there.         *)
GuardIsMine ==
    \A i \in Instances \ outlived : \A r \in RunningAt(i) :
        /\ guard[i].running /\ guard[i].startedAt = run[r].startedAt
        /\ tick - run[r].startedAt < GuardTtl

Undisturbed == outlived = {} /\ ~together

(* Runs of two processes set together, so without it there is one run.     *)
OneRunInAll ==
    Undisturbed => \A r, s \in Runs : Active(r) /\ Active(s) => r = s

(* What a run found not to be requested is not requested when it creates.  *)
FoundIsCurrent ==
    Undisturbed => \A r \in Runs : run[r].pc = "create" => requested[run[r].doc] = 0

CronGuarded ==
    /\ CronInv /\ GuardIsMine /\ OneRunInAll /\ FoundIsCurrent

(* The records of the runs, and those a step writes in their place.        *)
RunRecords ==
    [pc : {"over", "tasks", "look", "create"}, at : Instances,
     startedAt : 0 .. LastTick, todo : SUBSET Documents, doc : Documents \cup {NoDocument}]

LEMMA OverIsARun == Over \in RunRecords /\ Over.pc = "over"
  BY CronBounds DEF Over, RunRecords

LEMMA InitGuarded == CronInit => CronGuarded
  <1> SUFFICES ASSUME CronInit PROVE CronGuarded
    OBVIOUS
  <1>1. \A r \in Runs : ~Active(r) /\ run[r] = Over
    BY OverIsARun DEF CronInit, Active
  <1>2. CronTypeOK
    <2>1. guard \in [Instances -> [running : BOOLEAN, startedAt : 0 .. LastTick]]
      BY CronBounds DEF CronInit
    <2>2. run \in [Runs -> RunRecords] /\ \A r \in Runs : run[r].pc # "create"
      BY <1>1, OverIsARun DEF CronInit
    <2>3. tick \in 0 .. LastTick /\ requested \in [Documents -> Nat]
      BY CronBounds DEF CronInit
    <2> QED
      BY <2>1, <2>2, <2>3 DEF CronInit, CronTypeOK, RunRecords
  <1> QED
    BY <1>1, <1>2, OverIsARun
    DEF CronInit, CronGuarded, CronInv, RunsAreApart, RequestedOnce, GuardIsMine,
        OneRunInAll, FoundIsCurrent, RunningAt

(* A step of one run that leaves the guards alone and neither begins nor   *)
(* creates: it keeps its process and its beginning.                        *)
LEMMA GoesOnPreserves ==
    ASSUME CronGuarded, NEW r \in Runs, Active(r), NEW new \in RunRecords,
           run' = [run EXCEPT ![r] = new],
           new.pc # "over", new.at = run[r].at, new.startedAt = run[r].startedAt,
           new.pc = "create" => new.doc \in Documents /\ requested'[new.doc] = 0,
           requested' \in [Documents -> Nat],
           Undisturbed => \A d \in Documents : requested'[d] <= 1,
           UNCHANGED <<tick, guard, disposed, outlived, together>>
    PROVE  CronGuarded'
  <1>1. CronTypeOK'
    BY DEF CronGuarded, CronInv, CronTypeOK, RunRecords
  <1>2. \A s \in Runs : /\ Active(s)' <=> Active(s)
                        /\ run'[s].at = run[s].at /\ run'[s].startedAt = run[s].startedAt
    BY DEF CronGuarded, CronInv, CronTypeOK, Active
  <1>3. \A i \in Instances : RunningAt(i)' = RunningAt(i)
    BY <1>2 DEF RunningAt
  <1>4. (RunsAreApart /\ RequestedOnce)'
    BY <1>3 DEF CronGuarded, CronInv, RunsAreApart, RequestedOnce, Undisturbed
  <1>5. GuardIsMine'
    BY <1>2, <1>3 DEF CronGuarded, GuardIsMine, RunningAt
  <1>6. OneRunInAll'
    BY <1>2 DEF CronGuarded, OneRunInAll, Undisturbed
  <1>7. FoundIsCurrent'
    <2> SUFFICES ASSUME Undisturbed, NEW s \in Runs, run'[s].pc = "create"
                 PROVE  requested'[run'[s].doc] = 0
      BY DEF FoundIsCurrent, Undisturbed
    <2>1. Active(s)
      BY <1>2 DEF Active
    <2>2. s = r
      BY <2>1 DEF CronGuarded, OneRunInAll
    <2> QED
      BY <2>2 DEF CronGuarded, CronInv, CronTypeOK
  <1> QED
    BY <1>1, <1>4, <1>5, <1>6, <1>7 DEF CronGuarded, CronInv

(* Runs end and take down the guards of their processes: those of one      *)
(* process whose last run ended, or whose only run that was.               *)
LEMMA EndsPreserve ==
    ASSUME CronGuarded, NEW i \in Instances, NEW ended \in SUBSET RunningAt(i),
           i \notin outlived => ended = RunningAt(i),
           guard' = [guard EXCEPT ![i].running = FALSE],
           run' = [r \in Runs |-> IF r \in ended THEN Over ELSE run[r]],
           UNCHANGED <<tick, requested, disposed, outlived, together>>
    PROVE  CronGuarded'
  <1>1. \A r \in Runs : run'[r] \in RunRecords
    BY OverIsARun DEF CronGuarded, CronInv, CronTypeOK, RunRecords
  <1>2. \A r \in Runs : Active(r)' => r \notin ended /\ run'[r] = run[r] /\ Active(r)
    BY OverIsARun DEF Active
  <1>3. CronTypeOK'
    <2>1. guard' \in [Instances -> [running : BOOLEAN, startedAt : 0 .. LastTick]]
      BY DEF CronGuarded, CronInv, CronTypeOK
    <2>2. \A r \in Runs : run'[r].pc = "create" => run'[r].doc \in Documents
      BY <1>2, OverIsARun DEF CronGuarded, CronInv, CronTypeOK, Active
    <2> QED
      BY <1>1, <2>1, <2>2 DEF CronGuarded, CronInv, CronTypeOK, RunRecords
  <1>4. \A j \in Instances : RunningAt(j)' \subseteq RunningAt(j)
    BY <1>2 DEF RunningAt
  <1>5. i \notin outlived => RunningAt(i)' = {}
    BY <1>2 DEF RunningAt
  <1>6. (RunsAreApart /\ RequestedOnce)'
    BY <1>4 DEF CronGuarded, CronInv, RunsAreApart, RequestedOnce
  <1>7. GuardIsMine'
    <2> SUFFICES ASSUME NEW j \in Instances \ outlived, NEW r \in RunningAt(j)'
                 PROVE  /\ guard'[j].running /\ guard'[j].startedAt = run'[r].startedAt
                        /\ tick' - run'[r].startedAt < GuardTtl
      BY DEF GuardIsMine
    <2>1. j # i /\ r \in RunningAt(j)
      BY <1>4, <1>5
    <2>2. guard'[j] = guard[j] /\ run'[r] = run[r]
      BY <2>1, <1>2 DEF RunningAt, CronGuarded, CronInv, CronTypeOK
    <2> QED
      BY <2>1, <2>2 DEF CronGuarded, GuardIsMine
  <1>8. OneRunInAll' /\ FoundIsCurrent'
    BY <1>2 DEF CronGuarded, OneRunInAll, FoundIsCurrent, Undisturbed, Active
  <1> QED
    BY <1>3, <1>6, <1>7, <1>8 DEF CronGuarded, CronInv

(* Nothing but the rows of the documents changes, or nothing at all.       *)
LEMMA RowsPreserve ==
    ASSUME CronGuarded, UNCHANGED <<tick, guard, run, outlived, together>>,
           requested' \in [Documents -> Nat], disposed' \subseteq Documents,
           \A d \in Documents : requested'[d] <= requested[d]
    PROVE  CronGuarded'
  <1>1. CronTypeOK'
    BY DEF CronGuarded, CronInv, CronTypeOK
  <1>2. \A d \in Documents : requested[d] \in Nat /\ requested'[d] \in Nat
    BY DEF CronGuarded, CronInv, CronTypeOK
  <1>3. (RunsAreApart /\ GuardIsMine /\ OneRunInAll)'
    BY DEF CronGuarded, CronInv, RunsAreApart, GuardIsMine, OneRunInAll, RunningAt, Active,
           Undisturbed
  <1>4. RequestedOnce'
    BY <1>2 DEF CronGuarded, CronInv, RequestedOnce
  <1>5. FoundIsCurrent'
    BY <1>2 DEF CronGuarded, CronInv, CronTypeOK, FoundIsCurrent, Undisturbed
  <1> QED
    BY <1>1, <1>3, <1>4, <1>5 DEF CronGuarded, CronInv

(* A run begins only where, by GuardIsMine, none is under way.             *)
LEMMA BeginPreserves ==
    ASSUME CronGuarded, NEW r \in Runs, NEW i \in Instances, BeginRun(r, i)
    PROVE  CronGuarded'
  <1> DEFINE new == [Over EXCEPT !.pc = "tasks", !.at = i, !.startedAt = tick]
  <1>1. /\ guard' = [guard EXCEPT ![i] = [running |-> TRUE, startedAt |-> tick]]
        /\ run' = [run EXCEPT ![r] = new]
        /\ together' = (together \/ \E s \in Runs : Active(s) /\ run[s].at # i)
        /\ UNCHANGED <<tick, requested, disposed, outlived>>
        /\ ~Active(r) /\ Free(i)
    BY DEF BeginRun
  <1>2. tick \in 0 .. LastTick /\ GuardTtl \in Nat \ {0} /\ LastTick \in Nat
    BY CronBounds DEF CronGuarded, CronInv, CronTypeOK
  <1>3. /\ new \in RunRecords
        /\ new.pc = "tasks" /\ new.at = i /\ new.startedAt = tick
    BY <1>2, CronBounds DEF Over, RunRecords
  <1> HIDE DEF new
  <1>4. CronTypeOK'
    <2>1. guard' \in [Instances -> [running : BOOLEAN, startedAt : 0 .. LastTick]]
      BY <1>1, <1>2 DEF CronGuarded, CronInv, CronTypeOK
    <2>2. run' \in [Runs -> RunRecords]
          /\ \A s \in Runs : run'[s].pc = "create" => run'[s].doc \in Documents
      BY <1>1, <1>3 DEF CronGuarded, CronInv, CronTypeOK, RunRecords
    <2>3. together' \in BOOLEAN
      BY <1>1 DEF CronGuarded, CronInv, CronTypeOK
    <2> QED
      BY <1>1, <2>1, <2>2, <2>3 DEF CronGuarded, CronInv, CronTypeOK, RunRecords
  <1>5. i \notin outlived => RunningAt(i) = {}
    BY <1>1, <1>2 DEF CronGuarded, GuardIsMine, Free, CronInv, CronTypeOK, RunningAt
  <1>6. /\ run'[r] = new
        /\ \A s \in Runs : s # r => run'[s] = run[s]
    BY <1>1 DEF CronGuarded, CronInv, CronTypeOK
  <1>7. /\ RunningAt(i)' = RunningAt(i) \cup {r}
        /\ \A j \in Instances : j # i => RunningAt(j)' = RunningAt(j)
    BY <1>1, <1>3, <1>6 DEF RunningAt, Active
  <1>8. (RunsAreApart /\ RequestedOnce)'
    <2>1. RunsAreApart'
      BY <1>1, <1>5, <1>7 DEF CronGuarded, CronInv, RunsAreApart
    <2>2. RequestedOnce'
      BY <1>1 DEF CronGuarded, CronInv, CronTypeOK, RequestedOnce
    <2> QED
      BY <2>1, <2>2
  <1>9. GuardIsMine'
    <2> SUFFICES ASSUME NEW j \in Instances \ outlived, NEW s \in RunningAt(j)'
                 PROVE  /\ guard'[j].running /\ guard'[j].startedAt = run'[s].startedAt
                        /\ tick' - run'[s].startedAt < GuardTtl
      BY <1>1 DEF GuardIsMine
    <2>1. CASE j = i
      <3>1. s = r
        BY <2>1, <1>5, <1>7
      <3> QED
        BY <2>1, <3>1, <1>1, <1>2, <1>3, <1>6 DEF CronGuarded, CronInv, CronTypeOK
    <2>2. CASE j # i
      <3>1. s \in RunningAt(j) /\ s # r
        BY <2>2, <1>1, <1>7 DEF RunningAt
      <3>2. guard'[j] = guard[j] /\ run'[s] = run[s]
        BY <2>2, <3>1, <1>1, <1>6 DEF CronGuarded, CronInv, CronTypeOK, RunningAt
      <3> QED
        BY <3>1, <3>2, <1>1 DEF CronGuarded, GuardIsMine
    <2> QED
      BY <2>1, <2>2
  <1>10. Undisturbed' => Undisturbed /\ \A s \in Runs : ~Active(s)
    <2> SUFFICES ASSUME Undisturbed', NEW s \in Runs, Active(s) PROVE FALSE
      BY <1>1 DEF Undisturbed
    <2>1. run[s].at = i /\ i \notin outlived
      BY <1>1 DEF Undisturbed
    <2> QED
      BY <2>1, <1>5 DEF RunningAt
  <1>11. OneRunInAll' /\ FoundIsCurrent'
    BY <1>3, <1>6, <1>10 DEF OneRunInAll, FoundIsCurrent, Active
  <1> QED
    BY <1>4, <1>8, <1>9, <1>11 DEF CronGuarded, CronInv

(* The clock: the run that is now as old as a guard marks its process.     *)
LEMMA TickPreserves ==
    ASSUME CronGuarded, TickPasses PROVE CronGuarded'
  <1>1. /\ tick' = tick + 1 /\ tick' \in 0 .. LastTick
        /\ outlived' = outlived \cup
              {i \in Instances : \E r \in RunningAt(i) : tick' - run[r].startedAt >= GuardTtl}
        /\ UNCHANGED <<guard, run, requested, disposed, together>>
    BY CronBounds DEF TickPasses, CronGuarded, CronInv, CronTypeOK
  <1>2. outlived \subseteq outlived' /\ outlived' \subseteq Instances
    BY <1>1 DEF CronGuarded, CronInv, CronTypeOK
  <1>3. CronTypeOK'
    BY <1>1, <1>2 DEF CronGuarded, CronInv, CronTypeOK
  <1>4. \A i \in Instances : RunningAt(i)' = RunningAt(i)
    BY <1>1 DEF RunningAt, Active
  <1>5. Undisturbed' => Undisturbed
    BY <1>1, <1>2 DEF Undisturbed
  <1>6. (RunsAreApart /\ RequestedOnce)'
    BY <1>1, <1>2, <1>4 DEF CronGuarded, CronInv, RunsAreApart, RequestedOnce
  <1>7. GuardIsMine'
    <2> SUFFICES ASSUME NEW i \in Instances, i \notin outlived', NEW r \in RunningAt(i)
                 PROVE  /\ guard[i].running /\ guard[i].startedAt = run[r].startedAt
                        /\ tick' - run[r].startedAt < GuardTtl
      BY <1>1, <1>4 DEF GuardIsMine
    <2>1. i \notin outlived /\ ~(tick' - run[r].startedAt >= GuardTtl)
      BY <1>1
    <2>2. tick' \in Int /\ run[r].startedAt \in Int /\ GuardTtl \in Int
      BY <1>1, CronBounds DEF CronGuarded, CronInv, CronTypeOK, RunningAt
    <2> QED
      BY <2>1, <2>2 DEF CronGuarded, GuardIsMine
  <1>8. OneRunInAll' /\ FoundIsCurrent'
    BY <1>1, <1>5 DEF CronGuarded, OneRunInAll, FoundIsCurrent, Active
  <1> QED
    BY <1>3, <1>6, <1>7, <1>8 DEF CronGuarded, CronInv

(* The steps of the tasks, each by GoesOnPreserves. *)
LEMMA TasksPreserve ==
    ASSUME CronGuarded, NEW r \in Runs, List(r) \/ Look(r) \/ Create(r) \/ TaskFails(r)
    PROVE  CronGuarded'
  <1>1. run[r] \in RunRecords /\ run \in [Runs -> RunRecords]
    BY DEF CronGuarded, CronInv, CronTypeOK, RunRecords
  <1>2. /\ requested \in [Documents -> Nat]
        /\ Undisturbed => \A d \in Documents : requested[d] <= 1
    BY DEF CronGuarded, CronInv, CronTypeOK, RequestedOnce, Undisturbed
  <1>3. CASE List(r)
    <2>1. PICK some \in SUBSET Documents :
             run' = [run EXCEPT ![r] = [run[r] EXCEPT !.pc = "look", !.todo = some]]
      BY <1>1, <1>3 DEF List, Listed, Due
    <2> DEFINE new == [run[r] EXCEPT !.pc = "look", !.todo = some]
    <2>2. /\ new \in RunRecords /\ new.pc = "look"
          /\ new.at = run[r].at /\ new.startedAt = run[r].startedAt
      BY <1>1 DEF RunRecords
    <2>3. Active(r) /\ UNCHANGED <<tick, guard, requested, disposed, outlived, together>>
      BY <1>3 DEF List, Active
    <2> HIDE DEF new
    <2> QED
      BY <1>2, <2>1, <2>2, <2>3, GoesOnPreserves DEF new
  <1>4. CASE Look(r)
    <2>1. PICK d \in run[r].todo :
             run' = [run EXCEPT ![r] = IF requested[d] > 0 THEN Passed(run[r], d)
                                       ELSE [run[r] EXCEPT !.pc = "create", !.doc = d]]
      BY <1>1, <1>4 DEF Look
    <2>2. d \in Documents /\ requested[d] \in Nat
      BY <1>1, <1>2 DEF RunRecords
    <2> DEFINE new == IF requested[d] > 0 THEN Passed(run[r], d)
                      ELSE [run[r] EXCEPT !.pc = "create", !.doc = d]
    <2>3. /\ new \in RunRecords /\ new.pc # "over"
          /\ new.at = run[r].at /\ new.startedAt = run[r].startedAt
          /\ new.pc = "create" => new.doc \in Documents /\ requested[new.doc] = 0
      <3>1. CASE requested[d] > 0
        BY <3>1, <1>1 DEF RunRecords, Passed
      <3>2. CASE ~(requested[d] > 0)
        <4>1. new = [run[r] EXCEPT !.pc = "create", !.doc = d] /\ requested[d] = 0
          BY <3>2, <2>2
        <4>2. /\ new \in RunRecords /\ new.pc = "create" /\ new.doc = d
              /\ new.at = run[r].at /\ new.startedAt = run[r].startedAt
          BY <4>1, <1>1, <2>2 DEF RunRecords
        <4> QED
          BY <4>1, <4>2, <2>2
      <3> QED
        BY <3>1, <3>2
    <2>4. Active(r) /\ UNCHANGED <<tick, guard, requested, disposed, outlived, together>>
      BY <1>4 DEF Look, Active
    <2>5. run' = [run EXCEPT ![r] = new]
      BY <2>1
    <2> HIDE DEF new
    <2> QED
      BY <1>2, <2>3, <2>4, <2>5, GoesOnPreserves
  <1>5. CASE Create(r)
    <2> DEFINE new == Passed(run[r], run[r].doc)
    <2>1. /\ requested' = [requested EXCEPT ![run[r].doc] = requested[run[r].doc] + 1]
          /\ run' = [run EXCEPT ![r] = new]
          /\ UNCHANGED <<tick, guard, disposed, outlived, together>>
          /\ run[r].pc = "create" /\ Active(r)
      BY <1>1, <1>5 DEF Create, Active
    <2>2. run[r].doc \in Documents
      BY <2>1 DEF CronGuarded, CronInv, CronTypeOK
    <2>3. /\ new \in RunRecords /\ new.pc = "look"
          /\ new.at = run[r].at /\ new.startedAt = run[r].startedAt
      BY <1>1 DEF RunRecords, Passed
    <2>4. requested' \in [Documents -> Nat]
      BY <1>2, <2>1, <2>2
    <2>5. Undisturbed => \A d \in Documents : requested'[d] <= 1
      BY <1>2, <2>1, <2>2 DEF CronGuarded, FoundIsCurrent
    <2> HIDE DEF new
    <2> QED
      BY <2>1, <2>3, <2>4, <2>5, GoesOnPreserves
  <1>6. CASE TaskFails(r)
    <2> DEFINE new == [run[r] EXCEPT !.pc = "look", !.todo = {}, !.doc = NoDocument]
    <2>1. /\ new \in RunRecords /\ new.pc = "look"
          /\ new.at = run[r].at /\ new.startedAt = run[r].startedAt
      BY <1>1 DEF RunRecords
    <2>2. /\ Active(r) /\ UNCHANGED <<tick, guard, requested, disposed, outlived, together>>
          /\ run' = [run EXCEPT ![r] = new]
      BY <1>1, <1>6 DEF TaskFails
    <2> HIDE DEF new
    <2> QED
      BY <1>2, <2>1, <2>2, GoesOnPreserves
  <1> QED
    BY <1>3, <1>4, <1>5, <1>6

LEMMA NextPreserves ==
    ASSUME CronGuarded, [CronNext]_cronVars PROVE CronGuarded'
  <1>1. ASSUME Scheduled PROVE CronGuarded'
    BY <1>1, BeginPreserves DEF Scheduled
  <1>2. ASSUME NEW r \in Runs, CronStep(r) \/ TaskFails(r) PROVE CronGuarded'
    <2>1. CASE Release(r)
      <3> DEFINE i == run[r].at
      <3>1. i \in Instances /\ r \in RunningAt(i)
        BY <2>1 DEF Release, RunningAt, Active, CronGuarded, CronInv, CronTypeOK
      <3>2. i \notin outlived => {r} = RunningAt(i)
        BY <3>1 DEF CronGuarded, CronInv, RunsAreApart
      <3>3. run' = [s \in Runs |-> IF s \in {r} THEN Over ELSE run[s]]
        BY <2>1 DEF Release, CronGuarded, CronInv, CronTypeOK
      <3>4. /\ guard' = [guard EXCEPT ![i].running = FALSE]
            /\ UNCHANGED <<tick, requested, disposed, outlived, together>>
        BY <2>1 DEF Release
      <3> HIDE DEF i
      <3> QED
        BY <3>1, <3>2, <3>3, <3>4, EndsPreserve
    <2> QED
      BY <1>2, <2>1, TasksPreserve DEF CronStep
  <1>3. ASSUME NEW i \in Instances, StopProcess(i) PROVE CronGuarded'
    <2>1. /\ guard' = [guard EXCEPT ![i].running = FALSE]
          /\ run' = [s \in Runs |-> IF s \in RunningAt(i) THEN Over ELSE run[s]]
          /\ UNCHANGED <<tick, requested, disposed, outlived, together>>
      BY <1>3 DEF StopProcess
    <2> QED
      BY <2>1, EndsPreserve
  <1>4. ASSUME NEW d \in Documents, Decide(d) PROVE CronGuarded'
    <2>1. /\ requested[d] > 0 /\ requested' = [requested EXCEPT ![d] = requested[d] - 1]
          /\ requested \in [Documents -> Nat]
      BY <1>4 DEF Decide, CronGuarded, CronInv, CronTypeOK
    <2>2. requested' \in [Documents -> Nat]
          /\ \A e \in Documents : requested'[e] <= requested[e]
      BY <2>1
    <2>3. disposed' \subseteq Documents /\ UNCHANGED <<tick, guard, run, outlived, together>>
      BY <1>4 DEF Decide, CronGuarded, CronInv, CronTypeOK
    <2> QED
      BY <2>2, <2>3, RowsPreserve
  <1>5. ASSUME UNCHANGED cronVars PROVE CronGuarded'
    <2>1. /\ requested' \in [Documents -> Nat] /\ disposed' \subseteq Documents
          /\ \A d \in Documents : requested'[d] <= requested[d]
      BY <1>5 DEF cronVars, CronGuarded, CronInv, CronTypeOK
    <2> QED
      BY <1>5, <2>1, RowsPreserve DEF cronVars
  <1> QED
    BY <1>1, <1>2, <1>3, <1>4, <1>5, TickPreserves DEF CronNext

(* The guard keeps the runs of a process apart unless one outlives it, and *)
(* a document is requested once unless runs were not kept apart: CronInv,  *)
(* for any runs, processes and documents.                                  *)
THEOREM GuardKeepsApart == CronSpec => []CronInv
  <1>1. CronInit => CronGuarded
    BY InitGuarded
  <1>2. CronGuarded /\ [CronNext]_cronVars => CronGuarded'
    BY NextPreserves
  <1>3. CronGuarded => CronInv
    BY DEF CronGuarded
  <1> QED
    BY <1>1, <1>2, <1>3, PTL DEF CronSpec

-----------------------------------------------------------------------------
(*************************************************************************)
(* BPMN processes.  What the parser's walk over a diagram returns is     *)
(* found step by step: each step leaves fewer flows to elements that     *)
(* were not visited, so the recursive definition has a value, and        *)
(* nothing is the first place from which the walk would go wrong.  Then  *)
(* the instance: where it stands on the path and what was approved.      *)
(*************************************************************************)

(* A set of numbers that is not empty has a least. *)
LEMMA LeastNatural ==
    ASSUME NEW T \in SUBSET Nat, NEW t \in T
    PROVE  \E x \in T : \A y \in T : x <= y
<1>1. PICK R : R = OpToRel(<, Nat)
  BY Zenon
<1>2. IsWellFoundedOn(R, Nat)
  BY <1>1, NatLessThanWellFounded, Zenon
<1>3. PICK x \in T : \A y \in T : ~ (<<y, x>> \in R)
  BY <1>2, WFMin
<1>4. ASSUME NEW y \in T, y < x PROVE FALSE
  <2>1. <<y, x>> \in R
    BY <1>1, <1>4, Zenon DEF OpToRel
  <2>2. QED
    BY <1>3, <2>1
<1>5. QED
  BY <1>4

(* A walk has elements behind it, and flows to others ahead.  Each step    *)
(* leaves fewer ahead.                                                     *)
Places == Elements \X SUBSET Elements

Ahead(d, visited) == {i \in DOMAIN d : d[i][2] \notin visited}

LEMMA AheadIsFinite ==
    ASSUME NEW d \in Diagrams, NEW visited
    PROVE  /\ IsFiniteSet(Ahead(d, visited)) /\ Len(d) \in Nat
           /\ Cardinality(Ahead(d, visited)) \in Nat
           /\ Cardinality(Ahead(d, visited)) <= Len(d)
<1>1. Len(d) \in Nat /\ DOMAIN d = 1 .. Len(d)
  <2>1. d \in Seq(Drawn \X Drawn)
    BY DiagramsAssumption
  <2>2. QED
    BY <2>1
<1>2. PICK top \in Nat : top = Len(d)
  BY <1>1
<1>3. IsFiniteSet(1 .. top) /\ Cardinality(1 .. top) = top
  BY FS_Interval
<1>4. Ahead(d, visited) \in SUBSET (1 .. top)
  BY <1>1, <1>2 DEF Ahead
<1>5. QED
  BY <1>1, <1>2, <1>3, <1>4, FS_Subset, FS_CardinalityType

LEMMA FirstIsOne ==
    ASSUME NEW s \in SUBSET Nat, s # {}
    PROVE  First(s) \in s
<1>1. PICK t : t \in s
  OBVIOUS
<1>2. \E x \in s : \A y \in s : x <= y
  BY <1>1, LeastNatural
<1>3. QED
  BY <1>2 DEF First

LEMMA NextIsCloser ==
    ASSUME NEW d \in Diagrams, NEW n \in Elements, NEW visited \in SUBSET Elements,
           Onward(d, n, visited) # {}, NEW i, i = First(Onward(d, n, visited))
    PROVE  /\ i \in DOMAIN d /\ d[i][1] = n /\ d[i][2] \in Drawn /\ d[i][2] \notin visited
           /\ d[i][2] \notin Unknown =>
                 d[i][2] \in Elements /\ <<d[i][2], visited \cup {d[i][2]}>> \in Places
           /\ Cardinality(Ahead(d, visited \cup {d[i][2]})) < Cardinality(Ahead(d, visited))
<1>1. d \in Seq(Drawn \X Drawn) /\ DOMAIN d \in SUBSET Nat
  BY DiagramsAssumption
<1>2. Onward(d, n, visited) \in SUBSET Nat
  BY <1>1 DEF Onward
<1>3. i \in DOMAIN d /\ d[i][1] = n /\ d[i][2] \notin visited
  BY <1>2, FirstIsOne DEF Onward
<1>4. PICK m : m = d[i][2]
  OBVIOUS
<1>5. m \in Drawn /\ m \notin visited
  BY <1>1, <1>3, <1>4
<1>6. m \notin Unknown => m \in Elements /\ <<m, visited \cup {m}>> \in Places
  BY <1>5 DEF Places, Drawn
<1>7. Ahead(d, visited \cup {m}) \in SUBSET Ahead(d, visited)
  BY DEF Ahead
<1>8. i \in Ahead(d, visited) /\ i \notin Ahead(d, visited \cup {m})
  BY <1>3, <1>4 DEF Ahead
<1>9. Cardinality(Ahead(d, visited \cup {m})) < Cardinality(Ahead(d, visited))
  <2>1. IsFiniteSet(Ahead(d, visited)) /\ Cardinality(Ahead(d, visited)) \in Nat
    BY AheadIsFinite
  <2>2. Cardinality(Ahead(d, visited \cup {m})) \in Nat
    BY AheadIsFinite
  <2>3. /\ Cardinality(Ahead(d, visited \cup {m})) <= Cardinality(Ahead(d, visited))
        /\ Cardinality(Ahead(d, visited \cup {m})) # Cardinality(Ahead(d, visited))
    BY <1>7, <1>8, <2>1, FS_Subset
  <2>4. QED
    BY <2>1, <2>2, <2>3
<1>10. QED
  BY <1>3, <1>4, <1>5, <1>6, <1>9

(* A step of the walk asks for nothing but the walk from the next place.   *)
LEMMA StepAsksAhead ==
    ASSUME NEW d \in Diagrams, NEW n \in Elements, NEW visited \in SUBSET Elements,
           NEW f, NEW g,
           \A q \in Places : Cardinality(Ahead(d, q[2])) < Cardinality(Ahead(d, visited))
                                => f[q] = g[q]
    PROVE  WalkOn(d, f, n, visited) = WalkOn(d, g, n, visited)
<1>1. CASE Onward(d, n, visited) = {}
  BY <1>1 DEF WalkOn
<1>2. CASE Onward(d, n, visited) # {}
  <2>1. PICK i : i = First(Onward(d, n, visited))
    OBVIOUS
  <2>2. CASE d[i][2] \in Unknown
    BY <2>1, <2>2 DEF WalkOn
  <2>3. CASE d[i][2] \notin Unknown
    <3>1. PICK q : q = <<d[i][2], visited \cup {d[i][2]}>>
      OBVIOUS
    <3>2. q \in Places /\ Cardinality(Ahead(d, visited \cup {d[i][2]})) < Cardinality(Ahead(d, visited))
      BY <1>2, <2>1, <2>3, <3>1, NextIsCloser
    <3>3. q[2] = visited \cup {d[i][2]}
      BY <3>1
    <3>4. f[q] = g[q]
      BY <3>2, <3>3
    <3>5. QED
      BY <2>1, <2>3, <3>1, <3>4 DEF WalkOn
  <2>4. QED
    BY <2>2, <2>3
<1>3. QED
  BY <1>1, <1>2

(* So the walk is defined, on the places with fewer than k flows ahead,    *)
(* whatever k.                                                             *)
Near(d, k) == {p \in Places : Cardinality(Ahead(d, p[2])) < k}

WalksNear(d, k, f) == f = [p \in Near(d, k) |-> WalkOn(d, f, p[1], p[2])]

LEMMA WalkGrows ==
    ASSUME NEW d \in Diagrams, NEW k \in Nat, NEW f, WalksNear(d, k, f)
    PROVE  \E g : WalksNear(d, k + 1, g)
<1>1. PICK g : g = [p \in Near(d, k + 1) |-> WalkOn(d, f, p[1], p[2])]
  OBVIOUS
<1>2. DOMAIN g = Near(d, k + 1) /\ \A p \in Near(d, k + 1) : g[p] = WalkOn(d, f, p[1], p[2])
  BY <1>1
<1>3. \A p \in Near(d, k) : f[p] = WalkOn(d, f, p[1], p[2])
  BY DEF WalksNear
<1>4. \A p \in Near(d, k) : p \in Near(d, k + 1)
  BY AheadIsFinite DEF Near
<1>5. \A p \in Near(d, k) : f[p] = g[p]
  BY <1>2, <1>3, <1>4
<1>6. ASSUME NEW p \in Near(d, k + 1) PROVE g[p] = WalkOn(d, g, p[1], p[2])
  <2>1. p \in Places /\ p[1] \in Elements /\ p[2] \in SUBSET Elements
    BY DEF Near, Places
  <2>2. PICK c \in Nat : c = Cardinality(Ahead(d, p[2]))
    BY AheadIsFinite
  <2>3. c < k + 1
    BY <2>2 DEF Near
  <2>4. ASSUME NEW q \in Places, Cardinality(Ahead(d, q[2])) < c PROVE f[q] = g[q]
    <3>1. PICK b \in Nat : b = Cardinality(Ahead(d, q[2]))
      BY AheadIsFinite
    <3>2. b < k
      BY <2>3, <2>4, <3>1
    <3>3. q \in Near(d, k)
      BY <3>1, <3>2 DEF Near
    <3>4. QED
      BY <1>5, <3>3
  <2>5. WalkOn(d, f, p[1], p[2]) = WalkOn(d, g, p[1], p[2])
    BY <2>1, <2>2, <2>4, StepAsksAhead
  <2>6. QED
    BY <1>2, <2>5
<1>7. g = [p \in Near(d, k + 1) |-> WalkOn(d, g, p[1], p[2])]
  BY <1>1, <1>2, <1>6
<1>8. QED
  BY <1>7 DEF WalksNear

LEMMA WalkIsThere ==
    ASSUME NEW d \in Diagrams
    PROVE  \A k \in Nat : \E f : WalksNear(d, k, f)
<1> DEFINE without == {k \in Nat : ~ \E f : WalksNear(d, k, f)}
<1>1. SUFFICES ASSUME NEW k \in without PROVE FALSE
  OBVIOUS
<1>2. without \in SUBSET Nat
  OBVIOUS
<1>3. PICK m \in without : \A y \in without : m <= y
  BY <1>2, LeastNatural
<1>4. CASE m = 0
  <2>1. PICK f : f = [p \in Near(d, 0) |-> <<>>]
    OBVIOUS
  <2>2. Near(d, 0) = {}
    BY AheadIsFinite DEF Near
  <2>3. WalksNear(d, 0, f)
    BY <2>1, <2>2 DEF WalksNear
  <2>4. QED
    BY <1>3, <1>4, <2>3
<1>5. CASE m # 0
  <2>1. PICK l \in Nat : l + 1 = m
    <3>1. m - 1 \in Nat /\ (m - 1) + 1 = m
      BY <1>5
    <3>2. QED
      BY <3>1
  <2>2. l \notin without
    BY <1>3, <2>1
  <2>3. PICK f : WalksNear(d, l, f)
    BY <2>2
  <2>4. \E g : WalksNear(d, l + 1, g)
    BY <2>3, WalkGrows
  <2>5. QED
    BY <1>3, <2>1, <2>4
<1>6. QED
  BY <1>4, <1>5

LEMMA WalkUnfolds ==
    ASSUME NEW d \in Diagrams
    PROVE  \E walk : /\ \A p \in Places : walk[p] = WalkOn(d, walk, p[1], p[2])
                     /\ Walk(d) = walk[<<Start, {Start}>>]
<1>1. PICK k \in Nat : k = Len(d) + 1
  BY AheadIsFinite
<1>2. Near(d, k) = Places
  <2>1. ASSUME NEW p \in Places PROVE p \in Near(d, k)
    <3>1. PICK c \in Nat : c = Cardinality(Ahead(d, p[2]))
      BY AheadIsFinite
    <3>2. c <= Len(d) /\ Len(d) \in Nat
      BY <3>1, AheadIsFinite
    <3>3. c < k
      BY <1>1, <3>2
    <3>4. QED
      BY <3>1, <3>3 DEF Near
  <2>2. QED
    BY <2>1 DEF Near
<1>3. PICK f : WalksNear(d, k, f)
  BY <1>1, WalkIsThere
<1>4. f = [p \in Elements \X SUBSET Elements |-> WalkOn(d, f, p[1], p[2])]
  BY <1>2, <1>3 DEF WalksNear, Places
<1>5. PICK walk : walk = CHOOSE g : g = [p \in Elements \X SUBSET Elements |-> WalkOn(d, g, p[1], p[2])]
  OBVIOUS
<1>6. walk = [p \in Elements \X SUBSET Elements |-> WalkOn(d, walk, p[1], p[2])]
  BY <1>4, <1>5
<1>7. Walk(d) = walk[<<Start, {Start}>>]
  BY <1>5 DEF Walk
<1>8. \A p \in Places : walk[p] = WalkOn(d, walk, p[1], p[2])
  BY <1>6 DEF Places
<1>9. QED
  BY <1>7, <1>8

(* What the walk from n returns, when `visited` is behind it: tasks, each  *)
(* once and none that was visited; and if no element has two ways on, all  *)
(* that the flows lead to from there.                                      *)
StaysIn(d, from, into) ==
    \A i \in DOMAIN d : d[i][1] \in from /\ d[i][2] \in Elements => d[i][2] \in into

Covers(d, n, visited, w) ==
    Unbranched(d) /\ StaysIn(d, visited \ {n}, visited) =>
        \E all \in SUBSET Elements :
            /\ visited \subseteq all /\ ClosedUnder(d, all, Elements)
            /\ \A t \in all \cap Tasks : t \in visited \/ \E i \in DOMAIN w : w[i] = t

Once(w) == \A i, j \in DOMAIN w : w[i] = w[j] => i = j

WalkIsSound(d, n, visited, w) ==
    w \in Seq(Tasks \ visited) /\ Once(w) /\ Covers(d, n, visited, w)

LEMMA WalkEnds ==
    ASSUME NEW d \in Diagrams, NEW n \in Elements, NEW visited \in SUBSET Elements,
           n \in visited, Onward(d, n, visited) = {}
    PROVE  WalkIsSound(d, n, visited, <<>>)
<1>1. <<>> \in Seq(Tasks \ visited) /\ Once(<<>>)
  BY DEF Once
<1>2. Covers(d, n, visited, <<>>)
  <2>1. SUFFICES ASSUME StaysIn(d, visited \ {n}, visited) PROVE ClosedUnder(d, visited, Elements)
    BY DEF Covers
  <2>2. QED
    BY <2>1 DEF StaysIn, ClosedUnder, Onward
<1>3. QED
  BY <1>1, <1>2 DEF WalkIsSound

LEMMA WalkReachesEnd ==
    ASSUME NEW d \in Diagrams, NEW n \in Elements, NEW visited \in SUBSET Elements,
           n \in visited, NEW i \in DOMAIN d, d[i][1] = n, d[i][2] \in Ends
    PROVE  WalkIsSound(d, n, visited, <<>>)
<1>1. <<>> \in Seq(Tasks \ visited) /\ Once(<<>>)
  BY DEF Once
<1>2. PICK m : m = d[i][2]
  OBVIOUS
<1>3. Covers(d, n, visited, <<>>)
  <2>1. SUFFICES ASSUME Unbranched(d), StaysIn(d, visited \ {n}, visited)
                 PROVE  \E all \in SUBSET Elements :
                           /\ visited \subseteq all /\ ClosedUnder(d, all, Elements)
                           /\ \A t \in all \cap Tasks : t \in visited
    BY DEF Covers
  <2>2. \A j \in DOMAIN d : d[j][1] \notin Ends
    BY <2>1 DEF Unbranched
  <2>3. visited \cup {m} \in SUBSET Elements /\ m \notin Tasks
    BY <1>2, ElementsAssumption DEF Elements
  <2>4. ClosedUnder(d, visited \cup {m}, Elements)
    BY <1>2, <2>1, <2>2 DEF StaysIn, ClosedUnder, Unbranched
  <2>5. QED
    BY <2>3, <2>4
<1>4. QED
  BY <1>1, <1>3 DEF WalkIsSound

LEMMA WalkStops ==
    ASSUME NEW d \in Diagrams, NEW n \in Elements, NEW visited \in SUBSET Elements,
           n \in visited, NEW i \in DOMAIN d, d[i][1] = n, d[i][2] \in Unknown
    PROVE  WalkIsSound(d, n, visited, <<>>)
<1>1. <<>> \in Seq(Tasks \ visited) /\ Once(<<>>)
  BY DEF Once
<1>2. Covers(d, n, visited, <<>>)
  <2>1. SUFFICES ASSUME Unbranched(d), StaysIn(d, visited \ {n}, visited)
                 PROVE  ClosedUnder(d, visited, Elements)
    BY DEF Covers
  <2>2. \A j \in DOMAIN d : d[j][1] = n => d[j][2] \notin Elements
    BY <2>1, ElementsAssumption DEF Unbranched
  <2>3. QED
    BY <2>1, <2>2 DEF StaysIn, ClosedUnder
<1>3. QED
  BY <1>1, <1>2 DEF WalkIsSound

LEMMA WalkGoesOn ==
    ASSUME NEW d \in Diagrams, NEW n \in Elements, NEW visited \in SUBSET Elements,
           n \in visited, NEW i \in DOMAIN d, d[i][1] = n, NEW m, m = d[i][2],
           m \in Elements, m \notin visited, NEW w,
           WalkIsSound(d, m, visited \cup {m}, w)
    PROVE  WalkIsSound(d, n, visited, Kept(m) \o w)
<1>1. PICK k \in Nat : k = IF m \in Tasks THEN 1 ELSE 0
  OBVIOUS
<1>2. PICK v : v = Kept(m) \o w
  OBVIOUS
<1>3. /\ w \in Seq(Tasks \ (visited \cup {m})) /\ Once(w) /\ Covers(d, m, visited \cup {m}, w)
      /\ Len(w) \in Nat /\ DOMAIN w = 1 .. Len(w)
  BY DEF WalkIsSound
<1>4. PICK l \in Nat : l = Len(w)
  BY <1>3
<1>5. \A j \in 1 .. l : w[j] \in Tasks /\ w[j] \notin visited /\ w[j] # m
  BY <1>3, <1>4
<1>6. /\ v \in Seq(Tasks \ visited) /\ DOMAIN v = 1 .. k + l
      /\ k = 1 => v[1] = m
      /\ \A j \in 1 .. l : v[j + k] = w[j]
  <2>1. CASE m \in Tasks
    <3>1. v = <<m>> \o w /\ k = 1
      BY <1>1, <1>2, <2>1 DEF Kept
    <3>2. w \in Seq(Tasks \ visited) /\ <<m>> \in Seq(Tasks \ visited)
      BY <1>3, <2>1
    <3>3. QED
      BY <1>4, <3>1, <3>2
  <2>2. CASE m \notin Tasks
    <3>1. v = <<>> \o w /\ k = 0
      BY <1>1, <1>2, <2>2 DEF Kept
    <3>2. w \in Seq(Tasks \ visited)
      BY <1>3
    <3>3. v = w
      BY <3>1, <3>2
    <3>4. QED
      BY <1>3, <1>4, <3>1, <3>2, <3>3
  <2>3. QED
    BY <2>1, <2>2
<1>7. ASSUME NEW j \in 1 .. k + l
      PROVE  (j = 1 /\ k = 1) \/ \E h \in 1 .. l : j = h + k
  <2>1. CASE j <= k
    BY <1>1, <2>1
  <2>2. CASE j > k
    <3>1. j - k \in 1 .. l /\ j = (j - k) + k
      BY <2>2
    <3>2. QED
      BY <3>1
  <2>3. QED
    BY <2>1, <2>2
<1>8. Once(v)
  <2>1. SUFFICES ASSUME NEW a \in 1 .. k + l, NEW b \in 1 .. k + l, v[a] = v[b] PROVE a = b
    BY <1>6 DEF Once
  <2>2. CASE a = 1 /\ k = 1
    <3>1. CASE b = 1
      BY <2>2, <3>1
    <3>2. CASE b # 1
      <4>1. PICK h \in 1 .. l : b = h + k
        BY <1>7, <3>2
      <4>2. v[b] = w[h] /\ v[a] = m
        BY <1>6, <2>2, <4>1
      <4>3. QED
        BY <1>5, <2>1, <4>2
    <3>3. QED
      BY <3>1, <3>2
  <2>3. CASE b = 1 /\ k = 1 /\ a # 1
    <3>1. PICK h \in 1 .. l : a = h + k
      BY <1>7, <2>3
    <3>2. v[a] = w[h] /\ v[b] = m
      BY <1>6, <2>3, <3>1
    <3>3. QED
      BY <1>5, <2>1, <3>2
  <2>4. CASE \E g, h \in 1 .. l : a = g + k /\ b = h + k
    <3>1. PICK g \in 1 .. l, h \in 1 .. l : a = g + k /\ b = h + k
      BY <2>4
    <3>2. v[a] = w[g] /\ v[b] = w[h]
      BY <1>6, <3>1
    <3>3. g = h
      BY <1>3, <1>4, <2>1, <3>2 DEF Once
    <3>4. QED
      BY <3>1, <3>3
  <2>5. QED
    BY <1>7, <2>2, <2>3, <2>4
<1>9. Covers(d, n, visited, v)
  <2>1. SUFFICES ASSUME Unbranched(d), StaysIn(d, visited \ {n}, visited)
                 PROVE  \E all \in SUBSET Elements :
                           /\ visited \subseteq all /\ ClosedUnder(d, all, Elements)
                           /\ \A t \in all \cap Tasks : t \in visited \/ \E j \in DOMAIN v : v[j] = t
    BY DEF Covers
  <2>2. StaysIn(d, (visited \cup {m}) \ {m}, visited \cup {m})
    BY <2>1 DEF StaysIn, Unbranched
  <2>3. PICK all \in SUBSET Elements :
           /\ visited \cup {m} \subseteq all /\ ClosedUnder(d, all, Elements)
           /\ \A t \in all \cap Tasks : t \in visited \cup {m} \/ \E j \in DOMAIN w : w[j] = t
    BY <1>3, <2>1, <2>2 DEF Covers
  <2>4. ASSUME NEW t \in all \cap Tasks PROVE t \in visited \/ \E j \in DOMAIN v : v[j] = t
    <3>1. CASE t = m
      <4>1. k = 1 /\ 1 \in DOMAIN v /\ v[1] = m
        BY <1>1, <1>6, <2>4, <3>1
      <4>2. QED
        BY <3>1, <4>1
    <3>2. CASE \E j \in DOMAIN w : w[j] = t
      <4>1. PICK j \in 1 .. l : w[j] = t
        BY <1>3, <1>4, <3>2
      <4>2. j + k \in DOMAIN v /\ v[j + k] = t
        BY <1>6, <4>1
      <4>3. QED
        BY <4>2
    <3>3. QED
      BY <2>3, <3>1, <3>2
  <2>5. QED
    BY <2>3, <2>4
<1>10. QED
  BY <1>2, <1>6, <1>8, <1>9 DEF WalkIsSound

LEMMA StepIsSound ==
    ASSUME NEW d \in Diagrams, NEW n \in Elements, NEW visited \in SUBSET Elements,
           n \in visited, NEW walk,
           \A q \in Places :
              q[1] \in q[2] /\ Cardinality(Ahead(d, q[2])) < Cardinality(Ahead(d, visited))
                 => WalkIsSound(d, q[1], q[2], walk[q])
    PROVE  WalkIsSound(d, n, visited, WalkOn(d, walk, n, visited))
<1>1. CASE Onward(d, n, visited) = {}
  <2>1. WalkOn(d, walk, n, visited) = <<>>
    BY <1>1 DEF WalkOn
  <2>2. QED
    BY <1>1, <2>1, WalkEnds
<1>2. CASE Onward(d, n, visited) # {}
  <2>1. PICK i : i = First(Onward(d, n, visited))
    OBVIOUS
  <2>2. PICK m : m = d[i][2]
    OBVIOUS
  <2>3. /\ i \in DOMAIN d /\ d[i][1] = n /\ d[i][2] \notin visited
        /\ m \notin Unknown => m \in Elements /\ <<m, visited \cup {m}>> \in Places
        /\ Cardinality(Ahead(d, visited \cup {m})) < Cardinality(Ahead(d, visited))
    BY <1>2, <2>1, <2>2, NextIsCloser
  <2>4. CASE m \in Unknown
    <3>1. WalkOn(d, walk, n, visited) = <<>>
      BY <2>1, <2>2, <2>4 DEF WalkOn
    <3>2. QED
      BY <2>2, <2>3, <2>4, <3>1, WalkStops
  <2>5. CASE m \in Ends
    <3>1. m \notin Tasks /\ m \notin Unknown
      BY <2>5, ElementsAssumption DEF Elements
    <3>2. WalkOn(d, walk, n, visited) = <<>> \o <<>>
      BY <1>2, <2>1, <2>2, <2>5, <3>1 DEF WalkOn, Kept
    <3>3. WalkOn(d, walk, n, visited) = <<>>
      BY <3>2
    <3>4. QED
      BY <2>2, <2>3, <2>5, <3>3, WalkReachesEnd
  <2>6. CASE m \notin Ends \cup Unknown
    <3>1. PICK q : q = <<m, visited \cup {m}>>
      OBVIOUS
    <3>2. q \in Places /\ q[1] = m /\ q[2] = visited \cup {m}
      BY <2>3, <2>6, <3>1
    <3>3. WalkIsSound(d, m, visited \cup {m}, walk[q])
      BY <2>3, <3>2
    <3>4. WalkIsSound(d, n, visited, Kept(m) \o walk[q])
      BY <2>2, <2>3, <2>6, <3>3, WalkGoesOn
    <3>5. WalkOn(d, walk, n, visited) = Kept(m) \o walk[q]
      BY <1>2, <2>1, <2>2, <2>6, <3>1 DEF WalkOn
    <3>6. QED
      BY <3>4, <3>5
  <2>7. QED
    BY <2>4, <2>5, <2>6
<1>3. QED
  BY <1>1, <1>2

LEMMA WalkIsFound ==
    ASSUME NEW d \in Diagrams
    PROVE  WalkIsSound(d, Start, {Start}, Walk(d))
<1>1. PICK walk : /\ \A p \in Places : walk[p] = WalkOn(d, walk, p[1], p[2])
                  /\ Walk(d) = walk[<<Start, {Start}>>]
  BY WalkUnfolds
<1> DEFINE wrong == {p \in Places : p[1] \in p[2] /\ ~WalkIsSound(d, p[1], p[2], walk[p])}
           ranks == {Cardinality(Ahead(d, p[2])) : p \in wrong}
<1>2. ranks \in SUBSET Nat
  BY AheadIsFinite
<1>3. wrong = {}
  <2>1. SUFFICES ASSUME NEW z \in wrong PROVE FALSE
    OBVIOUS
  <2>2. Cardinality(Ahead(d, z[2])) \in ranks
    OBVIOUS
  <2>3. PICK least \in ranks : \A y \in ranks : least <= y
    BY <1>2, <2>2, LeastNatural
  <2>4. PICK p \in wrong : Cardinality(Ahead(d, p[2])) = least
    OBVIOUS
  <2>5. p \in Places /\ p[1] \in Elements /\ p[2] \in SUBSET Elements /\ p[1] \in p[2]
    BY DEF Places
  <2>6. ASSUME NEW q \in Places, q[1] \in q[2], Cardinality(Ahead(d, q[2])) < Cardinality(Ahead(d, p[2]))
        PROVE  WalkIsSound(d, q[1], q[2], walk[q])
    <3>1. SUFFICES ASSUME q \in wrong PROVE FALSE
      BY <2>6
    <3>2. PICK c : c = Cardinality(Ahead(d, q[2]))
      OBVIOUS
    <3>3. c \in ranks
      BY <3>1, <3>2
    <3>4. c < least /\ least <= c /\ c \in Nat /\ least \in Nat
      BY <1>2, <2>3, <2>4, <2>6, <3>2, <3>3
    <3>5. QED
      BY <3>4
  <2>7. WalkIsSound(d, p[1], p[2], WalkOn(d, walk, p[1], p[2]))
    BY <2>5, <2>6, StepIsSound
  <2>8. QED
    BY <1>1, <2>5, <2>7
<1>4. PICK s : s = <<Start, {Start}>>
  OBVIOUS
<1>5. s \in Places /\ s[1] = Start /\ s[2] = {Start}
  BY <1>4 DEF Places, Elements
<1>6. WalkIsSound(d, s[1], s[2], walk[s])
  BY <1>3, <1>5
<1>7. QED
  BY <1>1, <1>4, <1>5, <1>6

(* The path: the start, tasks, "end", each once. *)
LEMMA PathIsSound ==
    ASSUME NEW d \in Diagrams
    PROVE  \E l \in Nat :
              /\ Path(d) \in Seq({Start, "end"} \cup Tasks)
              /\ Len(Path(d)) = l + 2 /\ DOMAIN Path(d) = 1 .. l + 2
              /\ Path(d)[1] = Start /\ Path(d)[l + 2] = "end" /\ Once(Path(d))
              /\ \A k \in 1 .. l + 1 : Path(d)[k] \in {Start} \cup Tasks
              /\ Unbranched(d) => \A t \in Reached(d, Elements) \cap Tasks :
                                     \E k \in 1 .. l + 1 : Path(d)[k] = t
<1>1. PICK w : w = Walk(d)
  OBVIOUS
<1>2. w \in Seq(Tasks \ {Start}) /\ Once(w) /\ Covers(d, Start, {Start}, w)
  BY <1>1, WalkIsFound DEF WalkIsSound
<1>3. PICK l \in Nat : l = Len(w)
  BY <1>2
<1>4. PICK q : q = <<Start>> \o w
  OBVIOUS
<1>5. q \in Seq({Start} \cup Tasks) /\ Len(q) = l + 1 /\ q[1] = Start
      /\ \A k \in 1 .. l : q[k + 1] = w[k]
  <2>1. w \in Seq({Start} \cup Tasks) /\ <<Start>> \in Seq({Start} \cup Tasks)
    BY <1>2
  <2>2. QED
    BY <1>3, <1>4, <2>1
<1>6. PICK p : p = Path(d)
  OBVIOUS
<1>7. p = q \o <<"end">>
  BY <1>1, <1>4, <1>6 DEF Path
<1>8. /\ p \in Seq({Start, "end"} \cup Tasks) /\ Len(p) = l + 2
      /\ p[l + 2] = "end" /\ \A k \in 1 .. l + 1 : p[k] = q[k]
  <2>1. q \in Seq({Start, "end"} \cup Tasks) /\ <<"end">> \in Seq({Start, "end"} \cup Tasks)
    BY <1>5
  <2>2. QED
    BY <1>5, <1>7, <2>1
<1>9. p[1] = Start /\ \A k \in 1 .. l : p[k + 1] = w[k]
  BY <1>5, <1>8
<1>10. \A k \in 1 .. l + 1 : p[k] \in {Start} \cup Tasks
  BY <1>5, <1>8
<1>11. \A k \in 1 .. l : w[k] \in Tasks /\ w[k] # Start /\ w[k] # "end"
  BY <1>2, <1>3, ElementsAssumption
<1>12. ASSUME NEW k \in 1 .. l + 2 PROVE k = 1 \/ k = l + 2 \/ \E h \in 1 .. l : k = h + 1
  <2>1. CASE k > 1 /\ k < l + 2
    <3>1. k - 1 \in 1 .. l /\ k = (k - 1) + 1
      BY <2>1
    <3>2. QED
      BY <3>1
  <2>2. QED
    BY <2>1
<1>13. Start # "end"
  BY ElementsAssumption
<1>14. Once(p)
  <2>1. SUFFICES ASSUME NEW i \in 1 .. l + 2, NEW j \in 1 .. l + 2, p[i] = p[j] PROVE i = j
    BY <1>8 DEF Once
  <2>2. CASE \E g, h \in 1 .. l : i = g + 1 /\ j = h + 1
    <3>1. PICK g \in 1 .. l, h \in 1 .. l : i = g + 1 /\ j = h + 1
      BY <2>2
    <3>2. w[g] = w[h]
      BY <1>9, <2>1, <3>1
    <3>3. g = h
      BY <1>2, <1>3, <3>2 DEF Once
    <3>4. QED
      BY <3>1, <3>3
  <2>3. ASSUME NEW k \in 1 .. l + 2
        PROVE  /\ p[k] = Start => k = 1
               /\ p[k] = "end" => k = l + 2
    <3>1. CASE k = 1 \/ k = l + 2
      BY <1>8, <1>9, <1>13, <3>1
    <3>2. CASE \E h \in 1 .. l : k = h + 1
      <4>1. PICK h \in 1 .. l : k = h + 1
        BY <3>2
      <4>2. p[k] = w[h]
        BY <1>9, <4>1
      <4>3. QED
        BY <1>11, <4>2
    <3>3. QED
      BY <1>12, <3>1, <3>2
  <2>4. CASE i = 1 \/ j = 1
    BY <1>9, <2>1, <2>3, <2>4
  <2>5. CASE i = l + 2 \/ j = l + 2
    BY <1>8, <2>1, <2>3, <2>5
  <2>6. QED
    BY <1>12, <2>2, <2>4, <2>5
<1>15. ASSUME Unbranched(d), NEW t \in Reached(d, Elements) \cap Tasks
       PROVE  \E k \in 1 .. l + 1 : p[k] = t
  <2>1. StaysIn(d, {Start} \ {Start}, {Start})
    BY DEF StaysIn
  <2>2. PICK all \in SUBSET Elements :
           /\ {Start} \subseteq all /\ ClosedUnder(d, all, Elements)
           /\ \A u \in all \cap Tasks : u \in {Start} \/ \E i \in DOMAIN w : w[i] = u
    BY <1>2, <1>15, <2>1 DEF Covers
  <2>3. t \in all
    BY <1>15, <2>2 DEF Reached
  <2>4. PICK i \in 1 .. l : w[i] = t
    BY <1>2, <1>3, <1>15, <2>2, <2>3, ElementsAssumption
  <2>5. i + 1 \in 1 .. l + 1 /\ p[i + 1] = t
    BY <1>9, <2>4
  <2>6. QED
    BY <2>5
<1>16. DOMAIN p = 1 .. l + 2
  BY <1>8
<1>17. QED
  BY <1>6, <1>8, <1>9, <1>10, <1>14, <1>15, <1>16

(* The element after the k-th is the one after it. *)
LEMMA NextIsNext ==
    ASSUME NEW d \in Diagrams, NEW k \in 1 .. Len(Path(d)) - 1
    PROVE  /\ NextOnPath(d, Path(d)[k]) = Path(d)[k + 1]
           /\ NextOnPath(d, Path(d)[k]) = "end" <=> k = Len(Path(d)) - 1
<1>1. PICK p : p = Path(d)
  OBVIOUS
<1>2. PICK l \in Nat : /\ Len(p) = l + 2 /\ DOMAIN p = 1 .. l + 2 /\ Once(p) /\ p[l + 2] = "end"
  BY <1>1, PathIsSound
<1>3. k \in 1 .. l + 2 /\ k + 1 \in 1 .. l + 2
  BY <1>1, <1>2
<1>4. {i \in DOMAIN p : p[i] = p[k]} = {k}
  BY <1>2, <1>3 DEF Once
<1>5. PICK s \in SUBSET Nat : s = {k}
  <2>1. {k} \in SUBSET Nat
    BY <1>2, <1>3
  <2>2. QED
    BY <2>1
<1>6. First(s) = k
  <2>1. First(s) \in s
    BY <1>5, FirstIsOne
  <2>2. QED
    BY <1>5, <2>1
<1>7. Position(d, p[k]) = k
  <2>1. Position(d, p[k]) = First({i \in DOMAIN p : p[i] = p[k]})
    BY <1>1 DEF Position
  <2>2. QED
    BY <1>4, <1>5, <1>6, <2>1
<1>8. NextOnPath(d, p[k]) = p[k + 1]
  BY <1>1, <1>7 DEF NextOnPath
<1>9. p[k + 1] = "end" <=> k + 1 = l + 2
  BY <1>2, <1>3 DEF Once
<1>10. QED
  BY <1>1, <1>2, <1>3, <1>8, <1>9

(* The element n is on the path, and what is before it was approved. *)
StandsWell(d, done, n) ==
    \E k \in 1 .. Len(Path(d)) - 1 :
        Path(d)[k] = n /\ \A i \in 1 .. k - 1 : Path(d)[i] \in done

AllDone(d, done) == \A i \in 1 .. Len(Path(d)) - 1 : Path(d)[i] \in done

InstanceIsSound(d, done, row) ==
    /\ row.status = "running"   => StandsWell(d, done, row.at)
    /\ row.status = "completed" => AllDone(d, done)

RequestIsSound(d, done, c) ==
    /\ c.pc # "idle" => c.read.status = "running"
    /\ c.pc = "write" => /\ c.outcome \in {"approved", "rejected"}
                         /\ StandsWell(d, done, c.read.at)

(* The history is the beginning of the path, up to where the instance is.  *)
TrailTells(d, row) ==
    row.status # None =>
        /\ Len(row.trail) <= Len(Path(d))
        /\ \A i \in 1 .. Len(row.trail) : row.trail[i] = Path(d)[i]
        /\ row.status = "running" =>
              /\ Len(row.trail) \in 1 .. Len(Path(d)) - 1
              /\ row.at = Path(d)[Len(row.trail)]

BpmnIInv ==
    /\ BpmnTypeOK
    /\ InstanceIsSound(diagram, approved, inst)
    /\ \A r \in Callers : RequestIsSound(diagram, approved, call[r])
    /\ ~outrun => TrailTells(diagram, inst)

-----------------------------------------------------------------------------
LEMMA CompletionFollows ==
    ASSUME BpmnIInv
    PROVE  CompletedIsApproved
<1>1. SUFFICES ASSUME inst.status = "completed"
               PROVE  /\ \A i \in 1 .. Len(Path(diagram)) - 1 : Path(diagram)[i] \in approved
                      /\ Unbranched(diagram) => Reached(diagram, Elements) \cap Tasks \subseteq approved
  BY DEF CompletedIsApproved
<1>2. AllDone(diagram, approved) /\ diagram \in Diagrams
  BY <1>1 DEF BpmnIInv, BpmnTypeOK, InstanceIsSound
<1>3. PICK l \in Nat :
         /\ Len(Path(diagram)) = l + 2
         /\ Unbranched(diagram) => \A t \in Reached(diagram, Elements) \cap Tasks :
                                      \E k \in 1 .. l + 1 : Path(diagram)[k] = t
  BY <1>2, PathIsSound
<1>4. \A i \in 1 .. l + 1 : Path(diagram)[i] \in approved
  BY <1>2, <1>3 DEF AllDone
<1>5. QED
  BY <1>3, <1>4

LEMMA TrailFollows ==
    ASSUME BpmnIInv
    PROVE  TrailIsPath
<1>1. SUFFICES ASSUME ~outrun, inst.status # None
               PROVE  inst.trail = SubSeq(Path(diagram), 1, Len(inst.trail))
  BY DEF TrailIsPath
<1>2. PICK s : s = {Start, "end"} \cup Tasks
  OBVIOUS
<1>3. PICK t \in Seq(s) : t = inst.trail
  BY <1>2 DEF BpmnIInv, BpmnTypeOK, InstanceRows
<1>4. PICK p \in Seq(s) : p = Path(diagram)
  BY <1>2, PathIsSound DEF BpmnIInv, BpmnTypeOK
<1>5. Len(t) <= Len(p) /\ \A i \in 1 .. Len(t) : t[i] = p[i]
  BY <1>1, <1>3, <1>4 DEF BpmnIInv, TrailTells
<1>6. PICK q : q = SubSeq(p, 1, Len(t))
  OBVIOUS
<1>7. q \in Seq(s) /\ Len(q) = Len(t) /\ \A i \in 1 .. Len(t) : q[i] = p[i]
  BY <1>5, <1>6
<1>8. t = q
  BY <1>5, <1>7, SeqEqual
<1>9. QED
  BY <1>3, <1>4, <1>6, <1>8

LEMMA BpmnStarts ==
    ASSUME BpmnInit
    PROVE  BpmnIInv
<1>1. NoInstance \in InstanceRows /\ NoInstance.status = None
  BY DEF NoInstance, InstanceRows
<1>2. /\ NoCall.pc = "idle"
      /\ NoCall \in [pc : {"idle", "link", "write"}, read : InstanceRows,
                     outcome : {None, "approved", "rejected"}]
  BY <1>1 DEF NoCall
<1>3. BpmnTypeOK
  <2>1. PICK kinds : kinds = [pc : {"idle", "link", "write"}, read : InstanceRows,
                              outcome : {None, "approved", "rejected"}]
    OBVIOUS
  <2>2. call \in [Callers -> kinds]
    BY <1>2, <2>1 DEF BpmnInit
  <2>3. diagram \in Diagrams /\ inst \in InstanceRows
    BY <1>1 DEF BpmnInit
  <2>4. calls \in 0 .. MaxSteps
    BY CallsAssumption DEF BpmnInit
  <2>5. approved \subseteq {Start} \cup Tasks /\ outrun \in BOOLEAN
    BY DEF BpmnInit
  <2>6. QED
    BY <2>1, <2>2, <2>3, <2>4, <2>5 DEF BpmnTypeOK
<1>4. InstanceIsSound(diagram, approved, inst) /\ TrailTells(diagram, inst)
  BY <1>1 DEF BpmnInit, InstanceIsSound, TrailTells, None
<1>5. \A r \in Callers : RequestIsSound(diagram, approved, call[r])
  BY <1>2 DEF BpmnInit, RequestIsSound
<1>6. QED
  BY <1>3, <1>4, <1>5 DEF BpmnIInv

(* What an approval adds takes nothing away. *)
LEMMA MoreIsDone ==
    ASSUME NEW d, NEW done, NEW more, done \subseteq more
    PROVE  /\ \A n : StandsWell(d, done, n) => StandsWell(d, more, n)
           /\ AllDone(d, done) => AllDone(d, more)
           /\ \A c : RequestIsSound(d, done, c) => RequestIsSound(d, more, c)
<1>1. \A n : StandsWell(d, done, n) => StandsWell(d, more, n)
  BY DEF StandsWell
<1>2. AllDone(d, done) => AllDone(d, more)
  BY DEF AllDone
<1>3. QED
  BY <1>1, <1>2 DEF RequestIsSound

(* Where an approved element leads. *)
LEMMA OneOn ==
    ASSUME NEW d \in Diagrams, NEW done, NEW n, StandsWell(d, done, n), NEW next,
           next = NextOnPath(d, n)
    PROVE  IF next = "end" THEN AllDone(d, done \cup {n})
           ELSE next \in {Start} \cup Tasks /\ StandsWell(d, done \cup {n}, next)
<1>1. PICK k \in 1 .. Len(Path(d)) - 1 : Path(d)[k] = n /\ \A i \in 1 .. k - 1 : Path(d)[i] \in done
  BY DEF StandsWell
<1>2. next = Path(d)[k + 1] /\ (next = "end" <=> k = Len(Path(d)) - 1)
  BY <1>1, NextIsNext
<1>3. PICK l \in Nat : /\ Len(Path(d)) = l + 2
                       /\ \A i \in 1 .. l + 1 : Path(d)[i] \in {Start} \cup Tasks
  BY PathIsSound
<1>4. \A i \in 1 .. k : Path(d)[i] \in done \cup {n}
  BY <1>1, <1>3
<1>5. CASE next = "end"
  BY <1>2, <1>3, <1>4, <1>5 DEF AllDone
<1>6. CASE next # "end"
  <2>1. k + 1 \in 1 .. l + 1
    BY <1>2, <1>3, <1>6
  <2>2. QED
    BY <1>2, <1>3, <1>4, <1>6, <2>1 DEF StandsWell
<1>7. QED
  BY <1>5, <1>6

-----------------------------------------------------------------------------
Calls == [pc : {"idle", "link", "write"}, read : InstanceRows,
          outcome : {None, "approved", "rejected"}]

(* A step of one request on the row. *)
LEMMA StepOfOne ==
    ASSUME BpmnIInv, NEW r \in Callers, NEW c \in Calls, NEW row \in InstanceRows, NEW more,
           call' = [call EXCEPT ![r] = c], inst' = row, diagram' = diagram,
           approved' = more, approved \subseteq more, more \subseteq {Start} \cup Tasks,
           calls' \in 0 .. MaxSteps, outrun' \in BOOLEAN,
           RequestIsSound(diagram, more, c), InstanceIsSound(diagram, more, row),
           ~outrun' => TrailTells(diagram, row)
    PROVE  BpmnIInv'
<1>1. BpmnTypeOK'
  BY DEF BpmnIInv, BpmnTypeOK, Calls
<1>2. ASSUME NEW s \in Callers PROVE RequestIsSound(diagram, approved, call[s])'
  <2>1. PICK k : k = call'[s]
    OBVIOUS
  <2>2. RequestIsSound(diagram, more, k)
    <3>1. CASE s = r
      BY <2>1, <3>1 DEF BpmnIInv, BpmnTypeOK
    <3>2. CASE s # r
      <4>1. k = call[s]
        BY <2>1, <3>2 DEF BpmnIInv, BpmnTypeOK
      <4>2. RequestIsSound(diagram, approved, k)
        BY <4>1 DEF BpmnIInv
      <4>3. QED
        BY <4>2, MoreIsDone
    <3>3. QED
      BY <3>1, <3>2
  <2>3. QED
    BY <2>1, <2>2
<1>3. QED
  BY <1>1, <1>2 DEF BpmnIInv

LEMMA NoCallIsSound ==
    /\ NoCall \in Calls /\ NoInstance \in InstanceRows
    /\ \A d, done : RequestIsSound(d, done, NoCall)
<1>1. NoInstance \in InstanceRows
  BY DEF NoInstance, InstanceRows
<1>2. NoCall \in Calls /\ NoCall.pc = "idle"
  BY <1>1 DEF NoCall, Calls
<1>3. QED
  BY <1>1, <1>2 DEF RequestIsSound

LEMMA StartKeepsBpmn ==
    ASSUME BpmnIInv, NEW r \in Callers, StartInstance(r)
    PROVE  BpmnIInv'
<1>1. PICK row : row = [status |-> "running", at |-> Start, trail |-> <<Start>>]
  OBVIOUS
<1>2. row \in InstanceRows /\ row.status = "running" /\ row.at = Start /\ row.trail = <<Start>>
  BY <1>1 DEF InstanceRows
<1>3. PICK c \in Calls : call' = [call EXCEPT ![r] = c] /\ RequestIsSound(diagram, approved, c)
  <2>1. inst' = row
    BY <1>1 DEF StartInstance
  <2>2. PICK linked \in BOOLEAN :
           call' = [call EXCEPT ![r] = IF linked THEN [NoCall EXCEPT !.pc = "link", !.read = inst']
                                       ELSE NoCall]
    BY DEF StartInstance
  <2>3. PICK k : k = [NoCall EXCEPT !.pc = "link", !.read = row]
    OBVIOUS
  <2>4. k \in Calls /\ k.pc = "link" /\ k.read = row
    BY <1>2, <2>3, NoCallIsSound DEF Calls
  <2>5. RequestIsSound(diagram, approved, k)
    BY <1>2, <2>4 DEF RequestIsSound
  <2>6. call' = [call EXCEPT ![r] = IF linked THEN k ELSE NoCall]
    BY <2>1, <2>2, <2>3
  <2>7. QED
    BY <2>4, <2>5, <2>6, NoCallIsSound
<1>4. PICK l \in Nat : Len(Path(diagram)) = l + 2 /\ Path(diagram)[1] = Start
  BY PathIsSound DEF BpmnIInv, BpmnTypeOK
<1>5. StandsWell(diagram, approved, Start)
  <2>1. 1 \in 1 .. Len(Path(diagram)) - 1
    BY <1>4
  <2>2. QED
    BY <1>4, <2>1 DEF StandsWell
<1>6. InstanceIsSound(diagram, approved, row)
  BY <1>2, <1>5 DEF InstanceIsSound
<1>7. TrailTells(diagram, row)
  BY <1>2, <1>4 DEF TrailTells
<1>8. calls' \in 0 .. MaxSteps
  BY CallsAssumption DEF StartInstance, Begin, BpmnIInv, BpmnTypeOK
<1>9. inst' = row /\ diagram' = diagram /\ approved' = approved /\ outrun' = outrun
  BY <1>1 DEF StartInstance
<1>10. approved \subseteq {Start} \cup Tasks /\ outrun' \in BOOLEAN
  BY <1>9 DEF BpmnIInv, BpmnTypeOK
<1>11. QED
  BY <1>2, <1>3, <1>6, <1>7, <1>8, <1>9, <1>10, StepOfOne

LEMMA LinkKeepsBpmn ==
    ASSUME BpmnIInv, NEW r \in Callers, LinkWorkflow(r)
    PROVE  BpmnIInv'
<1>1. PICK c : c = call[r]
  OBVIOUS
<1>2. c \in Calls /\ c.read \in InstanceRows
  BY <1>1 DEF BpmnIInv, BpmnTypeOK, Calls
<1>3. PICK row : row = [inst EXCEPT !.trail = c.read.trail]
  OBVIOUS
<1>4. /\ row \in InstanceRows /\ row.status = inst.status /\ row.at = inst.at
      /\ row.trail = c.read.trail
  BY <1>2, <1>3 DEF BpmnIInv, BpmnTypeOK, InstanceRows
<1>5. InstanceIsSound(diagram, approved, row)
  BY <1>4 DEF BpmnIInv, InstanceIsSound
<1>6. /\ inst' = row /\ call' = [call EXCEPT ![r] = NoCall]
      /\ diagram' = diagram /\ approved' = approved /\ calls' = calls
      /\ outrun' = (outrun \/ inst # c.read)
  BY <1>1, <1>3 DEF LinkWorkflow
<1>7. ~outrun' => TrailTells(diagram, row)
  BY <1>4, <1>6 DEF BpmnIInv, TrailTells
<1>8. /\ approved \subseteq {Start} \cup Tasks /\ outrun' \in BOOLEAN /\ calls' \in 0 .. MaxSteps
  BY <1>6 DEF BpmnIInv, BpmnTypeOK
<1>9. QED
  BY <1>4, <1>5, <1>6, <1>7, <1>8, NoCallIsSound, StepOfOne

LEMMA ReadKeepsBpmn ==
    ASSUME BpmnIInv, NEW r \in Callers, ReadToAdvance(r)
    PROVE  BpmnIInv'
<1>1. PICK outcome \in {"approved", "rejected"} :
         call' = [call EXCEPT ![r] = [pc |-> "write", read |-> inst, outcome |-> outcome]]
  BY DEF ReadToAdvance
<1>2. PICK c : c = [pc |-> "write", read |-> inst, outcome |-> outcome]
  OBVIOUS
<1>3. c \in Calls /\ c.pc = "write" /\ c.read = inst /\ c.outcome = outcome
  BY <1>2 DEF BpmnIInv, BpmnTypeOK, Calls
<1>4. inst.status = "running" /\ inst \in InstanceRows
  BY DEF ReadToAdvance, BpmnIInv, BpmnTypeOK
<1>5. RequestIsSound(diagram, approved, c)
  BY <1>3, <1>4 DEF RequestIsSound, BpmnIInv, InstanceIsSound
<1>6. /\ inst' = inst /\ call' = [call EXCEPT ![r] = c]
      /\ diagram' = diagram /\ approved' = approved /\ outrun' = outrun
  BY <1>1, <1>2 DEF ReadToAdvance
<1>7. calls' \in 0 .. MaxSteps
  BY CallsAssumption DEF ReadToAdvance, Begin, BpmnIInv, BpmnTypeOK
<1>8. /\ approved \subseteq {Start} \cup Tasks /\ outrun' \in BOOLEAN
      /\ InstanceIsSound(diagram, approved, inst) /\ (~outrun' => TrailTells(diagram, inst))
  BY <1>6 DEF BpmnIInv, BpmnTypeOK
<1>9. QED
  BY <1>3, <1>4, <1>5, <1>6, <1>7, <1>8, StepOfOne

LEMMA WriteKeepsBpmn ==
    ASSUME BpmnIInv, NEW r \in Callers, WriteAdvance(r)
    PROVE  BpmnIInv'
<1>1. PICK c : c = call[r]
  OBVIOUS
<1>2. /\ c \in Calls /\ c.read \in InstanceRows /\ c.pc = "write"
      /\ RequestIsSound(diagram, approved, c)
  BY <1>1 DEF BpmnIInv, BpmnTypeOK, Calls, WriteAdvance
<1>3. /\ c.read.status = "running" /\ c.outcome \in {"approved", "rejected"}
      /\ StandsWell(diagram, approved, c.read.at)
  BY <1>2 DEF RequestIsSound
<1>4. diagram \in Diagrams /\ inst \in InstanceRows
  BY DEF BpmnIInv, BpmnTypeOK
<1>5. PICK more : more = approved \cup {n \in {c.read.at} : c.outcome = "approved"}
  OBVIOUS
<1>6. PICK row : row = Advanced(c.read, c.outcome)
  OBVIOUS
<1>7. /\ inst' = row /\ call' = [call EXCEPT ![r] = NoCall]
      /\ diagram' = diagram /\ approved' = more /\ calls' = calls
      /\ outrun' = (outrun \/ inst # c.read)
  BY <1>1, <1>5, <1>6 DEF WriteAdvance
<1>8. PICK l \in Nat : /\ Len(Path(diagram)) = l + 2 /\ Path(diagram)[l + 2] = "end"
                       /\ Once(Path(diagram)) /\ DOMAIN Path(diagram) = 1 .. l + 2
                       /\ \A k \in 1 .. l + 1 : Path(diagram)[k] \in {Start} \cup Tasks
  BY <1>4, PathIsSound
<1>9. approved \subseteq more /\ more \subseteq {Start} \cup Tasks
  <2>1. c.read.at \in {Start} \cup Tasks
    BY <1>3, <1>8 DEF StandsWell
  <2>2. QED
    BY <1>5, <2>1 DEF BpmnIInv, BpmnTypeOK
<1>10. PICK next : next = NextOnPath(diagram, c.read.at)
  OBVIOUS
(* Where nothing was written meanwhile, the history grows by the next.     *)
<1>11. PICK t : t = c.read.trail
  OBVIOUS
<1>12. t \in Seq({Start, "end"} \cup Tasks)
  BY <1>2, <1>11 DEF InstanceRows
<1>13. ASSUME ~outrun'
       PROVE  /\ Len(t) \in 1 .. l + 1 /\ \A i \in 1 .. Len(t) : t[i] = Path(diagram)[i]
              /\ next = Path(diagram)[Len(t) + 1] /\ (next = "end" <=> Len(t) = l + 1)
  <2>1. inst = c.read /\ TrailTells(diagram, inst)
    BY <1>7, <1>13 DEF BpmnIInv
  <2>2. /\ Len(t) \in 1 .. l + 1 /\ \A i \in 1 .. Len(t) : t[i] = Path(diagram)[i]
        /\ c.read.at = Path(diagram)[Len(t)]
    BY <1>3, <1>8, <1>11, <2>1 DEF TrailTells, None
  <2>3. PICK k : k = Len(t)
    OBVIOUS
  <2>4. k \in 1 .. Len(Path(diagram)) - 1
    BY <1>8, <2>2, <2>3
  <2>5. /\ NextOnPath(diagram, Path(diagram)[k]) = Path(diagram)[k + 1]
        /\ NextOnPath(diagram, Path(diagram)[k]) = "end" <=> k = Len(Path(diagram)) - 1
    BY <1>4, <2>4, NextIsNext
  <2>6. QED
    BY <1>8, <1>10, <2>2, <2>3, <2>5
<1>14. row \in InstanceRows /\ InstanceIsSound(diagram, more, row) /\ (~outrun' => TrailTells(diagram, row))
  <2>1. CASE c.outcome = "rejected"
    <3>1. row = [inst EXCEPT !.status = "terminated", !.trail = t]
      BY <1>6, <1>11, <2>1 DEF Advanced
    <3>2. row \in InstanceRows /\ row.status = "terminated" /\ row.trail = t
      BY <1>4, <1>12, <3>1 DEF InstanceRows
    <3>3. InstanceIsSound(diagram, more, row)
      BY <3>2 DEF InstanceIsSound
    <3>4. ~outrun' => TrailTells(diagram, row)
      BY <1>8, <1>13, <3>2 DEF TrailTells
    <3>5. QED
      BY <3>2, <3>3, <3>4
  <2>2. CASE c.outcome = "approved" /\ next = "end"
    <3>1. row = [status |-> "completed", at |-> None, trail |-> Append(t, "end")]
      BY <1>6, <1>10, <1>11, <2>2 DEF Advanced
    <3>2. Append(t, "end") \in Seq({Start, "end"} \cup Tasks)
      BY <1>12
    <3>3. row \in InstanceRows /\ row.status = "completed" /\ row.trail = Append(t, "end")
      BY <3>1, <3>2 DEF InstanceRows
    <3>4. more = approved \cup {c.read.at}
      BY <1>5, <2>2
    <3>5. AllDone(diagram, more)
      BY <1>3, <1>4, <1>10, <2>2, <3>4, OneOn
    <3>6. InstanceIsSound(diagram, more, row)
      BY <3>3, <3>5 DEF InstanceIsSound
    <3>7. ~outrun' => TrailTells(diagram, row)
      BY <1>8, <1>12, <1>13, <2>2, <3>3 DEF TrailTells
    <3>8. QED
      BY <3>3, <3>6, <3>7
  <2>3. CASE c.outcome = "approved" /\ next # "end"
    <3>1. row = [inst EXCEPT !.at = next, !.trail = Append(t, next)]
      BY <1>6, <1>10, <1>11, <2>3 DEF Advanced
    <3>2. more = approved \cup {c.read.at}
      BY <1>5, <2>3
    <3>3. next \in {Start} \cup Tasks /\ StandsWell(diagram, more, next)
      BY <1>3, <1>4, <1>10, <2>3, <3>2, OneOn
    <3>4. Append(t, next) \in Seq({Start, "end"} \cup Tasks)
      BY <1>12, <3>3
    <3>5. /\ row \in InstanceRows /\ row.status = inst.status /\ row.at = next
          /\ row.trail = Append(t, next)
      BY <1>4, <3>1, <3>3, <3>4 DEF InstanceRows
    <3>6. inst.status = "completed" => AllDone(diagram, more)
      BY <1>9, MoreIsDone DEF BpmnIInv, InstanceIsSound
    <3>7. InstanceIsSound(diagram, more, row)
      BY <3>3, <3>5, <3>6 DEF InstanceIsSound
    <3>8. ASSUME ~outrun' PROVE TrailTells(diagram, row)
      <4>1. Len(row.trail) = Len(t) + 1 /\ row.trail[Len(t) + 1] = next
            /\ \A i \in 1 .. Len(t) : row.trail[i] = t[i]
        BY <1>12, <3>5
      <4>2. PICK k : k = Len(t)
        OBVIOUS
      <4>3. k \in 1 .. l
        BY <1>8, <1>13, <2>3, <3>8, <4>2
      <4>4. \A i \in 1 .. k + 1 : row.trail[i] = Path(diagram)[i]
        BY <1>13, <3>8, <4>1, <4>2, <4>3
      <4>5. QED
        BY <1>8, <1>13, <3>5, <3>8, <4>1, <4>2, <4>3, <4>4 DEF TrailTells
    <3>9. QED
      BY <3>5, <3>7, <3>8
  <2>4. QED
    BY <1>3, <2>1, <2>2, <2>3
<1>15. outrun' \in BOOLEAN /\ calls' \in 0 .. MaxSteps
  BY <1>7 DEF BpmnIInv, BpmnTypeOK
<1>16. QED
  BY <1>7, <1>9, <1>14, <1>15, NoCallIsSound, StepOfOne

LEMMA TerminationKeepsBpmn ==
    ASSUME BpmnIInv, NEW r \in Callers, Terminate(r)
    PROVE  BpmnIInv'
<1>1. PICK row : row = [inst EXCEPT !.status = "terminated"]
  OBVIOUS
<1>2. /\ row \in InstanceRows /\ row.status = "terminated" /\ row.trail = inst.trail
      /\ inst.status # None
  BY <1>1 DEF BpmnIInv, BpmnTypeOK, InstanceRows, Terminate
<1>3. InstanceIsSound(diagram, approved, row)
  BY <1>2 DEF InstanceIsSound
<1>4. /\ inst' = row /\ call' = [call EXCEPT ![r] = call[r]]
      /\ diagram' = diagram /\ approved' = approved /\ outrun' = outrun
  BY <1>1 DEF Terminate, BpmnIInv, BpmnTypeOK
<1>5. ~outrun' => TrailTells(diagram, row)
  BY <1>2, <1>4 DEF BpmnIInv, TrailTells
<1>6. call[r] \in Calls /\ RequestIsSound(diagram, approved, call[r])
  BY DEF BpmnIInv, BpmnTypeOK, Calls
<1>7. calls' \in 0 .. MaxSteps
  BY CallsAssumption DEF Terminate, Begin, BpmnIInv, BpmnTypeOK
<1>8. approved \subseteq {Start} \cup Tasks /\ outrun' \in BOOLEAN
  BY <1>4 DEF BpmnIInv, BpmnTypeOK
<1>9. QED
  BY <1>2, <1>3, <1>4, <1>5, <1>6, <1>7, <1>8, StepOfOne

LEMMA BpmnSteps == BpmnIInv /\ [BpmnNext]_bpmnVars => BpmnIInv'
<1> SUFFICES ASSUME BpmnIInv, [BpmnNext]_bpmnVars PROVE BpmnIInv'
  OBVIOUS
<1>1. CASE BpmnNext
  <2>1. PICK r \in Callers : StartInstance(r) \/ LinkWorkflow(r) \/ ReadToAdvance(r)
                             \/ WriteAdvance(r) \/ Terminate(r)
    BY <1>1 DEF BpmnNext
  <2>2. QED
    BY <2>1, StartKeepsBpmn, LinkKeepsBpmn, ReadKeepsBpmn, WriteKeepsBpmn, TerminationKeepsBpmn
<1>2. CASE UNCHANGED bpmnVars
  BY <1>2 DEF bpmnVars, BpmnIInv, BpmnTypeOK, InstanceRows
<1>3. QED
  BY <1>1, <1>2

(* What a step may do to an instance that is closed. *)
LateOrByHand ==
    inst.status \in {"completed", "terminated"} /\ inst' # inst
      => \/ inst' = [inst EXCEPT !.status = "terminated"] /\ calls' # calls
         \/ \E r \in Callers : call[r].read.status = "running" /\ call'[r] # call[r]

LEMMA ClosedSteps == BpmnIInv /\ [BpmnNext]_bpmnVars => LateOrByHand
<1> SUFFICES ASSUME BpmnIInv, BpmnNext, inst.status \in {"completed", "terminated"}, inst' # inst
             PROVE  LateOrByHand
  BY DEF LateOrByHand, bpmnVars
<1>1. PICK r \in Callers : StartInstance(r) \/ LinkWorkflow(r) \/ ReadToAdvance(r)
                           \/ WriteAdvance(r) \/ Terminate(r)
  BY DEF BpmnNext
<1>2. CASE StartInstance(r)
  BY <1>2 DEF StartInstance, None
<1>3. CASE ReadToAdvance(r)
  BY <1>3 DEF ReadToAdvance
<1>4. CASE Terminate(r)
  <2>1. calls' # calls
    BY <1>4 DEF Terminate, Begin, BpmnIInv, BpmnTypeOK
  <2>2. QED
    BY <1>4, <2>1 DEF Terminate, LateOrByHand
<1>5. CASE LinkWorkflow(r) \/ WriteAdvance(r)
  <2>1. call[r].pc # "idle" /\ call'[r] = NoCall
    BY <1>5 DEF LinkWorkflow, WriteAdvance, BpmnIInv, BpmnTypeOK
  <2>2. call'[r] # call[r]
    BY <2>1 DEF NoCall
  <2>3. call[r].read.status = "running"
    BY <2>1 DEF BpmnIInv, RequestIsSound
  <2>4. QED
    BY <2>2, <2>3 DEF LateOrByHand
<1>6. QED
  BY <1>1, <1>2, <1>3, <1>4, <1>5

(* For any diagram, and any requests that start, advance and terminate an  *)
(* instance however they overlap (src/lib/bpmn/bpmn-engine.ts): a completed *)
(* one was approved task by task, on each task the flows lead to where no  *)
(* element has two ways on; while nothing overlaps the history is the      *)
(* path; and what is closed is written by hand or by a late request only.  *)
THEOREM ProcessesHold == BpmnSpec => BpmnIsSound
<1>1. BpmnInit => BpmnIInv
  BY BpmnStarts
<1>2. BpmnIInv => BpmnInv
  BY CompletionFollows, TrailFollows DEF BpmnIInv, BpmnInv
<1>3. BpmnIInv /\ [BpmnNext]_bpmnVars => LateOrByHand
  BY ClosedSteps
<1>4. LateOrByHand =>
        [ inst.status \in {"completed", "terminated"} /\ inst' # inst
          => \/ inst' = [inst EXCEPT !.status = "terminated"] /\ calls' # calls
             \/ \E r \in Callers : /\ call[r].read.status = "running"
                                    /\ call'[r] # call[r] ]_bpmnVars
  BY DEF LateOrByHand
<1>5. QED
  BY <1>1, <1>2, <1>3, <1>4, BpmnSteps, PTL DEF BpmnSpec, BpmnIsSound, ClosedIsReopenedOnlyLate
=============================================================================
