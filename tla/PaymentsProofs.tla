--------------------------- MODULE PaymentsProofs ---------------------------
(*************************************************************************)
(* The safety properties of Payments, for any invoices, calls, deliveries of *)
(* the provider and any number of stops of the process.                  *)
(*                                                                       *)
(* An invoice is swapped from one status to another in one statement, so of *)
(* the calls that try, one wins; who has won is the one call that may go on *)
(* to audit and apply (CallIsSound), and the entries and the subscription *)
(* tell which of them did.                                               *)
(*************************************************************************)
EXTENDS Payments, TLAPS

Paid == {"confirmed", "refunded"}

Deciding == {"read", "swap", "mark", "audit", "apply"}

(* Where an invocation may be, and what it has made sure of: the swap it    *)
(* is about to make is an allowed one, only who won it goes on to audit     *)
(* and apply, and a confirmation was reported by the provider.              *)
CallIsSound(c) ==
    /\ c.pc = "idle" => c = NotStarted
    /\ c.pc \notin {"idle", "list"} => c.key \in Keys
    /\ c.pc \in {"audit", "apply"} => c.won
    /\ c.won => c.pc \in {"mark", "audit", "apply"}
    /\ c.pc = "swap" => c.target \in Allowed(c.seen)
    /\ c.pc \in Deciding /\ c.target = "confirmed" =>
          "confirmed" \in provider[c.key].sent

(* The provider has sent an event of what it holds true, and knows nothing  *)
(* of a payment nobody asked for.                                           *)
ProviderIsSound ==
    \A k \in Keys : IF provider[k].status = "none" THEN provider[k].sent = {}
                   ELSE provider[k].status \in provider[k].sent

(* Who won the confirmation of an invoice is alone, and still owes it the   *)
(* activation.                                                              *)
WinnersAreAlone ==
    \A k \in Keys : \A s \in Slots : Winner(s, k) =>
        /\ invoice[k].status \in Paid /\ activated[k] = 0
        /\ \A t \in Slots : Winner(t, k) => t = s

PaymentIInv ==
    /\ PaymentInv
    /\ \A s \in Slots : CallIsSound(serving[s])
    /\ ProviderIsSound
    /\ WinnersAreAlone

LEMMA PaymentTypes ==
    ASSUME PaymentTypeOK
    PROVE  /\ \A s \in Slots : serving[s] \in CallType
           /\ \A k \in Keys : invoice[k] \in InvoiceType /\ activated[k] \in Nat
           /\ NoKey \notin Keys /\ Cron \in Slots /\ NotStarted \in CallType
  <1>1. NotStarted \in CallType
    BY DEF NotStarted, CallType, CallPcs, Operations, Statuses
  <1> QED
    BY <1>1, NoKeyAssumption DEF PaymentTypeOK, Slots

(* A step of one invocation that confirms, refunds and activates nothing:   *)
(* it may lose what it had won only by abandoning it.                       *)
LEMMA QuietStep ==
    ASSUME PaymentIInv, PaymentTypeOK', NEW s \in Slots, NEW c \in CallType,
           serving' = [serving EXCEPT ![s] = c], CallIsSound(c)',
           \A k \in Keys : \/ invoice'[k].status = invoice[k].status
                           \/ invoice[k].status \notin Paid /\ invoice'[k].status \notin Paid,
           \A k \in Keys : provider[k].sent \subseteq provider'[k].sent,
           ProviderIsSound', activated' = activated,
           subscription'.paidBy = subscription.paidBy, abandoned \subseteq abandoned',
           c.won => /\ serving[s].won /\ c.key = serving[s].key
                    /\ c.target = serving[s].target,
           \A k \in Keys : Winner(s, k) =>
               c.won \/ \E why \in {"refused", "stopped"} : <<k, why>> \in abandoned'
    PROVE  PaymentIInv'
  <1>1. PaymentTypeOK /\ ActivatedOnce /\ ActivationIsPaid /\ ActivationLostOnlyByFailure
    BY DEF PaymentIInv, PaymentInv
  <1>2. \A t \in Slots : serving'[t] = IF t = s THEN c ELSE serving[t]
    BY <1>1 DEF PaymentTypeOK
  <1>3. \A t \in Slots, k \in Keys : Winner(t, k)' => Winner(t, k)
    BY <1>2 DEF Winner
  <1>4. \A k \in Keys : /\ invoice'[k].status \in Paid <=> invoice[k].status \in Paid
                        /\ invoice'[k].status = "confirmed" => invoice[k].status = "confirmed"
    BY DEF Paid
  <1>5. ActivatedOnce' 
    BY <1>1 DEF ActivatedOnce
  <1>6. ActivationIsPaid'
    BY <1>1, <1>4 DEF ActivationIsPaid, Paid
  <1>7. ActivationLostOnlyByFailure'
    <2> SUFFICES ASSUME NEW k \in Keys, invoice'[k].status = "confirmed", activated'[k] = 0
                 PROVE  \/ \E t \in Slots : Winner(t, k)' /\ serving'[t].pc \in {"mark", "audit", "apply"}
                        \/ \E why \in {"refused", "stopped"} : <<k, why>> \in abandoned'
      BY DEF ActivationLostOnlyByFailure
    <2>1. \/ \E t \in Slots : Winner(t, k) /\ serving[t].pc \in {"mark", "audit", "apply"}
          \/ \E why \in {"refused", "stopped"} : <<k, why>> \in abandoned
      BY <1>1, <1>4 DEF ActivationLostOnlyByFailure
    <2>2. ASSUME NEW t \in Slots, Winner(t, k), serving[t].pc \in {"mark", "audit", "apply"}, t # s
          PROVE  Winner(t, k)' /\ serving'[t].pc \in {"mark", "audit", "apply"}
      BY <1>2, <2>2 DEF Winner
    <2>3. ASSUME Winner(s, k), c.won
          PROVE  Winner(s, k)' /\ serving'[s].pc \in {"mark", "audit", "apply"}
      <3>1. c.pc \in {"mark", "audit", "apply"}
        BY <2>3 DEF CallIsSound
      <3> QED
        BY <1>2, <2>3, <3>1 DEF Winner
    <2> QED
      BY <2>1, <2>2, <2>3
  <1>8. WinnersAreAlone'
    BY <1>3, <1>4 DEF PaymentIInv, WinnersAreAlone
  <1>9. \A t \in Slots : CallIsSound(serving[t])'
    <2> SUFFICES ASSUME NEW t \in Slots PROVE CallIsSound(serving[t])'
      OBVIOUS
    <2>1. CASE t = s
      BY <1>2, <2>1
    <2>2. CASE t # s
      <3>1. CallIsSound(serving[t])
        BY DEF PaymentIInv
      <3> QED
        BY <1>2, <2>2, <3>1 DEF CallIsSound, Deciding
    <2> QED
      BY <2>1, <2>2
  <1> QED
    BY <1>5, <1>6, <1>7, <1>8, <1>9 DEF PaymentIInv, PaymentInv

LEMMA NotStartedIsSound == CallIsSound(NotStarted) /\ ~NotStarted.won
  BY DEF CallIsSound, NotStarted, Deciding

LEMMA PaymentInitHolds == PaymentInit => PaymentIInv
  <1> SUFFICES ASSUME PaymentInit PROVE PaymentIInv
    OBVIOUS
  <1>1. PaymentTypeOK
    <2>1. NoInvoice \in InvoiceType
      BY DEF NoInvoice, InvoiceType
    <2>2. NotStarted \in CallType
      BY DEF NotStarted, CallType, CallPcs, Operations, Statuses
    <2>3. 0 \in 0 .. MaxInvocations
      BY CallsAssumption
    <2>4. /\ invoice \in [Keys -> InvoiceType] /\ serving \in [Slots -> CallType]
          /\ activated \in [Keys -> Nat]
      BY <2>1, <2>2 DEF PaymentInit
    <2>5. provider \in [Keys -> [status : Reports \cup {"none"}, sent : SUBSET Reports]]
      BY DEF PaymentInit
    <2>6. /\ subscription \in [status : {"trialing", "active", "past_due"},
                                paidBy : Keys \cup {NoKey}]
          /\ abandoned \subseteq Keys \X {"refused", "stopped"}
      BY DEF PaymentInit
    <2>7. calls \in 0 .. MaxInvocations
      BY <2>3 DEF PaymentInit
    <2> QED
      BY <2>4, <2>5, <2>6, <2>7 DEF PaymentTypeOK
  <1>2. \A s \in Slots : serving[s] = NotStarted
    BY DEF PaymentInit
  <1>3. \A s \in Slots : CallIsSound(serving[s]) /\ ~serving[s].won
    BY <1>2, NotStartedIsSound
  <1>4. \A k \in Keys : /\ invoice[k].status = "none" /\ activated[k] = 0
                        /\ provider[k].status = "none" /\ provider[k].sent = {}
                        /\ subscription.paidBy # k
    BY NoKeyAssumption DEF PaymentInit, NoInvoice
  <1>5. PaymentInv
    BY <1>1, <1>4 DEF PaymentInv, ActivatedOnce, ActivationIsPaid, ActivationLostOnlyByFailure
  <1> QED
    BY <1>3, <1>4, <1>5 DEF PaymentIInv, ProviderIsSound, WinnersAreAlone, Winner

(* A step of invocation s to c that has won nothing and changes neither     *)
(* invoices nor the provider.                                               *)
LEMMA LocalStep ==
    ASSUME PaymentIInv, NEW s \in Slots, NEW c \in CallType,
           serving' = [serving EXCEPT ![s] = c], CallIsSound(c), ~c.won, ~serving[s].won,
           calls' \in 0 .. MaxInvocations,
           UNCHANGED <<invoice, subscription, provider, activated, abandoned>>
    PROVE  PaymentIInv'
  <1>1. PaymentTypeOK'
    BY DEF PaymentIInv, PaymentInv, PaymentTypeOK
  <1>2. CallIsSound(c)'
    BY DEF CallIsSound
  <1>3. ProviderIsSound'
    BY DEF PaymentIInv, ProviderIsSound
  <1>4. \A k \in Keys : ~Winner(s, k)
    BY DEF Winner
  <1> QED
    BY <1>1, <1>2, <1>3, <1>4, QuietStep

LEMMA IdleHasNotWon ==
    ASSUME PaymentIInv, NEW s \in Slots, serving[s].pc \notin {"mark", "audit", "apply"}
    PROVE  ~serving[s].won
  BY DEF PaymentIInv, CallIsSound

(* An invocation that begins. *)
LEMMA CallKeeps ==
    ASSUME PaymentIInv, NEW s \in Invocations, NEW c \in CallType,
           Call(s, c), CallIsSound(c), ~c.won
    PROVE  PaymentIInv'
  <1>1. s \in Slots /\ ~serving[s].won
    BY IdleHasNotWon DEF Slots, Call
  <1>2. calls' \in 0 .. MaxInvocations
    BY CallsAssumption DEF Call, PaymentIInv, PaymentInv, PaymentTypeOK
  <1> QED
    BY <1>1, <1>2, LocalStep DEF Call

LEMMA BeginKeeps == ASSUME PaymentIInv, NEW s \in Invocations, Begin(s) PROVE PaymentIInv'
  <1>0. PaymentTypeOK
    BY DEF PaymentIInv, PaymentInv
  <1>1. ASSUME NEW k \in Keys, BeginCheckout(s, k) PROVE PaymentIInv'
    <2>1. PICK c : c = At([NotStarted EXCEPT !.key = k], AfterLookup(invoice[k]))
      OBVIOUS
    <2>2. AfterLookup(invoice[k]) \in {"create", "idle", "provider"}
      BY DEF AfterLookup
    <2>3. CASE AfterLookup(invoice[k]) = "idle"
      <3>1. c = NotStarted
        BY <2>1, <2>3 DEF At
      <3> QED
        BY <1>0, <1>1, <2>1, <3>1, CallKeeps, NotStartedIsSound, PaymentTypes DEF BeginCheckout
    <2>4. CASE AfterLookup(invoice[k]) # "idle"
      <3>1. PICK pc : pc = AfterLookup(invoice[k])
        OBVIOUS
      <3>2. c = [[NotStarted EXCEPT !.key = k] EXCEPT !.pc = pc]
        BY <2>1, <2>4, <3>1 DEF At
      <3>3. c = [pc |-> pc, op |-> "checkout", key |-> k, target |-> "pending",
                 id |-> FreshId, seen |-> "none", list |-> {}, won |-> FALSE]
        BY <3>2 DEF NotStarted
      <3>4. c \in CallType
        BY <2>2, <3>1, <3>3 DEF CallType, CallPcs, RunningPcs, Operations, Statuses
      <3>5. CallIsSound(c) /\ ~c.won
        BY <2>2, <2>4, <3>1, <3>3 DEF CallIsSound, Deciding
      <3> QED
        BY <1>1, <2>1, <3>4, <3>5, CallKeeps DEF BeginCheckout
    <2> QED
      BY <2>3, <2>4
  <1>2. ASSUME NEW k \in Keys, BeginRefund(s, k) PROVE PaymentIInv'
    <2>1. PICK c : c = [NotStarted EXCEPT !.pc = "read", !.op = "refund", !.key = k,
                                          !.target = "refunded", !.id = FreshId]
      OBVIOUS
    <2>2. c = [pc |-> "read", op |-> "refund", key |-> k, target |-> "refunded",
               id |-> FreshId, seen |-> "none", list |-> {}, won |-> FALSE]
      BY <2>1 DEF NotStarted
    <2>3. c \in CallType
      BY <2>2 DEF CallType, CallPcs, RunningPcs, Operations, Statuses
    <2>4. CallIsSound(c) /\ ~c.won
      BY <2>2 DEF CallIsSound, Deciding
    <2> QED
      BY <1>2, <2>1, <2>3, <2>4, CallKeeps DEF BeginRefund
  <1>3. ASSUME NEW k \in Keys, NEW report \in Reports, BeginWebhook(s, k, report)
        PROVE  PaymentIInv'
    <2>0. PICK id : id = <<"webhook", EventStatus(report)>>
      OBVIOUS
    <2>1. PICK c : c = [NotStarted EXCEPT !.pc = "read", !.op = "webhook", !.key = k,
                                          !.target = Target(report), !.id = id]
      OBVIOUS
    <2>2. c = [pc |-> "read", op |-> "webhook", key |-> k, target |-> Target(report),
               id |-> id, seen |-> "none", list |-> {}, won |-> FALSE]
      BY <2>1 DEF NotStarted
    <2>3. Target(report) \in Statuses /\ EventStatus(report) \in Statuses
      BY DEF Target, EventStatus, Reports, Statuses
    <2>4. id \in EventIds
      BY <2>0, <2>3 DEF EventIds
    <2>5. c \in CallType
      BY <2>2, <2>3, <2>4 DEF CallType, CallPcs, RunningPcs, Operations
    <2>6. report \in provider[k].sent /\ (Target(report) = "confirmed" => report = "confirmed")
      BY <1>3 DEF BeginWebhook, Target
    <2>7. CallIsSound(c) /\ ~c.won
      BY <2>2, <2>6 DEF CallIsSound, Deciding
    <2> QED
      BY <1>3, <2>0, <2>1, <2>5, <2>7, CallKeeps DEF BeginWebhook
  <1> QED
    BY <1>1, <1>2, <1>3 DEF Begin

(* A step that confirms, refunds and activates nothing, whatever else it    *)
(* writes.                                                                  *)
Quiet ==
    /\ invoice' \in [Keys -> InvoiceType]
    /\ \A k \in Keys : \/ invoice'[k].status = invoice[k].status
                       \/ invoice[k].status \notin Paid /\ invoice'[k].status \notin Paid
    /\ provider' \in [Keys -> [status : Reports \cup {"none"}, sent : SUBSET Reports]]
    /\ \A k \in Keys : provider[k].sent \subseteq provider'[k].sent
    /\ ProviderIsSound'
    /\ subscription' \in [status : {"trialing", "active", "past_due"},
                          paidBy : Keys \cup {NoKey}]
    /\ subscription'.paidBy = subscription.paidBy
    /\ UNCHANGED <<activated, calls>>

(* What PaymentTypeOK, which speaks of the tables, says of each.            *)
LEMMA TablesAreQuiet ==
    ASSUME PaymentIInv
    PROVE  /\ UNCHANGED <<invoice, subscription, provider, activated, calls>> => Quiet
           /\ UNCHANGED <<subscription, provider, activated, calls>> =>
                ((/\ invoice' \in [Keys -> InvoiceType]
                  /\ \A k \in Keys : \/ invoice'[k].status = invoice[k].status
                                     \/ /\ invoice[k].status \notin Paid
                                        /\ invoice'[k].status \notin Paid)
                 => Quiet)
  <1>1. PaymentTypeOK /\ ProviderIsSound
    BY DEF PaymentIInv, PaymentInv
  <1>2. UNCHANGED provider => ProviderIsSound'
    BY <1>1 DEF ProviderIsSound
  <1> QED
    BY <1>1, <1>2 DEF Quiet, PaymentTypeOK

LEMMA AtFields ==
    ASSUME NEW c \in CallType, NEW pc \in CallPcs
    PROVE  /\ At(c, pc) \in CallType
           /\ pc = "idle" => At(c, pc) = NotStarted
           /\ pc # "idle" => /\ At(c, pc).pc = pc /\ At(c, pc).key = c.key
                             /\ At(c, pc).target = c.target /\ At(c, pc).won = c.won
                             /\ At(c, pc).id = c.id /\ At(c, pc).seen = c.seen
  <1>1. NotStarted \in CallType
    BY DEF NotStarted, CallType, CallPcs, Operations, Statuses
  <1>2. CASE pc = "idle"
    BY <1>1, <1>2 DEF At
  <1>3. CASE pc # "idle"
    <2>1. At(c, pc) = [c EXCEPT !.pc = pc]
      BY <1>3 DEF At
    <2>2. [c EXCEPT !.pc = pc] \in CallType
      BY DEF CallType
    <2>3. \A d : d = [c EXCEPT !.pc = pc] =>
             /\ d.pc = pc /\ d.key = c.key /\ d.target = c.target /\ d.won = c.won
             /\ d.id = c.id /\ d.seen = c.seen
      BY DEF CallType
    <2> QED
      BY <1>3, <2>1, <2>2, <2>3
  <1> QED
    BY <1>2, <1>3

(* An invocation that only goes on to pc, or ends.                          *)
LEMMA AdvanceKeeps ==
    ASSUME PaymentIInv, NEW s \in Slots, NEW pc \in CallPcs, Goto(s, pc), Quiet,
           abandoned \subseteq abandoned',
           abandoned' \subseteq Keys \X {"refused", "stopped"},
           pc # "idle" => serving[s].key \in Keys /\ pc # "swap",
           pc \in Deciding => serving[s].pc \in Deciding,
           pc \in {"audit", "apply"} => serving[s].won,
           serving[s].won /\ pc # "idle" => pc \in {"mark", "audit", "apply"},
           serving[s].won /\ serving[s].target = "confirmed" /\ pc = "idle" =>
               \E why \in {"refused", "stopped"} : <<serving[s].key, why>> \in abandoned'
    PROVE  PaymentIInv'
  <1>1. PaymentTypeOK /\ CallIsSound(serving[s])
    BY DEF PaymentIInv, PaymentInv
  <1>2. serving[s] \in CallType
    BY <1>1, PaymentTypes
  <1>3. PICK c : c = At(serving[s], pc)
    OBVIOUS
  <1>4. /\ c \in CallType
        /\ pc = "idle" => c = NotStarted
        /\ pc # "idle" => /\ c.pc = pc /\ c.key = serving[s].key /\ c.won = serving[s].won
                          /\ c.target = serving[s].target
    BY <1>2, <1>3, AtFields
  <1>5. serving' = [serving EXCEPT ![s] = c]
    BY <1>3 DEF Goto
  <1>6. PaymentTypeOK'
    BY <1>1, <1>4, <1>5 DEF PaymentTypeOK, Quiet
  <1>7. CallIsSound(c)'
    <2>1. CASE pc = "idle"
      <3>1. CallIsSound(NotStarted)'
        BY DEF CallIsSound, NotStarted, Deciding
      <3> QED
        BY <1>4, <2>1, <3>1
    <2>2. CASE pc # "idle"
      <3>1. pc \in Deciding /\ serving[s].target = "confirmed" =>
               "confirmed" \in provider'[serving[s].key].sent
        BY <1>1, <2>2 DEF CallIsSound, Quiet
      <3> QED
        BY <1>4, <2>2, <3>1 DEF CallIsSound
    <2> QED
      BY <2>1, <2>2
  <1>8. c.won => /\ serving[s].won /\ c.key = serving[s].key
                 /\ c.target = serving[s].target
    BY <1>4, NotStartedIsSound
  <1>9. \A k \in Keys : Winner(s, k) =>
           c.won \/ \E why \in {"refused", "stopped"} : <<k, why>> \in abandoned'
    BY <1>4 DEF Winner
  <1> QED
    BY <1>4, <1>5, <1>6, <1>7, <1>8, <1>9, QuietStep DEF Quiet

(* What an invocation that is not idle has. *)
LEMMA Served ==
    ASSUME PaymentIInv, NEW s \in Slots
    PROVE  /\ serving[s] \in CallType /\ CallIsSound(serving[s])
           /\ serving[s].pc \notin {"idle", "list"} =>
                 /\ serving[s].key \in Keys
                 /\ invoice[serving[s].key] \in InvoiceType
                 /\ provider[serving[s].key] \in [status : Reports \cup {"none"},
                                                  sent : SUBSET Reports]
           /\ abandoned \subseteq Keys \X {"refused", "stopped"}
  <1>1. PaymentTypeOK /\ CallIsSound(serving[s])
    BY DEF PaymentIInv, PaymentInv
  <1>2. serving[s].pc \notin {"idle", "list"} => serving[s].key \in Keys
    BY <1>1 DEF CallIsSound
  <1> QED
    BY <1>1, <1>2, PaymentTypes DEF PaymentTypeOK

LEMMA AfterLookupPcs ==
    \A row : AfterLookup(row) \in {"create", "idle", "provider"}
  BY DEF AfterLookup

LEMMA CreateInvoiceKeeps ==
    ASSUME PaymentIInv, NEW s \in Slots, CreateInvoice(s) PROVE PaymentIInv'
  <1>0. PICK k : k = serving[s].key
    OBVIOUS
  <1>1. k \in Keys /\ invoice[k] \in InvoiceType /\ ~serving[s].won
    BY <1>0, Served, IdleHasNotWon DEF CreateInvoice
  <1>2. abandoned' = abandoned /\ abandoned \subseteq Keys \X {"refused", "stopped"}
    BY Served DEF CreateInvoice
  <1>3. CASE invoice[k].status = "none"
    <2>1. PICK row : row = [NoInvoice EXCEPT !.status = "pending"]
      OBVIOUS
    <2>2. row \in InvoiceType /\ row.status = "pending"
      BY <2>1 DEF NoInvoice, InvoiceType, Statuses
    <2>3. invoice' = [invoice EXCEPT ![k] = row] /\ Goto(s, "provider")
      BY <1>0, <1>3, <2>1 DEF CreateInvoice
    <2>4. invoice \in [Keys -> InvoiceType]
      BY DEF PaymentIInv, PaymentInv, PaymentTypeOK
    <2>5. Quiet
      BY <1>1, <1>3, <2>2, <2>3, <2>4, TablesAreQuiet DEF CreateInvoice, Paid
    <2> QED
      BY <1>0, <1>1, <1>2, <2>3, <2>5, AdvanceKeeps DEF CallPcs, RunningPcs, Deciding
  <1>4. CASE invoice[k].status # "none"
    <2>1. PICK pc : pc = AfterLookup(invoice[k])
      OBVIOUS
    <2>2. pc \in {"create", "idle", "provider"}
      BY <2>1, AfterLookupPcs
    <2>3. Goto(s, pc) /\ invoice' = invoice
      BY <1>0, <1>4, <2>1 DEF CreateInvoice
    <2>4. Quiet
      BY <2>3, TablesAreQuiet DEF CreateInvoice
    <2> QED
      BY <1>0, <1>1, <1>2, <2>2, <2>3, <2>4, AdvanceKeeps DEF CallPcs, RunningPcs, Deciding
  <1> QED
    BY <1>3, <1>4

LEMMA CallProviderKeeps ==
    ASSUME PaymentIInv, NEW s \in Slots, CallProvider(s) PROVE PaymentIInv'
  <1>0. PICK k : k = serving[s].key
    OBVIOUS
  <1>1. k \in Keys /\ ~serving[s].won
    BY <1>0, Served, IdleHasNotWon DEF CallProvider
  <1>2. abandoned' = abandoned /\ abandoned \subseteq Keys \X {"refused", "stopped"}
    BY Served DEF CallProvider
  <1>3. PaymentTypeOK /\ ProviderIsSound
    BY DEF PaymentIInv, PaymentInv
  <1>4. PICK row : row = [status |-> "waiting", sent |-> {"waiting"}]
    OBVIOUS
  <1>5. row \in [status : Reports \cup {"none"}, sent : SUBSET Reports]
    BY <1>4 DEF Reports, Statuses
  <1>6. provider' = IF provider[k].status # "none" THEN provider
                    ELSE [provider EXCEPT ![k] = row]
    BY <1>0, <1>4 DEF CallProvider
  <1>7. Quiet
    <2>1. provider[k].status = "none" => provider[k].sent = {}
      BY <1>1, <1>3 DEF ProviderIsSound
    <2>2. /\ provider' \in [Keys -> [status : Reports \cup {"none"}, sent : SUBSET Reports]]
          /\ \A j \in Keys : provider'[j] = IF j = k /\ provider[k].status = "none" THEN row
                                           ELSE provider[j]
      BY <1>1, <1>3, <1>5, <1>6 DEF PaymentTypeOK
    <2>3. ProviderIsSound'
      BY <1>1, <1>3, <1>4, <2>2 DEF ProviderIsSound
    <2>4. \A j \in Keys : provider[j].sent \subseteq provider'[j].sent
      BY <2>1, <2>2
    <2> QED
      BY <1>3, <2>2, <2>3, <2>4 DEF Quiet, PaymentTypeOK, CallProvider
  <1>8. Goto(s, "link")
    BY DEF CallProvider
  <1> QED
    BY <1>0, <1>1, <1>2, <1>7, <1>8, AdvanceKeeps DEF CallPcs, RunningPcs, Deciding

LEMMA LinkInvoiceKeeps ==
    ASSUME PaymentIInv, NEW s \in Slots, LinkInvoice(s) PROVE PaymentIInv'
  <1>0. PICK k : k = serving[s].key
    OBVIOUS
  <1>1. k \in Keys /\ invoice[k] \in InvoiceType /\ ~serving[s].won
    BY <1>0, Served, IdleHasNotWon DEF LinkInvoice
  <1>2. abandoned' = abandoned /\ abandoned \subseteq Keys \X {"refused", "stopped"}
    BY Served DEF LinkInvoice
  <1>3. PICK row : row = [invoice[k] EXCEPT !.status = "waiting", !.providerId = TRUE,
                                            !.url = TRUE, !.overdue = FALSE]
    OBVIOUS
  <1>4. row \in InvoiceType /\ row.status = "waiting"
    BY <1>1, <1>3 DEF InvoiceType, Statuses
  <1>5. invoice' = IF invoice[k].status # "pending" THEN invoice
                   ELSE [invoice EXCEPT ![k] = row]
    BY <1>0, <1>3 DEF LinkInvoice
  <1>6. invoice \in [Keys -> InvoiceType]
    BY DEF PaymentIInv, PaymentInv, PaymentTypeOK
  <1>7. Quiet
    BY <1>1, <1>4, <1>5, <1>6, TablesAreQuiet DEF LinkInvoice, Paid
  <1>8. Goto(s, "idle")
    BY DEF LinkInvoice
  <1> QED
    BY <1>1, <1>2, <1>7, <1>8, AdvanceKeeps DEF CallPcs, RunningPcs, Deciding

LEMMA ReadInvoiceKeeps ==
    ASSUME PaymentIInv, NEW s \in Slots, ReadInvoice(s) PROVE PaymentIInv'
  <1>0. PICK row : row = invoice[serving[s].key]
    OBVIOUS
  <1>1. /\ serving[s] \in CallType /\ CallIsSound(serving[s]) /\ serving[s].key \in Keys
        /\ row \in InvoiceType /\ ~serving[s].won /\ serving[s].pc = "read"
    BY <1>0, Served, IdleHasNotWon DEF ReadInvoice
  <1>2. PICK b : b = [serving[s] EXCEPT !.seen = row.status, !.list = row.processed]
    OBVIOUS
  <1>3. /\ b \in CallType /\ b.key = serving[s].key /\ b.target = serving[s].target
        /\ b.won = serving[s].won /\ b.seen = row.status
    BY <1>1, <1>2 DEF CallType, InvoiceType
  <1>4. PICK pc : pc = IF serving[s].id \in row.processed THEN "idle"
                       ELSE IF row.status = serving[s].target THEN "mark"
                       ELSE IF serving[s].target \in Allowed(row.status) THEN "swap" ELSE "idle"
    OBVIOUS
  <1>5. pc \in {"idle", "mark", "swap"} /\ (pc = "swap" => b.target \in Allowed(b.seen))
    BY <1>3, <1>4
  <1>6. PICK c : c = At(b, pc)
    OBVIOUS
  <1>7. pc \in CallPcs
    BY <1>5 DEF CallPcs, RunningPcs
  <1>8. /\ c \in CallType /\ (pc = "idle" => c = NotStarted)
        /\ pc # "idle" => /\ c.pc = pc /\ c.key = b.key /\ c.target = b.target
                          /\ c.won = b.won /\ c.seen = b.seen
    BY <1>3, <1>6, <1>7, AtFields
  <1>9. CallIsSound(c) /\ ~c.won
    <2>1. CASE pc = "idle"
      BY <1>8, <2>1, NotStartedIsSound
    <2>2. CASE pc # "idle"
      BY <1>1, <1>3, <1>5, <1>8, <2>2 DEF CallIsSound, Deciding
    <2> QED
      BY <2>1, <2>2
  <1>10. serving' = [serving EXCEPT ![s] = c]
    BY <1>0, <1>2, <1>4, <1>6 DEF ReadInvoice
  <1>11. calls' \in 0 .. MaxInvocations
    BY DEF ReadInvoice, PaymentIInv, PaymentInv, PaymentTypeOK
  <1> QED
    BY <1>1, <1>8, <1>9, <1>10, <1>11, LocalStep DEF ReadInvoice

LEMMA MarkProcessedKeeps ==
    ASSUME PaymentIInv, NEW s \in Slots, MarkProcessed(s) PROVE PaymentIInv'
  <1>0. PICK k : k = serving[s].key
    OBVIOUS
  <1>1. /\ k \in Keys /\ invoice[k] \in InvoiceType /\ serving[s].pc = "mark"
        /\ serving[s] \in CallType
    BY <1>0, Served DEF MarkProcessed
  <1>2. abandoned' = abandoned /\ abandoned \subseteq Keys \X {"refused", "stopped"}
    BY Served DEF MarkProcessed
  <1>3. PICK ids : ids = serving[s].list \cup ({serving[s].id} \ {FreshId})
    OBVIOUS
  <1>4. ids \in SUBSET EventIds
    BY <1>1, <1>3 DEF CallType
  <1>5. PICK row : row = [invoice[k] EXCEPT !.processed = ids]
    OBVIOUS
  <1>6. row \in InvoiceType /\ row.status = invoice[k].status
    BY <1>1, <1>4, <1>5 DEF InvoiceType
  <1>7. invoice' = [invoice EXCEPT ![k] = row] \/ invoice' = invoice
    BY <1>0, <1>3, <1>5 DEF MarkProcessed
  <1>8. invoice \in [Keys -> InvoiceType]
    BY DEF PaymentIInv, PaymentInv, PaymentTypeOK
  <1>9. Quiet
    BY <1>1, <1>6, <1>7, <1>8, TablesAreQuiet DEF MarkProcessed
  <1>10. PICK pc : pc = AfterMark(s)
    OBVIOUS
  <1>11. Goto(s, pc) /\ pc = IF serving[s].won THEN "audit" ELSE "idle"
    BY <1>10 DEF MarkProcessed, AfterMark
  <1> QED
    BY <1>0, <1>1, <1>2, <1>9, <1>11, AdvanceKeeps DEF CallPcs, RunningPcs, Deciding

LEMMA RecordTransitionKeeps ==
    ASSUME PaymentIInv, NEW s \in Slots, RecordTransition(s) PROVE PaymentIInv'
  <1>1. /\ serving[s].key \in Keys /\ CallIsSound(serving[s]) /\ serving[s].pc = "audit"
        /\ serving[s].won
    BY Served DEF RecordTransition, CallIsSound
  <1>2. abandoned' = abandoned /\ abandoned \subseteq Keys \X {"refused", "stopped"}
    BY Served DEF RecordTransition
  <1>3. Quiet
    BY TablesAreQuiet DEF RecordTransition
  <1>4. PICK pc : pc = IF HasEffect(serving[s].target) THEN "apply" ELSE "idle"
    OBVIOUS
  <1>5. Goto(s, pc)
    BY <1>4 DEF RecordTransition
  <1>6. pc \in {"apply", "idle"} /\ (pc = "idle" => serving[s].target # "confirmed")
    BY <1>4 DEF HasEffect
  <1> QED
    BY <1>1, <1>2, <1>3, <1>5, <1>6, AdvanceKeeps DEF CallPcs, RunningPcs, Deciding

LEMMA GiveUpKeeps ==
    ASSUME PaymentIInv, NEW s \in Slots, NEW why \in {"refused", "stopped"}, GiveUp(s, why),
           serving[s].pc \in RunningPcs
    PROVE  PaymentIInv'
  <1>1. /\ CallIsSound(serving[s])
        /\ serving[s].won => serving[s].key \in Keys
    BY Served DEF CallIsSound
  <1>2. /\ abandoned \subseteq abandoned' /\ abandoned' \subseteq Keys \X {"refused", "stopped"}
        /\ serving[s].won /\ serving[s].target = "confirmed" =>
              <<serving[s].key, why>> \in abandoned'
    BY <1>1, Served DEF GiveUp
  <1>3. Quiet
    BY TablesAreQuiet DEF GiveUp
  <1> QED
    BY <1>1, <1>2, <1>3, AdvanceKeeps DEF CallPcs, Deciding, GiveUp

LEMMA DowngradeKeeps ==
    ASSUME PaymentIInv, NEW s \in Slots, Downgrade(s) PROVE PaymentIInv'
  <1>1. abandoned' = abandoned /\ abandoned \subseteq Keys \X {"refused", "stopped"}
    BY Served DEF Downgrade
  <1>2. PaymentTypeOK
    BY DEF PaymentIInv, PaymentInv
  <1>3. /\ subscription' \in [status : {"trialing", "active", "past_due"},
                              paidBy : Keys \cup {NoKey}]
        /\ subscription'.paidBy = subscription.paidBy
    BY <1>2 DEF Downgrade, PaymentTypeOK, PastDue
  <1>4. ProviderIsSound'
    BY DEF Downgrade, ProviderIsSound, PaymentIInv
  <1>5. Quiet
    BY <1>2, <1>3, <1>4 DEF Downgrade, Quiet, PaymentTypeOK
  <1>6. Goto(s, "idle") /\ serving[s].target # "confirmed"
    BY DEF Downgrade
  <1> QED
    BY <1>1, <1>5, <1>6, AdvanceKeeps DEF CallPcs, Deciding

LEMMA CronHasNotWon ==
    ASSUME PaymentIInv, serving[Cron].pc \in {"idle", "list", "query"}
    PROVE  Cron \in Slots /\ serving[Cron] \in CallType /\ ~serving[Cron].won
  BY IdleHasNotWon, Served DEF Slots

LEMMA BeginReconcileKeeps == ASSUME PaymentIInv, BeginReconcile PROVE PaymentIInv'
  <1>0. PaymentTypeOK /\ Cron \in Slots /\ ~serving[Cron].won
    BY CronHasNotWon DEF PaymentIInv, PaymentInv, BeginReconcile
  <1>1. PICK c : c = [NotStarted EXCEPT !.pc = "list", !.op = "reconcile"]
    OBVIOUS
  <1>2. c = [pc |-> "list", op |-> "reconcile", key |-> NoKey, target |-> "pending",
             id |-> FreshId, seen |-> "none", list |-> {}, won |-> FALSE]
    BY <1>1 DEF NotStarted
  <1>3. c \in CallType
    BY <1>2 DEF CallType, CallPcs, RunningPcs, Operations, Statuses
  <1>4. CallIsSound(c)' /\ ~c.won
    BY <1>2 DEF CallIsSound, Deciding
  <1>5. serving' = [serving EXCEPT ![Cron] = c]
    BY <1>1 DEF BeginReconcile
  <1>6. ASSUME NEW k \in Keys
        PROVE  /\ invoice'[k] \in InvoiceType
               /\ \/ invoice'[k].status = invoice[k].status
                  \/ invoice[k].status \notin Paid /\ invoice'[k].status \notin Paid
    <2>1. PICK row : row = [invoice[k] EXCEPT !.status = "expired"]
      OBVIOUS
    <2>2. invoice[k] \in InvoiceType
      BY <1>0 DEF PaymentTypeOK
    <2>3. row \in InvoiceType /\ row.status = "expired"
      BY <2>1, <2>2 DEF InvoiceType, Statuses
    <2>4. invoice'[k] = IF Stale(k) THEN row ELSE invoice[k]
      BY <2>1 DEF BeginReconcile
    <2> QED
      BY <2>2, <2>3, <2>4 DEF Stale, Open, Paid
  <1>7. invoice' \in [Keys -> InvoiceType]
    <2>1. invoice' = [k \in Keys |-> invoice'[k]]
      BY DEF BeginReconcile
    <2> QED
      BY <1>6, <2>1
  <1>8. PaymentTypeOK'
    BY <1>0, <1>3, <1>5, <1>7 DEF PaymentTypeOK, BeginReconcile
  <1>9. ProviderIsSound'
    BY DEF ProviderIsSound, PaymentIInv, BeginReconcile
  <1>10. \A k \in Keys : ~Winner(Cron, k)
    BY <1>0 DEF Winner
  <1> QED
    BY <1>0, <1>3, <1>4, <1>5, <1>6, <1>8, <1>9, <1>10, QuietStep DEF BeginReconcile

LEMMA ListOpenKeeps == ASSUME PaymentIInv, ListOpen PROVE PaymentIInv'
  <1>0. PaymentTypeOK /\ Cron \in Slots /\ serving[Cron] \in CallType /\ ~serving[Cron].won
    BY CronHasNotWon DEF PaymentIInv, PaymentInv, ListOpen
  <1>1. CASE Goto(Cron, "idle")
    <2>1. Quiet
      BY TablesAreQuiet DEF ListOpen
    <2>2. abandoned' = abandoned /\ abandoned \subseteq Keys \X {"refused", "stopped"}
      BY <1>0 DEF ListOpen, PaymentTypeOK
    <2> QED
      BY <1>0, <1>1, <2>1, <2>2, AdvanceKeeps DEF CallPcs, Deciding
  <1>2. CASE ~Goto(Cron, "idle")
    <2>1. PICK k \in Listed :
             serving' = [serving EXCEPT ![Cron] =
                            [@ EXCEPT !.pc = "query", !.key = k, !.seen = invoice[k].status]]
      BY <1>2 DEF ListOpen
    <2>2. k \in Keys /\ invoice[k].status \in Statuses
      BY <2>1 DEF Listed, Open, Statuses
    <2>3. PICK c : c = [serving[Cron] EXCEPT !.pc = "query", !.key = k, !.seen = invoice[k].status]
      OBVIOUS
    <2>4. c \in CallType /\ c.pc = "query" /\ c.key = k /\ c.won = serving[Cron].won
      BY <1>0, <2>2, <2>3 DEF CallType, CallPcs, RunningPcs
    <2>5. CallIsSound(c)
      BY <1>0, <2>2, <2>4 DEF CallIsSound, Deciding
    <2>6. calls' \in 0 .. MaxInvocations
      BY <1>0 DEF PaymentTypeOK, ListOpen
    <2>7. serving' = [serving EXCEPT ![Cron] = c]
      BY <2>1, <2>3
    <2> QED
      BY <1>0, <2>4, <2>5, <2>6, <2>7, LocalStep DEF ListOpen
  <1> QED
    BY <1>1, <1>2

LEMMA QueryProviderKeeps == ASSUME PaymentIInv, QueryProvider PROVE PaymentIInv'
  <1>0. /\ PaymentTypeOK /\ Cron \in Slots /\ serving[Cron] \in CallType /\ ~serving[Cron].won
        /\ serving[Cron].key \in Keys
    BY CronHasNotWon, Served DEF PaymentIInv, PaymentInv, QueryProvider
  <1>1. CASE Goto(Cron, "idle")
    <2>1. Quiet
      BY TablesAreQuiet DEF QueryProvider
    <2>2. abandoned' = abandoned /\ abandoned \subseteq Keys \X {"refused", "stopped"}
      BY <1>0 DEF QueryProvider, PaymentTypeOK
    <2> QED
      BY <1>0, <1>1, <2>1, <2>2, AdvanceKeeps DEF CallPcs, Deciding
  <1>2. CASE ~Goto(Cron, "idle")
    <2>1. PICK report : report = provider[serving[Cron].key].status
      OBVIOUS
    <2>2. PICK id : id = <<"cron", EventStatus(report)>>
      OBVIOUS
    <2>3. PICK c : c = [serving[Cron] EXCEPT !.pc = "read", !.target = Target(report), !.id = id]
      OBVIOUS
    <2>4. report # "none" /\ serving' = [serving EXCEPT ![Cron] = c]
      BY <1>2, <2>1, <2>2, <2>3 DEF QueryProvider
    <2>5. report \in Reports /\ report \in provider[serving[Cron].key].sent
      BY <1>0, <2>1, <2>4 DEF PaymentTypeOK, PaymentIInv, ProviderIsSound
    <2>6. Target(report) \in Statuses /\ EventStatus(report) \in Statuses
      BY <2>5 DEF Target, EventStatus, Reports, Statuses
    <2>7. id \in EventIds
      BY <2>2, <2>6 DEF EventIds
    <2>8. /\ c \in CallType /\ c.pc = "read" /\ c.key = serving[Cron].key
          /\ c.target = Target(report) /\ c.won = serving[Cron].won
      BY <1>0, <2>3, <2>6, <2>7 DEF CallType, CallPcs, RunningPcs
    <2>9. Target(report) = "confirmed" => "confirmed" \in provider[serving[Cron].key].sent
      BY <2>5 DEF Target
    <2>10. CallIsSound(c)
      BY <1>0, <2>8, <2>9 DEF CallIsSound, Deciding
    <2>11. calls' \in 0 .. MaxInvocations
      BY <1>0 DEF PaymentTypeOK, QueryProvider
    <2> QED
      BY <1>0, <2>4, <2>8, <2>10, <2>11, LocalStep DEF QueryProvider
  <1> QED
    BY <1>1, <1>2

(* Time and the provider: no invocation takes part. *)
LEMMA OutsideKeeps ==
    ASSUME PaymentIInv, Quiet, UNCHANGED <<serving, abandoned>> PROVE PaymentIInv'
  <1>1. PaymentTypeOK /\ Cron \in Slots /\ serving[Cron] \in CallType /\ CallIsSound(serving[Cron])
    BY Served DEF PaymentIInv, PaymentInv, Slots
  <1>2. PICK c : c = serving[Cron]
    OBVIOUS
  <1>3. serving' = [serving EXCEPT ![Cron] = c]
    BY <1>1, <1>2 DEF PaymentTypeOK
  <1>4. CallIsSound(c)'
    BY <1>1, <1>2 DEF CallIsSound, Deciding, Quiet
  <1>5. PaymentTypeOK'
    BY <1>1 DEF PaymentTypeOK, Quiet
  <1>6. \A k \in Keys : Winner(Cron, k) => c.won
    BY <1>2 DEF Winner
  <1> QED
    BY <1>1, <1>2, <1>3, <1>4, <1>5, <1>6, QuietStep DEF Quiet

LEMMA RunOutOfTimeKeeps ==
    ASSUME PaymentIInv, NEW k \in Keys, RunOutOfTime(k) PROVE PaymentIInv'
  <1>0. PaymentTypeOK
    BY DEF PaymentIInv, PaymentInv
  <1>1. PICK row : row = [invoice[k] EXCEPT !.overdue = TRUE]
    OBVIOUS
  <1>2. row \in InvoiceType /\ row.status = invoice[k].status
    BY <1>0, <1>1 DEF PaymentTypeOK, InvoiceType
  <1>3. invoice' = [invoice EXCEPT ![k] = row]
    BY <1>1 DEF RunOutOfTime
  <1>4. Quiet
    BY <1>0, <1>2, <1>3, TablesAreQuiet DEF PaymentTypeOK, RunOutOfTime
  <1> QED
    BY <1>4, OutsideKeeps DEF RunOutOfTime

LEMMA PaymentMovesKeeps ==
    ASSUME PaymentIInv, NEW k \in Keys, NEW report \in Reports, PaymentMoves(k, report)
    PROVE  PaymentIInv'
  <1>0. PaymentTypeOK /\ ProviderIsSound
    BY DEF PaymentIInv, PaymentInv
  <1>1. PICK row : row = [status |-> report, sent |-> provider[k].sent \cup {report}]
    OBVIOUS
  <1>2. /\ row \in [status : Reports \cup {"none"}, sent : SUBSET Reports]
        /\ row.status = report /\ row.sent = provider[k].sent \cup {report} /\ report # "none"
    BY <1>0, <1>1 DEF PaymentTypeOK, Reports, Statuses
  <1>3. provider' = [provider EXCEPT ![k] = row]
    BY <1>1 DEF PaymentMoves
  <1>4. /\ provider' \in [Keys -> [status : Reports \cup {"none"}, sent : SUBSET Reports]]
        /\ \A j \in Keys : provider'[j] = IF j = k THEN row ELSE provider[j]
    BY <1>0, <1>2, <1>3 DEF PaymentTypeOK
  <1>5. ProviderIsSound' /\ \A j \in Keys : provider[j].sent \subseteq provider'[j].sent
    BY <1>0, <1>2, <1>4 DEF ProviderIsSound
  <1>6. Quiet
    BY <1>0, <1>4, <1>5 DEF Quiet, PaymentMoves, PaymentTypeOK
  <1> QED
    BY <1>6, OutsideKeeps DEF PaymentMoves

LEMMA AllowedPaid ==
    /\ \A from : "confirmed" \in Allowed(from) => from \in {"waiting", "confirming"}
    /\ \A from, to : to \in Allowed(from) /\ from \in Paid => from = "confirmed" /\ to = "refunded"
    /\ \A from, to : to \in Allowed(from) /\ from \in Settled =>
          from = "confirmed" /\ to = "refunded"
    /\ \A from, to : to \in Allowed(from) /\ to \in Paid =>
          from \in {"waiting", "confirming", "confirmed"}
  BY DEF Allowed, Paid, Settled, Statuses, Open

(* The winner of a confirmation is new: the invoice was open until now, so  *)
(* it has no other winner and has activated nothing.                        *)
LEMMA SwapKeeps ==
    ASSUME PaymentIInv, NEW s \in Slots, Swap(s) PROVE PaymentIInv'
  <1>0. PICK k : k = serving[s].key
    OBVIOUS
  <1>1. /\ PaymentTypeOK /\ serving[s] \in CallType /\ CallIsSound(serving[s])
        /\ k \in Keys /\ invoice[k] \in InvoiceType /\ ~serving[s].won /\ serving[s].pc = "swap"
    BY <1>0, Served, IdleHasNotWon DEF Swap, PaymentIInv, PaymentInv
  <1>2. PICK w : w = UnchangedSince(s)
    OBVIOUS
  <1>3. w \in BOOLEAN /\ (w => invoice[k].status = serving[s].seen)
    BY <1>0, <1>2 DEF UnchangedSince
  <1>4. PICK c : c = [serving[s] EXCEPT !.pc = "mark", !.won = w]
    OBVIOUS
  <1>5. /\ c \in CallType /\ c.pc = "mark" /\ c.won = w /\ c.key = k
        /\ c.target = serving[s].target
    BY <1>0, <1>1, <1>3, <1>4 DEF CallType, CallPcs, RunningPcs
  <1>6. serving' = [serving EXCEPT ![s] = c]
    BY <1>2, <1>4 DEF Swap
  <1>7. c.target = "confirmed" => "confirmed" \in provider[k].sent
    BY <1>0, <1>1, <1>5 DEF CallIsSound, Deciding
  <1>8. calls' \in 0 .. MaxInvocations
    BY <1>1 DEF PaymentTypeOK, Swap
  <1>9. CASE ~w
    <2>1. CallIsSound(c)
      BY <1>1, <1>5, <1>7, <1>9 DEF CallIsSound
    <2>2. ~c.won
      BY <1>5, <1>9
    <2>3. invoice' = invoice
      BY <1>2, <1>9 DEF Swap
    <2> QED
      BY <1>1, <1>5, <1>6, <1>8, <2>1, <2>2, <2>3, LocalStep DEF Swap
  <1>10. CASE w
    <2>1. PICK b : b = (invoice[k].providerId \/ serving[s].op = "webhook")
      OBVIOUS
    <2>2. b \in BOOLEAN
      BY <2>1
    <2>3. PICK row : row = [invoice[k] EXCEPT !.status = serving[s].target, !.providerId = b]
      OBVIOUS
    <2>4. row \in InvoiceType /\ row.status = c.target
      BY <1>1, <1>5, <2>2, <2>3 DEF InvoiceType, CallType
    <2>5. invoice' = [invoice EXCEPT ![k] = row]
      BY <1>0, <1>2, <1>10, <2>1, <2>3 DEF Swap
    <2>6. /\ invoice' \in [Keys -> InvoiceType]
          /\ \A j \in Keys : invoice'[j] = IF j = k THEN row ELSE invoice[j]
          /\ \A t \in Slots : serving'[t] = IF t = s THEN c ELSE serving[t]
      BY <1>1, <1>6, <2>4, <2>5 DEF PaymentTypeOK
    <2>7. c.target \in Allowed(invoice[k].status)
      BY <1>1, <1>3, <1>5, <1>10 DEF CallIsSound
    <2>8. ActivatedOnce /\ ActivationIsPaid /\ ActivationLostOnlyByFailure /\ WinnersAreAlone
      BY DEF PaymentIInv, PaymentInv
    <2>9. PaymentTypeOK'
      BY <1>1, <1>5, <1>6, <2>6 DEF PaymentTypeOK, Swap
    <2>10. \A j \in Keys : invoice[j].status \in Paid => invoice'[j].status \in Paid
      BY <2>4, <2>6, <2>7, AllowedPaid DEF Paid
    <2>11. \A t \in Slots, j \in Keys : t # s => (Winner(t, j)' <=> Winner(t, j))
      BY <2>6 DEF Winner
    <2>12. \A j \in Keys : Winner(s, j)' <=> j = k /\ c.target = "confirmed"
      BY <1>5, <1>10, <2>6 DEF Winner
    <2>13. c.target = "confirmed" =>
              invoice[k].status \notin Paid /\ \A t \in Slots : ~Winner(t, k)
      BY <1>1, <2>7, <2>8, AllowedPaid DEF WinnersAreAlone, Paid
    <2>14. ActivatedOnce'
      BY <2>8 DEF ActivatedOnce, Swap
    <2>15. ActivationIsPaid'
      BY <2>8, <2>10 DEF ActivationIsPaid, Swap, Paid
    <2>16. ActivationLostOnlyByFailure'
      <3> SUFFICES ASSUME NEW j \in Keys, invoice'[j].status = "confirmed", activated'[j] = 0
                   PROVE  \/ \E t \in Slots : Winner(t, j)' /\ serving'[t].pc \in {"mark", "audit", "apply"}
                          \/ \E why \in {"refused", "stopped"} : <<j, why>> \in abandoned'
        BY DEF ActivationLostOnlyByFailure
      <3>1. CASE j = k
        BY <1>5, <2>4, <2>6, <2>12, <3>1
      <3>2. CASE j # k
        <4>1. \/ \E t \in Slots : Winner(t, j) /\ serving[t].pc \in {"mark", "audit", "apply"}
              \/ \E why \in {"refused", "stopped"} : <<j, why>> \in abandoned
          BY <2>6, <2>8, <3>2 DEF ActivationLostOnlyByFailure, Swap
        <4> QED
          BY <1>1, <2>6, <2>11, <4>1 DEF Swap
      <3> QED
        BY <3>1, <3>2
    <2>17. WinnersAreAlone'
      <3> SUFFICES ASSUME NEW j \in Keys, NEW t \in Slots, Winner(t, j)'
                   PROVE  /\ invoice'[j].status \in Paid /\ activated'[j] = 0
                          /\ \A u \in Slots : Winner(u, j)' => u = t
        BY DEF WinnersAreAlone
      <3>1. CASE t = s
        <4>1. j = k /\ c.target = "confirmed"
          BY <2>12, <3>1
        <4>2. invoice'[k].status \in Paid
          BY <2>4, <2>6, <4>1 DEF Paid
        <4>3. activated[k] = 0
          BY <1>1, <2>8, <2>13, <4>1 DEF ActivationIsPaid, PaymentTypeOK, Paid
        <4> QED
          BY <2>11, <2>13, <3>1, <4>1, <4>2, <4>3 DEF Swap
      <3>2. CASE t # s
        <4>1. Winner(t, j)
          BY <2>11, <3>2
        <4>2. ~Winner(s, j)'
          BY <2>12, <2>13, <4>1
        <4> QED
          BY <2>8, <2>10, <2>11, <4>1, <4>2 DEF WinnersAreAlone, Swap
      <3> QED
        BY <3>1, <3>2
    <2>18. ProviderIsSound'
      BY DEF PaymentIInv, ProviderIsSound, Swap
    <2>19. \A t \in Slots : CallIsSound(serving[t])'
      <3>1. CallIsSound(c)'
        BY <1>1, <1>5, <1>7 DEF CallIsSound, Swap
      <3>2. \A t \in Slots : CallIsSound(serving[t])
        BY DEF PaymentIInv
      <3>3. ASSUME NEW t \in Slots, t # s PROVE CallIsSound(serving[t])'
        BY <2>6, <3>2, <3>3 DEF CallIsSound, Swap
      <3> QED
        BY <2>6, <3>1, <3>3
    <2> QED
      BY <2>9, <2>14, <2>15, <2>16, <2>17, <2>18, <2>19 DEF PaymentIInv, PaymentInv
  <1> QED
    BY <1>3, <1>9, <1>10

(* The activation is the only winner's, and ends it. *)
LEMMA ActivatePaidKeeps ==
    ASSUME PaymentIInv, NEW s \in Slots, ActivatePaid(s) PROVE PaymentIInv'
  <1>0. PICK k : k = serving[s].key
    OBVIOUS
  <1>1. /\ PaymentTypeOK /\ serving[s] \in CallType /\ CallIsSound(serving[s])
        /\ k \in Keys /\ serving[s].pc = "apply" /\ serving[s].target = "confirmed"
    BY <1>0, Served DEF ActivatePaid, PaymentIInv, PaymentInv
  <1>2. ActivatedOnce /\ ActivationIsPaid /\ ActivationLostOnlyByFailure /\ WinnersAreAlone
    BY DEF PaymentIInv, PaymentInv
  <1>3. Winner(s, k)
    BY <1>0, <1>1 DEF Winner, CallIsSound
  <1>4. activated[k] = 0 /\ invoice[k].status \in Paid /\ \A t \in Slots : Winner(t, k) => t = s
    BY <1>1, <1>2, <1>3 DEF WinnersAreAlone
  <1>5. serving' = [serving EXCEPT ![s] = NotStarted]
    BY DEF ActivatePaid, Goto, At
  <1>6. NotStarted \in CallType
    BY <1>1, PaymentTypes
  <1>7. /\ activated' \in [Keys -> Nat]
        /\ \A j \in Keys : activated'[j] = IF j = k THEN 1 ELSE activated[j]
        /\ \A t \in Slots : serving'[t] = IF t = s THEN NotStarted ELSE serving[t]
    BY <1>0, <1>1, <1>4, <1>5 DEF PaymentTypeOK, ActivatePaid
  <1>8. subscription' = [status |-> "active", paidBy |-> k]
    BY <1>0 DEF ActivatePaid
  <1>9. subscription' \in [status : {"trialing", "active", "past_due"}, paidBy : Keys \cup {NoKey}]
        /\ subscription'.paidBy = k
    BY <1>1, <1>8
  <1>10. PaymentTypeOK'
    BY <1>1, <1>5, <1>6, <1>7, <1>9 DEF PaymentTypeOK, ActivatePaid
  <1>11. \A t \in Slots, j \in Keys : Winner(t, j)' <=> t # s /\ Winner(t, j)
    BY <1>7, NotStartedIsSound DEF Winner
  <1>12. ActivatedOnce'
    BY <1>2, <1>7 DEF ActivatedOnce
  <1>13. ActivationIsPaid'
    <2>1. "confirmed" \in provider[k].sent
      BY <1>0, <1>1 DEF CallIsSound, Deciding
    <2> QED
      BY <1>2, <1>4, <1>7, <1>9, <2>1 DEF ActivationIsPaid, ActivatePaid, Paid
  <1>14. ActivationLostOnlyByFailure'
    <2> SUFFICES ASSUME NEW j \in Keys, invoice'[j].status = "confirmed", activated'[j] = 0
                 PROVE  \/ \E t \in Slots : Winner(t, j)' /\ serving'[t].pc \in {"mark", "audit", "apply"}
                        \/ \E why \in {"refused", "stopped"} : <<j, why>> \in abandoned'
      BY DEF ActivationLostOnlyByFailure
    <2>1. j # k /\ activated[j] = 0 /\ invoice[j].status = "confirmed"
      BY <1>7 DEF ActivatePaid
    <2>2. \/ \E t \in Slots : Winner(t, j) /\ serving[t].pc \in {"mark", "audit", "apply"}
          \/ \E why \in {"refused", "stopped"} : <<j, why>> \in abandoned
      BY <1>2, <2>1 DEF ActivationLostOnlyByFailure
    <2>3. ~Winner(s, j)
      BY <1>0, <2>1 DEF Winner
    <2> QED
      BY <1>7, <1>11, <2>2, <2>3 DEF ActivatePaid
  <1>15. WinnersAreAlone'
    <2> SUFFICES ASSUME NEW j \in Keys, NEW t \in Slots, Winner(t, j)'
                 PROVE  /\ invoice'[j].status \in Paid /\ activated'[j] = 0
                        /\ \A u \in Slots : Winner(u, j)' => u = t
      BY DEF WinnersAreAlone
    <2>1. t # s /\ Winner(t, j) /\ j # k
      BY <1>4, <1>11
    <2> QED
      BY <1>2, <1>7, <1>11, <2>1 DEF WinnersAreAlone, ActivatePaid
  <1>16. ProviderIsSound'
    BY DEF PaymentIInv, ProviderIsSound, ActivatePaid
  <1>17. \A t \in Slots : CallIsSound(serving[t])'
    <2>1. CallIsSound(NotStarted)'
      BY DEF CallIsSound, NotStarted, Deciding
    <2>2. \A t \in Slots : CallIsSound(serving[t])
      BY DEF PaymentIInv
    <2>3. ASSUME NEW t \in Slots, t # s PROVE CallIsSound(serving[t])'
      BY <1>7, <2>2, <2>3 DEF CallIsSound, ActivatePaid
    <2> QED
      BY <1>7, <2>1, <2>3
  <1> QED
    BY <1>10, <1>12, <1>13, <1>14, <1>15, <1>16, <1>17 DEF PaymentIInv, PaymentInv

LEMMA PaymentSteps == PaymentIInv /\ [PaymentNext]_paymentVars => PaymentIInv'
  <1> SUFFICES ASSUME PaymentIInv, [PaymentNext]_paymentVars PROVE PaymentIInv'
    OBVIOUS
  <1>1. ASSUME NEW s \in Slots, Continue(s) PROVE PaymentIInv'
    BY <1>1, CreateInvoiceKeeps, CallProviderKeeps, LinkInvoiceKeeps, ReadInvoiceKeeps, SwapKeeps,
       MarkProcessedKeeps, RecordTransitionKeeps, ActivatePaidKeeps, DowngradeKeeps, GiveUpKeeps
       DEF Continue, TransitionNotRecorded, RunningPcs
  <1>2. ASSUME NEW s \in Slots, Fail(s) PROVE PaymentIInv'
    BY <1>2, GiveUpKeeps DEF Fail
  <1>3. CASE Reconcile
    BY <1>3, BeginReconcileKeeps, ListOpenKeeps, QueryProviderKeeps DEF Reconcile
  <1>4. CASE UNCHANGED paymentVars
    <2>1. Quiet
      BY <1>4, TablesAreQuiet DEF paymentVars
    <2> QED
      BY <1>4, <2>1, OutsideKeeps DEF paymentVars
  <1> QED
    BY <1>1, <1>2, <1>3, <1>4, BeginKeeps, RunOutOfTimeKeeps, PaymentMovesKeeps DEF PaymentNext

(* What one step does to an invoice that had settled. *)
SettledStays ==
    \A k \in Keys :
        invoice[k].status \in Settled /\ invoice'[k].status # invoice[k].status =>
            invoice[k].status = "confirmed" /\ invoice'[k].status = "refunded"

LEMMA SettledSteps == PaymentIInv /\ [PaymentNext]_paymentVars => SettledStays
  <1> SUFFICES ASSUME PaymentIInv, [PaymentNext]_paymentVars, NEW k \in Keys,
                      invoice[k].status \in Settled, invoice'[k].status # invoice[k].status
               PROVE  invoice[k].status = "confirmed" /\ invoice'[k].status = "refunded"
    BY DEF SettledStays
  <1>0. /\ invoice \in [Keys -> InvoiceType]
        /\ invoice[k].status \notin {"none", "pending", "waiting", "confirming"}
    BY DEF PaymentIInv, PaymentInv, PaymentTypeOK, Settled, Statuses, Open
  <1>1. ASSUME NEW s \in Slots, Swap(s)
        PROVE  invoice[k].status = "confirmed" /\ invoice'[k].status = "refunded"
    <2>1. serving[s].key \in Keys /\ serving[s].target \in Allowed(serving[s].seen)
      BY <1>1, Served DEF Swap, CallIsSound
    <2>2. PICK b : b = (invoice[serving[s].key].providerId \/ serving[s].op = "webhook")
      OBVIOUS
    <2>3. PICK row : row = [invoice[serving[s].key] EXCEPT !.status = serving[s].target,
                                                            !.providerId = b]
      OBVIOUS
    <2>4. row.status = serving[s].target
      BY <1>0, <2>1, <2>3 DEF InvoiceType
    <2>5. /\ invoice[serving[s].key].status = serving[s].seen
          /\ invoice' = [invoice EXCEPT ![serving[s].key] = row]
      BY <1>1, <2>2, <2>3 DEF Swap, UnchangedSince
    <2>6. k = serving[s].key /\ invoice'[k].status = serving[s].target
      BY <1>0, <2>1, <2>4, <2>5
    <2> QED
      BY <2>1, <2>5, <2>6, AllowedPaid
  <1>2. ASSUME NEW s \in Slots, CreateInvoice(s) \/ LinkInvoice(s) PROVE FALSE
    BY <1>0, <1>2 DEF CreateInvoice, LinkInvoice
  <1>3. ASSUME NEW s \in Slots, MarkProcessed(s) PROVE FALSE
    BY <1>0, <1>3 DEF MarkProcessed, InvoiceType
  <1>4. ~BeginReconcile
    BY <1>0 DEF BeginReconcile, Stale, Open
  <1>5. ASSUME NEW j \in Keys, RunOutOfTime(j) PROVE FALSE
    BY <1>0, <1>5 DEF RunOutOfTime, InvoiceType
  <1>6. invoice' # invoice
    OBVIOUS
  <1>7. CASE \E s \in Invocations : Begin(s)
    BY <1>6, <1>7 DEF Begin, BeginCheckout, BeginRefund, BeginWebhook, Call
  <1>8. ASSUME NEW s \in Slots, Continue(s) \/ Fail(s)
        PROVE  Swap(s) \/ CreateInvoice(s) \/ LinkInvoice(s) \/ MarkProcessed(s)
    BY <1>6, <1>8 DEF Continue, CallProvider, ReadInvoice, RecordTransition,
       TransitionNotRecorded, ActivatePaid, Downgrade, Fail, GiveUp
  <1>9. ~ListOpen /\ ~QueryProvider /\ ~UNCHANGED paymentVars
    BY <1>6 DEF ListOpen, QueryProvider, paymentVars
  <1>10. \A j \in Keys, report \in Reports : ~PaymentMoves(j, report)
    BY <1>6 DEF PaymentMoves
  <1> QED
    BY <1>1, <1>2, <1>3, <1>4, <1>5, <1>7, <1>8, <1>9, <1>10 DEF PaymentNext, Reconcile

LEMMA PaymentInvFollows == PaymentIInv => PaymentInv
  BY DEF PaymentIInv

(* Rows and calls of the payment code are well typed; however deliveries    *)
(* of the provider, the hourly reconciliation, refunds and expiry           *)
(* interleave, and wherever the process stops, an invoice activates the     *)
(* subscription at most once, only when the provider reported it paid, and  *)
(* not at all only after a failure; and a settled invoice stays settled,    *)
(* but for the refund of a confirmed one.                                   *)
THEOREM PaymentsHold == PaymentSpec => PaymentsAreSound
  <1>1. PaymentIInv /\ [PaymentNext]_paymentVars =>
           [\A k \in Keys :
               invoice[k].status \in Settled /\ invoice'[k].status # invoice[k].status =>
                   invoice[k].status = "confirmed" /\ invoice'[k].status = "refunded"]_paymentVars
    BY SettledSteps DEF SettledStays
  <1>2. PaymentSpec => []PaymentIInv
    BY PaymentInitHolds, PaymentSteps, PTL DEF PaymentSpec
  <1>3. PaymentSpec => []PaymentInv
    BY <1>2, PaymentInvFollows, PTL
  <1>4. PaymentSpec => SettledIsFinal
    BY <1>1, <1>2, PTL DEF PaymentSpec, SettledIsFinal
  <1> QED
    BY <1>3, <1>4 DEF PaymentsAreSound

-----------------------------------------------------------------------------
(*************************************************************************)
(* Checkout, webhook, refund route and reconciliation implement the life *)
(* of an invoice (module InvoiceLife).                                   *)
(*                                                                       *)
(* A step of the abstract life is the one statement that commits it: the *)
(* insert, a swap of the status, the sweep of the stale invoices, the write *)
(* of the subscription; all others stutter.  That money is received for an *)
(* invoice that exists and that a refund precedes the withdrawal does not *)
(* follow from PaymentIInv: it takes two more invariants.                *)
(*************************************************************************)

(* The provider hears of an invoice from a call that saw its row. *)
AskedFor ==
    /\ \A k \in Keys : provider[k].status # "none" => invoice[k].status # "none"
    /\ \A s \in Slots : serving[s].pc \in {"provider", "link"} =>
                           invoice[serving[s].key].status # "none"

(* Who won a refund is right about it until the end. *)
RefundsStand ==
    \A s \in Slots : serving[s].won /\ serving[s].target = "refunded" =>
                        invoice[serving[s].key].status = "refunded"

LifeIInv == PaymentIInv /\ AskedFor /\ RefundsStand

(* No step deletes an invoice, or takes back a settlement. *)
RowsStay ==
    /\ \A k \in Keys : invoice[k].status # "none" => invoice'[k].status # "none"
    /\ SettledStays

LEMMA InvoiceWriters ==
    ASSUME [PaymentNext]_paymentVars, invoice' # invoice
    PROVE  \/ \E s \in Slots : \/ CreateInvoice(s) \/ LinkInvoice(s)
                               \/ Swap(s) \/ MarkProcessed(s)
           \/ BeginReconcile
           \/ \E k \in Keys : RunOutOfTime(k)
  <1>1. ASSUME NEW s \in Invocations PROVE ~Begin(s)
    BY DEF Begin, BeginCheckout, BeginRefund, BeginWebhook, Call
  <1>2. ASSUME NEW s \in Slots, Continue(s) \/ Fail(s)
        PROVE  Swap(s) \/ CreateInvoice(s) \/ LinkInvoice(s) \/ MarkProcessed(s)
    BY <1>2 DEF Continue, CallProvider, ReadInvoice, RecordTransition,
       TransitionNotRecorded, ActivatePaid, Downgrade, Fail, GiveUp
  <1>3. ~ListOpen /\ ~QueryProvider /\ ~UNCHANGED paymentVars
    BY DEF ListOpen, QueryProvider, paymentVars
  <1>4. \A k \in Keys, report \in Reports : ~PaymentMoves(k, report)
    BY DEF PaymentMoves
  <1> QED
    BY <1>1, <1>2, <1>3, <1>4 DEF PaymentNext, Reconcile

(* The row a swap writes. *)
LEMMA SwapWrites ==
    ASSUME PaymentIInv, NEW s \in Slots, Swap(s)
    PROVE  /\ serving[s].key \in Keys
           /\ \A k \in Keys : k # serving[s].key => invoice'[k] = invoice[k]
           /\ UnchangedSince(s) =>
                 /\ invoice'[serving[s].key].status = serving[s].target
                 /\ serving[s].target \in Allowed(invoice[serving[s].key].status)
           /\ ~UnchangedSince(s) => invoice' = invoice
           /\ serving[s].target \in Statuses
  <1>1. /\ serving[s].key \in Keys /\ serving[s].target \in Allowed(serving[s].seen)
        /\ invoice[serving[s].key] \in InvoiceType /\ serving[s] \in CallType
        /\ invoice \in [Keys -> InvoiceType]
    BY Served DEF Swap, CallIsSound, PaymentIInv, PaymentInv, PaymentTypeOK
  <1>2. PICK b : b = (invoice[serving[s].key].providerId \/ serving[s].op = "webhook")
    OBVIOUS
  <1>3. PICK row : row = [invoice[serving[s].key] EXCEPT !.status = serving[s].target,
                                                          !.providerId = b]
    OBVIOUS
  <1>4. row.status = serving[s].target
    BY <1>1, <1>3 DEF InvoiceType
  <1>5. UnchangedSince(s) => /\ invoice' = [invoice EXCEPT ![serving[s].key] = row]
                             /\ serving[s].seen = invoice[serving[s].key].status
    BY <1>2, <1>3 DEF Swap, UnchangedSince
  <1>6. ~UnchangedSince(s) => invoice' = invoice
    BY DEF Swap
  <1>7. serving[s].target \in Statuses
    BY <1>1 DEF CallType
  <1> QED
    BY <1>1, <1>4, <1>5, <1>6, <1>7

(* The rows the other writers of invoices leave. *)
LEMMA CreateWrites ==
    ASSUME PaymentIInv, NEW s \in Slots, CreateInvoice(s)
    PROVE  /\ serving[s].key \in Keys
           /\ \A k \in Keys : \/ invoice'[k] = invoice[k]
                              \/ /\ k = serving[s].key
                                 /\ invoice[k].status = "none" /\ invoice'[k].status = "pending"
           /\ invoice[serving[s].key].status = "none" => invoice'[serving[s].key].status = "pending"
  <1>1. serving[s].key \in Keys /\ invoice \in [Keys -> InvoiceType]
    BY Served DEF CreateInvoice, PaymentIInv, PaymentInv, PaymentTypeOK
  <1>2. PICK row : row = [NoInvoice EXCEPT !.status = "pending"]
    OBVIOUS
  <1>3. row.status = "pending"
    BY <1>2 DEF NoInvoice
  <1>4. invoice' = IF invoice[serving[s].key].status = "none"
                   THEN [invoice EXCEPT ![serving[s].key] = row] ELSE invoice
    BY <1>2 DEF CreateInvoice
  <1> QED
    BY <1>1, <1>3, <1>4

LEMMA LinkWrites ==
    ASSUME PaymentIInv, NEW s \in Slots, LinkInvoice(s)
    PROVE  \A k \in Keys : \/ invoice'[k] = invoice[k]
                           \/ invoice[k].status = "pending" /\ invoice'[k].status = "waiting"
  <1>1. serving[s].key \in Keys /\ invoice \in [Keys -> InvoiceType]
    BY Served DEF LinkInvoice, PaymentIInv, PaymentInv, PaymentTypeOK
  <1>2. PICK row : row = [invoice[serving[s].key] EXCEPT !.status = "waiting",
                             !.providerId = TRUE, !.url = TRUE, !.overdue = FALSE]
    OBVIOUS
  <1>3. row.status = "waiting"
    BY <1>1, <1>2 DEF InvoiceType
  <1>4. invoice' = IF invoice[serving[s].key].status # "pending" THEN invoice
                   ELSE [invoice EXCEPT ![serving[s].key] = row]
    BY <1>2 DEF LinkInvoice
  <1> QED
    BY <1>1, <1>3, <1>4

LEMMA MarkWrites ==
    ASSUME PaymentIInv, NEW s \in Slots, MarkProcessed(s)
    PROVE  \A k \in Keys : invoice'[k].status = invoice[k].status
  <1>1. serving[s].key \in Keys /\ invoice \in [Keys -> InvoiceType]
    BY Served DEF MarkProcessed, PaymentIInv, PaymentInv, PaymentTypeOK
  <1> QED
    BY <1>1 DEF MarkProcessed, InvoiceType

LEMMA ReconcileWrites ==
    ASSUME PaymentIInv, BeginReconcile
    PROVE  \A k \in Keys :
              invoice'[k].status = IF Stale(k) THEN "expired" ELSE invoice[k].status
  <1>1. invoice \in [Keys -> InvoiceType]
    BY DEF PaymentIInv, PaymentInv, PaymentTypeOK
  <1> QED
    BY <1>1 DEF BeginReconcile, InvoiceType

LEMMA TimeWrites ==
    ASSUME PaymentIInv, NEW j \in Keys, RunOutOfTime(j)
    PROVE  \A k \in Keys : invoice'[k].status = invoice[k].status
  <1>1. invoice \in [Keys -> InvoiceType]
    BY DEF PaymentIInv, PaymentInv, PaymentTypeOK
  <1> QED
    BY <1>1 DEF RunOutOfTime, InvoiceType

LEMMA RowsStaySteps == PaymentIInv /\ [PaymentNext]_paymentVars => RowsStay
  <1> SUFFICES ASSUME PaymentIInv, [PaymentNext]_paymentVars, NEW k \in Keys,
                      invoice[k].status # "none"
               PROVE  invoice'[k].status # "none"
    BY SettledSteps DEF RowsStay
  <1>1. ASSUME NEW s \in Slots, Swap(s) PROVE invoice'[k].status # "none"
    BY <1>1, SwapWrites DEF Statuses
  <1>2. ASSUME NEW s \in Slots, CreateInvoice(s) \/ LinkInvoice(s) \/ MarkProcessed(s)
        PROVE  invoice'[k].status # "none"
    BY <1>2, CreateWrites, LinkWrites, MarkWrites
  <1>3. BeginReconcile => invoice'[k].status # "none"
    BY ReconcileWrites
  <1>4. ASSUME NEW j \in Keys, RunOutOfTime(j) PROVE invoice'[k].status # "none"
    BY <1>4, TimeWrites
  <1> QED
    BY <1>1, <1>2, <1>3, <1>4, InvoiceWriters

(* A step of one invocation, to c, that is right about rows and refunds.    *)
LEMMA CallStands ==
    ASSUME LifeIInv, RowsStay, NEW s \in Slots, NEW c,
           serving' = [serving EXCEPT ![s] = c],
           c.pc \in {"provider", "link"} => invoice'[c.key].status # "none",
           c.won /\ c.target = "refunded" => invoice'[c.key].status = "refunded",
           \A k \in Keys : provider'[k].status # "none" => invoice'[k].status # "none"
    PROVE  AskedFor' /\ RefundsStand'
  <1>1. serving \in [Slots -> CallType]
    BY DEF LifeIInv, PaymentIInv, PaymentInv, PaymentTypeOK
  <1>2. ASSUME NEW t \in Slots, t # s
        PROVE  /\ serving'[t].pc \in {"provider", "link"} =>
                     invoice'[serving'[t].key].status # "none"
               /\ serving'[t].won /\ serving'[t].target = "refunded" =>
                     invoice'[serving'[t].key].status = "refunded"
    <2>1. serving'[t] = serving[t]
      BY <1>1, <1>2
    <2>2. CallIsSound(serving[t]) /\ (serving[t].pc \notin {"idle", "list"} => serving[t].key \in Keys)
      BY Served DEF LifeIInv
    <2>3. serving[t].pc \in {"provider", "link"} => invoice'[serving[t].key].status # "none"
      BY <2>2 DEF LifeIInv, AskedFor, RowsStay
    <2>4. ASSUME serving[t].won, serving[t].target = "refunded"
          PROVE  invoice'[serving[t].key].status = "refunded"
      <3>1. serving[t].key \in Keys /\ invoice[serving[t].key].status = "refunded"
        BY <2>2, <2>4 DEF LifeIInv, RefundsStand, CallIsSound
      <3> QED
        BY <3>1 DEF RowsStay, SettledStays, Settled, Statuses, Open
    <2> QED
      BY <2>1, <2>3, <2>4
  <1>3. serving'[s] = c
    BY <1>1
  <1>4. \A t \in Slots :
           /\ serving'[t].pc \in {"provider", "link"} => invoice'[serving'[t].key].status # "none"
           /\ serving'[t].won /\ serving'[t].target = "refunded" =>
                 invoice'[serving'[t].key].status = "refunded"
    BY <1>2, <1>3
  <1> QED
    BY <1>4 DEF AskedFor, RefundsStand

(* One that only goes on to pc, or ends. *)
LEMMA GotoStands ==
    ASSUME LifeIInv, RowsStay, NEW s \in Slots, NEW pc \in CallPcs, Goto(s, pc),
           pc \in {"provider", "link"} => invoice'[serving[s].key].status # "none",
           \A k \in Keys : provider'[k].status # "none" => invoice'[k].status # "none"
    PROVE  AskedFor' /\ RefundsStand'
  <1>1. serving[s] \in CallType /\ CallIsSound(serving[s])
    BY Served DEF LifeIInv
  <1>2. PICK c : c = At(serving[s], pc)
    OBVIOUS
  <1>3. /\ pc = "idle" => c = NotStarted
        /\ pc # "idle" => /\ c.pc = pc /\ c.key = serving[s].key /\ c.won = serving[s].won
                          /\ c.target = serving[s].target
    BY <1>1, <1>2, AtFields
  <1>4. ASSUME c.won, c.target = "refunded" PROVE invoice'[c.key].status = "refunded"
    <2>1. serving[s].won /\ serving[s].target = "refunded" /\ c.key = serving[s].key
      BY <1>3, <1>4, NotStartedIsSound
    <2>2. serving[s].key \in Keys /\ invoice[serving[s].key].status = "refunded"
      BY <1>1, <2>1 DEF LifeIInv, RefundsStand, CallIsSound
    <2> QED
      BY <2>1, <2>2 DEF RowsStay, SettledStays, Settled, Statuses, Open
  <1>5. c.pc \in {"provider", "link"} => invoice'[c.key].status # "none"
    BY <1>3 DEF NotStarted
  <1>6. serving' = [serving EXCEPT ![s] = c]
    BY <1>2 DEF Goto
  <1> QED
    BY <1>4, <1>5, <1>6, CallStands

LEMMA StillAskedFor ==
    ASSUME LifeIInv, RowsStay, UNCHANGED provider
    PROVE  \A k \in Keys : provider'[k].status # "none" => invoice'[k].status # "none"
  BY DEF LifeIInv, AskedFor, RowsStay

LEMMA BeginStands ==
    ASSUME LifeIInv, RowsStay, NEW s \in Invocations, Begin(s)
    PROVE  AskedFor' /\ RefundsStand'
  <1>0. PICK c : /\ Call(s, c)
                 /\ \/ c.pc = "read" /\ ~c.won
                    \/ \E k \in Keys :
                          c = At([NotStarted EXCEPT !.key = k], AfterLookup(invoice[k]))
    <2>1. ASSUME NEW k \in Keys, BeginCheckout(s, k)
          PROVE  \E c : Call(s, c) /\ c = At([NotStarted EXCEPT !.key = k], AfterLookup(invoice[k]))
      <3>1. PICK c : c = At([NotStarted EXCEPT !.key = k], AfterLookup(invoice[k]))
        OBVIOUS
      <3>2. Call(s, c)
        BY <2>1, <3>1 DEF BeginCheckout
      <3> QED
        BY <3>1, <3>2
    <2>2. ASSUME NEW k \in Keys, BeginRefund(s, k)
          PROVE  \E c : Call(s, c) /\ c.pc = "read" /\ ~c.won
      <3>1. PICK c : c = [NotStarted EXCEPT !.pc = "read", !.op = "refund", !.key = k,
                                            !.target = "refunded", !.id = FreshId]
        OBVIOUS
      <3>2. Call(s, c)
        BY <2>2, <3>1 DEF BeginRefund
      <3>3. c.pc = "read" /\ ~c.won
        BY <3>1 DEF NotStarted
      <3> QED
        BY <3>2, <3>3
    <2>3. ASSUME NEW k \in Keys, NEW report \in Reports, BeginWebhook(s, k, report)
          PROVE  \E c : Call(s, c) /\ c.pc = "read" /\ ~c.won
      <3>1. PICK id : id = <<"webhook", EventStatus(report)>>
        OBVIOUS
      <3>2. PICK c : c = [NotStarted EXCEPT !.pc = "read", !.op = "webhook", !.key = k,
                                            !.target = Target(report), !.id = id]
        OBVIOUS
      <3>3. Call(s, c)
        BY <2>3, <3>1, <3>2 DEF BeginWebhook
      <3>4. c.pc = "read" /\ ~c.won
        BY <3>2 DEF NotStarted
      <3> QED
        BY <3>3, <3>4
    <2> QED
      BY <2>1, <2>2, <2>3 DEF Begin
  <1>1. s \in Slots /\ serving' = [serving EXCEPT ![s] = c] /\ UNCHANGED <<invoice, provider>>
    BY <1>0 DEF Slots, Call
  <1>2. /\ c.pc \in {"provider", "link"} => invoice'[c.key].status # "none"
        /\ ~c.won
    <2>1. ASSUME NEW k \in Keys, c = At([NotStarted EXCEPT !.key = k], AfterLookup(invoice[k]))
          PROVE  /\ c.pc \in {"provider", "link"} => invoice[c.key].status # "none"
                 /\ ~c.won
      <3>1. PICK pc : pc = AfterLookup(invoice[k])
        OBVIOUS
      <3>2. pc = "create" \/ pc = "idle" \/ (pc = "provider" /\ invoice[k].status # "none")
        BY <3>1 DEF AfterLookup
      <3>3. CASE pc = "idle"
        BY <2>1, <3>1, <3>3, NotStartedIsSound DEF At, NotStarted
      <3>4. CASE pc # "idle"
        <4>1. c = [[NotStarted EXCEPT !.key = k] EXCEPT !.pc = pc]
          BY <2>1, <3>1, <3>4 DEF At
        <4>2. c.pc = pc /\ c.key = k /\ ~c.won
          BY <4>1 DEF NotStarted
        <4> QED
          BY <3>2, <4>2
      <3> QED
        BY <3>3, <3>4
    <2> QED
      BY <1>0, <1>1, <2>1
  <1>3. \A k \in Keys : provider'[k].status # "none" => invoice'[k].status # "none"
    BY <1>1, StillAskedFor
  <1> QED
    BY <1>1, <1>2, <1>3, CallStands

LEMMA CheckoutStands ==
    ASSUME LifeIInv, RowsStay, NEW s \in Slots,
           CreateInvoice(s) \/ CallProvider(s) \/ LinkInvoice(s)
    PROVE  AskedFor' /\ RefundsStand'
  <1>0. serving[s].key \in Keys
    BY Served DEF LifeIInv, CreateInvoice, CallProvider, LinkInvoice
  <1>1. CASE CreateInvoice(s)
    <2>1. PICK pc : /\ Goto(s, pc)
                    /\ \/ invoice[serving[s].key].status = "none" /\ pc = "provider"
                       \/ /\ invoice[serving[s].key].status # "none"
                          /\ pc = AfterLookup(invoice[serving[s].key])
      BY <1>1 DEF CreateInvoice
    <2>2. pc \in CallPcs /\ pc # "link"
      BY <2>1, AfterLookupPcs DEF CallPcs, RunningPcs
    <2>3. invoice'[serving[s].key].status # "none"
      BY <1>0, <1>1, <2>1, CreateWrites DEF LifeIInv, RowsStay
    <2> QED
      BY <1>1, <2>1, <2>2, <2>3, StillAskedFor, GotoStands DEF CreateInvoice
  <1>2. CASE CallProvider(s)
    <2>1. invoice[serving[s].key].status # "none" /\ invoice' = invoice /\ Goto(s, "link")
      BY <1>2 DEF LifeIInv, AskedFor, CallProvider
    <2>2. \A k \in Keys : provider'[k].status # "none" =>
             k = serving[s].key \/ provider[k].status # "none"
      <3>1. provider \in [Keys -> [status : Reports \cup {"none"}, sent : SUBSET Reports]]
        BY DEF LifeIInv, PaymentIInv, PaymentInv, PaymentTypeOK
      <3>2. PICK row : row = [status |-> "waiting", sent |-> {"waiting"}]
        OBVIOUS
      <3>3. provider' = IF provider[serving[s].key].status # "none" THEN provider
                        ELSE [provider EXCEPT ![serving[s].key] = row]
        BY <1>2, <3>2 DEF CallProvider
      <3> QED
        BY <1>0, <3>1, <3>3
    <2>3. \A k \in Keys : provider'[k].status # "none" => invoice'[k].status # "none"
      BY <2>1, <2>2 DEF LifeIInv, AskedFor
    <2> QED
      BY <2>1, <2>3, GotoStands DEF CallPcs, RunningPcs
  <1>3. CASE LinkInvoice(s)
    BY <1>3, StillAskedFor, GotoStands DEF LinkInvoice, CallPcs
  <1> QED
    BY <1>1, <1>2, <1>3

LEMMA TransitionStands ==
    ASSUME LifeIInv, RowsStay, NEW s \in Slots, ReadInvoice(s) \/ Swap(s) \/ MarkProcessed(s)
    PROVE  AskedFor' /\ RefundsStand'
  <1>0. serving[s] \in CallType /\ serving[s].key \in Keys /\ invoice[serving[s].key] \in InvoiceType
    BY Served DEF LifeIInv, ReadInvoice, Swap, MarkProcessed
  <1>1. \A k \in Keys : provider'[k].status # "none" => invoice'[k].status # "none"
    BY StillAskedFor DEF ReadInvoice, Swap, MarkProcessed
  <1>2. CASE ReadInvoice(s)
    <2>1. PICK row : row = invoice[serving[s].key]
      OBVIOUS
    <2>2. PICK b : b = [serving[s] EXCEPT !.seen = row.status, !.list = row.processed]
      OBVIOUS
    <2>3. b \in CallType /\ ~b.won
      <3>1. ~serving[s].won
        BY <1>2, IdleHasNotWon DEF LifeIInv, ReadInvoice
      <3> QED
        BY <1>0, <2>1, <2>2, <3>1 DEF CallType, InvoiceType
    <2>4. PICK pc : pc = IF serving[s].id \in row.processed THEN "idle"
                         ELSE IF row.status = serving[s].target THEN "mark"
                         ELSE IF serving[s].target \in Allowed(row.status) THEN "swap" ELSE "idle"
      OBVIOUS
    <2>5. pc \in CallPcs /\ pc \in {"idle", "mark", "swap"}
      BY <2>4 DEF CallPcs, RunningPcs
    <2>6. PICK c : c = At(b, pc)
      OBVIOUS
    <2>7. ~c.won /\ c.pc \notin {"provider", "link"}
      BY <2>3, <2>5, <2>6, AtFields, NotStartedIsSound DEF NotStarted
    <2>8. serving' = [serving EXCEPT ![s] = c]
      BY <1>2, <2>1, <2>2, <2>4, <2>6 DEF ReadInvoice
    <2> QED
      BY <1>1, <2>7, <2>8, CallStands
  <1>3. CASE Swap(s)
    <2>1. PICK w \in BOOLEAN : w <=> UnchangedSince(s)
      OBVIOUS
    <2>2. PICK c : c = [serving[s] EXCEPT !.pc = "mark", !.won = UnchangedSince(s)]
      OBVIOUS
    <2>3. /\ c.pc = "mark" /\ (c.won <=> UnchangedSince(s)) /\ c.key = serving[s].key
          /\ c.target = serving[s].target
      BY <1>0, <2>2 DEF CallType
    <2>4. c.won /\ c.target = "refunded" => invoice'[c.key].status = "refunded"
      BY <1>3, <2>3, SwapWrites DEF LifeIInv
    <2>5. serving' = [serving EXCEPT ![s] = c]
      BY <1>3, <2>2 DEF Swap
    <2> QED
      BY <1>1, <2>3, <2>4, <2>5, CallStands
  <1>4. CASE MarkProcessed(s)
    <2>1. PICK pc : pc = AfterMark(s)
      OBVIOUS
    <2>2. Goto(s, pc) /\ pc \in CallPcs /\ pc \notin {"provider", "link"}
      BY <1>4, <2>1 DEF MarkProcessed, AfterMark, CallPcs, RunningPcs
    <2> QED
      BY <1>1, <2>2, GotoStands
  <1> QED
    BY <1>2, <1>3, <1>4

LEMMA EndStands ==
    ASSUME LifeIInv, RowsStay, NEW s \in Slots,
           \/ RecordTransition(s) \/ ActivatePaid(s) \/ Downgrade(s)
           \/ \E why \in {"refused", "stopped"} : GiveUp(s, why)
    PROVE  AskedFor' /\ RefundsStand'
  <1>1. PICK pc \in {"idle", "apply"} : Goto(s, pc)
    BY DEF RecordTransition, ActivatePaid, Downgrade, GiveUp
  <1>2. pc \in CallPcs /\ pc \notin {"provider", "link"}
    BY DEF CallPcs, RunningPcs
  <1>3. UNCHANGED provider
    BY DEF RecordTransition, ActivatePaid, Downgrade, GiveUp
  <1> QED
    BY <1>1, <1>2, <1>3, StillAskedFor, GotoStands

LEMMA ReconcileStands ==
    ASSUME LifeIInv, RowsStay, Reconcile
    PROVE  AskedFor' /\ RefundsStand'
  <1>0. Cron \in Slots /\ serving[Cron] \in CallType /\ ~serving[Cron].won
    BY CronHasNotWon DEF LifeIInv, Reconcile, BeginReconcile, ListOpen, QueryProvider
  <1>1. \A k \in Keys : provider'[k].status # "none" => invoice'[k].status # "none"
    BY StillAskedFor DEF Reconcile, BeginReconcile, ListOpen, QueryProvider
  <1>2. \/ Goto(Cron, "idle")
        \/ \E c : /\ serving' = [serving EXCEPT ![Cron] = c] /\ ~c.won
                  /\ c.pc \notin {"provider", "link"}
    <2>1. CASE BeginReconcile
      <3>1. PICK c : c = [NotStarted EXCEPT !.pc = "list", !.op = "reconcile"]
        OBVIOUS
      <3>2. ~c.won /\ c.pc = "list"
        BY <3>1 DEF NotStarted
      <3> QED
        BY <2>1, <3>1, <3>2 DEF BeginReconcile
    <2>2. CASE ListOpen /\ ~Goto(Cron, "idle")
      <3>1. PICK k \in Keys :
               serving' = [serving EXCEPT ![Cron] =
                              [@ EXCEPT !.pc = "query", !.key = k, !.seen = invoice[k].status]]
        BY <2>2 DEF ListOpen, Listed
      <3>2. PICK c : c = [serving[Cron] EXCEPT !.pc = "query", !.key = k, !.seen = invoice[k].status]
        OBVIOUS
      <3>3. ~c.won /\ c.pc = "query"
        BY <1>0, <3>2 DEF CallType
      <3> QED
        BY <3>1, <3>2, <3>3
    <2>3. CASE QueryProvider /\ ~Goto(Cron, "idle")
      <3>1. PICK report, id : serving' = [serving EXCEPT ![Cron] =
                                 [@ EXCEPT !.pc = "read", !.target = report, !.id = id]]
        BY <2>3 DEF QueryProvider
      <3>2. PICK c : c = [serving[Cron] EXCEPT !.pc = "read", !.target = report, !.id = id]
        OBVIOUS
      <3>3. ~c.won /\ c.pc = "read"
        BY <1>0, <3>2 DEF CallType
      <3> QED
        BY <3>1, <3>2, <3>3
    <2> QED
      BY <2>1, <2>2, <2>3 DEF Reconcile
  <1> QED
    BY <1>0, <1>1, <1>2, GotoStands, CallStands DEF CallPcs

(* Time and the provider. *)
LEMMA OutsideStands ==
    ASSUME LifeIInv, RowsStay, UNCHANGED serving,
           \A k \in Keys : provider'[k].status # "none" => provider[k].status # "none"
    PROVE  AskedFor' /\ RefundsStand'
  <1>1. PICK c : c = serving[Cron]
    OBVIOUS
  <1>2. Cron \in Slots /\ CallIsSound(c) /\ (c.pc \notin {"idle", "list"} => c.key \in Keys)
    BY <1>1, Served DEF LifeIInv, Slots
  <1>3. serving' = [serving EXCEPT ![Cron] = c]
    BY <1>1, <1>2 DEF LifeIInv, PaymentIInv, PaymentInv, PaymentTypeOK
  <1>4. c.pc \in {"provider", "link"} => invoice'[c.key].status # "none"
    BY <1>1, <1>2 DEF LifeIInv, AskedFor, RowsStay
  <1>5. ASSUME c.won, c.target = "refunded" PROVE invoice'[c.key].status = "refunded"
    <2>1. c.key \in Keys /\ invoice[c.key].status = "refunded"
      BY <1>1, <1>2, <1>5 DEF LifeIInv, RefundsStand, CallIsSound
    <2> QED
      BY <2>1 DEF RowsStay, SettledStays, Settled, Statuses, Open
  <1>6. \A k \in Keys : provider'[k].status # "none" => invoice'[k].status # "none"
    BY DEF LifeIInv, AskedFor, RowsStay
  <1> QED
    BY <1>2, <1>3, <1>4, <1>5, <1>6, CallStands

LEMMA MovedIsKnown ==
    ASSUME NEW k \in Keys, NEW report \in Reports, PaymentMoves(k, report), PaymentIInv
    PROVE  /\ provider[k].status # "none"
           /\ \A j \in Keys : IF j = k THEN /\ provider'[j].status = report
                                            /\ provider'[j].sent = provider[j].sent \cup {report}
                              ELSE provider'[j] = provider[j]
  <1>1. provider \in [Keys -> [status : Reports \cup {"none"}, sent : SUBSET Reports]]
    BY DEF PaymentIInv, PaymentInv, PaymentTypeOK
  <1>2. MayFollow("none") = {}
    BY DEF MayFollow
  <1> QED
    BY <1>1, <1>2 DEF PaymentMoves

LEMMA LifeIInvSteps == LifeIInv /\ [PaymentNext]_paymentVars => LifeIInv'
  <1> SUFFICES ASSUME LifeIInv, [PaymentNext]_paymentVars PROVE LifeIInv'
    OBVIOUS
  <1>0. PaymentIInv' /\ RowsStay
    BY PaymentSteps, RowsStaySteps DEF LifeIInv
  <1>1. ASSUME NEW s \in Slots, Continue(s) \/ Fail(s) PROVE AskedFor' /\ RefundsStand'
    BY <1>0, <1>1, CheckoutStands, TransitionStands, EndStands
       DEF Continue, Fail, TransitionNotRecorded
  <1>2. ASSUME NEW s \in Invocations, Begin(s) PROVE AskedFor' /\ RefundsStand'
    BY <1>0, <1>2, BeginStands
  <1>3. ASSUME Reconcile PROVE AskedFor' /\ RefundsStand'
    BY <1>0, <1>3, ReconcileStands
  <1>4. ASSUME UNCHANGED <<provider, serving>> PROVE AskedFor' /\ RefundsStand'
    <2>1. \A k \in Keys : provider'[k].status # "none" => provider[k].status # "none"
      BY <1>4
    <2> QED
      BY <1>0, <1>4, <2>1, OutsideStands
  <1>5. ASSUME NEW k \in Keys, NEW report \in Reports, PaymentMoves(k, report)
        PROVE  AskedFor' /\ RefundsStand'
    <2>1. \A j \in Keys : provider'[j].status # "none" => provider[j].status # "none"
      BY <1>5, MovedIsKnown DEF LifeIInv
    <2> QED
      BY <1>0, <1>5, <2>1, OutsideStands DEF PaymentMoves
  <1>6. ASSUME UNCHANGED paymentVars \/ \E k \in Keys : RunOutOfTime(k)
        PROVE  AskedFor' /\ RefundsStand'
    BY <1>4, <1>6 DEF paymentVars, RunOutOfTime
  <1>7. AskedFor' /\ RefundsStand'
    BY <1>1, <1>2, <1>3, <1>5, <1>6 DEF PaymentNext
  <1> QED
    BY <1>0, <1>7 DEF LifeIInv

LEMMA LifeInvInit == PaymentInit => LifeIInv
  <1> SUFFICES ASSUME PaymentInit PROVE LifeIInv
    OBVIOUS
  <1>1. \A s \in Slots : serving[s] = NotStarted
    BY DEF PaymentInit
  <1>2. \A s \in Slots : serving[s].pc = "idle" /\ ~serving[s].won
    BY <1>1 DEF NotStarted
  <1>3. \A k \in Keys : provider[k].status = "none"
    BY DEF PaymentInit
  <1> QED
    BY <1>2, <1>3, PaymentInitHolds DEF LifeIInv, AskedFor, RefundsStand

LEMMA Standings ==
    /\ \A st \in Open : Standing(st) = "open"
    /\ Standing("confirmed") = "paid" /\ Standing("refunded") = "refunded"
    /\ Standing("failed") = "void" /\ Standing("expired") = "void"
    /\ Standing("none") = "none"
    /\ \A st \in Statuses : Standing(st) # "none"
    /\ \A st \in Paid : Standing(st) \in {"paid", "refunded"}
  BY DEF Standing, Open, Statuses, Paid

(* A step that moves no invoice to another standing, and neither money nor  *)
(* plan, is none of the abstract life.                                      *)
LEMMA LifeStutters ==
    ASSUME \A k \in Keys : Standing(invoice'[k].status) = Standing(invoice[k].status),
           \A k \in Keys : "confirmed" \in provider'[k].sent <=> "confirmed" \in provider[k].sent,
           UNCHANGED <<activated, subscription>>
    PROVE  UNCHANGED Life!lifeVars
  BY DEF Life!lifeVars

LEMMA LifeMoves ==
    ASSUME NEW k \in Keys, NEW from, NEW to,
           Standing(invoice[k].status) = from, Standing(invoice'[k].status) = to,
           \A j \in Keys : j # k => invoice'[j] = invoice[j],
           UNCHANGED <<provider, activated, subscription>>
    PROVE  Life!Moves(k, from, to)
  BY DEF Life!Moves

LEMMA CreateIsLife ==
    ASSUME LifeIInv, NEW s \in Slots, CreateInvoice(s)
    PROVE  [Life!LifeNext]_(Life!lifeVars)
  <1>0. PICK k : k = serving[s].key
    OBVIOUS
  <1>1. /\ k \in Keys
        /\ \A j \in Keys : \/ invoice'[j] = invoice[j]
                           \/ /\ j = k /\ invoice[j].status = "none"
                              /\ invoice'[j].status = "pending"
    BY <1>0, CreateWrites DEF LifeIInv
  <1>2. UNCHANGED <<subscription, provider, activated>>
    BY DEF CreateInvoice
  <1>3. CASE \A j \in Keys : invoice'[j] = invoice[j]
    BY <1>2, <1>3, LifeStutters
  <1>4. CASE ~\A j \in Keys : invoice'[j] = invoice[j]
    <2>1. invoice[k].status = "none" /\ invoice'[k].status = "pending"
      BY <1>1, <1>4
    <2>2. Standing(invoice[k].status) = "none" /\ Standing(invoice'[k].status) = "open"
      BY <2>1, Standings DEF Open
    <2>3. Life!Moves(k, "none", "open")
      BY <1>1, <1>2, <2>2, LifeMoves
    <2> QED
      BY <1>1, <2>3 DEF Life!LifeNext, Life!Issue
  <1> QED
    BY <1>3, <1>4

LEMMA SwapIsLife ==
    ASSUME LifeIInv, NEW s \in Slots, Swap(s)
    PROVE  [Life!LifeNext]_(Life!lifeVars)
  <1>0. PICK k : k = serving[s].key
    OBVIOUS
  <1>1. PICK from, to : from = invoice[k].status /\ to = serving[s].target
    OBVIOUS
  <1>2. /\ k \in Keys /\ to \in Statuses
        /\ \A j \in Keys : j # k => invoice'[j] = invoice[j]
        /\ UnchangedSince(s) => invoice'[k].status = to /\ to \in Allowed(from)
        /\ ~UnchangedSince(s) => invoice' = invoice
    BY <1>0, <1>1, SwapWrites DEF LifeIInv
  <1>3. UNCHANGED <<subscription, provider, activated>>
    BY DEF Swap
  <1>4. CASE ~UnchangedSince(s)
    BY <1>2, <1>3, <1>4, LifeStutters
  <1>5. CASE UnchangedSince(s)
    <2>0. invoice'[k].status = to /\ to \in Allowed(from) /\ invoice[k].status = from
      BY <1>1, <1>2, <1>5
    <2>1. \/ from \in Open /\ to \in Open
          \/ from \in Open /\ to = "confirmed"
          \/ from \in Open /\ to \in {"failed", "expired"}
          \/ from = "confirmed" /\ to = "refunded"
      BY <2>0 DEF Allowed, Open
    <2>2. CASE from \in Open /\ to \in Open
      <3>1. \A j \in Keys : Standing(invoice'[j].status) = Standing(invoice[j].status)
        BY <1>2, <2>0, <2>2, Standings
      <3> QED
        BY <1>3, <3>1, LifeStutters
    <2>3. CASE from \in Open /\ to = "confirmed"
      <3>1. Standing(invoice[k].status) = "open" /\ Standing(invoice'[k].status) = "paid"
        BY <2>0, <2>3, Standings
      <3>2. Life!Moves(k, "open", "paid")
        BY <1>2, <1>3, <3>1, LifeMoves
      <3>3. "confirmed" \in provider[k].sent
        BY <1>0, <1>1, <2>3, Served DEF Swap, CallIsSound, Deciding, LifeIInv
      <3>4. Life!Settle(k)
        BY <1>2, <3>2, <3>3 DEF Life!Settle
      <3> QED
        BY <1>2, <3>4 DEF Life!LifeNext
    <2>4. CASE from \in Open /\ to \in {"failed", "expired"}
      <3>1. Standing(invoice[k].status) = "open" /\ Standing(invoice'[k].status) = "void"
        BY <2>0, <2>4, Standings
      <3>2. Life!Abandon({k})
        BY <1>2, <1>3, <3>1 DEF Life!Abandon
      <3> QED
        BY <1>2, <3>2 DEF Life!LifeNext
    <2>5. CASE from = "confirmed" /\ to = "refunded"
      <3>1. Standing(invoice[k].status) = "paid" /\ Standing(invoice'[k].status) = "refunded"
        BY <2>0, <2>5, Standings
      <3>2. Life!Moves(k, "paid", "refunded")
        BY <1>2, <1>3, <3>1, LifeMoves
      <3> QED
        BY <1>2, <3>2 DEF Life!LifeNext, Life!Refund
    <2> QED
      BY <2>1, <2>2, <2>3, <2>4, <2>5
  <1> QED
    BY <1>4, <1>5

LEMMA SweepIsLife ==
    ASSUME LifeIInv, BeginReconcile
    PROVE  [Life!LifeNext]_(Life!lifeVars)
  <1>1. PICK K : K = {k \in Keys : Stale(k)}
    OBVIOUS
  <1>2. \A k \in K : Standing(invoice[k].status) = "open"
    BY <1>1, Standings DEF Stale
  <1>3. \A k \in Keys : Standing(invoice'[k].status) =
                           IF k \in K THEN "void" ELSE Standing(invoice[k].status)
    BY <1>1, ReconcileWrites, Standings DEF LifeIInv
  <1>4. UNCHANGED <<subscription, provider, activated>>
    BY DEF BeginReconcile
  <1>5. Life!Abandon(K) /\ K \in SUBSET Keys
    BY <1>1, <1>2, <1>3, <1>4 DEF Life!Abandon
  <1> QED
    BY <1>5 DEF Life!LifeNext

LEMMA ProviderIsLife ==
    ASSUME LifeIInv, NEW k \in Keys, NEW report \in Reports, PaymentMoves(k, report)
    PROVE  [Life!LifeNext]_(Life!lifeVars)
  <1>1. /\ provider[k].status # "none"
        /\ \A j \in Keys : IF j = k THEN provider'[j].sent = provider[j].sent \cup {report}
                           ELSE provider'[j] = provider[j]
    BY MovedIsKnown DEF LifeIInv
  <1>2. UNCHANGED <<invoice, subscription, activated>>
    BY DEF PaymentMoves
  <1>3. CASE report # "confirmed"
    BY <1>1, <1>2, <1>3, LifeStutters
  <1>4. CASE report = "confirmed"
    <2>1. invoice[k].status # "none" /\ invoice[k].status \in Statuses \cup {"none"}
      BY <1>1 DEF LifeIInv, AskedFor, PaymentIInv, PaymentInv, PaymentTypeOK, InvoiceType
    <2>2. Standing(invoice[k].status) # "none"
      BY <2>1, Standings
    <2>3. \A j \in Keys : "confirmed" \in provider'[j].sent <=>
                             j = k \/ "confirmed" \in provider[j].sent
      BY <1>1, <1>4
    <2>4. Life!Receive(k)
      BY <1>2, <2>2, <2>3 DEF Life!Receive
    <2> QED
      BY <2>4 DEF Life!LifeNext
  <1> QED
    BY <1>3, <1>4

LEMMA ActivateIsLife ==
    ASSUME LifeIInv, NEW s \in Slots, ActivatePaid(s)
    PROVE  [Life!LifeNext]_(Life!lifeVars)
  <1>0. PICK k : k = serving[s].key
    OBVIOUS
  <1>1. /\ k \in Keys /\ Winner(s, k) /\ activated \in [Keys -> Nat]
    BY <1>0, Served DEF ActivatePaid, Winner, CallIsSound, LifeIInv, PaymentIInv, PaymentInv, PaymentTypeOK
  <1>2. activated[k] = 0 /\ invoice[k].status \in Paid
    BY <1>1 DEF LifeIInv, PaymentIInv, WinnersAreAlone
  <1>3. /\ subscription' = [status |-> "active", paidBy |-> k]
        /\ \A j \in Keys : activated'[j] = IF j = k THEN 1 ELSE activated[j]
        /\ UNCHANGED <<invoice, provider>>
    BY <1>0, <1>1, <1>2 DEF ActivatePaid
  <1>4. Standing(invoice[k].status) \in {"paid", "refunded"}
    BY <1>2, Standings
  <1>5. \A j \in Keys : activated'[j] > 0 <=> j = k \/ activated[j] > 0
    BY <1>1, <1>3
  <1>6. Life!Grant(k)
    BY <1>1, <1>2, <1>3, <1>4, <1>5 DEF Life!Grant
  <1> QED
    BY <1>1, <1>6 DEF Life!LifeNext

LEMMA DowngradeIsLife ==
    ASSUME LifeIInv, NEW s \in Slots, Downgrade(s)
    PROVE  [Life!LifeNext]_(Life!lifeVars)
  <1>0. PICK k : k = serving[s].key
    OBVIOUS
  <1>1. k \in Keys /\ invoice[k].status = "refunded"
    BY <1>0, Served DEF LifeIInv, Downgrade, RefundsStand, CallIsSound
  <1>2. Standing(invoice[k].status) = "refunded"
    BY <1>1, Standings
  <1>3. Life!Withdraw(k)
    BY <1>1, <1>2 DEF Life!Withdraw, Downgrade, PastDue
  <1> QED
    BY <1>1, <1>3 DEF Life!LifeNext

(* All that is left: the other steps of a call, and time. *)
LEMMA RestIsLife ==
    ASSUME LifeIInv,
           \/ \E s \in Slots : \/ CallProvider(s) \/ LinkInvoice(s) \/ ReadInvoice(s)
                               \/ MarkProcessed(s) \/ RecordTransition(s)
                               \/ TransitionNotRecorded(s) \/ Fail(s)
           \/ \E s \in Invocations : Begin(s)
           \/ ListOpen \/ QueryProvider \/ UNCHANGED paymentVars
           \/ \E k \in Keys : RunOutOfTime(k)
    PROVE  [Life!LifeNext]_(Life!lifeVars)
  <1>1. UNCHANGED <<subscription, activated>>
    BY DEF CallProvider, LinkInvoice, ReadInvoice, MarkProcessed, RecordTransition,
       TransitionNotRecorded, Fail, GiveUp, Begin, BeginCheckout, BeginRefund, BeginWebhook, Call,
       ListOpen, QueryProvider, paymentVars, RunOutOfTime
  <1>2. \A k \in Keys : Standing(invoice'[k].status) = Standing(invoice[k].status)
    <2>1. ASSUME NEW s \in Slots, LinkInvoice(s)
          PROVE  \A k \in Keys : Standing(invoice'[k].status) = Standing(invoice[k].status)
      <3>1. Standing("pending") = Standing("waiting")
        BY DEF Standing, Open
      <3> QED
        BY <2>1, <3>1, LinkWrites DEF LifeIInv
    <2>2. ASSUME NEW s \in Slots, MarkProcessed(s)
          PROVE  \A k \in Keys : Standing(invoice'[k].status) = Standing(invoice[k].status)
      BY <2>2, MarkWrites DEF LifeIInv
    <2>3. ASSUME NEW j \in Keys, RunOutOfTime(j)
          PROVE  \A k \in Keys : Standing(invoice'[k].status) = Standing(invoice[k].status)
      BY <2>3, TimeWrites DEF LifeIInv
    <2>4. \/ \E s \in Slots : LinkInvoice(s) \/ MarkProcessed(s)
          \/ \E k \in Keys : RunOutOfTime(k)
          \/ UNCHANGED invoice
      BY DEF CallProvider, ReadInvoice, RecordTransition, TransitionNotRecorded, Fail, GiveUp,
         Begin, BeginCheckout, BeginRefund, BeginWebhook, Call, ListOpen, QueryProvider, paymentVars
    <2> QED
      BY <2>1, <2>2, <2>3, <2>4
  <1>3. \A k \in Keys : "confirmed" \in provider'[k].sent <=> "confirmed" \in provider[k].sent
    <2>1. ASSUME NEW s \in Slots, CallProvider(s), NEW k \in Keys
          PROVE  "confirmed" \in provider'[k].sent <=> "confirmed" \in provider[k].sent
      <3>1. /\ serving[s].key \in Keys
            /\ provider \in [Keys -> [status : Reports \cup {"none"}, sent : SUBSET Reports]]
            /\ ProviderIsSound
        BY <2>1, Served DEF CallProvider, LifeIInv, PaymentIInv, PaymentInv, PaymentTypeOK
      <3>2. PICK row : row = [status |-> "waiting", sent |-> {"waiting"}]
        OBVIOUS
      <3>3. provider' = IF provider[serving[s].key].status # "none" THEN provider
                        ELSE [provider EXCEPT ![serving[s].key] = row]
        BY <2>1, <3>2 DEF CallProvider
      <3>4. provider[serving[s].key].status = "none" => provider[serving[s].key].sent = {}
        BY <3>1 DEF ProviderIsSound
      <3>5. "confirmed" \notin row.sent
        BY <3>2
      <3> QED
        BY <3>1, <3>3, <3>4, <3>5
    <2>2. (\E s \in Slots : CallProvider(s)) \/ UNCHANGED provider
      BY DEF LinkInvoice, ReadInvoice, MarkProcessed, RecordTransition,
         TransitionNotRecorded, Fail, GiveUp, Begin, BeginCheckout, BeginRefund, BeginWebhook, Call,
         ListOpen, QueryProvider, paymentVars, RunOutOfTime
    <2> QED
      BY <2>1, <2>2
  <1> QED
    BY <1>1, <1>2, <1>3, LifeStutters

LEMMA LifeSteps == LifeIInv /\ [PaymentNext]_paymentVars => [Life!LifeNext]_(Life!lifeVars)
  <1> SUFFICES ASSUME LifeIInv, [PaymentNext]_paymentVars PROVE [Life!LifeNext]_(Life!lifeVars)
    OBVIOUS
  <1>1. ASSUME NEW s \in Slots, Continue(s) \/ Fail(s) PROVE [Life!LifeNext]_(Life!lifeVars)
    BY <1>1, CreateIsLife, SwapIsLife, ActivateIsLife, DowngradeIsLife, RestIsLife DEF Continue
  <1>2. CASE Reconcile
    BY <1>2, SweepIsLife, RestIsLife DEF Reconcile
  <1>3. CASE \/ \E s \in Invocations : Begin(s)
             \/ UNCHANGED paymentVars
             \/ \E k \in Keys : RunOutOfTime(k)
    BY <1>3, RestIsLife
  <1> QED
    BY <1>1, <1>2, <1>3, ProviderIsLife DEF PaymentNext

(* However calls of checkout, webhook, refund route and reconciliation      *)
(* overlap, are delivered again or out of order, and wherever the process   *)
(* stops, tenant and seller see the life of an invoice: issued, settled     *)
(* with money the provider received or given up, refunded; granting the     *)
(* plan at most once, which only a refund withdraws.                        *)
THEOREM InvoicesLiveOnce == PaymentSpec => ImplementsLife
  <1>1. PaymentInit => Life!LifeInit
    <2> SUFFICES ASSUME PaymentInit PROVE Life!LifeInit
      OBVIOUS
    <2>1. \A k \in Keys : /\ Standing(invoice[k].status) = "none"
                          /\ "confirmed" \notin provider[k].sent /\ ~(activated[k] > 0)
      BY Standings DEF PaymentInit, NoInvoice
    <2>2. subscription = [status |-> "trialing", paidBy |-> NoKey]
      BY DEF PaymentInit
    <2> QED
      BY <2>1, <2>2 DEF Life!LifeInit
  <1>2. PaymentSpec => Life!LifeInit
    BY <1>1, PTL DEF PaymentSpec
  <1>3. PaymentSpec => [][Life!LifeNext]_(Life!lifeVars)
    BY LifeInvInit, LifeIInvSteps, LifeSteps, PTL DEF PaymentSpec
  <1>4. Life!LifeInit /\ [][Life!LifeNext]_(Life!lifeVars) => Life!LifeSpec
    BY DEF Life!LifeSpec
  <1> QED
    BY <1>2, <1>3, <1>4, PaymentsHold, PTL DEF ImplementsLife

-----------------------------------------------------------------------------
(***************************************************************************)
(* An invoice settles.  tlapm cannot tell what ENABLED means: that the     *)
(* fair steps are enabled (CallsCanGoOn) is a hypothesis here, and part of *)
(* the property the run checks.                                            *)
(***************************************************************************)

(* How far the scheduler is from its next reconciliation: no step of any    *)
(* call takes it further away.                                              *)
Remaining(pc) ==
    CASE pc = "list"                  -> 7
      [] pc = "query"                 -> 6
      [] pc = "read"                  -> 5
      [] pc = "swap"                  -> 4
      [] pc \in {"mark", "create"}    -> 3
      [] pc \in {"audit", "provider"} -> 2
      [] pc \in {"apply", "link"}     -> 1
      [] OTHER                        -> 0

(* Linking gives an invoice new time once, when it leaves "pending": what   *)
(* follows is said of each of the two stages of an open invoice.            *)
Stages == {{"pending"}, {"waiting", "confirming"}}

IsIn(k, stage) == invoice[k].status \in stage

IsLate(k, stage) == invoice[k].status \in stage /\ invoice[k].overdue

Near(n) == Remaining(serving[Cron].pc) <= n

LEMMA RemainingTypes ==
    /\ \A pc : Remaining(pc) \in 0 .. 7
    /\ \A pc \in CallPcs : Remaining(pc) = 0 => pc = "idle"
    /\ Remaining("idle") = 0
    /\ \A pc \in CallPcs : Remaining(pc) \in 1 .. 5 => pc \in RunningPcs \ {"list", "query"}
    /\ \A pc \in CallPcs : Remaining(pc) \in {0, 6, 7} => pc \in {"idle", "list", "query"}
  BY DEF Remaining, CallPcs, RunningPcs

LEMMA AtPc ==
    ASSUME NEW c \in CallType, NEW pc \in CallPcs
    PROVE  At(c, pc).pc = pc
  BY AtFields DEF NotStarted

(* A call that goes to pc is at pc. *)
LEMMA GotoPc ==
    ASSUME PaymentIInv, NEW s \in Slots, NEW pc \in CallPcs, Goto(s, pc)
    PROVE  serving'[s].pc = pc
  <1>1. serving[s] \in CallType /\ serving \in [Slots -> CallType]
    BY Served DEF PaymentIInv, PaymentInv, PaymentTypeOK
  <1>2. PICK c : c = At(serving[s], pc)
    OBVIOUS
  <1>3. c.pc = pc /\ serving' = [serving EXCEPT ![s] = c]
    BY <1>1, <1>2, AtPc DEF Goto
  <1> QED
    BY <1>1, <1>3

(* Every step of a call leads to a later one. *)
LEMMA ContinueNears ==
    ASSUME PaymentIInv, NEW s \in Slots, Continue(s)
    PROVE  Remaining(serving'[s].pc) < Remaining(serving[s].pc)
  <1>0. serving[s] \in CallType /\ serving \in [Slots -> CallType]
    BY Served DEF PaymentIInv, PaymentInv, PaymentTypeOK
  <1>1. CASE CreateInvoice(s)
    <2>1. PICK pc \in {"provider", "idle"} : Goto(s, pc)
      BY <1>1 DEF CreateInvoice, AfterLookup
    <2>2. serving'[s].pc = pc /\ serving[s].pc = "create"
      BY <1>1, <2>1, GotoPc DEF CallPcs, RunningPcs, CreateInvoice
    <2> QED
      BY <2>1, <2>2 DEF Remaining
  <1>2. CASE CallProvider(s)
    <2>1. serving'[s].pc = "link" /\ serving[s].pc = "provider"
      BY <1>2, GotoPc DEF CallPcs, RunningPcs, CallProvider
    <2> QED
      BY <2>1 DEF Remaining
  <1>3. CASE ReadInvoice(s)
    <2>1. PICK row : row = invoice[serving[s].key]
      OBVIOUS
    <2>2. row \in InvoiceType /\ serving[s].pc = "read"
      BY <1>3, <2>1, Served DEF ReadInvoice
    <2>3. PICK b : b = [serving[s] EXCEPT !.seen = row.status, !.list = row.processed]
      OBVIOUS
    <2>4. b \in CallType
      BY <1>0, <2>2, <2>3 DEF CallType, InvoiceType
    <2>5. PICK pc \in {"idle", "mark", "swap"} : serving' = [serving EXCEPT ![s] = At(b, pc)]
      BY <1>3, <2>1, <2>3 DEF ReadInvoice
    <2>6. PICK c : c = At(b, pc)
      OBVIOUS
    <2>7. c.pc = pc
      BY <2>4, <2>5, <2>6, AtPc DEF CallPcs, RunningPcs
    <2>8. serving'[s].pc = pc
      BY <1>0, <2>5, <2>6, <2>7
    <2> QED
      BY <2>2, <2>5, <2>8 DEF Remaining
  <1>4. CASE Swap(s)
    <2>1. PICK c : c = [serving[s] EXCEPT !.pc = "mark", !.won = UnchangedSince(s)]
      OBVIOUS
    <2>2. c.pc = "mark" /\ serving' = [serving EXCEPT ![s] = c] /\ serving[s].pc = "swap"
      BY <1>0, <1>4, <2>1 DEF Swap, CallType
    <2>3. serving'[s].pc = "mark"
      BY <1>0, <2>2
    <2> QED
      BY <2>2, <2>3 DEF Remaining
  <1>5. CASE MarkProcessed(s)
    <2>1. PICK pc \in {"audit", "idle"} : Goto(s, pc)
      BY <1>5 DEF MarkProcessed, AfterMark
    <2>2. serving'[s].pc = pc /\ serving[s].pc = "mark"
      BY <1>5, <2>1, GotoPc DEF CallPcs, RunningPcs, MarkProcessed
    <2> QED
      BY <2>1, <2>2 DEF Remaining
  <1>6. CASE RecordTransition(s)
    <2>1. PICK pc \in {"apply", "idle"} : Goto(s, pc)
      BY <1>6 DEF RecordTransition
    <2>2. serving'[s].pc = pc /\ serving[s].pc = "audit"
      BY <1>6, <2>1, GotoPc DEF CallPcs, RunningPcs, RecordTransition
    <2> QED
      BY <2>1, <2>2 DEF Remaining
  <1>7. CASE LinkInvoice(s) \/ TransitionNotRecorded(s) \/ ActivatePaid(s) \/ Downgrade(s)
    <2>1. serving'[s].pc = "idle" /\ serving[s].pc \in {"link", "audit", "apply"}
      BY <1>7, GotoPc DEF CallPcs, LinkInvoice, TransitionNotRecorded, GiveUp, ActivatePaid, Downgrade
    <2> QED
      BY <2>1 DEF Remaining
  <1> QED
    BY <1>1, <1>2, <1>3, <1>4, <1>5, <1>6, <1>7 DEF Continue

(* So does every step of a reconciliation but its first. *)
LEMMA ReconcileNears ==
    ASSUME PaymentIInv, ListOpen \/ QueryProvider
    PROVE  Remaining(serving'[Cron].pc) < Remaining(serving[Cron].pc)
  <1>0. serving[Cron] \in CallType /\ serving \in [Slots -> CallType] /\ Cron \in Slots
    BY Served DEF PaymentIInv, PaymentInv, PaymentTypeOK, Slots
  <1>1. ASSUME Goto(Cron, "idle")
        PROVE  serving'[Cron].pc = "idle"
    BY <1>0, <1>1, GotoPc DEF CallPcs
  <1>2. CASE ListOpen
    <2>1. CASE Goto(Cron, "idle")
      <3>1. serving'[Cron].pc = "idle" /\ serving[Cron].pc = "list"
        BY <1>1, <1>2, <2>1 DEF ListOpen
      <3> QED
        BY <3>1 DEF Remaining
    <2>2. CASE ~Goto(Cron, "idle")
      <3>1. PICK k : serving' = [serving EXCEPT ![Cron] =
                        [@ EXCEPT !.pc = "query", !.key = k, !.seen = invoice[k].status]]
        BY <1>2, <2>2 DEF ListOpen
      <3>2. PICK c : c = [serving[Cron] EXCEPT !.pc = "query", !.key = k, !.seen = invoice[k].status]
        OBVIOUS
      <3>3. c.pc = "query" /\ serving' = [serving EXCEPT ![Cron] = c]
        BY <1>0, <3>1, <3>2 DEF CallType
      <3>4. serving'[Cron].pc = "query" /\ serving[Cron].pc = "list"
        BY <1>0, <1>2, <3>3 DEF ListOpen
      <3> QED
        BY <3>4 DEF Remaining
    <2> QED
      BY <2>1, <2>2
  <1>3. CASE QueryProvider
    <2>1. CASE Goto(Cron, "idle")
      <3>1. serving'[Cron].pc = "idle" /\ serving[Cron].pc = "query"
        BY <1>1, <1>3, <2>1 DEF QueryProvider
      <3> QED
        BY <3>1 DEF Remaining
    <2>2. CASE ~Goto(Cron, "idle")
      <3>1. PICK to, id : serving' = [serving EXCEPT ![Cron] =
                             [@ EXCEPT !.pc = "read", !.target = to, !.id = id]]
        BY <1>3, <2>2 DEF QueryProvider
      <3>2. PICK c : c = [serving[Cron] EXCEPT !.pc = "read", !.target = to, !.id = id]
        OBVIOUS
      <3>3. c.pc = "read" /\ serving' = [serving EXCEPT ![Cron] = c]
        BY <1>0, <3>1, <3>2 DEF CallType
      <3>4. serving'[Cron].pc = "read" /\ serving[Cron].pc = "query"
        BY <1>0, <1>3, <3>3 DEF QueryProvider
      <3> QED
        BY <3>4 DEF Remaining
    <2> QED
      BY <2>1, <2>2
  <1> QED
    BY <1>2, <1>3

(* Whatever step is taken, the scheduler is not further away, unless a      *)
(* reconciliation begins.                                                   *)
LEMMA CronNears ==
    ASSUME PaymentIInv, [PaymentNext]_paymentVars, ~BeginReconcile
    PROVE  Remaining(serving'[Cron].pc) <= Remaining(serving[Cron].pc)
  <1>0. serving \in [Slots -> CallType] /\ Cron \in Slots
    BY DEF PaymentIInv, PaymentInv, PaymentTypeOK, Slots
  <1>1. ASSUME NEW s \in Slots, s # Cron, NEW c, serving' = [serving EXCEPT ![s] = c]
        PROVE  serving'[Cron] = serving[Cron]
    BY <1>0, <1>1
  <1>2. ASSUME serving'[Cron] = serving[Cron]
        PROVE  Remaining(serving'[Cron].pc) <= Remaining(serving[Cron].pc)
    BY <1>2, RemainingTypes
  <1>3. ASSUME NEW s \in Slots, s # Cron, Continue(s) \/ Fail(s)
        PROVE  serving'[Cron] = serving[Cron]
    <2>1. \E c : serving' = [serving EXCEPT ![s] = c]
      BY <1>3 DEF Continue, Fail, GiveUp, Goto, CreateInvoice, CallProvider, LinkInvoice,
         ReadInvoice, Swap, MarkProcessed, RecordTransition, TransitionNotRecorded,
         ActivatePaid, Downgrade
    <2> QED
      BY <1>1, <1>3, <2>1
  <1>4. ASSUME Fail(Cron) PROVE Remaining(serving'[Cron].pc) <= Remaining(serving[Cron].pc)
    <2>1. serving'[Cron].pc = "idle"
      BY <1>0, <1>4, GotoPc DEF CallPcs, Fail, GiveUp
    <2> QED
      BY <2>1, RemainingTypes
  <1>5. ASSUME Continue(Cron) \/ ListOpen \/ QueryProvider
        PROVE  Remaining(serving'[Cron].pc) <= Remaining(serving[Cron].pc)
    BY <1>0, <1>5, ContinueNears, ReconcileNears, RemainingTypes
  <1>6. ASSUME NEW s \in Invocations, Begin(s) PROVE serving'[Cron] = serving[Cron]
    <2>1. \E c : serving' = [serving EXCEPT ![s] = c]
      BY <1>6 DEF Begin, BeginCheckout, BeginRefund, BeginWebhook, Call
    <2> QED
      BY <1>1, <2>1, CronAssumption DEF Slots
  <1>7. ASSUME \/ UNCHANGED paymentVars
               \/ \E k \in Keys : \/ RunOutOfTime(k)
                                  \/ \E report \in Reports : PaymentMoves(k, report)
        PROVE  serving'[Cron] = serving[Cron]
    BY <1>7 DEF paymentVars, RunOutOfTime, PaymentMoves
  <1> QED
    BY <1>2, <1>3, <1>4, <1>5, <1>6, <1>7 DEF PaymentNext, Reconcile

(* An invoice that was found late, or will be, stays late in its stage.     *)
LEMMA LateStays ==
    ASSUME PaymentIInv, [PaymentNext]_paymentVars, NEW k \in Keys, NEW stage \in Stages,
           IsLate(k, stage)
    PROVE  ~IsIn(k, stage)' \/ IsLate(k, stage)'
  <1>0. invoice \in [Keys -> InvoiceType] /\ (stage = {"pending"} \/ stage = {"waiting", "confirming"})
    BY DEF PaymentIInv, PaymentInv, PaymentTypeOK, Stages
  <1>1. ASSUME invoice'[k] = invoice[k] PROVE ~IsIn(k, stage)' \/ IsLate(k, stage)'
    BY <1>1 DEF IsLate
  <1>2. ASSUME NEW s \in Slots, CreateInvoice(s) \/ LinkInvoice(s)
        PROVE  ~IsIn(k, stage)' \/ IsLate(k, stage)'
    <2>1. \/ invoice'[k] = invoice[k]
          \/ invoice[k].status = "none"
          \/ invoice[k].status = "pending" /\ invoice'[k].status = "waiting"
      BY <1>2, CreateWrites, LinkWrites
    <2> QED
      BY <1>0, <1>1, <2>1 DEF IsIn, IsLate
  <1>3. ASSUME NEW s \in Slots, Swap(s) PROVE invoice'[k].overdue = invoice[k].overdue
    <2>1. PICK to, id : invoice' = invoice \/
                       invoice' = [invoice EXCEPT ![serving[s].key] =
                                      [@ EXCEPT !.status = to, !.providerId = id]]
      BY <1>3 DEF Swap
    <2>2. serving[s].key \in Keys
      BY <1>3, SwapWrites
    <2>3. PICK row : row = [invoice[serving[s].key] EXCEPT !.status = to, !.providerId = id]
      OBVIOUS
    <2>4. row.overdue = invoice[serving[s].key].overdue
      BY <1>0, <2>2, <2>3 DEF InvoiceType
    <2>5. invoice' = invoice \/ invoice' = [invoice EXCEPT ![serving[s].key] = row]
      BY <2>1, <2>3
    <2> QED
      BY <1>0, <2>2, <2>4, <2>5
  <1>4. ASSUME NEW s \in Slots, MarkProcessed(s) PROVE invoice'[k].overdue = invoice[k].overdue
    <2>1. serving[s].key \in Keys
      BY <1>4, Served DEF MarkProcessed
    <2>2. PICK ids : invoice' = invoice \/
                     invoice' = [invoice EXCEPT ![serving[s].key].processed = ids]
      BY <1>4 DEF MarkProcessed
    <2> QED
      BY <1>0, <2>1, <2>2 DEF InvoiceType
  <1>5. ASSUME BeginReconcile PROVE invoice'[k].overdue = invoice[k].overdue
    BY <1>0, <1>5 DEF BeginReconcile, InvoiceType
  <1>6. ASSUME NEW j \in Keys, RunOutOfTime(j) PROVE invoice[k].overdue => invoice'[k].overdue
    BY <1>0, <1>6 DEF RunOutOfTime, InvoiceType
  <1>7. ASSUME invoice[k].overdue => invoice'[k].overdue
        PROVE  ~IsIn(k, stage)' \/ IsLate(k, stage)'
    BY <1>7 DEF IsIn, IsLate
  <1> QED
    BY <1>1, <1>2, <1>3, <1>4, <1>5, <1>6, <1>7, InvoiceWriters

(* A reconciliation that begins expires it. *)
LEMMA LateIsSwept ==
    ASSUME PaymentIInv, BeginReconcile, NEW k \in Keys, NEW stage \in Stages, IsLate(k, stage)
    PROVE  ~IsIn(k, stage)'
  <1>1. stage \subseteq Open /\ "expired" \notin stage
    BY DEF Stages, Open
  <1>2. invoice'[k].status = "expired"
    BY <1>1, ReconcileWrites DEF Stale, IsLate
  <1> QED
    BY <1>1, <1>2 DEF IsIn

LEMMA LateNears ==
    ASSUME PaymentIInv, [PaymentNext]_paymentVars, NEW k \in Keys, NEW stage \in Stages,
           NEW n \in 0 .. 7, IsLate(k, stage), Near(n)
    PROVE  ~IsIn(k, stage)' \/ (IsLate(k, stage) /\ Near(n))'
  <1>1. CASE BeginReconcile
    BY <1>1, LateIsSwept
  <1>2. CASE ~BeginReconcile
    BY <1>2, LateStays, CronNears, RemainingTypes DEF Near
  <1> QED
    BY <1>1, <1>2

(* What the scheduler does next brings it nearer. *)
LEMMA CronComesNearer ==
    ASSUME PaymentIInv, NEW n \in 0 .. 6, ~Near(n), Near(n + 1),
           \/ Continue(Cron)
           \/ ListOpen \/ QueryProvider
    PROVE  Near(n)'
  <1>1. Remaining(serving'[Cron].pc) < Remaining(serving[Cron].pc)
    BY ContinueNears, ReconcileNears DEF Slots
  <1> QED
    BY <1>1, RemainingTypes DEF Near

Going == PaymentSpec /\ []CallsCanGoOn

NearsBy(k, stage, m, n) ==
    IsLate(k, stage) /\ Near(m) ~> ~IsIn(k, stage) \/ (IsLate(k, stage) /\ Near(n))

LEMMA GoingIsSound == Going => [](PaymentIInv /\ CallsCanGoOn) /\ [][PaymentNext]_paymentVars
  BY PaymentInitHolds, PaymentSteps, PTL DEF Going, PaymentSpec

LEMMA GoingIsFair == Going => GoesOn(Cron) /\ Reconciles /\ \A k \in Keys : RunsOut(k)
  <1>1. PaymentFairness => GoesOn(Cron) /\ Reconciles /\ \A k \in Keys : RunsOut(k)
    BY DEF PaymentFairness, Slots
  <1> QED
    BY <1>1, PTL DEF Going, PaymentSpec

LEMMA CanDoNext == CallsCanGoOn => CanGoOn(Cron) /\ CanReconcile
  BY DEF CallsCanGoOn, Slots

(* Between two reconciliations the scheduler comes nearer to the next... *)
LEMMA GoesNearer ==
    ASSUME NEW k \in Keys, NEW stage \in Stages, NEW n \in 0 .. 4, NEW m, m = n + 1
    PROVE  Going => NearsBy(k, stage, m, n)
  <1>1. PaymentIInv /\ IsLate(k, stage) /\ Near(m) /\ [PaymentNext]_paymentVars =>
           ~IsIn(k, stage)' \/ (IsLate(k, stage)' /\ Near(m)')
    <2>1. m \in 0 .. 7
      OBVIOUS
    <2> QED
      BY <2>1, LateNears
  <1>2. PaymentIInv /\ IsLate(k, stage) /\ Near(m) /\ ~Near(n) /\ <<Continue(Cron)>>_paymentVars /\ [PaymentNext]_paymentVars =>
           ~IsIn(k, stage)' \/ (IsLate(k, stage)' /\ Near(n)')
    <2>1. n \in 0 .. 6
      OBVIOUS
    <2> QED
      BY <2>1, CronComesNearer, LateStays
  <1>3. PaymentIInv /\ Near(m) /\ ~Near(n) => serving[Cron].pc \in RunningPcs \ {"list", "query"}
    <2> SUFFICES ASSUME PaymentIInv, Near(m), ~Near(n)
                 PROVE  serving[Cron].pc \in RunningPcs \ {"list", "query"}
      OBVIOUS
    <2>2. serving[Cron].pc \in CallPcs
      BY Served DEF CallType, Slots
    <2>3. Remaining(serving[Cron].pc) \in 1 .. 5
      BY RemainingTypes DEF Near
    <2> QED
      BY <2>2, <2>3, RemainingTypes
  <1> QED
    BY <1>1, <1>2, <1>3, GoingIsSound, GoingIsFair, CanDoNext, PTL DEF NearsBy, GoesOn, CanGoOn

(* ...and begins a run and lists, or asks the provider... *)
LEMMA ReconcilesNearer ==
    ASSUME NEW k \in Keys, NEW stage \in Stages, NEW n \in 5 .. 6, NEW m, m = n + 1
    PROVE  Going => NearsBy(k, stage, m, n)
  <1>1. PaymentIInv /\ IsLate(k, stage) /\ Near(m) /\ [PaymentNext]_paymentVars =>
           ~IsIn(k, stage)' \/ (IsLate(k, stage)' /\ Near(m)')
    <2>1. m \in 0 .. 7
      OBVIOUS
    <2> QED
      BY <2>1, LateNears
  <1>2. PaymentIInv /\ IsLate(k, stage) /\ Near(m) /\ ~Near(n) /\ <<Reconcile>>_paymentVars
              /\ [PaymentNext]_paymentVars =>
           ~IsIn(k, stage)' \/ (IsLate(k, stage)' /\ Near(n)')
    <2>1. n \in 0 .. 6
      OBVIOUS
    <2> QED
      BY <2>1, CronComesNearer, LateStays, LateIsSwept DEF Reconcile
  <1>3. PaymentIInv /\ Near(m) /\ ~Near(n) => serving[Cron].pc \in {"idle", "list", "query"}
    <2> SUFFICES ASSUME PaymentIInv, Near(m), ~Near(n)
                 PROVE  serving[Cron].pc \in {"idle", "list", "query"}
      OBVIOUS
    <2>1. serving[Cron].pc \in CallPcs
      BY Served DEF CallType, Slots
    <2>2. Remaining(serving[Cron].pc) \in {6, 7}
      BY RemainingTypes DEF Near
    <2> QED
      BY <2>1, <2>2, RemainingTypes
  <1> QED
    BY <1>1, <1>2, <1>3, GoingIsSound, GoingIsFair, CanDoNext, PTL
       DEF NearsBy, Reconciles, CanReconcile

(* ...and when none is under way, begins one, which expires what is late.   *)
LEMMA ReconciliationSweeps ==
    ASSUME NEW k \in Keys, NEW stage \in Stages
    PROVE  Going => (IsLate(k, stage) /\ Near(0) ~> ~IsIn(k, stage))
  <1>1. PaymentIInv /\ IsLate(k, stage) /\ Near(0) /\ [PaymentNext]_paymentVars =>
           ~IsIn(k, stage)' \/ (IsLate(k, stage)' /\ Near(0)')
    BY LateNears
  <1>2. PaymentIInv /\ Near(0) => serving[Cron].pc = "idle"
    <2> SUFFICES ASSUME PaymentIInv, Near(0) PROVE serving[Cron].pc = "idle"
      OBVIOUS
    <2>1. serving[Cron].pc \in CallPcs
      BY Served DEF CallType, Slots
    <2>2. Remaining(serving[Cron].pc) = 0
      BY RemainingTypes DEF Near
    <2> QED
      BY <2>1, <2>2, RemainingTypes
  <1>3. PaymentIInv /\ IsLate(k, stage) /\ Near(0) /\ <<Reconcile>>_paymentVars => ~IsIn(k, stage)'
    BY <1>2, LateIsSwept DEF Reconcile, ListOpen, QueryProvider
  <1>4. PaymentIInv /\ Near(0) => serving[Cron].pc \in {"idle", "list", "query"}
    BY <1>2
  <1> QED
    BY <1>1, <1>3, <1>4, GoingIsSound, GoingIsFair, CanDoNext, PTL DEF Reconciles, CanReconcile

(* What is late in its stage leaves it. *)
LEMMA LateLeaves ==
    ASSUME NEW k \in Keys, NEW stage \in Stages
    PROVE  Going => (IsLate(k, stage) ~> ~IsIn(k, stage))
  <1>1. /\ Going => NearsBy(k, stage, 1, 0) /\ NearsBy(k, stage, 2, 1)
        /\ Going => NearsBy(k, stage, 3, 2) /\ NearsBy(k, stage, 4, 3)
        /\ Going => NearsBy(k, stage, 5, 4)
    <2>1. /\ 0 \in 0 .. 4 /\ 1 \in 0 .. 4 /\ 2 \in 0 .. 4 /\ 3 \in 0 .. 4 /\ 4 \in 0 .. 4
          /\ 1 = 0 + 1 /\ 2 = 1 + 1 /\ 3 = 2 + 1 /\ 4 = 3 + 1 /\ 5 = 4 + 1
      OBVIOUS
    <2> QED
      BY <2>1, GoesNearer
  <1>2. Going => NearsBy(k, stage, 6, 5) /\ NearsBy(k, stage, 7, 6)
    <2>1. 5 \in 5 .. 6 /\ 6 \in 5 .. 6 /\ 6 = 5 + 1 /\ 7 = 6 + 1
      OBVIOUS
    <2> QED
      BY <2>1, ReconcilesNearer
  <1>3. Near(7)
    BY RemainingTypes DEF Near
  <1>4. Going => (IsLate(k, stage) /\ Near(0) ~> ~IsIn(k, stage))
    BY ReconciliationSweeps
  <1> QED
    BY <1>1, <1>2, <1>3, <1>4, PTL DEF NearsBy

(* No invoice becomes pending but the one that is inserted. *)
LEMMA NothingReopens ==
    ASSUME PaymentIInv, [PaymentNext]_paymentVars, NEW k \in Keys,
           invoice[k].status # "none", invoice'[k].status = "pending"
    PROVE  invoice[k].status = "pending"
  <1>1. ASSUME NEW s \in Slots, Swap(s) PROVE invoice[k].status = "pending"
    <2>1. "pending" \notin Allowed(invoice[serving[s].key].status)
      BY DEF Allowed
    <2>2. invoice'[k] = invoice[k]
      BY <1>1, <2>1, SwapWrites
    <2> QED
      BY <2>2
  <1>2. ASSUME NEW s \in Slots, CreateInvoice(s) \/ LinkInvoice(s) \/ MarkProcessed(s)
        PROVE  invoice[k].status = "pending"
    BY <1>2, CreateWrites, LinkWrites, MarkWrites
  <1>3. ASSUME BeginReconcile PROVE invoice[k].status = "pending"
    BY <1>3, ReconcileWrites
  <1>4. ASSUME NEW j \in Keys, RunOutOfTime(j) PROVE invoice[k].status = "pending"
    BY <1>4, TimeWrites
  <1> QED
    BY <1>1, <1>2, <1>3, <1>4, InvoiceWriters

Leaves(k, stage) == IsIn(k, stage) ~> ~IsIn(k, stage)

(* An invoice in its stage runs out of time, unless it leaves. *)
LEMMA StageIsLeft ==
    ASSUME NEW k \in Keys, NEW stage \in Stages
    PROVE  Going => Leaves(k, stage)
  <1>1. <<RunOutOfTime(k)>>_paymentVars /\ PaymentIInv /\ IsIn(k, stage) =>
           IsLate(k, stage)' \/ ~IsIn(k, stage)'
    <2>1. PaymentIInv => invoice \in [Keys -> InvoiceType]
      BY DEF PaymentIInv, PaymentInv, PaymentTypeOK
    <2> QED
      BY <2>1 DEF RunOutOfTime, IsIn, IsLate, InvoiceType
  <1>2. PaymentIInv /\ IsIn(k, stage) /\ ~IsLate(k, stage) =>
           invoice[k].status \in Open /\ ~invoice[k].overdue
    BY DEF IsIn, IsLate, Stages, Open
  <1>3. Going => (IsLate(k, stage) ~> ~IsIn(k, stage))
    BY LateLeaves
  <1>4. Going => RunsOut(k)
    BY GoingIsFair
  <1>5. CallsCanGoOn => CanRunOut(k)
    BY DEF CallsCanGoOn
  <1> QED
    BY <1>1, <1>2, <1>3, <1>4, <1>5, GoingIsSound, PTL DEF RunsOut, CanRunOut, Leaves

LEMMA ItSettles ==
    ASSUME NEW k \in Keys PROVE Going => Settles(k)
  <1>1. PICK new, linked : new = {"pending"} /\ linked = {"waiting", "confirming"}
    OBVIOUS
  <1>2. new \in Stages /\ linked \in Stages
    BY <1>1 DEF Stages
  <1>3. PaymentIInv /\ [PaymentNext]_paymentVars /\ (IsIn(k, new) \/ IsIn(k, linked)) =>
           \/ IsIn(k, new)' /\ IsIn(k, new)
           \/ IsIn(k, linked)'
           \/ (invoice[k].status \in Settled)'
    <2> SUFFICES ASSUME PaymentIInv, [PaymentNext]_paymentVars, IsIn(k, new) \/ IsIn(k, linked)
                 PROVE  \/ IsIn(k, new)' /\ IsIn(k, new)
                        \/ IsIn(k, linked)'
                        \/ invoice'[k].status \in Settled
      OBVIOUS
    <2>0. /\ PaymentIInv' /\ RowsStay
          /\ invoice[k].status # "none"
      BY <1>1, PaymentSteps, RowsStaySteps DEF IsIn
    <2>1. invoice'[k].status \in Statuses /\ invoice[k].status # "none"
      <3>1. invoice'[k].status \in Statuses \cup {"none"}
        BY <2>0 DEF PaymentIInv, PaymentInv, PaymentTypeOK, InvoiceType
      <3> QED
        BY <2>0, <3>1 DEF RowsStay
    <2>2. invoice'[k].status = "pending" => invoice[k].status = "pending"
      BY <2>1, NothingReopens
    <2> QED
      BY <1>1, <2>1, <2>2 DEF IsIn, Settled, Statuses, Open
  <1>4. invoice[k].status = "pending" <=> IsIn(k, new)
    BY <1>1 DEF IsIn
  <1>5. ~(IsIn(k, new) /\ IsIn(k, linked))
    BY <1>1 DEF IsIn
  <1>6. Going => Leaves(k, new)
    BY <1>2, StageIsLeft
  <1>7. Going => Leaves(k, linked)
    BY <1>2, StageIsLeft
  <1> QED
    BY <1>3, <1>4, <1>5, <1>6, <1>7, GoingIsSound, PTL DEF Settles, Leaves

(* An open invoice settles, whatever the provider does not report and       *)
(* however often calls are stopped in the middle: it runs out of time at    *)
(* most twice, once before it is linked to a payment and once after, and    *)
(* the scheduler, whose run no other call holds up, then expires it.  That  *)
(* the fair steps are enabled when they are due is the hypothesis.          *)
THEOREM InvoicesSettle == PaymentSpec /\ []CallsCanGoOn => InvoiceSettles
  <1>1. \A k \in Keys : Going => Settles(k)
    BY ItSettles
  <1> QED
    BY <1>1 DEF Going, InvoiceSettles

=============================================================================
