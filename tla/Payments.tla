------------------------------ MODULE Payments ------------------------------
(***************************************************************************)
(* Crypto payments of a tenant's subscription: checkout                    *)
(* (src/app/api/billing/checkout), the provider's webhook                  *)
(* (billing/webhook/nowpayments), the refund route (billing/refund) and    *)
(* the hourly reconciliation (cron/billing-reconcile), which all meet in   *)
(* src/lib/billing/payment-service.ts.                                     *)
(*                                                                         *)
(* Nothing here is a transaction: transitionInvoiceStatus reads the        *)
(* invoice, moves its status with a compare-and-swap, overwrites the list  *)
(* of processed event ids with the one it read plus its own, appends an    *)
(* audit event and then activates or downgrades the subscription.  Each is *)
(* a step, and the process may stop, or the append fail, between them.     *)
(*                                                                         *)
(* The provider is external: it sends an event for every status a payment  *)
(* goes through, and may deliver each late, again and in any order.  One   *)
(* payment per invoice is modelled, and the list of ids, which is cut at   *)
(* 100 entries, never gets that long.                                      *)
(***************************************************************************)
EXTENDS Naturals, FiniteSets

CONSTANTS
    Keys,          \* idempotency keys; one names at most one invoice
    Invocations,      \* places for invocations of checkout, webhook and refund
    Cron,          \* the scheduler's reconciliation, run again and again
    NoKey,
    Reported,      \* bound: what the provider may say of a payment
    MaxInvocations,      \* bound: invocations that are not the scheduler's
    PseudoActorsHaveRows   \* FALSE in this schema: AuditEvent.actorId refers
                           \* to User, and 'webhook' is no user

Slots      == Invocations \cup {Cron}
Statuses   == {"pending", "waiting", "confirming", "confirmed", "failed", "expired",
               "refunded"}
Open       == {"pending", "waiting", "confirming"}
Settled    == Statuses \ Open
Reports    == (Statuses \ {"pending"}) \cup {"underpaid"}  \* what the provider says
Operations == {"checkout", "webhook", "refund", "reconcile"}
RunningPcs == {"create", "provider", "link", "list", "query", "read", "swap", "mark",
               "audit", "apply"}
CallPcs        == {"idle"} \cup RunningPcs

ASSUME CronAssumption  == Cron \notin Invocations
ASSUME NoKeyAssumption == NoKey \notin Keys
ASSUME ReportAssumption == Reported \subseteq Reports
ASSUME CallsAssumption  == MaxInvocations \in Nat
ASSUME ActorAssumption == PseudoActorsHaveRows \in BOOLEAN

VARIABLES
    invoice,        \* rows of table PaymentInvoice
    subscription,   \* the tenant's row in Subscription
    provider,       \* external: the payment's status and the events sent of it
    activated,      \* history: how often an invoice activated the subscription
    abandoned,      \* history: invoices whose confirmation failed half-way, and why
    calls,          \* how many invocations there were
    serving             \* the invocations: program counter and locals

paymentVars == <<invoice, subscription, provider, activated, abandoned, calls, serving>>

(* A refund's id contains the time: no other event ever has it. *)
FreshId == <<"refund", "now">>

NoInvoice == [status |-> "none", providerId |-> FALSE, url |-> FALSE,
              processed |-> {}, overdue |-> FALSE]

NotStarted == [pc |-> "idle", op |-> "checkout", key |-> NoKey, target |-> "pending",
               id |-> FreshId, seen |-> "none", list |-> {}, won |-> FALSE]

PaymentInit ==
    /\ invoice = [k \in Keys |-> NoInvoice]
    /\ subscription = [status |-> "trialing", paidBy |-> NoKey]
    /\ provider = [k \in Keys |-> [status |-> "none", sent |-> {}]]
    /\ activated = [k \in Keys |-> 0]
    /\ abandoned = {}
    /\ calls = 0
    /\ serving = [s \in Slots |-> NotStarted]

(* A place that has served its invocation can serve the next. *)
At(call, pc)  == IF pc = "idle" THEN NotStarted ELSE [call EXCEPT !.pc = pc]
Goto(s, pc)   == serving' = [serving EXCEPT ![s] = At(@, pc)]
Call(s, call) == /\ serving[s].pc = "idle"
                 /\ calls < MaxInvocations
                 /\ calls' = calls + 1
                 /\ serving' = [serving EXCEPT ![s] = call]
                 /\ UNCHANGED <<invoice, subscription, provider, activated, abandoned>>

(* Operators named ...Bug are the definition after them with a mistake an  *)
(* edit of the code could make; no behaviour of the module uses them.      *)

(* ALLOWED_STATUS_TRANSITIONS *)
Allowed(from) ==
    CASE from = "pending"    -> {"waiting", "failed", "expired"}
      [] from = "waiting"    -> {"confirming", "failed", "expired", "confirmed"}
      [] from = "confirming" -> {"confirmed", "failed", "expired"}
      [] from = "confirmed"  -> {"refunded"}
      [] OTHER               -> {}

-----------------------------------------------------------------------------
(* The provider's side of a payment. *)
MayFollow(report) ==
    CASE report = "waiting"    -> {"confirming", "failed", "expired"}
      [] report = "confirming" -> {"underpaid", "confirmed", "failed"}
      [] report = "underpaid"  -> {"confirmed", "failed", "expired"}
      [] report = "confirmed"  -> {"refunded"}
      [] OTHER                 -> {}

PaymentMoves(k, report) ==
    /\ report \in Reported \cap MayFollow(provider[k].status)
    /\ provider' = [provider EXCEPT ![k] = [status |-> report, sent |-> @.sent \cup {report}]]
    /\ UNCHANGED <<invoice, subscription, activated, abandoned, calls, serving>>

(* An underpaid payment is reported as confirmed, with too small an amount: *)
(* the event's id is that of the status, the target is one step back.      *)
EventStatus(report) == IF report = "underpaid" THEN "confirmed" ELSE report

Target(report) == IF report = "underpaid" THEN "confirming" ELSE report

-----------------------------------------------------------------------------
(* POST checkout.  The row the key names decides what is left to be done.  *)
AfterLookup(row) ==
    IF row.status = "none" THEN "create"
    ELSE IF row.providerId /\ row.url THEN "idle" ELSE "provider"

BeginCheckout(s, k) ==
    Call(s, At([NotStarted EXCEPT !.key = k], AfterLookup(invoice[k])))

(* The insert, or, when the unique index refuses it, the row that is there. *)
CreateInvoice(s) ==
    /\ serving[s].pc = "create"
    /\ LET k == serving[s].key
       IN  IF invoice[k].status = "none"
           THEN /\ invoice' = [invoice EXCEPT ![k] = [NoInvoice EXCEPT !.status = "pending"]]
                /\ Goto(s, "provider")
           ELSE /\ Goto(s, AfterLookup(invoice[k]))
                /\ UNCHANGED invoice
    /\ UNCHANGED <<subscription, provider, activated, abandoned, calls>>

CallProvider(s) ==
    /\ serving[s].pc = "provider"
    /\ LET k == serving[s].key
       IN  provider' = IF provider[k].status # "none" THEN provider
                       ELSE [provider EXCEPT ![k] =
                               [status |-> "waiting", sent |-> {"waiting"}]]
    /\ Goto(s, "link")
    /\ UNCHANGED <<invoice, subscription, activated, abandoned, calls>>

(* Only a pending invoice is linked and moved to waiting. *)
LinkInvoice(s) ==
    /\ serving[s].pc = "link"
    /\ LET k == serving[s].key
       IN  invoice' = IF invoice[k].status # "pending" THEN invoice
                      ELSE [invoice EXCEPT ![k] =
                              [@ EXCEPT !.status = "waiting", !.providerId = TRUE,
                                        !.url = TRUE, !.overdue = FALSE]]
    /\ Goto(s, "idle")
    /\ UNCHANGED <<subscription, provider, activated, abandoned, calls>>

-----------------------------------------------------------------------------
(* The callers of transitionInvoiceStatus. *)
BeginWebhook(s, k, report) ==
    /\ report \in provider[k].sent
    /\ invoice[k].status # "none"
    /\ Call(s, [NotStarted EXCEPT !.pc = "read", !.op = "webhook", !.key = k,
                    !.target = Target(report), !.id = <<"webhook", EventStatus(report)>>])

BeginRefund(s, k) ==
    /\ invoice[k].status = "confirmed"
    /\ Call(s, [NotStarted EXCEPT !.pc = "read", !.op = "refund", !.key = k,
                    !.target = "refunded", !.id = FreshId])

StaleBug(k) == invoice[k].status = "pending" /\ invoice[k].overdue

Stale(k) == invoice[k].status \in Open /\ invoice[k].overdue

(* expireStaleInvoices, the first thing a reconciliation does. *)
BeginReconcile ==
    /\ serving[Cron].pc = "idle"
    /\ invoice' = [k \in Keys |-> IF Stale(k) THEN [invoice[k] EXCEPT !.status = "expired"]
                                              ELSE invoice[k]]
    /\ serving' = [serving EXCEPT ![Cron] = [NotStarted EXCEPT !.pc = "list", !.op = "reconcile"]]
    /\ UNCHANGED <<subscription, provider, activated, abandoned, calls>>

(* The open invoices known to the provider are read, then looked at one by *)
(* one.  Nothing passes from one to the next, so a run handles one.        *)
Listed == {k \in Keys : invoice[k].status \in Open /\ invoice[k].providerId}

ListOpen ==
    /\ serving[Cron].pc = "list"
    /\ \/ /\ Listed = {}
          /\ Goto(Cron, "idle")
       \/ \E k \in Listed :
             serving' = [serving EXCEPT ![Cron] =
                            [@ EXCEPT !.pc = "query", !.key = k, !.seen = invoice[k].status]]
    /\ UNCHANGED <<invoice, subscription, provider, activated, abandoned, calls>>

(* The provider is asked; what it says is compared with what was listed. *)
QueryProvider ==
    /\ serving[Cron].pc = "query"
    /\ LET report == provider[serving[Cron].key].status
       IN  IF report = "none" \/ EventStatus(report) = serving[Cron].seen
           THEN Goto(Cron, "idle")
           ELSE serving' = [serving EXCEPT ![Cron] =
                               [@ EXCEPT !.pc = "read", !.target = Target(report),
                                         !.id = <<"cron", EventStatus(report)>>]]
    /\ UNCHANGED <<invoice, subscription, provider, activated, abandoned, calls>>

-----------------------------------------------------------------------------
(* transitionInvoiceStatus: read the invoice and decide. *)
ReadInvoice(s) ==
    /\ serving[s].pc = "read"
    /\ LET row == invoice[serving[s].key]
           pc  == IF serving[s].id \in row.processed THEN "idle"
                  ELSE IF row.status = serving[s].target THEN "mark"
                  ELSE IF serving[s].target \in Allowed(row.status) THEN "swap" ELSE "idle"
       IN  serving' = [serving EXCEPT ![s] =
                      At([@ EXCEPT !.seen = row.status, !.list = row.processed], pc)]
    /\ UNCHANGED <<invoice, subscription, provider, activated, abandoned, calls>>

UnchangedSinceBug(s) == TRUE

UnchangedSince(s) == invoice[serving[s].key].status = serving[s].seen

(* updateMany WHERE status = what was read; a webhook also stores the      *)
(* provider's id.                                                          *)
Swap(s) ==
    /\ serving[s].pc = "swap"
    /\ LET k == serving[s].key
       IN  IF UnchangedSince(s)
           THEN invoice' = [invoice EXCEPT ![k] =
                   [@ EXCEPT !.status = serving[s].target,
                             !.providerId = invoice[k].providerId \/ serving[s].op = "webhook"]]
           ELSE UNCHANGED invoice
    /\ serving' = [serving EXCEPT ![s] = [@ EXCEPT !.pc = "mark", !.won = UnchangedSince(s)]]
    /\ UNCHANGED <<subscription, provider, activated, abandoned, calls>>

(* The loser of the swap ends here. *)
AfterMark(s) == IF serving[s].won THEN "audit" ELSE "idle"

(* markWebhookProcessed writes the list that was read, plus one, and       *)
(* swallows the error if it cannot.                                        *)
MarkProcessed(s) ==
    /\ serving[s].pc = "mark"
    /\ \/ invoice' = [invoice EXCEPT ![serving[s].key].processed =
                                     serving[s].list \cup ({serving[s].id} \ {FreshId})]
       \/ UNCHANGED invoice
    /\ Goto(s, AfterMark(s))
    /\ UNCHANGED <<subscription, provider, activated, abandoned, calls>>

HasEffect(target) == target \in {"confirmed", "refunded"}

(* The audit event, by the pseudo-actor 'webhook'. *)
RecordTransition(s) ==
    /\ serving[s].pc = "audit"
    /\ PseudoActorsHaveRows
    /\ Goto(s, IF HasEffect(serving[s].target) THEN "apply" ELSE "idle")
    /\ UNCHANGED <<invoice, subscription, provider, activated, abandoned, calls>>

(* The caller gives up; the status it won stays. *)
GiveUp(s, why) ==
    /\ Goto(s, "idle")
    /\ abandoned' = IF serving[s].won /\ serving[s].target = "confirmed"
                    THEN abandoned \cup {<<serving[s].key, why>>} ELSE abandoned
    /\ UNCHANGED <<invoice, subscription, provider, activated, calls>>

(* It is refused: by the foreign key, or by a lost race for the number of  *)
(* the chain.  transitionInvoiceStatus throws.                             *)
TransitionNotRecorded(s) ==
    /\ serving[s].pc = "audit"
    /\ GiveUp(s, "refused")

(* activateSubscriptionFromInvoice *)
ActivatePaid(s) ==
    /\ serving[s].pc = "apply" /\ serving[s].target = "confirmed"
    /\ subscription' = [status |-> "active", paidBy |-> serving[s].key]
    /\ activated' = [activated EXCEPT ![serving[s].key] = @ + 1]
    /\ Goto(s, "idle")
    /\ UNCHANGED <<invoice, provider, abandoned, calls>>

PastDue == "past_due"

(* handleRefundSubscriptionDowngrade *)
Downgrade(s) ==
    /\ serving[s].pc = "apply" /\ serving[s].target = "refunded"
    /\ subscription' = [subscription EXCEPT !.status = PastDue]
    /\ Goto(s, "idle")
    /\ UNCHANGED <<invoice, provider, activated, abandoned, calls>>

(* The process stops, or a call to the provider or the database fails. *)
Fail(s) ==
    /\ serving[s].pc \in RunningPcs
    /\ GiveUp(s, "stopped")

(* The time an invoice may be paid in runs out. *)
RunOutOfTime(k) ==
    /\ invoice[k].status \in Open /\ ~invoice[k].overdue
    /\ invoice' = [invoice EXCEPT ![k].overdue = TRUE]
    /\ UNCHANGED <<subscription, provider, activated, abandoned, calls, serving>>

Begin(s) ==
    \E k \in Keys : \/ BeginCheckout(s, k)
                    \/ BeginRefund(s, k)
                    \/ \E report \in Reports : BeginWebhook(s, k, report)

Continue(s) ==
    \/ CreateInvoice(s) \/ CallProvider(s) \/ LinkInvoice(s)
    \/ ReadInvoice(s) \/ Swap(s) \/ MarkProcessed(s)
    \/ RecordTransition(s) \/ TransitionNotRecorded(s) \/ ActivatePaid(s) \/ Downgrade(s)

Reconcile == BeginReconcile \/ ListOpen \/ QueryProvider

PaymentNext ==
    \/ \E s \in Invocations : Begin(s)
    \/ \E s \in Slots : Continue(s) \/ Fail(s)
    \/ Reconcile
    \/ \E k \in Keys : RunOutOfTime(k) \/ \E report \in Reports : PaymentMoves(k, report)

(* The event loop goes on with what was begun, the scheduler calls the     *)
(* reconciliation every hour, and time passes.                             *)
GoesOn(s)  == WF_paymentVars(Continue(s))
Reconciles == WF_paymentVars(Reconcile)
RunsOut(k) == WF_paymentVars(RunOutOfTime(k))

PaymentFairness ==
    /\ \A s \in Slots : GoesOn(s)
    /\ Reconciles
    /\ \A k \in Keys : RunsOut(k)

PaymentSpec == PaymentInit /\ [][PaymentNext]_paymentVars /\ PaymentFairness

-----------------------------------------------------------------------------
(***************************************************************************)
(* Properties.                                                             *)
(***************************************************************************)
EventIds == {"webhook", "cron"} \X Statuses

InvoiceType == [status : Statuses \cup {"none"}, providerId : BOOLEAN, url : BOOLEAN,
                processed : SUBSET EventIds, overdue : BOOLEAN]

CallType == [pc : CallPcs, op : Operations, key : Keys \cup {NoKey}, target : Statuses,
             id : EventIds \cup {FreshId}, seen : Statuses \cup {"none"},
             list : SUBSET EventIds, won : BOOLEAN]

(* Types of the tables and of the invocations. *)
PaymentTypeOK ==
    /\ invoice \in [Keys -> InvoiceType]
    /\ subscription \in [status : {"trialing", "active", "past_due"},
                         paidBy : Keys \cup {NoKey}]
    /\ provider \in [Keys -> [status : Reports \cup {"none"}, sent : SUBSET Reports]]
    /\ activated \in [Keys -> Nat]
    /\ abandoned \subseteq Keys \X {"refused", "stopped"}
    /\ calls \in 0 .. MaxInvocations
    /\ serving \in [Slots -> CallType]

(* However webhooks, reconciliations, refunds and expiry race, an invoice  *)
(* that has left the open statuses is not reopened and not settled another *)
(* way; only a refund follows a confirmation.                              *)
SettledIsFinal ==
    [][\A k \in Keys :
          invoice[k].status \in Settled /\ invoice'[k].status # invoice[k].status =>
              invoice[k].status = "confirmed" /\ invoice'[k].status = "refunded"]_paymentVars

(* Duplicate and late deliveries of a confirmation, through the webhook    *)
(* and the reconciliation, activate the subscription at most once, although *)
(* the list of processed events loses entries.                             *)
ActivatedOnce == \A k \in Keys : activated[k] <= 1

(* Nothing but a full payment the provider reported activates the          *)
(* subscription, and the plan in force is one that was paid for.           *)
ActivationIsPaid ==
    \A k \in Keys :
        activated[k] > 0 \/ subscription.paidBy = k =>
            /\ "confirmed" \in provider[k].sent
            /\ invoice[k].status \in {"confirmed", "refunded"}

Winner(s, k) == serving[s].key = k /\ serving[s].won /\ serving[s].target = "confirmed"

(* A confirmed invoice that has not activated its subscription has its one *)
(* winner still on the way, or the winner failed: races alone lose nothing. *)
ActivationLostOnlyByFailure ==
    \A k \in Keys :
        invoice[k].status = "confirmed" /\ activated[k] = 0 =>
            \/ \E s \in Slots : Winner(s, k) /\ serving[s].pc \in {"mark", "audit", "apply"}
            \/ \E why \in {"refused", "stopped"} : <<k, why>> \in abandoned

(* What is fair can happen: every call that was begun has a next step, a   *)
(* reconciliation begins after the last, and an invoice that is open ages. *)
CanGoOn(s) ==
    serving[s].pc \in RunningPcs \ {"list", "query"} => ENABLED <<Continue(s)>>_paymentVars

CanReconcile ==
    serving[Cron].pc \in {"idle", "list", "query"} => ENABLED <<Reconcile>>_paymentVars

CanRunOut(k) ==
    invoice[k].status \in Open /\ ~invoice[k].overdue =>
        ENABLED <<RunOutOfTime(k)>>_paymentVars

CallsCanGoOn ==
    (\A s \in Slots : CanGoOn(s)) /\ CanReconcile /\ (\A k \in Keys : CanRunOut(k))

(* No call gets stuck, and no invoice stays open for ever, whatever the    *)
(* provider fails to report (cron/billing-reconcile).                      *)
Settles(k) == invoice[k].status = "pending" ~> invoice[k].status \in Settled

InvoiceSettles == []CallsCanGoOn /\ \A k \in Keys : Settles(k)

(* billing-policy.ts:99 "fully confirmed - subscription activated": once   *)
(* nothing is under way, and unless the process stopped in the middle, a   *)
(* confirmed invoice has activated the subscription.                       *)
ConfirmedIsActivated ==
    (\A s \in Slots : serving[s].pc = "idle") =>
        \A k \in Keys : invoice[k].status = "confirmed" =>
            activated[k] = 1 \/ <<k, "stopped">> \in abandoned

(* Rows and calls are well typed; a subscription is activated once for an  *)
(* invoice, only for one that was paid, and lost only by a failure.        *)
PaymentInv ==
    PaymentTypeOK /\ ActivatedOnce /\ ActivationIsPaid /\ ActivationLostOnlyByFailure

(* The invariant of invoices and activations, and what may follow a        *)
(* settlement.                                                             *)
PaymentsAreSound == []PaymentInv /\ SettledIsFinal

-----------------------------------------------------------------------------
(* What tenant and seller see of it. *)
Standing(status) ==
    CASE status \in Open                  -> "open"
      [] status = "confirmed"             -> "paid"
      [] status \in {"failed", "expired"} -> "void"
      [] OTHER                            -> status

Life == INSTANCE InvoiceLife WITH
    Invoices <- Keys,
    Nobody   <- NoKey,
    state    <- [k \in Keys |-> Standing(invoice[k].status)],
    received <- {k \in Keys : "confirmed" \in provider[k].sent},
    granted  <- {k \in Keys : activated[k] > 0},
    plan     <- subscription

(* Calls of checkout, webhook, refund route and reconciliation together    *)
(* implement the life of an invoice, its two statements and four routes    *)
(* notwithstanding: issued, settled with money received or given up,       *)
(* refunded, granting the plan at most once; and what it promises besides. *)
ImplementsLife == PaymentsAreSound /\ Life!LifeSpec
=============================================================================
