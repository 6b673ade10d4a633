-------------------------- MODULE SubscriptionGate --------------------------
(***************************************************************************)
(* The lifecycle of one tenant's subscription in a cloud deployment:       *)
(* checkSubscriptionAccess and processExpiredSubscriptions of              *)
(* src/lib/billing/access-gate.ts, against everything else that writes the *)
(* row: payments and refunds (payment-service.ts) and platform             *)
(* administrators (api/admin/billing).  Events of Stripe never reach it:   *)
(* they find it by ids that nothing stores in it (billing-policy.ts:352).  *)
(*                                                                         *)
(* Every API request passes the gate, which reads the row and may move it  *)
(* on; the billing cron moves it on in three passes.  Both read, decide    *)
(* and write by id, without a transaction, so the row may have been        *)
(* renewed in between.                                                     *)
(*                                                                         *)
(* Time counts days.  A date that is null is NoDate, which is what         *)
(* `new Date(0)` stands for where the gate replaces null by it: long ago.  *)
(***************************************************************************)
EXTENDS Naturals

CONSTANTS
    Gates,          \* API requests that pass the gate
    Passes,         \* runs of the billing cron
    Grace,          \* SAAS_GRACE_PERIOD_DAYS
    SuspendAfter,   \* SAAS_SUSPEND_AFTER_DAYS
    LockAfter,      \* SAAS_LOCK_AFTER_DAYS
    Edits,          \* the statuses an administrator may set
    Period,         \* days a payment buys
    LastDay,        \* bound: the clock stops here
    MaxOrders       \* bound: payments, refunds and edits that write the row

ASSUME WindowsAssumption ==
    /\ {Grace, SuspendAfter, LockAfter, Period, LastDay, MaxOrders} \subseteq Nat
    /\ Edits \subseteq {"active", "trialing", "past_due", "canceled"}
    /\ 0 < Grace /\ Grace < SuspendAfter /\ SuspendAfter < LockAfter
    /\ LockAfter < LastDay
ASSUME ActorsAssumption == Gates \cap Passes = {}

NoDate   == 0
FirstDay == LockAfter + 1     \* every window that starts at NoDate is over

InForce  == {"active", "trialing"}
SubStatuses == InForce \cup {"none", "past_due", "suspended", "locked", "canceled"}
Moves    == {"none", "pastDue", "suspend", "lock"}
Levels   == {"full", "read_only", "locked"}
Actors   == Gates \cup Passes

VARIABLES
    today,          \* the clock
    sub,            \* the row of table Subscription
    actor,          \* the requests and the cron: program counter and locals
    unpaid,         \* there is an invoice to pay
    orders,         \* how many payments, refunds and edits there were
    paid,           \* history: the last order granted access
    overtaken       \* history: a move was written over an order it had not seen

subVars == <<today, sub, actor, unpaid, orders, paid, overtaken>>

-----------------------------------------------------------------------------
(* What the three moves write. *)
PastDueRow(s, at)   == [s EXCEPT !.status = "past_due", !.graceEnds = at + Grace]
SuspendedRow(s, at) == [s EXCEPT !.status = "suspended", !.suspendedAt = at]
LockedRow(s, at)    == [s EXCEPT !.status = "locked", !.lockedAt = at]

Moved(s, move, at) ==
    CASE move = "pastDue" -> PastDueRow(s, at)
      [] move = "suspend" -> SuspendedRow(s, at)
      [] move = "lock"    -> LockedRow(s, at)
      [] move = "none"    -> s

PeriodIsOver(s, at) == s.periodEnd # NoDate /\ s.periodEnd < at

(***************************************************************************)
(* The gate.  A subscription that is past due is suspended in the days     *)
(* after its grace period and locked later; once suspended, it is left to  *)
(* the cron.                                                               *)
(***************************************************************************)
SuspendDate(s) == s.graceEnds + (SuspendAfter - Grace)
LockDate(s)    == s.graceEnds + (LockAfter - Grace)

GateMove(s, at) ==
    CASE s.status \in InForce /\ PeriodIsOver(s, at) -> "pastDue"
      [] /\ s.status = "past_due" /\ s.graceEnds <= at /\ at < SuspendDate(s)
         /\ s.suspendedAt = NoDate -> "suspend"
      [] /\ s.status = "past_due" /\ LockDate(s) <= at
         /\ s.lockedAt = NoDate -> "lock"
      [] OTHER -> "none"

GateLevel(s, at) ==
    CASE s.status = "none" -> "full"
      [] s.status \in InForce -> IF PeriodIsOver(s, at) THEN "read_only" ELSE "full"
      [] s.status = "past_due" -> IF at < LockDate(s) THEN "read_only" ELSE "locked"
      [] s.status = "suspended" -> "read_only"
      [] s.status \in {"locked", "canceled"} -> "locked"

(* The definition after it, whose first pass forgets trials. *)
TrialsForgottenBug(s, at, pass) ==
    CASE pass = 1 /\ s.status = "active" /\ PeriodIsOver(s, at) -> "pastDue"
      [] pass = 2 /\ s.status = "past_due" /\ s.suspendedAt = NoDate
         /\ s.graceEnds # NoDate /\ s.graceEnds < at -> "suspend"
      [] pass = 3 /\ s.status = "suspended" /\ s.lockedAt = NoDate
         /\ s.suspendedAt + (LockAfter - SuspendAfter) < at -> "lock"
      [] OTHER -> "none"

(* The where clauses of the cron's three passes. *)
CronMove(s, at, pass) ==
    CASE pass = 1 /\ s.status \in InForce /\ PeriodIsOver(s, at) -> "pastDue"
      [] pass = 2 /\ s.status = "past_due" /\ s.suspendedAt = NoDate
         /\ s.graceEnds # NoDate /\ s.graceEnds < at -> "suspend"
      [] pass = 3 /\ s.status = "suspended" /\ s.lockedAt = NoDate
         /\ s.suspendedAt + (LockAfter - SuspendAfter) < at -> "lock"
      [] OTHER -> "none"

-----------------------------------------------------------------------------
(* A registered tenant on the last day of its trial, or one without a row. *)
Registered == [status |-> "trialing", periodEnd |-> FirstDay,
               graceEnds |-> NoDate, suspendedAt |-> NoDate, lockedAt |-> NoDate]
NoRow      == [Registered EXCEPT !.status = "none", !.periodEnd = NoDate]

Resting == [pc |-> "idle", pass |-> 1, at |-> NoDate, move |-> "none",
            stale |-> FALSE]

SubInit ==
    /\ today = FirstDay
    /\ sub \in {Registered, NoRow}
    /\ actor = [a \in Actors |-> Resting]
    /\ unpaid = FALSE
    /\ orders = 0
    /\ paid = TRUE
    /\ overtaken = FALSE

(* The gate reads the row and decides at once: the request goes on unless  *)
(* the row must be moved on first.                                         *)
EnterGate(g) ==
    /\ actor[g].pc = "idle"
    /\ GateMove(sub, today) # "none"
    /\ actor' = [actor EXCEPT ![g] = [Resting EXCEPT !.pc = "move", !.at = today,
                                                    !.move = GateMove(sub, today)]]
    /\ UNCHANGED <<today, sub, unpaid, orders, paid, overtaken>>

(* A run of the cron fixes its date once and makes its three passes. *)
StartRun(p) ==
    /\ actor[p].pc = "idle"
    /\ actor' = [actor EXCEPT ![p] = [Resting EXCEPT !.pc = "find", !.at = today]]
    /\ UNCHANGED <<today, sub, unpaid, orders, paid, overtaken>>

NextPass(r) == IF r.pass = 3 THEN Resting
               ELSE [Resting EXCEPT !.pc = "find", !.at = r.at, !.pass = r.pass + 1]

(* findMany of one pass. *)
Find(p) ==
    /\ actor[p].pc = "find"
    /\ LET move == CronMove(sub, actor[p].at, actor[p].pass)
       IN  actor' = [actor EXCEPT ![p] =
                       IF move = "none" THEN NextPass(@)
                       ELSE [@ EXCEPT !.pc = "move", !.move = move]]
    /\ UNCHANGED <<today, sub, unpaid, orders, paid, overtaken>>

(* The update by id, over whatever the row holds by now. *)
Move(a) ==
    /\ actor[a].pc = "move"
    /\ sub' = Moved(sub, actor[a].move, actor[a].at)
    /\ overtaken' = (overtaken \/ actor[a].stale)
    /\ actor' = [actor EXCEPT ![a] = IF a \in Gates THEN Resting ELSE NextPass(@)]
    /\ UNCHANGED <<today, unpaid, orders, paid>>

-----------------------------------------------------------------------------
(* What an order leaves: the row it wrote, and actors that have not seen it. *)
Order(row, grants) ==
    /\ orders < MaxOrders
    /\ orders' = orders + 1
    /\ sub' = row
    /\ paid' = grants
    /\ actor' = [a \in Actors |-> [actor[a] EXCEPT !.stale = actor[a].pc = "move"]]
    /\ UNCHANGED <<today, overtaken>>

(* The definition after it, which extends the period of a row and leaves   *)
(* its status.                                                             *)
ActivatedRowBug(s) == [s EXCEPT !.periodEnd = today + Period]

(* The marks of an earlier lapse stay on the row. *)
ActivatedRow(s) == [s EXCEPT !.status = "active", !.periodEnd = today + Period]

(* A checkout is a POST behind the gate, so only full access lets it pass. *)
Checkout ==
    /\ ~unpaid
    /\ GateLevel(sub, today) = "full"
    /\ unpaid' = TRUE
    /\ UNCHANGED <<today, sub, actor, orders, paid, overtaken>>

Activate ==
    /\ unpaid
    /\ unpaid' = FALSE
    /\ Order(ActivatedRow(sub), TRUE)

Refund ==
    /\ sub.status # "none"
    /\ Order([sub EXCEPT !.status = "past_due"], FALSE)
    /\ UNCHANGED unpaid

(* An administrator edits the status, or creates a row without a period. *)
AdminEdit ==
    /\ \/ /\ sub.status # "none"
          /\ \E status \in Edits :
                Order([sub EXCEPT !.status = status], status \in InForce)
       \/ /\ sub.status = "none"
          /\ Order([sub EXCEPT !.status = "active"], TRUE)
    /\ UNCHANGED unpaid

(* GET admin/billing creates the row of a tenant that has none. *)
Enrol ==
    /\ sub.status = "none"
    /\ sub' = [Registered EXCEPT !.periodEnd = today + Period]
    /\ UNCHANGED <<today, actor, unpaid, orders, paid, overtaken>>

NextDay ==
    /\ today < LastDay
    /\ today' = today + 1
    /\ UNCHANGED <<sub, actor, unpaid, orders, paid, overtaken>>

SubNext ==
    \/ \E g \in Gates : EnterGate(g)
    \/ \E p \in Passes : StartRun(p) \/ Find(p)
    \/ \E a \in Actors : Move(a)
    \/ Checkout \/ Activate \/ Refund \/ AdminEdit \/ Enrol
    \/ NextDay

(* The scheduler starts the cron again and again, and a run that has begun *)
(* goes on; no request need ever come.                                     *)
CronStep(p) == StartRun(p) \/ Find(p) \/ Move(p)

RunsAgain(p) == WF_subVars(CronStep(p))

SubFairness == \A p \in Passes : RunsAgain(p)

SubSpec == SubInit /\ [][SubNext]_subVars /\ SubFairness

-----------------------------------------------------------------------------
Dates == 0 .. LastDay + Period + Grace

SubTypeOK ==
    /\ today \in FirstDay .. LastDay
    /\ sub \in [status : SubStatuses, periodEnd : Dates, graceEnds : Dates,
                suspendedAt : Dates, lockedAt : Dates]
    /\ actor \in [Actors -> [pc : {"idle", "find", "move"}, pass : 1 .. 3,
                             at : Dates, move : Moves,
                             stale : BOOLEAN]]
    /\ unpaid \in BOOLEAN
    /\ orders \in 0 .. MaxOrders
    /\ paid \in BOOLEAN
    /\ overtaken \in BOOLEAN

(* A tenant that has paid, and whose period runs, has full access, unless  *)
(* a move of the gate or of the cron was written over a payment it had not *)
(* seen: no mark of an earlier lapse that the payment left on the row, and *)
(* no pass of the cron that is still to come, takes it away.               *)
PaidIsOpen ==
    paid /\ ~overtaken /\ ~PeriodIsOver(sub, today) => GateLevel(sub, today) = "full"

(* Nobody who was not refunded, canceled or overtaken is locked out before *)
(* the grace period and the days between suspension and lock have passed,  *)
(* whether the gate or the cron, or each in part, moved the row.  (The     *)
(* file promises LockAfter days; the cron suspends as soon as the grace    *)
(* period is over and so locks SuspendAfter - Grace days early.)           *)
LockIsEarned ==
    paid /\ ~overtaken /\ GateLevel(sub, today) = "locked"
        => sub.periodEnd + Grace + (LockAfter - SuspendAfter) < today

(* Nothing can hold up a run of the cron. *)
RunCanGoOn(p) == ENABLED <<CronStep(p)>>_subVars

RunsCanGoOn == \A p \in Passes : RunCanGoOn(p)

Lapsed == sub.status \in InForce /\ PeriodIsOver(sub, today)

(* The cron is never held up, and a period that is over is noticed even if *)
(* the tenant never calls: the row does not stay in force for ever.        *)
LapseIsNoticed == []RunsCanGoOn /\ (Lapsed ~> ~Lapsed)

(* The row is well typed, opens the door to whoever paid, and shuts nobody *)
(* out early.                                                              *)
SubInv == SubTypeOK /\ PaidIsOpen /\ LockIsEarned
=============================================================================
