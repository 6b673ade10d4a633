----------------------------- MODULE InvoiceLife -----------------------------
(***************************************************************************)
(* What the payment code promises the tenant and the seller: an invoice is *)
(* issued, then settled with money the provider has received or given up,  *)
(* and a settled one may be refunded.  Each is final.  The plan is granted *)
(* at most once for an invoice, by one that was settled, and withdrawn     *)
(* only after a refund.  Nothing else moves the plan.                      *)
(*                                                                         *)
(* How often a call is delivered, in what order, and where the process     *)
(* stops, can delay these steps or leave them out, but adds no other.      *)
(***************************************************************************)
CONSTANTS
    Invoices,
    Nobody          \* pays for the trial

VARIABLES
    state,          \* of each invoice: none, open, void, paid or refunded
    received,       \* invoices the provider has received the money of
    granted,        \* invoices that have granted the plan
    plan            \* whether the plan is in force, and who paid for it

lifeVars == <<state, received, granted, plan>>

LifeInit ==
    /\ state = [k \in Invoices |-> "none"]
    /\ received = {} /\ granted = {}
    /\ plan = [status |-> "trialing", paidBy |-> Nobody]

Moves(k, from, to) ==
    /\ state[k] = from
    /\ state' = [state EXCEPT ![k] = to]
    /\ UNCHANGED <<received, granted, plan>>

Issue(k) == Moves(k, "none", "open")

Settle(k) == k \in received /\ Moves(k, "open", "paid")

Refund(k) == Moves(k, "paid", "refunded")

(* Several at once, when their time has run out. *)
Abandon(K) ==
    /\ \A k \in K : state[k] = "open"
    /\ state' = [k \in Invoices |-> IF k \in K THEN "void" ELSE state[k]]
    /\ UNCHANGED <<received, granted, plan>>

Receive(k) ==
    /\ state[k] # "none"
    /\ received' = received \cup {k}
    /\ UNCHANGED <<state, granted, plan>>

(* The refund may have come first, or a later one: the plan is granted all *)
(* the same.                                                               *)
Grant(k) ==
    /\ state[k] \in {"paid", "refunded"} /\ k \notin granted
    /\ granted' = granted \cup {k}
    /\ plan' = [status |-> "active", paidBy |-> k]
    /\ UNCHANGED <<state, received>>

(* Whoever paid for the plan, any refund withdraws it. *)
Withdraw(k) ==
    /\ state[k] = "refunded"
    /\ plan' = [plan EXCEPT !.status = "past_due"]
    /\ UNCHANGED <<state, received, granted>>

LifeNext ==
    \/ \E k \in Invoices : \/ Issue(k) \/ Settle(k) \/ Refund(k)
                           \/ Receive(k) \/ Grant(k) \/ Withdraw(k)
    \/ \E K \in SUBSET Invoices : Abandon(K)

LifeSpec == LifeInit /\ [][LifeNext]_lifeVars
=============================================================================
