------------------------------ MODULE AuditLog ------------------------------
(***************************************************************************)
(* What the audit service promises its callers: every tenant has one       *)
(* append-only log, an append adds exactly one entry at the end of exactly *)
(* one tenant's log, and nothing that was recorded changes or disappears.  *)
(***************************************************************************)
EXTENDS Sequences

CONSTANTS Tenants,   \* the tenants that have a log
          Entries    \* what can be recorded

VARIABLE log

LogTypeOK == log \in [Tenants -> Seq(Entries)]

LogInit == log = [t \in Tenants |-> <<>>]

AppendEntry(t, e) == log' = [log EXCEPT ![t] = Append(@, e)]

LogNext == \E t \in Tenants, e \in Entries : AppendEntry(t, e)

LogSpec == LogInit /\ [][LogNext]_log
=============================================================================
