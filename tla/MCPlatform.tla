------------------------------ MODULE MCPlatform ------------------------------
(***************************************************************************)
(* Instance for TLC of what runs beneath the documents: the audit log, the *)
(* subscription of a tenant, and the job queue.  The three share nothing,  *)
(* so a behaviour belongs to one of them: `part` says to which.            *)
(***************************************************************************)
EXTENDS AuditChain, SubscriptionGate, JobQueue

CONSTANTS Parts, r1, r2, r3, t1, t2, none

VARIABLE part

MCRequests    == {r1, r2, r3}
TwoRequests   == {r1, r2}
MCTenants     == {t1, t2}
MCKnownActors == {"user"}
MCNone        == none

Input(c, t, a, m) == [caller |-> c, tenantId |-> t, actorId |-> a, metadata |-> m]

(* Two tenants, plain metadata, callers with a User row. *)
UserInputs == {Input("api", t, "user", "plain") : t \in MCTenants}

(* Besides: an API key's pseudo-actor and a cron task's pseudo-tenant. *)
MixedInputs == {Input("api", t1, "user", "dated"),
                Input("api", t2, "apikey", "plain"),
                Input("cron", "system", "system", "plain")}

platformVars == <<part, vars, subVars, jobVars>>

PlatformInit ==
    /\ part \in Parts
    /\ Init /\ SubInit /\ JobInit
    /\ part # "subscription" => sub = NoRow

ChainRuns ==
    part = "chain" /\ Next /\ UNCHANGED <<part, subVars, jobVars>>

SubscriptionRuns ==
    part = "subscription" /\ SubNext /\ UNCHANGED <<part, vars, jobVars>>

QueueRuns ==
    part = "queue" /\ JobNext /\ UNCHANGED <<part, vars, subVars>>

PlatformNext == ChainRuns \/ SubscriptionRuns \/ QueueRuns

(* The fairness of each module, for the runs of its part. *)
PlatformSpec ==
    /\ PlatformInit /\ [][PlatformNext]_platformVars
    /\ \A r \in Requests : WF_vars(part = "chain" /\ Progress(r))
    /\ \A p \in Passes : WF_subVars(part = "subscription" /\ CronStep(p))
    /\ \A w \in Workers : WF_jobVars(part = "queue" /\ WorkerStep(w))
===============================================================================
