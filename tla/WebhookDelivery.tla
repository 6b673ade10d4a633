--------------------------- MODULE WebhookDelivery ---------------------------
(***************************************************************************)
(* The webhooks of a tenant: fireWebhook of lib/notifications/notify.ts,   *)
(* which handlers call when their change is committed, the queue it adds   *)
(* to, the worker that delivers (worker/index.ts), and the administrators  *)
(* who disable and delete webhooks (api/admin/webhooks/[id]).              *)
(*                                                                         *)
(* A firing adds one job for each webhook, all at once; if one addition    *)
(* fails it delivers to every webhook itself, though others may have been  *)
(* added.  The id of a job is its webhook, its event's type and the        *)
(* millisecond, and BullMQ ignores an id it knows.  Events here are of one *)
(* type.  Receivers are external: they accept a POST (or refuse it for     *)
(* good, which counts as accepted), or it fails and is tried again.  The   *)
(* guard of outbound requests may stop any attempt before its POST: HTTP   *)
(* in production, a private address, or a name that does not resolve.      *)
(***************************************************************************)
EXTENDS Naturals, FiniteSets

CONSTANTS
    Hooks,          \* webhooks
    Firings,        \* calls of fireWebhook
    HookAttempts,   \* QUEUE_DEFAULTS.webhook.attempts
    Tries,          \* maxRetries of the delivery in the handler
    LastMs,         \* bound: the clock stops here
    MaxDeliveries,  \* bound: deliveries of events to webhooks in all
    MaxHookFaults,  \* bound: jobs that stall and processes that stop
    MaxHookEdits    \* bound: changes by administrators

ASSUME WebhookBounds ==
    /\ {HookAttempts, Tries} \subseteq Nat \ {0} /\ Tries <= HookAttempts
    /\ {LastMs, MaxDeliveries, MaxHookFaults, MaxHookEdits} \subseteq Nat

VARIABLES
    hook,           \* rows of Webhook: "enabled", "disabled" or "deleted"
    firing,         \* the calls: program counter, and the webhooks matched
    addition,       \* their promises to add a job, one for each webhook
    loop,           \* their promises to deliver: program counter and attempt
    hookJobs,       \* the queue: jobs, whose ids are a webhook and a time
    ms,             \* the clock
    hookFaults, hookEdits,
    posts,          \* how often an event was sent to a webhook
    accepted,       \* how often it was accepted
    signatures,     \* what receivers were given to verify a POST by
    why             \* history: what happened to the deliveries

hookVars == <<hook, firing, addition, loop, hookJobs, ms, hookFaults, hookEdits,
              posts, accepted, signatures, why>>

Reasons == {"same_id", "added_too", "stalled", "row_gone", "stopped", "blocked"}

Each(x) == [f \in Firings |-> [h \in Hooks |-> x]]

WebhookInit ==
    /\ hook \in [Hooks -> {"enabled", "disabled"}]
    /\ firing = [f \in Firings |-> [pc |-> "idle", matched |-> {}]]
    /\ addition = Each("none")
    /\ loop = Each([pc |-> "none", try |-> 0])
    /\ hookJobs = {}
    /\ ms = 0 /\ hookFaults = 0 /\ hookEdits = 0
    /\ posts = Each(0) /\ accepted = Each(0) /\ signatures = {} /\ why = Each({})

(* POST admin/webhooks hands a secret out and keeps its digest, and both   *)
(* ways of delivery sign with what is kept.                                *)
Secret       == <<"secret">>
Sha256(text) == <<"sha256", text>>
SecretHash   == Sha256(Secret)
Hmac(key)    == <<"hmac", key>>
Sign         == signatures' = signatures \cup {Hmac(SecretHash)}

Goto(f, pc) == firing' = [firing EXCEPT ![f].pc = pc]

(* The calls that some handler still awaits. *)
Awaited(f) == firing[f].pc \in {"adding", "delivering"}

Deliveries == {d \in Firings \X Hooks : d[2] \in firing[d[1]].matched}

-----------------------------------------------------------------------------
(* Delivery in the handler begins for all that matched. *)
StartLoops(f, matched) ==
    loop' = [loop EXCEPT ![f] =
               [h \in Hooks |-> IF h \in matched THEN [pc |-> "post", try |-> 1]
                                ELSE loop[f][h]]]

(* The enabled webhooks are read, and Redis is there or not. *)
Fire(f) ==
    /\ firing[f].pc = "idle"
    /\ LET matched == {h \in Hooks : hook[h] = "enabled"} IN
       /\ Cardinality(matched) + Cardinality(Deliveries) <= MaxDeliveries
       /\ \/ /\ firing' = [firing EXCEPT ![f] = [pc |-> "adding", matched |-> matched]]
             /\ addition' = [addition EXCEPT ![f] =
                   [h \in Hooks |-> IF h \in matched THEN "adding" ELSE "none"]]
             /\ UNCHANGED loop
          \/ /\ firing' = [firing EXCEPT ![f] = [pc |-> "delivering", matched |-> matched]]
             /\ StartLoops(f, matched)
             /\ UNCHANGED addition
    /\ UNCHANGED <<hook, hookJobs, ms, hookFaults, hookEdits, posts, accepted,
                   signatures, why>>

(* queue.add. *)
Add(f, h) ==
    /\ addition[f][h] = "adding"
    /\ addition' = [addition EXCEPT ![f][h] = "added"]
    /\ IF \A j \in hookJobs : j.id # <<h, ms>>
       THEN /\ hookJobs' = hookJobs \cup {[id |-> <<h, ms>>, of |-> f, left |-> HookAttempts,
                                          state |-> "waiting"]}
            /\ why' = IF firing[f].pc = "adding" THEN why
                      ELSE [why EXCEPT ![f][h] = @ \cup {"added_too"}]
       ELSE /\ why' = [why EXCEPT ![f][h] = @ \cup {"same_id"}]
            /\ UNCHANGED hookJobs
    /\ UNCHANGED <<hook, firing, loop, ms, hookFaults, hookEdits, posts,
                   accepted, signatures>>

(* The definition after it, which delivers to the one webhook that failed. *)
FallBackBug(f, h) ==
    /\ Goto(f, "delivering")
    /\ StartLoops(f, {h})
    /\ UNCHANGED why

(* The first failure makes Promise.all reject, while others go on. *)
FallBack(f, h) ==
    /\ Goto(f, "delivering")
    /\ StartLoops(f, firing[f].matched)
    /\ why' = [why EXCEPT ![f] =
                 [g \in Hooks |-> IF addition[f][g] = "added"
                                  THEN why[f][g] \cup {"added_too"} ELSE why[f][g]]]

AddFails(f, h) ==
    /\ addition[f][h] = "adding"
    /\ addition' = [addition EXCEPT ![f][h] = "failed"]
    /\ IF firing[f].pc = "adding" THEN FallBack(f, h) ELSE UNCHANGED <<firing, loop, why>>
    /\ UNCHANGED <<hook, hookJobs, ms, hookFaults, hookEdits, posts, accepted,
                   signatures>>

Finished(f) ==
    \/ firing[f].pc = "adding"
       /\ \A h \in firing[f].matched : addition[f][h] = "added"
    \/ firing[f].pc = "delivering"
       /\ \A h \in firing[f].matched : loop[f][h].pc = "done"

(* All were added, or all deliveries have ended: the handler goes on. *)
Return(f) ==
    /\ Awaited(f) /\ Finished(f)
    /\ Goto(f, "returned")
    /\ UNCHANGED <<hook, addition, loop, hookJobs, ms, hookFaults, hookEdits,
                   posts, accepted, signatures, why>>

-----------------------------------------------------------------------------
Again(f, h) ==
    loop' = [loop EXCEPT ![f][h] =
               IF @.try < Tries THEN [pc |-> "post", try |-> @.try + 1]
               ELSE [pc |-> "give_up", try |-> @.try]]

(* The guard stops the attempt, or the POST is accepted, or it fails. *)
Post(f, h) ==
    /\ loop[f][h].pc = "post"
    /\ \/ /\ loop' = [loop EXCEPT ![f][h].pc = "blocked"]
          /\ UNCHANGED <<posts, accepted, signatures>>
       \/ /\ posts' = [posts EXCEPT ![f][h] = @ + 1]
          /\ Sign
          /\ \/ /\ accepted' = [accepted EXCEPT ![f][h] = @ + 1]
                /\ loop' = [loop EXCEPT ![f][h].pc = "noted"]
             \/ Again(f, h) /\ UNCHANGED accepted
    /\ UNCHANGED <<hook, firing, addition, hookJobs, ms, hookFaults, hookEdits,
                   why>>

(* The updates of the row are inside the try: without the row it is as if  *)
(* the POST had failed.                                                    *)
RowIsMissing(f, h) ==
    Again(f, h) /\ why' = [why EXCEPT ![f][h] = @ \cup {"row_gone"}]

NoteAccepted(f, h) ==
    /\ loop[f][h].pc = "noted"
    /\ IF hook[h] # "deleted"
       THEN loop' = [loop EXCEPT ![f][h].pc = "done"] /\ UNCHANGED why
       ELSE RowIsMissing(f, h)
    /\ UNCHANGED <<hook, firing, addition, hookJobs, ms, hookFaults, hookEdits,
                   posts, accepted, signatures>>

(* What the guard stopped is not tried again. *)
NoteBlocked(f, h) ==
    /\ loop[f][h].pc = "blocked"
    /\ IF hook[h] # "deleted"
       THEN /\ loop' = [loop EXCEPT ![f][h].pc = "done"]
            /\ why' = [why EXCEPT ![f][h] = @ \cup {"blocked"}]
       ELSE RowIsMissing(f, h)
    /\ UNCHANGED <<hook, firing, addition, hookJobs, ms, hookFaults, hookEdits,
                   posts, accepted, signatures>>

(* The last update is not: without the row fireWebhook throws, and with it *)
(* the handler that awaits it.                                             *)
GiveUp(f, h) ==
    /\ loop[f][h].pc = "give_up"
    /\ loop' = [loop EXCEPT ![f][h].pc = "done"]
    /\ IF hook[h] = "deleted" /\ Awaited(f) THEN Goto(f, "thrown") ELSE UNCHANGED firing
    /\ UNCHANGED <<hook, addition, hookJobs, ms, hookFaults, hookEdits, posts,
                   accepted, signatures, why>>

(* The process stops, and with it what it had promised. *)
StopFiring(f) ==
    /\ Awaited(f) /\ hookFaults < MaxHookFaults
    /\ Goto(f, "stopped")
    /\ addition' = [addition EXCEPT ![f] = [h \in Hooks |-> "none"]]
    /\ loop' = [loop EXCEPT ![f] = [h \in Hooks |-> [pc |-> "none", try |-> 0]]]
    /\ why' = [why EXCEPT ![f] = [h \in Hooks |-> why[f][h] \cup {"stopped"}]]
    /\ hookFaults' = hookFaults + 1
    /\ UNCHANGED <<hook, hookJobs, ms, hookEdits, posts, accepted, signatures>>

-----------------------------------------------------------------------------
Becomes(j, k) == hookJobs' = (hookJobs \ {j}) \cup {k}

(* handleWebhookJob: whether the webhook is still enabled, or there, it    *)
(* does not ask, and the failed update of its row is swallowed.  What the  *)
(* guard stops fails like any other attempt, but without a POST.           *)
Take(j) ==
    /\ j.state = "waiting"
    /\ Becomes(j, [j EXCEPT !.state = "active"])
    /\ UNCHANGED <<hook, firing, addition, loop, ms, hookFaults, hookEdits,
                   posts, accepted, signatures, why>>

Deliver(j) ==
    /\ j.state = "active"
    /\ LET f == j.of
           h == j.id[1] IN
       \/ /\ posts' = [posts EXCEPT ![f][h] = @ + 1]
          /\ Sign
          /\ accepted' = [accepted EXCEPT ![f][h] = @ + 1]
          /\ Becomes(j, [j EXCEPT !.state = "sent"])
       \/ /\ \/ posts' = [posts EXCEPT ![f][h] = @ + 1] /\ Sign
             \/ UNCHANGED <<posts, signatures>>
          /\ Becomes(j, [j EXCEPT !.left = @ - 1,
                                  !.state = IF j.left > 1 THEN "waiting" ELSE "failed"])
          /\ UNCHANGED accepted
    /\ UNCHANGED <<hook, firing, addition, loop, ms, hookFaults, hookEdits,
                   why>>

Complete(j) ==
    /\ j.state = "sent"
    /\ Becomes(j, [j EXCEPT !.state = "completed"])
    /\ UNCHANGED <<hook, firing, addition, loop, ms, hookFaults, hookEdits,
                   posts, accepted, signatures, why>>

(* The worker stops, and BullMQ gives the job to another. *)
Stall(j) ==
    /\ j.state \in {"active", "sent"}
    /\ hookFaults < MaxHookFaults /\ hookFaults' = hookFaults + 1
    /\ Becomes(j, [j EXCEPT !.state = "waiting"])
    /\ why' = [why EXCEPT ![j.of][j.id[1]] = @ \cup {"stalled"}]
    /\ UNCHANGED <<hook, firing, addition, loop, ms, hookEdits, posts, accepted,
                   signatures>>

-----------------------------------------------------------------------------
(* PATCH and DELETE admin/webhooks/[id]. *)
EditHook(h) ==
    /\ hook[h] # "deleted" /\ hookEdits < MaxHookEdits
    /\ hookEdits' = hookEdits + 1
    /\ hook' \in {[hook EXCEPT ![h] = to] : to \in {"enabled", "disabled", "deleted"} \ {hook[h]}}
    /\ UNCHANGED <<firing, addition, loop, hookJobs, ms, hookFaults, posts,
                   accepted, signatures, why>>

MsPasses ==
    /\ ms < LastMs /\ ms' = ms + 1
    /\ UNCHANGED <<hook, firing, addition, loop, hookJobs, hookFaults,
                   hookEdits, posts, accepted, signatures, why>>

FiringStep(f) ==
    \/ \E h \in Hooks : Add(f, h) \/ AddFails(f, h) \/ Post(f, h) \/ NoteAccepted(f, h)
                        \/ NoteBlocked(f, h) \/ GiveUp(f, h)
    \/ Return(f)

WebhookNext ==
    \/ \E f \in Firings : Fire(f) \/ FiringStep(f) \/ StopFiring(f)
    \/ \E j \in hookJobs : Take(j) \/ Deliver(j) \/ Complete(j) \/ Stall(j)
    \/ \E h \in Hooks : EditHook(h)
    \/ MsPasses

WebhookFairness == \A f \in Firings : WF_hookVars(FiringStep(f))

WebhookSpec == WebhookInit /\ [][WebhookNext]_hookVars /\ WebhookFairness

-----------------------------------------------------------------------------
WebhookTypeOK ==
    /\ hook \in [Hooks -> {"enabled", "disabled", "deleted"}]
    /\ firing \in [Firings -> [pc : {"idle", "adding", "delivering", "returned",
                                     "thrown", "stopped"},
                               matched : SUBSET Hooks]]
    /\ addition \in [Firings -> [Hooks -> {"none", "adding", "added", "failed"}]]
    /\ why \in [Firings -> [Hooks -> SUBSET Reasons]]

Over(f, h) ==
    /\ addition[f][h] # "adding"
    /\ loop[f][h].pc \in {"none", "done"}
    /\ \A j \in hookJobs :
          j.of = f /\ j.id[1] = h => j.state \in {"completed", "failed"}

(* All attempts of the handler failed, or all of the worker. *)
Exhausted(f, h) ==
    \/ loop[f][h] = [pc |-> "done", try |-> Tries]
    \/ \E j \in hookJobs :
          j.of = f /\ j.id[1] = h /\ j.state = "failed" /\ j.left = 0

(* However additions, deliveries and the queue are mixed up: every webhook *)
(* that was enabled when the event happened has accepted it in the end,    *)
(* unless all attempts failed, another event took the job's id, the        *)
(* process stopped, or the guard stopped an attempt of the handler; ...    *)
NoEventIsForgotten ==
    \A f \in Firings : ~Awaited(f) =>
       \A h \in firing[f].matched :
          Over(f, h) /\ accepted[f][h] = 0 =>
             Exhausted(f, h) \/ why[f][h] \cap {"same_id", "stopped", "blocked"} # {}

(* ... it is accepted twice only for a reason on record; ...               *)
AcceptedTwiceForAReason ==
    \A f \in Firings, h \in Hooks :
       accepted[f][h] > 1 => why[f][h] \cap {"added_too", "stalled", "row_gone"} # {}

(* ... and nobody is sent it without end.                                  *)
SendingIsBounded ==
    \A f \in Firings, h \in Hooks :
       posts[f][h] <= HookAttempts + hookFaults
                        + (IF "added_too" \in why[f][h] \/ loop[f][h].try > 0
                           THEN Tries ELSE 0)

WebhookInv ==
    WebhookTypeOK /\ NoEventIsForgotten /\ AcceptedTwiceForAReason /\ SendingIsBounded

(* The handler that fires an event does not wait for it for ever.          *)
FiringsEnd == \A f \in Firings : Awaited(f) ~> ~Awaited(f)

(* docs/API-AUTH.md:199: receivers verify with "-hmac "$secret"".          *)
ReceiversCanVerify == signatures \subseteq {Hmac(Secret)}

(* notify.ts:302: failed deliveries "do not block the calling operation".  *)
CallerIsUnharmed == \A f \in Firings : firing[f].pc # "thrown"
===============================================================================
