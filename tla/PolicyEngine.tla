----------------------------- MODULE PolicyEngine -----------------------------
(***************************************************************************)
(* The access policies of a tenant (lib/auth/policy-engine.ts), as         *)
(* createApiHandler and the download, preview and share routes ask them,   *)
(* and as api/admin/policies edits them.                                   *)
(*                                                                         *)
(* A download is judged twice: by the handler, which does not know the     *)
(* document, and by the route, which does.  Each judgement takes the rules *)
(* of this instance's cache, or reads the table and fills the cache one    *)
(* await later; an edit empties only the cache of the instance it came to. *)
(* If the table cannot be read there are no rules, and none denies.        *)
(*                                                                         *)
(* One tenant, one document and one instance; other instances show in      *)
(* their edits.  A rule's conditions are the matchers it names; the        *)
(* situation, which stays, is the matchers that hold of the actor and the  *)
(* hour, and those that hold of the document while it is known.            *)
(***************************************************************************)
EXTENDS Integers

CONSTANTS
    Askers,             \* requests
    Tables,             \* bound: the sets of enabled policies there may be
    Situations,         \* bound: the matchers that may hold, of the context and
                        \* of the document
    RulesTtl,           \* POLICY_CACHE_TTL_MS
    JudgeLatency,       \* bound: a request is judged in at most so many ticks
    LastPolicyTick,     \* bound: the clock stops here
    MaxChanges,         \* bound: edits of the table
    Width,              \* the bits of an address
    DayLength           \* the minutes of a day

ASSUME PolicyAssumption ==
    /\ {RulesTtl, JudgeLatency, LastPolicyTick, Width, DayLength} \subseteq Nat \ {0}
    /\ MaxChanges \in Nat

(* What the forms of api/admin/policies let into the table. *)
Priorities == 0 .. 1000

ASSUME TablesAssumption ==
    \A rules \in Tables : \A r \in rules :
        r.priority \in Priorities /\ r.effect \in {"allow", "deny"}

VARIABLES
    policies,       \* the enabled rows of Policy
    situation,      \* the matchers that hold: of the context, of the document
    ruleCache,      \* the tenant's entry of policyCache: rules and its date
    asker,          \* the requests: program counter and locals
    policyTime,
    changes,        \* how many edits there were
    past,           \* history: the rules there were before, and until when
    emptied         \* an edit that came to this instance has yet to empty the cache

policyVars ==
    <<policies, situation, ruleCache, asker, policyTime, changes, past, emptied>>

-----------------------------------------------------------------------------
(* actionMatches and resourceMatches: "*", "document:*" or the very thing. *)
Fits(pattern, thing) ==
    \/ pattern.type = "*"
    \/ pattern.type = thing.type /\ pattern.name \in {"*", thing.name}

Applies(r, q) ==
    /\ Fits(r.action, q.action)
    /\ Fits(r.resource, q.resource)
    /\ r.conditions \subseteq q.holds

(* ORDER BY priority DESC, effect ASC: 'allow' comes before 'deny'. *)
Before(r, s) ==
    \/ r.priority > s.priority
    \/ r.priority = s.priority /\ r.effect = "allow" /\ s.effect = "deny"

(* The first rule that applies decides, and "allow" if there is none. *)
Decision(rules, q) ==
    IF \E r \in rules : /\ Applies(r, q) /\ r.effect = "deny"
                        /\ \A s \in rules : Applies(s, q) => ~Before(s, r)
    THEN "deny" ELSE "allow"

(* What a request asks at each of its judgements.  The handler of the      *)
(* routes names no document; a route without an audit event no resource.   *)
HandlerAsks(kind) ==
    [action   |-> [type |-> "document", name |-> kind],
     resource |-> [type |-> IF kind = "download" THEN "document" ELSE "none", name |-> "*"],
     holds    |-> situation.context]

RouteAsks ==
    [action   |-> [type |-> "document", name |-> "download"],
     resource |-> [type |-> "document", name |-> "d"],
     holds    |-> situation.context \cup situation.document]

Asks(a) == IF a.step = "handler" THEN HandlerAsks(a.kind) ELSE RouteAsks

-----------------------------------------------------------------------------
NotAsked == [pc |-> "idle", kind |-> "none", step |-> "none", since |-> 0,
             read |-> {}, open |-> FALSE]

Empty == [rules |-> {}, ts |-> -1]

PolicyInit ==
    /\ policies \in Tables
    /\ situation \in Situations
    /\ ruleCache = Empty
    /\ asker = [a \in Askers |-> NotAsked]
    /\ policyTime = 0 /\ changes = 0 /\ past = {}
    /\ emptied = TRUE

(* The definition after it without a look at the entry's age. *)
CachedRulesBug == ruleCache.ts >= 0

CachedRules == ruleCache.ts >= 0 /\ policyTime - ruleCache.ts < RulesTtl

(* The decision, without an await since the rules were there.  A download  *)
(* that the handler lets pass goes on to its route.                        *)
Decided(a, rules) ==
    IF Decision(rules, Asks(a)) = "deny" THEN [a EXCEPT !.pc = "refused"]
    ELSE IF a.kind = "download" /\ a.step = "handler" THEN [a EXCEPT !.pc = "passed"]
    ELSE [a EXCEPT !.pc = "allowed"]

Asked(a) == IF CachedRules THEN Decided(a, ruleCache.rules) ELSE [a EXCEPT !.pc = "loading"]

(* A download, or a request of a route that does not name its resource. *)
Ask(a) ==
    /\ asker[a].pc = "idle"
    /\ \E kind \in {"download", "read"} :
          asker' = [asker EXCEPT ![a] =
              Asked([NotAsked EXCEPT !.kind = kind, !.step = "handler", !.since = policyTime])]
    /\ UNCHANGED <<policies, situation, ruleCache, policyTime, changes, past, emptied>>

(* The route has read the document. *)
AskAgain(a) ==
    /\ asker[a].pc = "passed"
    /\ asker' = [asker EXCEPT ![a] = Asked([@ EXCEPT !.step = "route"])]
    /\ UNCHANGED <<policies, situation, ruleCache, policyTime, changes, past, emptied>>

(* findMany, or its failure, after which the list of rules is empty. *)
LoadRules(a) ==
    /\ asker[a].pc = "loading"
    /\ \/ asker' = [asker EXCEPT ![a].pc = "filling", ![a].read = policies]
       \/ asker' = [asker EXCEPT ![a] = Decided([@ EXCEPT !.open = TRUE], {})]
    /\ UNCHANGED <<policies, situation, ruleCache, policyTime, changes, past, emptied>>

FillRules(a) ==
    /\ asker[a].pc = "filling"
    /\ ruleCache' = [rules |-> asker[a].read, ts |-> policyTime]
    /\ asker' = [asker EXCEPT ![a] = Decided([@ EXCEPT !.read = {}], asker[a].read)]
    /\ UNCHANGED <<policies, situation, policyTime, changes, past, emptied>>

-----------------------------------------------------------------------------
(* POST, PATCH and DELETE of api/admin/policies, here or elsewhere. *)
EditPolicies ==
    /\ changes < MaxChanges
    /\ policies' \in Tables \ {policies}
    /\ changes' = changes + 1
    /\ past' = past \cup {[rules |-> policies, until |-> policyTime]}
    /\ emptied' \in {emptied, FALSE}
    /\ UNCHANGED <<situation, ruleCache, asker, policyTime>>

(* invalidatePolicyCache, one await after the edit. *)
Invalidate ==
    /\ ~emptied
    /\ ruleCache' = Empty
    /\ emptied' = TRUE
    /\ UNCHANGED <<policies, situation, asker, policyTime, changes, past>>

Asking(a) == asker[a].pc \in {"loading", "filling", "passed"}

(* The bound on the time a request is judged in. *)
PolicyTick ==
    /\ policyTime < LastPolicyTick
    /\ \A a \in Askers : Asking(a) => policyTime < asker[a].since + JudgeLatency
    /\ policyTime' = policyTime + 1
    /\ asker' = [a \in Askers |-> IF Asking(a) THEN asker[a] ELSE NotAsked]
    /\ UNCHANGED <<policies, situation, ruleCache, changes, past, emptied>>

PolicyNext ==
    \/ \E a \in Askers : \/ Ask(a) \/ AskAgain(a) \/ LoadRules(a) \/ FillRules(a)
    \/ EditPolicies \/ Invalidate \/ PolicyTick

PolicySpec == PolicyInit /\ [][PolicyNext]_policyVars

-----------------------------------------------------------------------------
(* The timeOfDay matcher: a window may cross midnight. *)
InWindow(start, end, minute) ==
    IF start <= end THEN start <= minute /\ minute <= end
    ELSE start <= minute \/ minute <= end

(* JavaScript shifts by the count modulo the width of the word. *)
Shifted(word, count) == (word * 2 ^ (count % Width)) % 2 ^ Width

(* The definition after it without the case of no prefix at all. *)
MaskBug(prefix) == Shifted(2 ^ Width - 1, Width - prefix)

Mask(prefix) == IF prefix = 0 THEN 0 ELSE Shifted(2 ^ Width - 1, Width - prefix)

(* What & looks at: the places of the bits that are 1. *)
Ones(word) == {i \in 0 .. Width - 1 : (word \div 2 ^ i) % 2 = 1}

InCidr(ip, range, prefix) ==
    Ones(ip) \cap Ones(Mask(prefix)) = Ones(range) \cap Ones(Mask(prefix))

-----------------------------------------------------------------------------
PolicyTypeOK ==
    /\ policies \in Tables /\ situation \in Situations
    /\ ruleCache.rules \in Tables \cup {{}} /\ ruleCache.ts \in -1 .. LastPolicyTick
    /\ asker \in [Askers ->
          [pc : {"idle", "loading", "filling", "passed", "allowed", "refused"},
           kind : {"none", "download", "read"}, step : {"none", "handler", "route"},
           since : 0 .. LastPolicyTick, read : Tables \cup {{}}, open : BOOLEAN]]
    /\ policyTime \in 0 .. LastPolicyTick
    /\ past \subseteq [rules : Tables, until : 0 .. LastPolicyTick]
    /\ changes \in 0 .. MaxChanges
    /\ emptied \in BOOLEAN

(* The rules that were in force at some time from then on. *)
RulesSince(tick) == {policies} \cup {p.rules : p \in {o \in past : tick <= o.until}}

(* A request may go by rules that were edited as long ago as an entry lives *)
(* and two requests are judged: one that read the table before the edit and *)
(* filled the cache after it, and this one.                                *)
RulesLately == RulesSince(policyTime + 1 - RulesTtl - 2 * JudgeLatency)

(* The judgements a request that is over went through. *)
Judgements(a) ==
    {HandlerAsks(asker[a].kind)} \cup {q \in {RouteAsks} : asker[a].step = "route"}

Denials(rules, q) == {r \in rules : Applies(r, q) /\ r.effect = "deny"}

(* A rule that allows stands over each one that denies.                    *)
Permits(rules, q) ==
    \A r \in Denials(rules, q) :
        \E s \in rules : Applies(s, q) /\ s.effect = "allow" /\ s.priority > r.priority

(* Rules of both effects share the highest priority.                       *)
Tied(rules, q) ==
    \E r \in Denials(rules, q) :
        /\ \E s \in rules : Applies(s, q) /\ s.effect = "allow" /\ s.priority = r.priority
        /\ \A s \in rules : Applies(s, q) => s.priority <= r.priority

(* Whatever the caches, the order of the loads and further edits, a request *)
(* the table answered passes only if rules that were in force lately permit *)
(* it at each of its judgements (policy-engine.ts:19-28), or are tied; and  *)
(* it is refused only if such rules do not permit it.  An edit counts after *)
(* a bounded time, and not "immediately" as api/admin/policies/route.ts:55  *)
(* has it.                                                                 *)
PoliciesAreObeyed ==
    \A a \in Askers :
        /\ asker[a].pc = "allowed" /\ ~asker[a].open =>
              \A q \in Judgements(a) : \E rules \in RulesLately : Permits(rules, q) \/ Tied(rules, q)
        /\ asker[a].pc = "refused" =>
              \E q \in Judgements(a), rules \in RulesLately : ~Permits(rules, q)

(* policy-engine.ts:31 "deny wins over allow at the same priority": while   *)
(* the rules stay, a tie is no way to pass.                                *)
DenyWins ==
    \A a \in Askers :
        asker[a].pc = "allowed" /\ ~asker[a].open /\ RulesLately = {policies} =>
            \A q \in Judgements(a) : Permits(policies, q)

(* policy-engine.ts:327: a window holds from its start, round the clock if *)
(* need be, to its end.                                                    *)
WindowsGoRound ==
    LET Day == 0 .. DayLength - 1 IN
    \A start, end, minute \in Day :
        InWindow(start, end, minute) <=>
            \E k \in 0 .. (end - start) % DayLength : minute = (start + k) % DayLength

(* A range holds the addresses that begin with its prefix, of any length. *)
RangesArePrefixes ==
    \A ip, range \in 0 .. 2 ^ Width - 1, prefix \in 0 .. Width :
        LET rest == 2 ^ (Width - prefix) IN
        InCidr(ip, range, prefix) <=> ip \div rest = range \div rest

(* The rows are well typed, and what ends a request is what they say. *)
PolicyInv == PolicyTypeOK /\ PoliciesAreObeyed

(* The situation stays while requests are judged, and the matchers it is   *)
(* made of are exact: those of hours and those of addresses.               *)
MatchersAreExact == situation \in Situations /\ WindowsGoRound /\ RangesArePrefixes
=============================================================================
