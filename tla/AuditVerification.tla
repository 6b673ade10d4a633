-------------------------- MODULE AuditVerification --------------------------
(***************************************************************************)
(* verifyAuditChain of src/lib/audit/audit-service.ts, over the tables the *)
(* appends of AuditChain produce and over what an edit or a deletion made  *)
(* outside the application leaves of them.                                 *)
(***************************************************************************)
EXTENDS AuditChain, Sequences, FiniteSets

CONSTANTS
    Limits,         \* the values of the parameter `limit`
    MaxDamage       \* bound: rows edited or deleted outside the service

ASSUME LimitsAssumption == Limits \subseteq Nat

VARIABLE damaged        \* the <<tenant, sequence>> edited or deleted

verificationVars == <<vars, damaged>>

(***************************************************************************)
(* The walk.  Rows are read in ascending order, at most `limit` of them;   *)
(* the hash of each is recomputed from its columns and from the hash of    *)
(* the row before it; the walk stops at the first row whose hash or whose  *)
(* prevHash differs.                                                       *)
(***************************************************************************)
UpTo(rows, e) == {f \in rows : f.sequenceNum <= e.sequenceNum}

Ordered(t) ==
    LET rows == TenantRows(t)
    IN  [i \in 1 .. Cardinality(rows) |->
            CHOOSE e \in rows : Cardinality(UpTo(rows, e)) = i]

(* JSON.parse gives text back for a date, and text is hashed as it is. *)
Recomputed(e, prev) ==
    ComputeEventHash(e.tenantId, e.sequenceNum,
                     <<e.request, e.kind, Canonical(e.metadata)>>, prev)

(* The definition after it without the comparison of the links. *)
BrokenLinkBug(rows, i) == Recomputed(rows[i], rows[i].prevHash) # rows[i].eventHash

BrokenLink(rows, i) ==
    LET prev == IF i = 1 THEN Genesis ELSE rows[i - 1].eventHash
    IN  Recomputed(rows[i], prev) # rows[i].eventHash \/ rows[i].prevHash # prev

VerifyAuditChain(t, limit) ==
    LET rows   == Ordered(t)
        events == SubSeq(rows, 1, IF limit < Len(rows) THEN limit ELSE Len(rows))
        broken == {i \in DOMAIN events : BrokenLink(events, i)}
        first  == CHOOSE i \in broken : \A j \in broken : i <= j
    IN  IF broken = {}
        THEN [ok |-> TRUE,  verifiedCount |-> Len(events)]
        ELSE [ok |-> FALSE, verifiedCount |-> first - 1]

-----------------------------------------------------------------------------
VerificationInit == Init /\ damaged = {}

Service == Next /\ UNCHANGED damaged

DamageAllowed == Cardinality(damaged) < MaxDamage

(* A column of a row is edited in the database, its hashes are not. *)
EditRow(e) ==
    /\ <<e.tenantId, e.sequenceNum>> \notin damaged
    /\ DamageAllowed
    /\ \E k \in Kinds \ {e.kind} :
          auditEvent' = (auditEvent \ {e}) \cup {[e EXCEPT !.kind = k]}
    /\ damaged' = damaged \cup {<<e.tenantId, e.sequenceNum>>}
    /\ UNCHANGED <<req, changed>>

(* A row that has a successor is deleted in the database, while no append *)
(* that read the table before the row existed could still take its number. *)
DeleteRow(e) ==
    /\ DamageAllowed
    /\ \A r \in Requests : req[r].pc = "writing" =>
          req[r].latest.sequenceNum + 1 # e.sequenceNum
    /\ \E f \in TenantRows(e.tenantId) : f.sequenceNum > e.sequenceNum
    /\ auditEvent' = auditEvent \ {e}
    /\ damaged' = damaged \cup {<<e.tenantId, e.sequenceNum>>}
    /\ UNCHANGED <<req, changed>>

Damage == \E e \in auditEvent : EditRow(e) \/ DeleteRow(e)

VerificationNext == Service \/ Damage

VerificationSpec == VerificationInit /\ [][VerificationNext]_verificationVars

-----------------------------------------------------------------------------
DamageAt(t) == {d[2] : d \in {x \in damaged : x[1] = t}}

(* Rows whose metadata went in with a date: the insert hashed {} for it,   *)
(* and the walk hashes the text the column holds.                          *)
DatedAt(t) == {e.sequenceNum : e \in {x \in TenantRows(t) : x.metadata = "isoText"}}

(* The walk reports a break exactly when one of the rows it was asked to   *)
(* look at was edited, deleted, or recorded with a date in its metadata,   *)
(* and it stops at the first of these: nothing else makes it fail, however *)
(* appends raced, and no damage within the limit passes unseen.            *)
VerdictIsExact ==
    \A t \in Tenants, limit \in Limits :
        LET verdict == VerifyAuditChain(t, limit)
            hits    == {n \in DamageAt(t) \cup DatedAt(t) : n <= limit}
        IN  IF hits = {}
            THEN verdict.ok
            ELSE /\ ~verdict.ok
                 /\ \A n \in hits : verdict.verifiedCount < n
                 /\ verdict.verifiedCount + 1 \in hits
=============================================================================
