--------------------------- MODULE PlatformProofs ---------------------------
(*************************************************************************)
(* The platform: the chain of the audit log, what it owes to the handlers *)
(* and that it implements an append-only log; the subscription gate; the *)
(* rows of the job queue; and the verification of the chain.             *)
(*************************************************************************)
EXTENDS AuditVerification, SubscriptionGate, JobQueue, FiniteSetTheorems, SequenceTheorems,
        WellFoundedInduction, TLAPS

-----------------------------------------------------------------------------
(*************************************************************************)
(* The chain of the audit log is linked and never forks, for any number of *)
(* concurrent requests and under both transaction disciplines.           *)
(*************************************************************************)

(* What a transaction reads is nothing, or the number and hash of a row. *)
LEMMA LatestIsStored ==
    ASSUME NEW t, NEW l \in Latest(t)
    PROVE  \/ TenantRows(t) = {} /\ l = NothingRead
           \/ \E e \in auditEvent :
                 /\ e.tenantId = t
                 /\ l = [sequenceNum |-> e.sequenceNum, eventHash |-> e.eventHash]
  BY DEF Latest, TenantRows, ReadOf

LEMMA InitEstablishes == Init => ChainInv
  <1> SUFFICES ASSUME Init PROVE ChainInv
    OBVIOUS
  <1>1. TypeOK
    BY DEF Init, TypeOK, ReadResults, NothingRead, Pcs, Kinds
  <1>2. AppenderHasInput /\ ReadIsStored
    BY DEF Init, AppenderHasInput, ReadIsStored
  <1> QED
    BY <1>1, <1>2
    DEF Init, ChainInv, SequenceUnique, ChainLinked, HashNumbersRow

(* A step that changes no row and leaves no transaction with another read  *)
(* keeps the invariant.                                                    *)
LEMMA RowsKept ==
    ASSUME ChainInv, auditEvent' = auditEvent, changed' \subseteq Requests,
           NEW r \in Requests,
           NEW l \in [pc : Pcs \ {"writing"}, input : Inputs \cup {NoInput},
                      kind : Kinds, latest : ReadResults],
           l.pc = "reading" => l.input \in Inputs,
           req' = [req EXCEPT ![r] = l]
    PROVE  ChainInv'
  <1>1. /\ req'[r] = l
        /\ \A o \in Requests \ {r} : req'[o] = req[o]
    BY DEF ChainInv, TypeOK
  <1>2. TypeOK'
    BY DEF ChainInv, TypeOK, ReadResults
  <1>3. AppenderHasInput'
    BY <1>1 DEF ChainInv, AppenderHasInput
  <1>4. ReadIsStored'
    BY <1>1 DEF ChainInv, ReadIsStored
  <1> QED
    BY <1>2, <1>3, <1>4
    DEF ChainInv, SequenceUnique, ChainLinked, HashNumbersRow

LEMMA CommitPreserves ==
    ASSUME ChainInv, NEW r \in Requests, CommitChange(r)
    PROVE  ChainInv'
  <1> PICK i \in Inputs :
           req' = [req EXCEPT ![r] = [@ EXCEPT !.pc = "reading", !.input = i]]
    BY DEF CommitChange
  <1> DEFINE l == [req[r] EXCEPT !.pc = "reading", !.input = i]
  <1>1. /\ l \in [pc : Pcs \ {"writing"}, input : Inputs \cup {NoInput},
                  kind : Kinds, latest : ReadResults]
        /\ l.input \in Inputs
    BY DEF ChainInv, TypeOK, Pcs
  <1>2. changed' \subseteq Requests /\ auditEvent' = auditEvent
    BY DEF ChainInv, TypeOK, CommitChange
  <1>3. req' = [req EXCEPT ![r] = l]
    OBVIOUS
  <1> HIDE DEF l
  <1> QED
    BY <1>1, <1>2, <1>3, RowsKept

LEMMA RejectPreserves ==
    ASSUME ChainInv, NEW r \in Requests, RejectRequest(r)
    PROVE  ChainInv'
  <1> PICK i \in Inputs :
           req' = [req EXCEPT ![r] = [@ EXCEPT !.pc = "reading", !.input = i,
                                               !.kind = "error"]]
    BY DEF RejectRequest
  <1> DEFINE l == [req[r] EXCEPT !.pc = "reading", !.input = i, !.kind = "error"]
  <1>1. /\ l \in [pc : Pcs \ {"writing"}, input : Inputs \cup {NoInput},
                  kind : Kinds, latest : ReadResults]
        /\ l.input \in Inputs
    BY DEF ChainInv, TypeOK, Pcs, Kinds
  <1>2. changed' \subseteq Requests /\ auditEvent' = auditEvent
    BY DEF ChainInv, TypeOK, RejectRequest
  <1>3. req' = [req EXCEPT ![r] = l]
    OBVIOUS
  <1> HIDE DEF l
  <1> QED
    BY <1>1, <1>2, <1>3, RowsKept

LEMMA ReadPreserves ==
    ASSUME ChainInv, NEW r \in Requests, ReadLatest(r)
    PROVE  ChainInv'
  <1> PICK l \in Latest(req[r].input.tenantId) :
           req' = [req EXCEPT ![r] = [@ EXCEPT !.pc = "writing", !.latest = l]]
    BY DEF ReadLatest
  <1>1. auditEvent' = auditEvent /\ changed' = changed /\ req[r].pc = "reading"
    BY DEF ReadLatest
  <1>2. \/ l = NothingRead
        \/ \E e \in auditEvent :
              /\ e.tenantId = req[r].input.tenantId
              /\ l = [sequenceNum |-> e.sequenceNum, eventHash |-> e.eventHash]
    BY LatestIsStored
  <1>3. l \in ReadResults
    BY <1>2 DEF ChainInv, TypeOK, ReadResults, NothingRead
  <1>4. /\ req'[r] = [req[r] EXCEPT !.pc = "writing", !.latest = l]
        /\ req[r] \in [pc : Pcs, input : Inputs \cup {NoInput},
                       kind : Kinds, latest : ReadResults]
        /\ \A o \in Requests \ {r} : req'[o] = req[o]
    BY DEF ChainInv, TypeOK
  <1>5. TypeOK'
    BY <1>1, <1>3, <1>4 DEF ChainInv, TypeOK, ReadResults, Pcs
  <1>6. AppenderHasInput'
    BY <1>1, <1>4 DEF ChainInv, AppenderHasInput
  <1>7. ReadIsStored'
    BY <1>1, <1>2, <1>4 DEF ChainInv, ReadIsStored
  <1> QED
    BY <1>1, <1>5, <1>6, <1>7
    DEF ChainInv, SequenceUnique, ChainLinked, HashNumbersRow

(* What the insert writes: the number after the one that was read, hanging *)
(* from the hash that was read with it.                                    *)
LEMMA NewRowFields ==
    ASSUME ChainInv, NEW r \in Requests, req[r].pc = "writing", InsertAllowed(r)
    PROVE  /\ NewRow(r).tenantId = req[r].input.tenantId
           /\ NewRow(r).tenantId \in Tenants
           /\ NewRow(r).sequenceNum = req[r].latest.sequenceNum + 1
           /\ req[r].latest.sequenceNum \in Nat
           /\ NewRow(r).prevHash = req[r].latest.eventHash
           /\ NewRow(r).request = r
           /\ NewRow(r).kind \in Kinds
           /\ NewRow(r).metadata \in Persisted
           /\ NewRow(r).eventHash.sequenceNum = NewRow(r).sequenceNum
  <1>1. req[r].input.metadata \in Metadata
    BY InputsAssumption DEF ChainInv, AppenderHasInput
  <1>2. NewRow(r).metadata \in Persisted
    BY <1>1 DEF NewRow, MetadataOf, Stored, Persisted, Metadata
  <1> QED
    BY <1>2 DEF ChainInv, TypeOK, ReadResults, NewRow, ComputeEventHash,
                InsertAllowed, ForeignKeysHold

LEMMA InsertPreserves ==
    ASSUME ChainInv, NEW r \in Requests, Insert(r)
    PROVE  ChainInv'
  <1> DEFINE added == NewRow(r)
  <1>1. /\ req[r].pc = "writing" /\ InsertAllowed(r)
        /\ auditEvent' = auditEvent \cup {added}
        /\ req' = [req EXCEPT ![r] = AfterInsert(r)]
        /\ changed' = changed
    BY DEF Insert
  <1>2. /\ added.tenantId = req[r].input.tenantId
        /\ added.tenantId \in Tenants
        /\ added.sequenceNum = req[r].latest.sequenceNum + 1
        /\ req[r].latest.sequenceNum \in Nat
        /\ added.prevHash = req[r].latest.eventHash
        /\ added.request = r
        /\ added.kind \in Kinds
        /\ added.metadata \in Persisted
        /\ added.eventHash.sequenceNum = added.sequenceNum
    BY <1>1, NewRowFields
  <1>3. \A e \in auditEvent :
            ~(e.tenantId = added.tenantId /\ e.sequenceNum = added.sequenceNum)
    BY <1>1, <1>2 DEF InsertAllowed, SequenceTaken
  <1>4. \/ req[r].latest = NothingRead
        \/ \E e \in auditEvent :
              /\ e.tenantId = req[r].input.tenantId
              /\ e.sequenceNum = req[r].latest.sequenceNum
              /\ e.eventHash = req[r].latest.eventHash
    BY <1>1 DEF ChainInv, ReadIsStored
  <1> HIDE DEF added
  <1>5. req[r] \in [pc : Pcs, input : Inputs \cup {NoInput},
                    kind : Kinds, latest : ReadResults]
    BY DEF ChainInv, TypeOK
  <1>6. AfterInsert(r) \in [pc : Pcs \ {"writing"}, input : Inputs \cup {NoInput},
                            kind : Kinds, latest : ReadResults]
        /\ AfterInsert(r).input = req[r].input
    BY <1>5 DEF AfterInsert, Pcs, Kinds
  <1>7. ReadResults \subseteq ReadResults'
    BY <1>1 DEF ReadResults
  <1>8. /\ req'[r] = AfterInsert(r)
        /\ \A o \in Requests \ {r} : req'[o] = req[o]
    BY <1>1 DEF ChainInv, TypeOK
  <1>9. TypeOK'
    <2>1. req' \in [Requests -> [pc : Pcs, input : Inputs \cup {NoInput},
                                 kind : Kinds, latest : ReadResults']]
      BY <1>1, <1>6, <1>7 DEF ChainInv, TypeOK
    <2>2. \A e \in auditEvent' :
             /\ e.tenantId \in Tenants
             /\ e.sequenceNum \in Nat \ {0}
             /\ e.request \in Requests
             /\ e.kind \in Kinds
             /\ e.metadata \in Persisted
      BY <1>1, <1>2 DEF ChainInv, TypeOK
    <2> QED
      BY <1>1, <2>1, <2>2 DEF ChainInv, TypeOK
  <1>10. AppenderHasInput'
    BY <1>1, <1>6, <1>8 DEF ChainInv, AppenderHasInput
  <1>11. SequenceUnique'
    BY <1>1, <1>3 DEF ChainInv, SequenceUnique
  <1>12. ChainLinked'
    <2>1. ASSUME NEW e \in auditEvent
          PROVE  IF e.sequenceNum = 1
                 THEN e.prevHash = Genesis
                 ELSE \E p \in auditEvent' :
                         /\ p.tenantId = e.tenantId
                         /\ p.sequenceNum + 1 = e.sequenceNum
                         /\ e.prevHash = p.eventHash
      BY <1>1 DEF ChainInv, ChainLinked
    <2>2. CASE req[r].latest = NothingRead
      <3>1. added.sequenceNum = 1 /\ added.prevHash = Genesis
        BY <1>2, <2>2 DEF NothingRead
      <3> QED
        BY <1>1, <2>1, <3>1 DEF ChainLinked
    <2>3. CASE \E e \in auditEvent :
                  /\ e.tenantId = req[r].input.tenantId
                  /\ e.sequenceNum = req[r].latest.sequenceNum
                  /\ e.eventHash = req[r].latest.eventHash
      <3>1. PICK p \in auditEvent :
                  /\ p.tenantId = added.tenantId
                  /\ p.sequenceNum + 1 = added.sequenceNum
                  /\ added.prevHash = p.eventHash
        BY <1>2, <2>3
      <3>2. added.sequenceNum # 1
        <4>1. p.sequenceNum \in Nat \ {0}
          BY DEF ChainInv, TypeOK
        <4> QED
          BY <3>1, <4>1
      <3> QED
        BY <1>1, <2>1, <3>1, <3>2 DEF ChainLinked
    <2> QED
      BY <1>4, <2>2, <2>3
  <1>13. HashNumbersRow'
    BY <1>1, <1>2 DEF ChainInv, HashNumbersRow
  <1>14. ReadIsStored'
    BY <1>1, <1>6, <1>8 DEF ChainInv, ReadIsStored
  <1> QED
    BY <1>9, <1>10, <1>11, <1>12, <1>13, <1>14 DEF ChainInv

LEMMA FailurePreserves ==
    ASSUME ChainInv, NEW r \in Requests, InsertFails(r)
    PROVE  ChainInv'
  <1>1. req[r] \in [pc : Pcs, input : Inputs \cup {NoInput},
                    kind : Kinds, latest : ReadResults]
        /\ req[r].input \in Inputs
    BY DEF ChainInv, TypeOK, AppenderHasInput, InsertFails
  <1>2. AfterFailure(r) \in [pc : Pcs \ {"writing"}, input : Inputs \cup {NoInput},
                             kind : Kinds, latest : ReadResults]
        /\ AfterFailure(r).input \in Inputs
    BY <1>1 DEF AfterFailure, Pcs, Kinds
  <1>3. /\ req' = [req EXCEPT ![r] = AfterFailure(r)]
        /\ auditEvent' = auditEvent /\ changed' \subseteq Requests
    BY DEF InsertFails, ChainInv, TypeOK
  <1> QED
    BY <1>2, <1>3, RowsKept

LEMMA CrashPreserves ==
    ASSUME ChainInv, NEW r \in Requests, Crash(r)
    PROVE  ChainInv'
  <1> DEFINE l == [req[r] EXCEPT !.pc = "crashed"]
  <1>1. l \in [pc : Pcs \ {"writing"}, input : Inputs \cup {NoInput},
               kind : Kinds, latest : ReadResults]
        /\ l.pc # "reading"
    BY DEF ChainInv, TypeOK, Pcs
  <1>2. /\ req' = [req EXCEPT ![r] = l]
        /\ auditEvent' = auditEvent /\ changed' \subseteq Requests
    BY DEF Crash, ChainInv, TypeOK
  <1> HIDE DEF l
  <1> QED
    BY <1>1, <1>2, RowsKept

LEMMA StepPreserves == ChainInv /\ [Next]_vars => ChainInv'
  <1> SUFFICES ASSUME ChainInv, [Next]_vars
               PROVE  ChainInv'
    OBVIOUS
  <1>1. ASSUME NEW r \in Requests,
               \/ CommitChange(r) \/ RejectRequest(r) \/ ReadLatest(r)
               \/ Insert(r) \/ InsertFails(r) \/ Crash(r)
        PROVE  ChainInv'
    BY <1>1, CommitPreserves, RejectPreserves, ReadPreserves, InsertPreserves,
       FailurePreserves, CrashPreserves
  <1>2. CASE UNCHANGED vars
    BY <1>2 DEF vars, ChainInv, TypeOK, ReadResults, AppenderHasInput,
                SequenceUnique, ChainLinked, HashNumbersRow, ReadIsStored
  <1> QED
    BY <1>1, <1>2 DEF Next, Progress

(* ChainInv holds in every state, whatever the number of invocations, the  *)
(* inputs they carry and the transaction discipline of the database.       *)
THEOREM ChainInvariant == Spec => []ChainInv
  BY InitEstablishes, StepPreserves, PTL DEF Spec

(* The rows of a tenant form one chain from the genesis hash. *)
THEOREM ChainIsLinked == Spec => []ChainLinked
  <1>1. ChainInv => ChainLinked
    BY DEF ChainInv
  <1> QED
    BY <1>1, ChainInvariant, PTL

(* Two rows hanging from the same hash are the same row: hashes carry the  *)
(* number of their row, so the rows have one number, which is unique.      *)
LEMMA LinkedDoesNotFork == ChainInv => NoFork
  <1> SUFFICES ASSUME ChainInv, NEW e \in auditEvent, NEW f \in auditEvent,
                      e.tenantId = f.tenantId, e.prevHash = f.prevHash
               PROVE  e = f
    BY DEF NoFork
  <1>0. \A x \in auditEvent : x.sequenceNum \in Nat \ {0}
    BY DEF ChainInv, TypeOK
  <1>1. \A x \in auditEvent : x.prevHash.sequenceNum + 1 = x.sequenceNum
    <2> SUFFICES ASSUME NEW x \in auditEvent
                 PROVE  x.prevHash.sequenceNum + 1 = x.sequenceNum
      OBVIOUS
    <2>1. CASE x.sequenceNum = 1
      <3>1. x.prevHash = Genesis
        BY <2>1 DEF ChainInv, ChainLinked
      <3> QED
        BY <2>1, <3>1 DEF Genesis
    <2>2. CASE x.sequenceNum # 1
      <3>1. PICK p \in auditEvent : /\ p.sequenceNum + 1 = x.sequenceNum
                                    /\ x.prevHash = p.eventHash
        BY <2>2 DEF ChainInv, ChainLinked
      <3> QED
        BY <3>1 DEF ChainInv, HashNumbersRow
    <2> QED
      BY <2>1, <2>2
  <1>2. e.sequenceNum = f.sequenceNum
    BY <1>1
  <1> QED
    BY <1>2 DEF ChainInv, SequenceUnique

(* The chain never forks. *)
THEOREM ChainDoesNotFork == Spec => []NoFork
  BY ChainInvariant, LinkedDoesNotFork, PTL

-----------------------------------------------------------------------------
(*************************************************************************)
(* SuccessIsAudited: an answer waits for its entries, and entries stay.  *)
(*************************************************************************)

(* What invocation l, in place r, owes the table of rows.                  *)
Owes(l, r, rows) ==
    /\ l.pc = "idle" => l.kind = "event"
    /\ l.pc \in {"reading", "writing"} /\ l.kind = "always" =>
          \E e \in rows : e.request = r /\ e.kind = "event"
    /\ l.pc = "ok" /\ l.input.caller = "api" =>
          \A k \in {"event", "always"} :
              \E e \in rows : e.request = r /\ e.kind = k

(* A handler that has come to the wrapper's event has its own in the log:  *)
(* without this a success could follow the second append alone.            *)
AuditedInv ==
    ChainInv /\ \A r \in Requests : Owes(req[r], r, auditEvent)

(* Rows only come, so a step that changes one invocation has to see to     *)
(* that one alone.                                                         *)
LEMMA OwedByOne ==
    ASSUME AuditedInv, ChainInv', NEW r \in Requests, NEW l,
           req' = [req EXCEPT ![r] = l],
           auditEvent \subseteq auditEvent', Owes(l, r, auditEvent')
    PROVE  AuditedInv'
  <1>1. req \in [Requests -> [pc : Pcs, input : Inputs \cup {NoInput},
                              kind : Kinds, latest : ReadResults]]
    BY DEF AuditedInv, ChainInv, TypeOK
  <1>2. \A o \in Requests : req'[o] = IF o = r THEN l ELSE req[o]
    BY <1>1
  <1>3. ASSUME NEW o \in Requests PROVE Owes(req'[o], o, auditEvent')
    <2>1. CASE o = r
      BY <1>2, <2>1
    <2>2. CASE o # r
      <3>1. Owes(req[o], o, auditEvent)
        BY DEF AuditedInv
      <3> QED
        BY <1>2, <2>2, <3>1 DEF Owes
    <2> QED
      BY <2>1, <2>2
  <1> QED
    BY <1>3 DEF AuditedInv

LEMMA AuditedSteps == AuditedInv /\ [Next]_vars => AuditedInv'
  <1> SUFFICES ASSUME AuditedInv, [Next]_vars PROVE AuditedInv'
    OBVIOUS
  <1>0. ChainInv'
    BY StepPreserves DEF AuditedInv
  <1>t. req \in [Requests -> [pc : Pcs, input : Inputs \cup {NoInput},
                              kind : Kinds, latest : ReadResults]]
    BY DEF AuditedInv, ChainInv, TypeOK
  <1>o. \A r \in Requests : Owes(req[r], r, auditEvent)
    BY DEF AuditedInv
  <1>1. ASSUME NEW r \in Requests, CommitChange(r) PROVE AuditedInv'
    <2>1. PICK i \in Inputs :
             req' = [req EXCEPT ![r] = [req[r] EXCEPT !.pc = "reading", !.input = i]]
      BY <1>1 DEF CommitChange
    <2>2. Owes([req[r] EXCEPT !.pc = "reading", !.input = i], r, auditEvent')
      BY <1>o, <1>t, <1>1 DEF CommitChange, Owes
    <2> QED
      BY <1>0, <1>1, <2>1, <2>2, OwedByOne DEF CommitChange
  <1>2. ASSUME NEW r \in Requests, RejectRequest(r) PROVE AuditedInv'
    <2>1. PICK i \in Inputs :
             req' = [req EXCEPT ![r] = [req[r] EXCEPT !.pc = "reading",
                                           !.input = i, !.kind = "error"]]
      BY <1>2 DEF RejectRequest
    <2>2. Owes([req[r] EXCEPT !.pc = "reading", !.input = i, !.kind = "error"],
               r, auditEvent')
      BY <1>t DEF Owes
    <2> QED
      BY <1>0, <1>2, <2>1, <2>2, OwedByOne DEF RejectRequest
  <1>3. ASSUME NEW r \in Requests, ReadLatest(r) PROVE AuditedInv'
    <2>1. PICK m : req' = [req EXCEPT ![r] = [req[r] EXCEPT !.pc = "writing",
                                                            !.latest = m]]
      BY <1>3 DEF ReadLatest
    <2>2. Owes([req[r] EXCEPT !.pc = "writing", !.latest = m], r, auditEvent')
      BY <1>o, <1>t, <1>3 DEF ReadLatest, Owes
    <2> QED
      BY <1>0, <1>3, <2>1, <2>2, OwedByOne DEF ReadLatest
  <1>4. ASSUME NEW r \in Requests, Insert(r) PROVE AuditedInv'
    <2>1. NewRow(r).request = r /\ NewRow(r).kind = req[r].kind
      BY DEF NewRow
    <2>2. NewRow(r) \in auditEvent' /\ auditEvent \subseteq auditEvent'
      BY <1>4 DEF Insert
    <2>3. Owes(AfterInsert(r), r, auditEvent')
      <3>1. CASE req[r].kind = "event" /\ req[r].input.caller = "api"
        <4>1. AfterInsert(r) = [req[r] EXCEPT !.pc = "reading", !.kind = "always"]
          BY <3>1 DEF AfterInsert
        <4> QED
          BY <1>t, <2>1, <2>2, <3>1, <4>1 DEF Owes
      <3>2. CASE req[r].kind = "error"
        <4>1. AfterInsert(r) = [req[r] EXCEPT !.pc = "error"]
          BY <3>2 DEF AfterInsert
        <4> QED
          BY <1>t, <4>1 DEF Owes
      <3>3. CASE ~(req[r].kind = "event" /\ req[r].input.caller = "api")
                 /\ req[r].kind # "error"
        <4>1. AfterInsert(r) = [req[r] EXCEPT !.pc = "ok"]
          BY <3>3 DEF AfterInsert
        <4>2. req[r].input.caller = "api" => req[r].kind = "always"
          BY <1>t, <3>3 DEF Kinds
        <4> QED
          BY <1>t, <1>o, <1>4, <2>1, <2>2, <4>1, <4>2 DEF Owes, Insert
      <3> QED
        BY <3>1, <3>2, <3>3
    <2> QED
      BY <1>0, <1>4, <2>2, <2>3, OwedByOne DEF Insert
  <1>5. ASSUME NEW r \in Requests, InsertFails(r) PROVE AuditedInv'
    <2>1. Owes(AfterFailure(r), r, auditEvent')
      BY <1>t, <1>o, <1>5 DEF Owes, AfterFailure, InsertFails, Kinds
    <2> QED
      BY <1>0, <1>5, <2>1, OwedByOne DEF InsertFails
  <1>6. ASSUME NEW r \in Requests, Crash(r) PROVE AuditedInv'
    <2>1. req' = [req EXCEPT ![r] = [req[r] EXCEPT !.pc = "crashed"]]
      BY <1>6, <1>t DEF Crash
    <2>2. Owes([req[r] EXCEPT !.pc = "crashed"], r, auditEvent')
      BY <1>t DEF Owes
    <2> QED
      BY <1>0, <1>6, <2>1, <2>2, OwedByOne DEF Crash
  <1>7. CASE UNCHANGED vars
    BY <1>0, <1>7, <1>o DEF AuditedInv, vars
  <1> QED
    BY <1>1, <1>2, <1>3, <1>4, <1>5, <1>6, <1>7 DEF Next, Progress

(* A handler never answers with success unless its own event and the       *)
(* wrapper's are both in the log, whatever appends it raced with           *)
(* (createApiHandler with alwaysAudit, recordAuditEvent).                  *)
THEOREM SuccessesAreAudited == Spec => []SuccessIsAudited
  <1>1. Init => AuditedInv
    BY InitEstablishes DEF Init, AuditedInv, Owes
  <1>2. AuditedInv => SuccessIsAudited
    BY DEF AuditedInv, Owes, SuccessIsAudited
  <1> QED
    BY <1>1, <1>2, AuditedSteps, PTL DEF Spec

-----------------------------------------------------------------------------
(*************************************************************************)
(* Every invocation is answered, where appends do not wait for one       *)
(* another.  tlapm cannot tell what ENABLED means: that an append which  *)
(* is due can go on (AppendsCanGoOn) is a hypothesis here, and part of   *)
(* the property the run checks.                                          *)
(*************************************************************************)

(* The steps an invocation has left at most: of each kind of event there is *)
(* one append, which is not tried again.                                    *)
StepsLeft(r) ==
    CASE r.pc = "reading" /\ r.kind = "event"  -> 6
      [] r.pc = "writing" /\ r.kind = "event"  -> 5
      [] r.pc = "reading" /\ r.kind = "always" -> 4
      [] r.pc = "writing" /\ r.kind = "always" -> 3
      [] r.pc = "reading" /\ r.kind = "error"  -> 2
      [] r.pc = "writing" /\ r.kind = "error"  -> 1
      [] OTHER                                 -> 0

UnderWay(r) == req[r].pc \in {"reading", "writing"}

LEMMA StepsLeftTypes == ASSUME NEW r PROVE StepsLeft(r) \in 0 .. 6
  BY DEF StepsLeft

InvocationType == [pc : Pcs, input : Inputs \cup {NoInput}, kind : Kinds, latest : ReadResults]

LEMMA ProgressShortens ==
    ASSUME ChainInv, NEW r \in Requests, Progress(r)
    PROVE  /\ StepsLeft(req'[r]) < StepsLeft(req[r])
           /\ req'[r].pc \in {"reading", "writing"} \cup Answered
  <1>0. req \in [Requests -> InvocationType] /\ req[r] \in InvocationType
    BY DEF ChainInv, TypeOK, InvocationType
  <1>1. CASE ReadLatest(r)
    <2>1. PICK l : req' = [req EXCEPT ![r] = [@ EXCEPT !.pc = "writing", !.latest = l]]
      BY <1>1 DEF ReadLatest
    <2>2. PICK n : n = [req[r] EXCEPT !.pc = "writing", !.latest = l]
      OBVIOUS
    <2>3. n.pc = "writing" /\ n.kind = req[r].kind /\ req' = [req EXCEPT ![r] = n]
      BY <1>0, <2>1, <2>2 DEF InvocationType
    <2>4. req'[r] = n /\ req[r].pc = "reading" /\ req[r].kind \in Kinds
      BY <1>0, <1>1, <2>3 DEF ReadLatest, InvocationType
    <2> QED
      BY <2>3, <2>4 DEF StepsLeft, Kinds
  <1>2. CASE Insert(r)
    <2>1. PICK n : n = AfterInsert(r) /\ req'[r] = n
      BY <1>0, <1>2 DEF Insert
    <2>2. req[r].pc = "writing" /\ req[r].kind \in Kinds
      BY <1>0, <1>2 DEF Insert, InvocationType
    <2>3. \/ req[r].kind = "event" /\ n.pc = "reading" /\ n.kind = "always"
          \/ n.pc \in {"error", "ok"}
      BY <1>0, <2>1 DEF AfterInsert, InvocationType
    <2> QED
      BY <2>1, <2>2, <2>3 DEF StepsLeft, Kinds, Answered
  <1>3. CASE InsertFails(r)
    <2>1. PICK n : n = AfterFailure(r) /\ req'[r] = n
      BY <1>0, <1>3 DEF InsertFails
    <2>2. req[r].pc = "writing" /\ req[r].kind \in Kinds
      BY <1>0, <1>3 DEF InsertFails, InvocationType
    <2>3. \/ req[r].kind # "error" /\ n.pc = "reading" /\ n.kind = "error"
          \/ n.pc \in {"thrown", "ok"}
      BY <1>0, <2>1 DEF AfterFailure, InvocationType
    <2> QED
      BY <2>1, <2>2, <2>3 DEF StepsLeft, Kinds, Answered
  <1> QED
    BY <1>1, <1>2, <1>3 DEF Progress

(* Whatever else happens, an invocation stays where it is, or its process   *)
(* dies.                                                                    *)
LEMMA OthersLeaveIt ==
    ASSUME ChainInv, [Next]_vars, NEW r \in Requests, UnderWay(r), ~Progress(r)
    PROVE  req'[r] = req[r] \/ req'[r].pc = "crashed"
  <1>0. req \in [Requests -> InvocationType] /\ req[r] \in InvocationType
    BY DEF ChainInv, TypeOK, InvocationType
  <1>1. ASSUME NEW o \in Requests, o # r, NEW n, req' = [req EXCEPT ![o] = n]
        PROVE  req'[r] = req[r]
    BY <1>0, <1>1
  <1>2. ASSUME NEW o \in Requests, o # r,
               CommitChange(o) \/ RejectRequest(o) \/ Progress(o) \/ Crash(o)
        PROVE  req'[r] = req[r]
    <2>1. \E n : req' = [req EXCEPT ![o] = n]
      BY <1>2 DEF CommitChange, RejectRequest, Progress, ReadLatest, Insert, InsertFails, Crash
    <2> QED
      BY <1>1, <1>2, <2>1
  <1>3. ~CommitChange(r) /\ ~RejectRequest(r)
    BY DEF CommitChange, RejectRequest, UnderWay
  <1>4. ASSUME Crash(r) PROVE req'[r].pc = "crashed"
    BY <1>0, <1>4 DEF Crash, InvocationType
  <1>5. ASSUME UNCHANGED vars PROVE req'[r] = req[r]
    BY <1>5 DEF vars
  <1> QED
    BY <1>2, <1>3, <1>4, <1>5 DEF Next

Answering == Spec /\ []AppendsCanGoOn

IsWithin(r, n) == UnderWay(r) /\ StepsLeft(req[r]) <= n

IsOver(r) == req[r].pc \in Answered \cup {"crashed"}

Shortens(r, m, n) == IsWithin(r, m) ~> IsOver(r) \/ IsWithin(r, n)

LEMMA AppendsShorten ==
    ASSUME ~SerialTransactions, NEW r \in Requests, NEW n \in 0 .. 5, NEW m, m = n + 1
    PROVE  Answering => Shortens(r, m, n)
  <1>1. ChainInv /\ IsWithin(r, m) /\ <<Progress(r)>>_vars => IsOver(r)' \/ IsWithin(r, n)'
    <2> SUFFICES ASSUME ChainInv, IsWithin(r, m), Progress(r) PROVE IsOver(r)' \/ IsWithin(r, n)'
      OBVIOUS
    <2>1. /\ StepsLeft(req'[r]) < StepsLeft(req[r])
          /\ req'[r].pc \in {"reading", "writing"} \cup Answered
      BY ProgressShortens
    <2> QED
      BY <2>1, StepsLeftTypes DEF IsWithin, UnderWay, IsOver
  <1>2. ChainInv /\ IsWithin(r, m) /\ [Next]_vars =>
           IsOver(r)' \/ IsWithin(r, m)' \/ IsWithin(r, n)'
    <2> SUFFICES ASSUME ChainInv, IsWithin(r, m), [Next]_vars
                 PROVE  IsOver(r)' \/ IsWithin(r, m)' \/ IsWithin(r, n)'
      OBVIOUS
    <2>1. CASE Progress(r)
      <3>1. /\ StepsLeft(req'[r]) < StepsLeft(req[r])
            /\ req'[r].pc \in {"reading", "writing"} \cup Answered
        BY <2>1, ProgressShortens
      <3> QED
        BY <3>1, StepsLeftTypes DEF IsWithin, UnderWay, IsOver
    <2>2. CASE ~Progress(r)
      <3>1. req'[r] = req[r] \/ req'[r].pc = "crashed"
        BY <2>2, OthersLeaveIt DEF IsWithin
      <3> QED
        BY <3>1 DEF IsWithin, UnderWay, IsOver
    <2> QED
      BY <2>1, <2>2
  <1>3. IsWithin(r, m) => AppendIsDue(r)
    BY DEF IsWithin, UnderWay, AppendIsDue
  <1>4. Answering => []ChainInv /\ [][Next]_vars
    BY InitEstablishes, StepPreserves, PTL DEF Answering, Spec
  <1>5. Fairness => RunsOn(r)
    BY DEF Fairness
  <1>6. AppendsCanGoOn => AppendCanGoOn(r)
    BY DEF AppendsCanGoOn
  <1> QED
    BY <1>1, <1>2, <1>3, <1>4, <1>5, <1>6, PTL
       DEF Answering, Spec, Shortens, RunsOn, AppendCanGoOn

LEMMA ItEnds ==
    ASSUME ~SerialTransactions, NEW r \in Requests PROVE Answering => Ends(r)
  <1>1. Answering => Shortens(r, 1, 0) /\ Shortens(r, 2, 1) /\ Shortens(r, 3, 2)
                     /\ Shortens(r, 4, 3) /\ Shortens(r, 5, 4) /\ Shortens(r, 6, 5)
    <2>1. /\ 0 \in 0 .. 5 /\ 1 \in 0 .. 5 /\ 2 \in 0 .. 5
          /\ 3 \in 0 .. 5 /\ 4 \in 0 .. 5 /\ 5 \in 0 .. 5
          /\ 1 = 0 + 1 /\ 2 = 1 + 1 /\ 3 = 2 + 1 /\ 4 = 3 + 1 /\ 5 = 4 + 1 /\ 6 = 5 + 1
      OBVIOUS
    <2> QED
      BY <2>1, AppendsShorten
  <1>2. ChainInv => ~IsWithin(r, 0)
    <2> SUFFICES ASSUME ChainInv PROVE ~IsWithin(r, 0)
      OBVIOUS
    <2>1. req[r].kind \in Kinds
      BY DEF ChainInv, TypeOK
    <2> QED
      BY <2>1 DEF IsWithin, UnderWay, StepsLeft, Kinds
  <1>3. req[r].pc = "reading" => IsWithin(r, 6)
    BY DEF IsWithin, UnderWay, StepsLeft
  <1>4. Answering => []ChainInv
    BY InitEstablishes, StepPreserves, PTL DEF Answering, Spec
  <1> QED
    BY <1>1, <1>2, <1>3, <1>4, PTL DEF Shortens, IsOver, Ends

(* However many appends race for the numbers of a chain, whichever lose,    *)
(* and whatever the foreign keys refuse: every invocation is answered after *)
(* at most three appends, unless its process dies; under READ COMMITTED,    *)
(* where none waits for another (createApiHandler).                         *)
THEOREM RequestsEnd ==
    ASSUME ~SerialTransactions PROVE Spec /\ []AppendsCanGoOn => EveryRequestEnds
  <1>1. \A r \in Requests : Answering => Ends(r)
    BY ItEnds
  <1> QED
    BY <1>1 DEF Answering, EveryRequestEnds

-----------------------------------------------------------------------------
(*************************************************************************)
(* The refinement of AuditLog: what the table shows of each tenant, taken *)
(* as a sequence, is the log; a row inserted with the next number appends *)
(* to it.                                                                *)
(*************************************************************************)

(* The log as a function of a set of rows, so that the lemmas below speak  *)
(* of the rows before a step and of those after it alike.                  *)
LogEntries == [request : Requests, kind : Kinds, metadata : Persisted]

EntryOf(e) == [request |-> e.request, kind |-> e.kind, metadata |-> e.metadata]

Numbers(S) == {e.sequenceNum : e \in S}

Numbered(S) == \A e, f \in S : e.sequenceNum = f.sequenceNum => e = f

EntriesOf(S) ==
    [n \in Numbers(S) |-> EntryOf(CHOOSE e \in S : e.sequenceNum = n)]

(* The log at a row's number is that row's entry. *)
LEMMA EntryAt ==
    ASSUME NEW S, Numbered(S), NEW e \in S
    PROVE  EntriesOf(S)[e.sequenceNum] = EntryOf(e)
  <1> DEFINE c == CHOOSE x \in S : x.sequenceNum = e.sequenceNum
  <1>1. c \in S /\ c.sequenceNum = e.sequenceNum
    OBVIOUS
  <1>2. c = e
    BY <1>1 DEF Numbered
  <1> QED
    BY <1>2 DEF EntriesOf, Numbers

(* Rows numbered 1 to n form a sequence of n entries. *)
LEMMA EntriesAreSequence ==
    ASSUME NEW S, NEW n \in Nat, Numbered(S), Numbers(S) = 1..n,
           \A e \in S : EntryOf(e) \in LogEntries
    PROVE  EntriesOf(S) \in Seq(LogEntries) /\ Len(EntriesOf(S)) = n
  <1>1. DOMAIN EntriesOf(S) = 1..n
    BY DEF EntriesOf
  <1>2. \A k \in 1..n : EntriesOf(S)[k] \in LogEntries
    <2> SUFFICES ASSUME NEW k \in 1..n PROVE EntriesOf(S)[k] \in LogEntries
      OBVIOUS
    <2>1. PICK e \in S : e.sequenceNum = k
      BY DEF Numbers
    <2> QED
      BY <2>1, EntryAt
  <1>3. EntriesOf(S) = [k \in 1..n |-> EntriesOf(S)[k]]
    BY <1>1 DEF EntriesOf
  <1>4. [k \in 1..n |-> EntriesOf(S)[k]] \in Seq(LogEntries)
    BY <1>2
  <1>5. EntriesOf(S) \in Seq(LogEntries)
    BY <1>3, <1>4
  <1> QED
    BY <1>1, <1>5

(* The row numbered next appends its entry. *)
LEMMA EntriesAppend ==
    ASSUME NEW S, NEW n \in Nat, Numbered(S), Numbers(S) = 1..n,
           \A e \in S : EntryOf(e) \in LogEntries,
           NEW x, x.sequenceNum = n + 1, EntryOf(x) \in LogEntries
    PROVE  /\ Numbers(S \cup {x}) = 1..(n + 1)
           /\ EntriesOf(S \cup {x}) = Append(EntriesOf(S), EntryOf(x))
  <1> DEFINE T == S \cup {x}
  <1>1. Numbers(T) = 1..(n + 1)
    <2>1. Numbers(T) = Numbers(S) \cup {n + 1}
      BY DEF Numbers
    <2>2. (1..n) \cup {n + 1} = 1..(n + 1)
      OBVIOUS
    <2> QED
      BY <2>1, <2>2
  <1>2. \A e \in S : e.sequenceNum # n + 1
    BY DEF Numbers
  <1>3. Numbered(T)
    BY <1>2 DEF Numbered
  <1>4. EntriesOf(S) \in Seq(LogEntries) /\ Len(EntriesOf(S)) = n
    BY EntriesAreSequence
  <1>5. EntriesOf(T) \in Seq(LogEntries) /\ Len(EntriesOf(T)) = n + 1
    <2>1. \A e \in T : EntryOf(e) \in LogEntries
      OBVIOUS
    <2> HIDE DEF T
    <2> QED
      BY <1>1, <1>3, <2>1, EntriesAreSequence
  <1>6. \A k \in 1..n : EntriesOf(T)[k] = EntriesOf(S)[k]
    <2> SUFFICES ASSUME NEW k \in 1..n
                 PROVE  EntriesOf(T)[k] = EntriesOf(S)[k]
      OBVIOUS
    <2>1. PICK e \in S : e.sequenceNum = k
      BY DEF Numbers
    <2>2. EntriesOf(S)[k] = EntryOf(e)
      BY <2>1, EntryAt
    <2>3. EntriesOf(T)[k] = EntryOf(e)
      BY <1>3, <2>1, EntryAt
    <2> QED
      BY <2>2, <2>3
  <1>7. EntriesOf(T)[n + 1] = EntryOf(x)
    BY <1>3, EntryAt
  <1> HIDE DEF T
  <1>8. Append(EntriesOf(S), EntryOf(x)) = EntriesOf(T)
    BY <1>4, <1>5, <1>6, <1>7
  <1> QED
    BY <1>1, <1>8 DEF T

-----------------------------------------------------------------------------
(* No number of a tenant is left out: with this the rows are a sequence.   *)
LogInv ==
    ChainInv /\ \A t \in Tenants : \E n \in Nat : Numbers(TenantRows(t)) = 1..n

LEMMA LogOfRows == \A t : LogOf(t) = EntriesOf(TenantRows(t))
  BY DEF LogOf, EntriesOf, Numbers, EntryOf

LEMMA TenantRowsNumbered ==
    ASSUME ChainInv, NEW t
    PROVE  /\ Numbered(TenantRows(t))
           /\ \A e \in TenantRows(t) : EntryOf(e) \in LogEntries
  BY DEF ChainInv, TypeOK, SequenceUnique, TenantRows, Numbered, EntryOf, LogEntries

(* An append that the unique index lets through is numbered just after the *)
(* last row: an older read would meet a number that is taken.              *)
LEMMA AppendIsNext ==
    ASSUME LogInv, NEW r \in Requests, Insert(r),
           NEW n \in Nat, Numbers(TenantRows(req[r].input.tenantId)) = 1..n
    PROVE  NewRow(r).sequenceNum = n + 1
  <1> DEFINE t == req[r].input.tenantId
             k == req[r].latest.sequenceNum
  <1>1. NewRow(r).sequenceNum = k + 1
    BY DEF NewRow
  <1>2. k \in Nat
    BY DEF LogInv, ChainInv, TypeOK, ReadResults
  <1>3. ~ (k + 1 \in Numbers(TenantRows(t)))
    BY DEF Insert, InsertAllowed, SequenceTaken, Numbers, TenantRows
  <1>4. k = 0 \/ k \in Numbers(TenantRows(t))
    BY DEF LogInv, ChainInv, ReadIsStored, Insert, NothingRead, Numbers, TenantRows
  <1> QED
    BY <1>1, <1>2, <1>3, <1>4

(* The insert appends one entry to the log of one tenant. *)
LEMMA InsertAppends ==
    ASSUME LogInv, NEW r \in Requests, Insert(r)
    PROVE  /\ \A t \in Tenants : \E n \in Nat : Numbers(TenantRows(t)') = 1..n
           /\ \E o \in Tenants, e \in LogEntries :
                 [t \in Tenants |-> LogOf(t)]'
                    = [[t \in Tenants |-> LogOf(t)] EXCEPT ![o] = Append(@, e)]
  <1>0. ChainInv /\ ChainInv'
    BY StepPreserves DEF LogInv, Next, Progress
  <1>1. PICK a \in Tenants, x \in auditEvent' :
           /\ a = req[r].input.tenantId /\ x = NewRow(r)
           /\ x.tenantId = a /\ auditEvent' = auditEvent \cup {x}
    BY DEF Insert, InsertAllowed, ForeignKeysHold, NewRow
  <1>2. EntryOf(x) \in LogEntries
    BY <1>0 DEF ChainInv, TypeOK, EntryOf, LogEntries
  <1>3. TenantRows(a)' = TenantRows(a) \cup {x}
    BY <1>1 DEF TenantRows
  <1>4. \A o \in Tenants : o # a => TenantRows(o)' = TenantRows(o)
    BY <1>1 DEF TenantRows
  <1>5. PICK n \in Nat : Numbers(TenantRows(a)) = 1..n
    BY DEF LogInv
  <1>6. x.sequenceNum = n + 1
    BY <1>1, <1>5, AppendIsNext
  <1>7. /\ Numbers(TenantRows(a)') = 1..(n + 1)
        /\ EntriesOf(TenantRows(a)') = Append(EntriesOf(TenantRows(a)), EntryOf(x))
    <2>1. /\ Numbered(TenantRows(a))
          /\ \A e \in TenantRows(a) : EntryOf(e) \in LogEntries
      BY <1>0, TenantRowsNumbered
    <2>2. /\ Numbers(TenantRows(a) \cup {x}) = 1..(n + 1)
          /\ EntriesOf(TenantRows(a) \cup {x})
                = Append(EntriesOf(TenantRows(a)), EntryOf(x))
      <3> DEFINE S == TenantRows(a)
      <3>1. /\ Numbered(S) /\ \A e \in S : EntryOf(e) \in LogEntries
            /\ Numbers(S) = 1..n
        BY <1>5, <2>1
      <3> HIDE DEF S
      <3>2. /\ Numbers(S \cup {x}) = 1..(n + 1)
            /\ EntriesOf(S \cup {x}) = Append(EntriesOf(S), EntryOf(x))
        BY <1>2, <1>6, <3>1, EntriesAppend
      <3> QED
        BY <3>2 DEF S
    <2> QED
      BY <1>3, <2>2
  <1>8. \A o \in Tenants : \E m \in Nat : Numbers(TenantRows(o)') = 1..m
    BY <1>4, <1>7 DEF LogInv
  <1>9. [t \in Tenants |-> LogOf(t)]'
           = [[t \in Tenants |-> LogOf(t)] EXCEPT ![a] = Append(@, EntryOf(x))]
    <2>1. \A o \in Tenants :
             LogOf(o)' = IF o = a THEN Append(LogOf(o), EntryOf(x)) ELSE LogOf(o)
      <3>1. \A o : LogOf(o)' = EntriesOf(TenantRows(o)')
        BY DEF LogOf, EntriesOf, Numbers, EntryOf, TenantRows
      <3> QED
        BY <1>4, <1>7, <3>1, LogOfRows
    <2> QED
      BY <2>1
  <1> QED
    BY <1>2, <1>8, <1>9

(* A step that appends no row leaves every log as it was. *)
LEMMA OtherStepsStutter ==
    ASSUME LogInv, UNCHANGED auditEvent
    PROVE  /\ \A t \in Tenants : \E n \in Nat : Numbers(TenantRows(t)') = 1..n
           /\ [t \in Tenants |-> LogOf(t)]' = [t \in Tenants |-> LogOf(t)]
  BY DEF LogInv, TenantRows, LogOf

LEMMA LogSteps ==
    ASSUME LogInv, [Next]_vars
    PROVE  LogInv' /\ [Abstract!LogNext]_[t \in Tenants |-> LogOf(t)]
  <1>0. ChainInv'
    BY StepPreserves DEF LogInv
  <1>1. ASSUME NEW r \in Requests, Insert(r)
        PROVE  LogInv' /\ [Abstract!LogNext]_[t \in Tenants |-> LogOf(t)]
    BY <1>0, <1>1, InsertAppends
    DEF LogInv, Abstract!LogNext, Abstract!AppendEntry, LogEntries
  <1>2. ASSUME UNCHANGED auditEvent
        PROVE  LogInv' /\ [Abstract!LogNext]_[t \in Tenants |-> LogOf(t)]
    BY <1>0, <1>2, OtherStepsStutter DEF LogInv
  <1> QED
    BY <1>1, <1>2 DEF Next, Progress, vars, CommitChange, RejectRequest,
                      ReadLatest, InsertFails, Crash

(* The table with its unique index is an append-only log per tenant: every *)
(* step of the handlers is an append at the end of one log or changes none *)
(* (recordAuditEvent).                                                     *)
THEOREM TableImplementsLog == Spec => ImplementsLog
  <1>1. Init => LogInv /\ Abstract!LogInit
    <2> SUFFICES ASSUME Init PROVE LogInv /\ Abstract!LogInit
      OBVIOUS
    <2>1. \A t : TenantRows(t) = {}
      BY DEF Init, TenantRows
    <2>2. \A t : Numbers(TenantRows(t)) = 1..0
      BY <2>1 DEF Numbers
    <2>3. \A t : LogOf(t) = <<>>
      BY <2>1 DEF LogOf
    <2> QED
      BY <2>2, <2>3, InitEstablishes DEF LogInv, Abstract!LogInit
  <1>2. LogInv /\ [Next]_vars => LogInv'
    BY LogSteps
  <1>3. LogInv /\ [Next]_vars => [Abstract!LogNext]_[t \in Tenants |-> LogOf(t)]
    BY LogSteps
  <1>4. Spec => Abstract!LogInit
    BY <1>1, PTL DEF Spec
  <1>5. Spec => [][Abstract!LogNext]_[t \in Tenants |-> LogOf(t)]
    BY <1>1, <1>2, <1>3, PTL DEF Spec
  <1>6. Abstract!LogInit /\ [][Abstract!LogNext]_[t \in Tenants |-> LogOf(t)]
           => Abstract!LogSpec
    BY DEF Abstract!LogSpec
  <1> QED
    BY <1>4, <1>5, <1>6, PTL DEF ImplementsLog

-----------------------------------------------------------------------------
(*************************************************************************)
(* SubInv of SubscriptionGate, for any windows, requests and runs: a row *)
(* that was moved was over for the days of the move (RowIsEarned), and so *)
(* was the row a run of the cron still holds in its hands.               *)
(*************************************************************************)

(* The days a subscription must at least be over at each stage. *)
LockGap == Grace + (LockAfter - SuspendAfter)

(* Nobody has been refunded, canceled or overtaken. *)
InOrder == paid /\ ~overtaken

(* What the row of a tenant in order tells of the days since its period.   *)
RowIsEarned ==
    /\ sub.status # "canceled"
    /\ sub.status = "none" => sub.periodEnd = NoDate
    /\ sub.status \in {"past_due", "suspended", "locked"} => sub.periodEnd # NoDate
    /\ sub.status = "past_due" => sub.periodEnd < today /\ sub.periodEnd + Grace < sub.graceEnds
    /\ sub.status = "suspended" => sub.periodEnd < today /\ sub.periodEnd + Grace < sub.suspendedAt
    /\ sub.status = "locked" => sub.periodEnd + LockGap < today

(* What a move that no order has overtaken was decided on. *)
MoveIsEarned(r) ==
    /\ sub.periodEnd # NoDate
    /\ sub.periodEnd < r.at
    /\ r.move = "suspend" => sub.periodEnd + Grace < r.at
    /\ r.move = "lock" => sub.periodEnd + LockGap < r.at

ActorRecord == [pc : {"idle", "find", "move"}, pass : 1 .. 3, at : Dates,
                move : Moves, stale : BOOLEAN]

(* Where an actor may be.                                                  *)
ActorIsSound(r) ==
    /\ r.at <= today
    /\ r.pc = "move" => /\ r.move # "none" /\ sub.status # "none"
                        /\ InOrder /\ ~r.stale => MoveIsEarned(r)

SubIInv ==
    /\ SubTypeOK
    /\ \A a \in Actors : ActorIsSound(actor[a])
    /\ sub.status = "none" => sub.periodEnd = NoDate
    /\ InOrder => RowIsEarned

LEMMA Windows ==
    /\ Grace \in Nat /\ SuspendAfter \in Nat /\ LockAfter \in Nat
    /\ Period \in Nat /\ LastDay \in Nat /\ MaxOrders \in Nat
    /\ 0 < Grace /\ Grace < SuspendAfter /\ SuspendAfter < LockAfter
    /\ LockAfter < LastDay
  BY WindowsAssumption

LEMMA SubInitHolds == SubInit => SubIInv
  <1> SUFFICES ASSUME SubInit PROVE SubIInv
    OBVIOUS
  <1>1. /\ FirstDay \in Dates /\ NoDate \in Dates /\ today = FirstDay
        /\ FirstDay \in FirstDay .. LastDay /\ NoDate <= FirstDay
    BY Windows DEF SubInit, NoDate, FirstDay, Dates
  <1>2. /\ sub.status \in {"trialing", "none"}
        /\ sub.status = "none" => sub.periodEnd = NoDate
        /\ sub \in [status : SubStatuses, periodEnd : Dates, graceEnds : Dates,
                    suspendedAt : Dates, lockedAt : Dates]
    <2>1. CASE sub = Registered
      BY <1>1, <2>1 DEF Registered, SubStatuses, InForce
    <2>2. CASE sub = NoRow
      BY <1>1, <2>2 DEF NoRow, Registered, SubStatuses
    <2> QED
      BY <2>1, <2>2 DEF SubInit
  <1>3. \A a \in Actors : /\ actor[a].at = NoDate
                           /\ actor[a].pc = "idle"
    BY DEF SubInit, Resting
  <1>4. SubTypeOK
    <2>1. Resting \in [pc : {"idle", "find", "move"}, pass : 1 .. 3,
                       at : Dates, move : Moves, stale : BOOLEAN]
      BY <1>1 DEF Resting, Moves
    <2>2. orders \in 0 .. MaxOrders
      BY Windows DEF SubInit
    <2> QED
      BY <1>1, <1>2, <2>1, <2>2 DEF SubInit, SubTypeOK
  <1> QED
    BY <1>1, <1>2, <1>3, <1>4 DEF SubIInv, RowIsEarned, ActorIsSound

LEMMA SubInvFollows == SubIInv => SubInv
  <1> SUFFICES ASSUME SubIInv PROVE SubInv
    OBVIOUS
  <1>1. /\ today \in Nat /\ sub.periodEnd \in Nat /\ sub.graceEnds \in Nat
        /\ sub.status \in SubStatuses
    BY Windows DEF SubIInv, SubTypeOK, Dates, FirstDay
  <1>2. InOrder => RowIsEarned
    BY DEF SubIInv
  <1>3. ASSUME InOrder, sub.status \in {"past_due", "suspended", "locked"}
        PROVE  PeriodIsOver(sub, today)
    BY <1>1, <1>2, <1>3, Windows DEF RowIsEarned, PeriodIsOver, LockGap
  <1>4. PaidIsOpen
    BY <1>1, <1>2, <1>3
    DEF PaidIsOpen, SubStatuses, InOrder, RowIsEarned, GateLevel, InForce
  <1>5. LockIsEarned
    <2> SUFFICES ASSUME InOrder, GateLevel(sub, today) = "locked"
                 PROVE  sub.periodEnd + Grace + (LockAfter - SuspendAfter) < today
      BY DEF LockIsEarned, InOrder
    <2>1. \/ sub.status = "past_due" /\ LockDate(sub) <= today
          \/ sub.status = "locked"
      BY <1>1, <1>2, Windows DEF GateLevel, SubStatuses, InForce, RowIsEarned, LockDate
    <2> QED
      BY <1>1, <1>2, <2>1, Windows DEF RowIsEarned, LockDate, LockGap
  <1> QED
    BY <1>4, <1>5 DEF SubInv, SubIInv

LEMMA SubTypes ==
    ASSUME SubIInv
    PROVE  /\ today \in Nat /\ today \in Dates /\ today <= LastDay
           /\ sub.periodEnd \in Nat /\ sub.graceEnds \in Nat
           /\ sub.suspendedAt \in Nat /\ sub.lockedAt \in Nat
           /\ sub.status \in SubStatuses
           /\ actor \in [Actors -> ActorRecord]
           /\ \A a \in Actors : actor[a].at \in Nat
           /\ NoDate \in Dates
  BY Windows DEF SubIInv, SubTypeOK, Dates, FirstDay, ActorRecord, NoDate

(* A step of one actor that leaves the row alone. *)
LEMMA ActorMoves ==
    ASSUME SubIInv, NEW a \in Actors, NEW r \in ActorRecord,
           actor' = [actor EXCEPT ![a] = r], ActorIsSound(r),
           UNCHANGED <<today, sub, unpaid, orders, paid, overtaken>>
    PROVE  SubIInv'
  <1>1. actor' \in [Actors -> ActorRecord]
    BY SubTypes
  <1>2. SubTypeOK'
    BY <1>1 DEF SubIInv, SubTypeOK, ActorRecord
  <1>3. \A b \in Actors : actor'[b] = IF b = a THEN r ELSE actor[b]
    BY SubTypes
  <1>4. ASSUME NEW b \in Actors PROVE ActorIsSound(actor[b])'
    BY <1>3 DEF SubIInv, ActorIsSound, MoveIsEarned, InOrder
  <1> QED
    BY <1>2, <1>4 DEF SubIInv, RowIsEarned, InOrder

LEMMA ActorsPart == /\ Actors = Gates \cup Passes
                    /\ \A p \in Passes : p \notin Gates
  BY ActorsAssumption DEF Actors

LEMMA RestingIsSound ==
    ASSUME SubIInv
    PROVE  Resting \in ActorRecord /\ ActorIsSound(Resting)
  BY SubTypes DEF Resting, ActorRecord, Moves, ActorIsSound, NoDate

LEMMA EnterGateKeeps ==
    ASSUME SubIInv, NEW g \in Gates, EnterGate(g) PROVE SubIInv'
  <1>0. PICK r : r = [Resting EXCEPT !.pc = "move", !.at = today,
                                     !.move = GateMove(sub, today)]
    OBVIOUS
  <1>1. GateMove(sub, today) \in Moves \ {"none"}
    BY DEF EnterGate, GateMove, Moves
  <1>2. r \in ActorRecord
    <2>1. r = [pc |-> "move", pass |-> 1, at |-> today,
               move |-> GateMove(sub, today), stale |-> FALSE]
      BY <1>0 DEF Resting
    <2> QED
      BY <1>1, <2>1, SubTypes DEF ActorRecord
  <1>3. ActorIsSound(r)
    <2>1. r.at = today /\ r.move = GateMove(sub, today) /\ r.move # "none"
      BY <1>0, <1>1 DEF Resting
    <2>2. sub.status # "none"
      BY <1>1 DEF GateMove, InForce
    <2>3. ASSUME InOrder PROVE MoveIsEarned(r)
      <3>0. RowIsEarned
        BY <2>3 DEF SubIInv
      <3>1. CASE GateMove(sub, today) = "pastDue"
        <4>1. PeriodIsOver(sub, today)
          BY <3>1 DEF GateMove
        <4> QED
          BY <2>1, <3>1, <4>1 DEF PeriodIsOver, MoveIsEarned
      <3>2. CASE GateMove(sub, today) = "suspend"
        <4>1. sub.status = "past_due" /\ sub.graceEnds <= today
          BY <3>2 DEF GateMove
        <4> QED
          BY <2>1, <3>0, <3>2, <4>1, SubTypes, Windows DEF RowIsEarned, MoveIsEarned
      <3>3. CASE GateMove(sub, today) = "lock"
        <4>1. sub.status = "past_due" /\ LockDate(sub) <= today
          BY <3>3 DEF GateMove
        <4> QED
          BY <2>1, <3>0, <3>3, <4>1, SubTypes, Windows
          DEF RowIsEarned, MoveIsEarned, LockDate, LockGap
      <3> QED
        BY <1>1, <3>1, <3>2, <3>3 DEF Moves
    <2> QED
      BY <2>1, <2>2, <2>3, SubTypes DEF ActorIsSound
  <1>4. actor' = [actor EXCEPT ![g] = r]
    BY <1>0 DEF EnterGate
  <1> QED
    BY <1>2, <1>3, <1>4, ActorMoves, ActorsPart DEF EnterGate

LEMMA NextPassIsSound ==
    ASSUME SubIInv, NEW a \in Actors
    PROVE  /\ NextPass(actor[a]) \in ActorRecord
           /\ NextPass(actor[a]).pc # "move"
           /\ NextPass(actor[a]).at <= today
  <1>1. actor[a] \in ActorRecord /\ actor[a].at <= today
    BY SubTypes DEF SubIInv, ActorIsSound
  <1> QED
    <2>1. CASE actor[a].pass = 3
      BY <2>1, RestingIsSound DEF NextPass, Resting, ActorIsSound
    <2>2. CASE actor[a].pass # 3
      <3>1. NextPass(actor[a]) = [pc |-> "find", pass |-> actor[a].pass + 1,
                                  at |-> actor[a].at, move |-> "none", stale |-> FALSE]
        BY <2>2 DEF NextPass, Resting
      <3>2. actor[a].pass + 1 \in 1 .. 3
        BY <1>1, <2>2 DEF ActorRecord
      <3> QED
        BY <1>1, <3>1, <3>2 DEF ActorRecord, Moves
    <2> QED
      BY <2>1, <2>2

LEMMA StartRunKeeps ==
    ASSUME SubIInv, NEW p \in Passes, StartRun(p) PROVE SubIInv'
  <1>1. PICK r : r = [Resting EXCEPT !.pc = "find", !.at = today]
    OBVIOUS
  <1>3. r = [pc |-> "find", pass |-> 1, at |-> today, move |-> "none", stale |-> FALSE]
    BY <1>1 DEF Resting
  <1>2. r \in ActorRecord /\ ActorIsSound(r)
    BY <1>3, SubTypes DEF ActorRecord, Moves, ActorIsSound
  <1> QED
    BY <1>1, <1>2, ActorMoves, ActorsPart DEF StartRun

LEMMA FindKeeps ==
    ASSUME SubIInv, NEW p \in Passes, Find(p) PROVE SubIInv'
  <1>0. p \in Actors /\ actor[p] \in ActorRecord /\ actor[p].at <= today
    BY SubTypes, ActorsPart DEF SubIInv, ActorIsSound
  <1>1. PICK move : move = CronMove(sub, actor[p].at, actor[p].pass)
    OBVIOUS
  <1>2. CASE move = "none"
    BY <1>0, <1>1, <1>2, NextPassIsSound, ActorMoves DEF Find, ActorIsSound
  <1>3. CASE move # "none"
    <2>1. PICK r : r = [actor[p] EXCEPT !.pc = "move", !.move = move]
      OBVIOUS
    <2>2. move \in {"pastDue", "suspend", "lock"}
      BY <1>1, <1>3 DEF CronMove
    <2>3. r \in ActorRecord /\ r.at = actor[p].at /\ r.move = move
      BY <1>0, <2>1, <2>2 DEF ActorRecord, Moves
    <2>4. sub.status # "none"
      BY <1>1, <1>3 DEF CronMove, InForce
    <2>5. ASSUME InOrder PROVE MoveIsEarned(r)
      <3>0. RowIsEarned
        BY <2>5 DEF SubIInv
      <3>1. CASE move = "pastDue"
        <4>1. PeriodIsOver(sub, r.at)
          BY <1>1, <2>3, <3>1 DEF CronMove
        <4> QED
          BY <2>3, <3>1, <4>1 DEF PeriodIsOver, MoveIsEarned
      <3>2. CASE move = "suspend"
        <4>1. sub.status = "past_due" /\ sub.graceEnds < r.at
          BY <1>1, <2>3, <3>2 DEF CronMove
        <4> QED
          BY <1>0, <2>3, <3>0, <3>2, <4>1, SubTypes, Windows
          DEF RowIsEarned, MoveIsEarned
      <3>3. CASE move = "lock"
        <4>1. /\ sub.status = "suspended"
              /\ sub.suspendedAt + (LockAfter - SuspendAfter) < r.at
          BY <1>1, <2>3, <3>3 DEF CronMove
        <4> QED
          BY <1>0, <2>3, <3>0, <3>3, <4>1, SubTypes, Windows
          DEF RowIsEarned, MoveIsEarned, LockGap
      <3> QED
        BY <2>2, <3>1, <3>2, <3>3
    <2>6. ActorIsSound(r)
      BY <1>0, <1>3, <2>3, <2>4, <2>5 DEF ActorIsSound
    <2>7. actor' = [actor EXCEPT ![p] = r]
      BY <1>1, <1>3, <2>1 DEF Find
    <2> QED
      BY <1>0, <2>3, <2>6, <2>7, ActorMoves DEF Find
  <1> QED
    BY <1>2, <1>3

SubRecord == [status : SubStatuses, periodEnd : Dates, graceEnds : Dates,
              suspendedAt : Dates, lockedAt : Dates]

(* What a move writes, and what it is worth when no order overtook it. *)
LEMMA MovedRow ==
    ASSUME SubIInv, NEW a \in Actors, actor[a].pc = "move",
           NEW moved, moved = Moved(sub, actor[a].move, actor[a].at)
    PROVE  /\ moved \in SubRecord
           /\ moved.periodEnd = sub.periodEnd
           /\ moved.status \in {"past_due", "suspended", "locked"}
           /\ actor[a].move = "pastDue" => /\ moved.status = "past_due"
                                           /\ moved.graceEnds = actor[a].at + Grace
           /\ actor[a].move = "suspend" => /\ moved.status = "suspended"
                                           /\ moved.suspendedAt = actor[a].at
           /\ actor[a].move = "lock" => moved.status = "locked"
  <1>1. /\ actor[a].move \in {"pastDue", "suspend", "lock"}
        /\ actor[a].at <= today /\ actor[a].at \in Nat /\ actor[a].at \in Dates
    BY SubTypes DEF SubIInv, ActorIsSound, ActorRecord, Moves
  <1>2. sub \in SubRecord
    BY DEF SubIInv, SubTypeOK, SubRecord
  <1>3. CASE actor[a].move = "pastDue"
    <2>1. moved = [sub EXCEPT !.status = "past_due", !.graceEnds = actor[a].at + Grace]
      BY <1>3 DEF Moved, PastDueRow
    <2>2. actor[a].at + Grace \in Dates
      BY <1>1, SubTypes, Windows DEF Dates
    <2> QED
      BY <1>2, <1>3, <2>1, <2>2 DEF SubRecord, SubStatuses
  <1>4. CASE actor[a].move = "suspend"
    <2>1. moved = [sub EXCEPT !.status = "suspended", !.suspendedAt = actor[a].at]
      BY <1>4 DEF Moved, SuspendedRow
    <2> QED
      BY <1>1, <1>2, <1>4, <2>1 DEF SubRecord, SubStatuses
  <1>5. CASE actor[a].move = "lock"
    <2>1. moved = [sub EXCEPT !.status = "locked", !.lockedAt = actor[a].at]
      BY <1>5 DEF Moved, LockedRow
    <2> QED
      BY <1>1, <1>2, <1>5, <2>1 DEF SubRecord, SubStatuses
  <1> QED
    BY <1>1, <1>3, <1>4, <1>5

LEMMA MoveKeeps ==
    ASSUME SubIInv, NEW a \in Actors, Move(a) PROVE SubIInv'
  <1>0. /\ actor[a].pc = "move" /\ actor[a] \in ActorRecord
        /\ ActorIsSound(actor[a])
    BY SubTypes DEF Move, SubIInv
  <1>1. PICK moved : moved = Moved(sub, actor[a].move, actor[a].at) /\ sub' = moved
    BY DEF Move
  <1>2. PICK r : /\ actor' = [actor EXCEPT ![a] = r]
                 /\ r \in ActorRecord /\ r.pc # "move" /\ r.at <= today
    BY NextPassIsSound, RestingIsSound DEF Move, Resting, ActorIsSound
  <1>3. \A b \in Actors : actor'[b] = IF b = a THEN r ELSE actor[b]
    BY <1>2, SubTypes
  <1>4. SubTypeOK'
    <2>1. actor' \in [Actors -> ActorRecord]
      BY <1>2, SubTypes
    <2>2. sub' \in SubRecord
      BY <1>0, <1>1, MovedRow
    <2>3. overtaken' \in BOOLEAN
      BY DEF Move, SubIInv, SubTypeOK
    <2> QED
      BY <2>1, <2>2, <2>3 DEF Move, SubIInv, SubTypeOK, ActorRecord, SubRecord
  <1>5. /\ sub'.periodEnd = sub.periodEnd
        /\ sub'.status \in {"past_due", "suspended", "locked"}
    BY <1>0, <1>1, MovedRow
  <1>6. InOrder' => InOrder /\ ~actor[a].stale
    BY DEF Move, InOrder
  <1>7. ASSUME NEW b \in Actors PROVE ActorIsSound(actor[b])'
    <2>1. CASE b = a
      BY <1>2, <1>3, <2>1 DEF ActorIsSound, Move
    <2>2. CASE b # a
      <3>1. ActorIsSound(actor[b])
        BY DEF SubIInv
      <3> QED
        BY <1>3, <1>5, <1>6, <2>2, <3>1 DEF ActorIsSound, Move, MoveIsEarned
    <2> QED
      BY <2>1, <2>2
  <1>8. InOrder' => RowIsEarned'
    <2> SUFFICES ASSUME InOrder' PROVE RowIsEarned'
      OBVIOUS
    <2>1. MoveIsEarned(actor[a]) /\ actor[a].at <= today /\ actor[a].at \in Nat
      BY <1>0, <1>6, SubTypes DEF ActorIsSound
    <2>2. today' = today
      BY DEF Move
    <2>3. actor[a].move \in {"pastDue", "suspend", "lock"}
      BY <1>0 DEF ActorIsSound, ActorRecord, Moves
    <2>4. LockGap \in Nat
      BY Windows DEF LockGap
    <2>5. CASE actor[a].move = "pastDue"
      BY <1>0, <1>1, <2>1, <2>2, <2>5, MovedRow, SubTypes, Windows
      DEF RowIsEarned, MoveIsEarned
    <2>6. CASE actor[a].move = "suspend"
      BY <1>0, <1>1, <2>1, <2>2, <2>6, MovedRow, SubTypes, Windows
      DEF RowIsEarned, MoveIsEarned
    <2>7. CASE actor[a].move = "lock"
      BY <1>0, <1>1, <2>1, <2>2, <2>4, <2>7, MovedRow, SubTypes
      DEF RowIsEarned, MoveIsEarned
    <2> QED
      BY <2>3, <2>5, <2>6, <2>7
  <1> QED
    BY <1>4, <1>5, <1>7, <1>8 DEF SubIInv

(* An order overtakes every move that is under way, and whoever it grants  *)
(* access to has a row in force.                                           *)
LEMMA OrderKeeps ==
    ASSUME SubIInv, NEW moved \in SubRecord, NEW grants \in BOOLEAN,
           moved.status # "none", grants => moved.status \in InForce,
           Order(moved, grants), unpaid' \in BOOLEAN
    PROVE  SubIInv'
  <1>1. SubTypeOK'
    <2>1. actor' \in [Actors -> ActorRecord]
      <3>1. \A b \in Actors : [actor[b] EXCEPT !.stale = actor[b].pc = "move"] \in ActorRecord
        BY SubTypes DEF ActorRecord
      <3> QED
        BY <3>1 DEF Order
    <2>2. orders' \in 0 .. MaxOrders
      BY Windows DEF Order, SubIInv, SubTypeOK
    <2> QED
      BY <2>1, <2>2 DEF Order, SubIInv, SubTypeOK, ActorRecord, SubRecord
  <1>2. ASSUME NEW b \in Actors PROVE ActorIsSound(actor[b])'
    <2>1. /\ actor'[b].at = actor[b].at /\ actor'[b].pc = actor[b].pc
          /\ actor'[b].move = actor[b].move
          /\ actor'[b].pc = "move" => actor'[b].stale
      BY SubTypes DEF Order, ActorRecord
    <2> QED
      BY <2>1 DEF SubIInv, ActorIsSound, Order
  <1>3. InOrder' => RowIsEarned'
    BY DEF Order, InOrder, RowIsEarned, InForce
  <1> QED
    BY <1>1, <1>2, <1>3 DEF SubIInv, Order

LEMMA SubSteps == SubIInv /\ [SubNext]_subVars => SubIInv'
  <1> SUFFICES ASSUME SubIInv, [SubNext]_subVars PROVE SubIInv'
    OBVIOUS
  <1>r. sub \in SubRecord
    BY DEF SubIInv, SubTypeOK, SubRecord
  <1>1. CASE Checkout
    BY <1>1 DEF Checkout, SubIInv, SubTypeOK, ActorIsSound, MoveIsEarned, InOrder,
                RowIsEarned
  <1>2. CASE Activate
    <2>1. PICK moved : moved = ActivatedRow(sub) /\ Order(moved, TRUE)
      BY <1>2 DEF Activate
    <2>2. today + Period \in Dates
      BY SubTypes, Windows DEF Dates
    <2>3. moved \in SubRecord /\ moved.status = "active"
      BY <1>r, <2>1, <2>2 DEF ActivatedRow, SubRecord, SubStatuses, InForce
    <2> QED
      BY <1>2, <2>1, <2>3, OrderKeeps DEF Activate, InForce
  <1>3. CASE Refund
    <2>1. PICK moved : moved = [sub EXCEPT !.status = "past_due"] /\ Order(moved, FALSE)
      BY <1>3 DEF Refund
    <2>2. moved \in SubRecord /\ moved.status = "past_due"
      BY <1>r, <2>1 DEF SubRecord, SubStatuses
    <2> QED
      BY <1>3, <2>1, <2>2, OrderKeeps DEF Refund, SubIInv, SubTypeOK
  <1>4. CASE AdminEdit
    <2>1. PICK status \in Edits \cup {"active"}, grants \in BOOLEAN :
             /\ grants => status \in InForce
             /\ Order([sub EXCEPT !.status = status], grants)
      <3>1. CASE \E status \in Edits : Order([sub EXCEPT !.status = status], status \in InForce)
        <4>1. PICK status \in Edits : Order([sub EXCEPT !.status = status], status \in InForce)
          BY <3>1
        <4>2. CASE status \in InForce
          <5>1. Order([sub EXCEPT !.status = status], TRUE)
            BY <4>1, <4>2 DEF Order
          <5> QED
            BY <4>2, <5>1
        <4>3. CASE status \notin InForce
          <5>1. Order([sub EXCEPT !.status = status], FALSE)
            <6>1. (status \in InForce) = FALSE
              BY <4>3
            <6> QED
              BY <4>1, <6>1
          <5> QED
            BY <5>1
        <4> QED
          BY <4>2, <4>3
      <3>2. CASE Order([sub EXCEPT !.status = "active"], TRUE)
        BY <3>2 DEF InForce
      <3> QED
        BY <1>4, <3>1, <3>2 DEF AdminEdit
    <2>2. status \in SubStatuses /\ status # "none"
      BY WindowsAssumption DEF SubStatuses, InForce
    <2>3. PICK moved : moved = [sub EXCEPT !.status = status]
      OBVIOUS
    <2>4. moved \in SubRecord /\ moved.status = status
      BY <1>r, <2>2, <2>3 DEF SubRecord
    <2>5. Order(moved, grants) /\ unpaid' \in BOOLEAN
      BY <1>4, <2>1, <2>3 DEF AdminEdit, SubIInv, SubTypeOK
    <2> QED
      BY <2>1, <2>2, <2>4, <2>5, OrderKeeps
  <1>5. CASE Enrol
    <2>1. today + Period \in Dates
      BY SubTypes, Windows DEF Dates
    <2>2. /\ sub' = [status |-> "trialing", periodEnd |-> today + Period,
                     graceEnds |-> NoDate, suspendedAt |-> NoDate, lockedAt |-> NoDate]
      BY <1>5 DEF Enrol, Registered
    <2>3. sub' \in SubRecord
      BY <2>1, <2>2, SubTypes DEF SubRecord, SubStatuses, InForce
    <2> QED
      <3>1. sub.status = "none" /\ sub'.status = "trialing"
        BY <1>5, <2>2 DEF Enrol
      <3>2. SubTypeOK'
        BY <1>5, <2>3 DEF Enrol, SubIInv, SubTypeOK, SubRecord
      <3>3. \A a \in Actors : ActorIsSound(actor[a])'
        BY <1>5, <3>1 DEF Enrol, SubIInv, ActorIsSound
      <3> QED
        BY <3>1, <3>2, <3>3 DEF SubIInv, RowIsEarned
  <1>6. CASE NextDay
    <2>1. today' \in FirstDay .. LastDay /\ today' = today + 1
      BY <1>6, Windows DEF NextDay, SubIInv, SubTypeOK, FirstDay
    <2>2. SubTypeOK'
      BY <1>6, <2>1 DEF NextDay, SubIInv, SubTypeOK
    <2>3. \A a \in Actors : ActorIsSound(actor[a])'
      BY <1>6, <2>1, SubTypes DEF NextDay, SubIInv, ActorIsSound, InOrder, MoveIsEarned
    <2>4. InOrder' => RowIsEarned'
      BY <1>6, <2>1, SubTypes, Windows DEF NextDay, SubIInv, InOrder, RowIsEarned, LockGap
    <2> QED
      BY <1>6, <2>2, <2>3, <2>4 DEF NextDay, SubIInv
  <1>7. CASE UNCHANGED subVars
    BY <1>7 DEF subVars, SubIInv, SubTypeOK, ActorIsSound, MoveIsEarned, InOrder,
                RowIsEarned
  <1> QED
    BY <1>1, <1>2, <1>3, <1>4, <1>5, <1>6, <1>7, EnterGateKeeps, StartRunKeeps,
       FindKeeps, MoveKeeps DEF SubNext

(* A tenant that has paid keeps full access while its period runs, and     *)
(* nobody in order is locked out before the days it is owed, whichever of  *)
(* the gate and the cron moves the row, for any windows and any number of  *)
(* requests and runs (checkSubscriptionAccess,                             *)
(* processExpiredSubscriptions).                                           *)
THEOREM SubscriptionIsFair == SubSpec => []SubInv
  BY SubInitHolds, SubSteps, SubInvFollows, PTL DEF SubSpec

(*************************************************************************)
(* A lapse is noticed.  tlapm cannot tell what ENABLED means: that a run *)
(* of the cron is never held up (RunsCanGoOn) is a hypothesis here, and  *)
(* part of the property the run checks.                                  *)
(*************************************************************************)

(* A run that began before the period was over may pass the row by, but     *)
(* not the run after it: the steps the cron has left until it moves the row. *)
Ahead(r) ==
    CASE r.pc = "move"                                        -> 0
      [] r.pc = "find" /\ r.pass = 1 /\ PeriodIsOver(sub, r.at) -> 1
      [] r.pc = "idle"                                        -> 2
      [] r.pc = "find" /\ r.pass = 3                            -> 3
      [] r.pc = "find" /\ r.pass = 2                            -> 4
      [] OTHER                                                -> 5

LEMMA AheadTypes == ASSUME NEW r PROVE Ahead(r) \in 0 .. 5
  BY DEF Ahead

(* A step that leaves the row lapsed has not touched its dates, and no      *)
(* actor but its own.                                                       *)
LEMMA LapseStays ==
    ASSUME SubIInv, SubNext, Lapsed, Lapsed', NEW p \in Passes
    PROVE  /\ sub'.periodEnd = sub.periodEnd
           /\ \/ StartRun(p) \/ Find(p)
              \/ /\ actor'[p].pc = actor[p].pc /\ actor'[p].pass = actor[p].pass
                 /\ actor'[p].at = actor[p].at
  <1>0. /\ p \in Actors /\ p \notin Gates /\ actor \in [Actors -> ActorRecord]
        /\ sub \in SubRecord /\ sub.status \in InForce
    BY SubTypes, ActorsPart DEF SubIInv, SubTypeOK, SubRecord, Lapsed
  <1>1. ASSUME NEW a \in Actors, Move(a) PROVE FALSE
    <2>1. PICK moved : moved = Moved(sub, actor[a].move, actor[a].at) /\ sub' = moved
      BY <1>1 DEF Move
    <2>2. moved.status \in {"past_due", "suspended", "locked"}
      BY <1>1, <2>1, MovedRow DEF Move
    <2> QED
      BY <2>1, <2>2 DEF Lapsed, InForce
  <1>2. ASSUME NEW a \in Actors, a # p, NEW r, actor' = [actor EXCEPT ![a] = r]
        PROVE  actor'[p] = actor[p]
    BY <1>0, <1>2
  <1>3. ASSUME NEW g \in Gates, EnterGate(g)
        PROVE  sub' = sub /\ actor'[p] = actor[p]
    <2>1. g \in Actors /\ g # p
      BY <1>0, ActorsPart
    <2> QED
      BY <1>2, <1>3, <2>1 DEF EnterGate
  <1>4. ASSUME NEW q \in Passes, StartRun(q) \/ Find(q), q # p
        PROVE  sub' = sub /\ actor'[p] = actor[p]
    <2>1. q \in Actors
      BY ActorsPart
    <2> QED
      BY <1>2, <1>4, <2>1 DEF StartRun, Find
  <1>5. ASSUME NEW rw \in SubRecord, NEW grants, Order(rw, grants)
        PROVE  /\ sub' = rw
               /\ actor'[p].pc = actor[p].pc /\ actor'[p].pass = actor[p].pass
               /\ actor'[p].at = actor[p].at
    BY <1>0, <1>5 DEF Order, ActorRecord
  <1>6. ASSUME Activate PROVE FALSE
    <2>1. PICK rw : rw = ActivatedRow(sub) /\ sub' = rw /\ today' = today
      BY <1>6 DEF Activate, Order
    <2>2. rw.periodEnd = today + Period
      BY <1>0, <2>1 DEF ActivatedRow, SubRecord
    <2> QED
      BY <2>1, <2>2, SubTypes, Windows DEF Lapsed, PeriodIsOver
  <1>7. ASSUME Refund PROVE FALSE
    <2>1. PICK rw : rw = [sub EXCEPT !.status = "past_due"] /\ sub' = rw
      BY <1>7 DEF Refund, Order
    <2>2. rw.status = "past_due"
      BY <1>0, <2>1 DEF SubRecord
    <2> QED
      BY <2>1, <2>2 DEF Lapsed, InForce
  <1>8. ASSUME AdminEdit
        PROVE  /\ sub'.periodEnd = sub.periodEnd
               /\ actor'[p].pc = actor[p].pc /\ actor'[p].pass = actor[p].pass
               /\ actor'[p].at = actor[p].at
    <2>1. PICK status \in Edits : Order([sub EXCEPT !.status = status], status \in InForce)
      BY <1>0, <1>8 DEF AdminEdit, InForce
    <2>2. PICK rw : rw = [sub EXCEPT !.status = status]
      OBVIOUS
    <2>3. status \in SubStatuses
      BY WindowsAssumption DEF SubStatuses, InForce
    <2>4. rw \in SubRecord /\ rw.periodEnd = sub.periodEnd /\ Order(rw, status \in InForce)
      BY <1>0, <2>1, <2>2, <2>3 DEF SubRecord
    <2> QED
      BY <1>5, <2>4
  <1>9. ~Enrol
    BY <1>0 DEF Enrol, InForce
  <1>10. ASSUME Checkout \/ NextDay PROVE sub' = sub /\ actor' = actor
    BY <1>10 DEF Checkout, NextDay
  <1>11. ASSUME StartRun(p) \/ Find(p) PROVE sub' = sub
    BY <1>11 DEF StartRun, Find
  <1> QED
    BY <1>1, <1>3, <1>4, <1>6, <1>7, <1>8, <1>9, <1>10, <1>11 DEF SubNext

(* What the cron does next brings it nearer to the row, or moves it on.     *)
LEMMA RunNears ==
    ASSUME SubIInv, Lapsed, NEW p \in Passes, StartRun(p) \/ Find(p)
    PROVE  Ahead(actor[p])' < Ahead(actor[p])
  <1>0. /\ p \in Actors /\ actor \in [Actors -> ActorRecord] /\ actor[p] \in ActorRecord
        /\ sub' = sub /\ sub.status \in InForce /\ PeriodIsOver(sub, today)
    BY SubTypes, ActorsPart DEF StartRun, Find, Lapsed
  <1>1. CASE StartRun(p)
    <2>1. PICK r : r = [Resting EXCEPT !.pc = "find", !.at = today]
      OBVIOUS
    <2>2. r.pc = "find" /\ r.pass = 1 /\ r.at = today /\ actor' = [actor EXCEPT ![p] = r]
      BY <1>1, <2>1 DEF StartRun, Resting
    <2>3. actor'[p] = r /\ actor[p].pc = "idle"
      BY <1>0, <1>1, <2>2 DEF StartRun
    <2> QED
      BY <1>0, <2>2, <2>3 DEF Ahead, PeriodIsOver
  <1>2. CASE Find(p)
    <2>1. PICK move : move = CronMove(sub, actor[p].at, actor[p].pass)
      OBVIOUS
    <2>2. actor[p].pc = "find" /\ actor[p].pass \in 1 .. 3
      BY <1>0, <1>2 DEF Find, ActorRecord
    <2>3. CASE move # "none"
      <3>1. PICK r : r = [actor[p] EXCEPT !.pc = "move", !.move = move]
        OBVIOUS
      <3>2. actor' = [actor EXCEPT ![p] = r] /\ r.pc = "move"
        BY <1>0, <1>2, <2>1, <2>3, <3>1 DEF Find, ActorRecord
      <3>3. actor'[p].pc = "move"
        BY <1>0, <3>2
      <3> QED
        BY <2>2, <3>3 DEF Ahead
    <2>4. CASE move = "none"
      <3>1. PICK r : r = NextPass(actor[p])
        OBVIOUS
      <3>2. actor'[p] = r
        BY <1>0, <1>2, <2>1, <2>4, <3>1 DEF Find
      <3>3. ~(actor[p].pass = 1 /\ PeriodIsOver(sub, actor[p].at))
        BY <1>0, <2>1, <2>4 DEF CronMove
      <3>4. IF actor[p].pass = 3 THEN r.pc = "idle"
            ELSE r.pc = "find" /\ r.pass = actor[p].pass + 1
        BY <3>1 DEF NextPass, Resting
      <3> QED
        BY <2>2, <3>2, <3>3, <3>4 DEF Ahead
    <2> QED
      BY <2>3, <2>4
  <1> QED
    BY <1>1, <1>2


Within(p, n) == Lapsed /\ Ahead(actor[p]) <= n

LEMMA WithinStays ==
    ASSUME SubIInv, [SubNext]_subVars, NEW p \in Passes, NEW n \in 0 .. 5, Within(p, n)
    PROVE  ~Lapsed' \/ Within(p, n)'
  <1> SUFFICES ASSUME Lapsed' PROVE Ahead(actor[p])' <= n
    BY DEF Within
  <1>1. CASE UNCHANGED subVars
    BY <1>1 DEF subVars, Within, Ahead, PeriodIsOver
  <1>2. CASE StartRun(p) \/ Find(p)
    <2>1. Ahead(actor[p])' < Ahead(actor[p])
      BY <1>2, RunNears DEF Within
    <2>2. Ahead(actor[p])' \in 0 .. 5 /\ Ahead(actor[p]) \in 0 .. 5
      BY DEF Ahead
    <2> QED
      BY <2>1, <2>2 DEF Within
  <1>3. CASE SubNext /\ ~(StartRun(p) \/ Find(p))
    <2>1. /\ sub'.periodEnd = sub.periodEnd
          /\ actor'[p].pc = actor[p].pc /\ actor'[p].pass = actor[p].pass
          /\ actor'[p].at = actor[p].at
      BY <1>3, LapseStays DEF Within
    <2>2. Ahead(actor[p])' = Ahead(actor[p])
      BY <2>1 DEF Ahead, PeriodIsOver
    <2> QED
      BY <2>2 DEF Within
  <1> QED
    BY <1>1, <1>2, <1>3

(* A move that is under way, whatever it is, takes the row out of force.    *)
LEMMA MoveNotices ==
    ASSUME SubIInv, NEW p \in Passes, Move(p)
    PROVE  ~Lapsed'
  <1>1. PICK moved : moved = Moved(sub, actor[p].move, actor[p].at) /\ sub' = moved
    BY DEF Move
  <1>2. moved.status \in {"past_due", "suspended", "locked"}
    BY <1>1, MovedRow, ActorsPart DEF Move
  <1> QED
    BY <1>1, <1>2 DEF Lapsed, InForce

Watching == SubSpec /\ []RunsCanGoOn

WithinFrom(p, m, n) == Within(p, m) ~> ~Lapsed \/ Within(p, n)

LEMMA RunsComeNearer ==
    ASSUME NEW p \in Passes, NEW n \in 0 .. 4, NEW m, m = n + 1
    PROVE  Watching => WithinFrom(p, m, n)
  <1>1. SubIInv /\ Within(p, m) /\ [SubNext]_subVars => ~Lapsed' \/ Within(p, m)'
    <2>1. m \in 0 .. 5
      OBVIOUS
    <2> QED
      BY <2>1, WithinStays
  <1>2. SubIInv /\ Within(p, m) /\ <<CronStep(p)>>_subVars => ~Lapsed' \/ Within(p, n)'
    <2> SUFFICES ASSUME SubIInv, Within(p, m), CronStep(p), Lapsed' PROVE Within(p, n)'
      OBVIOUS
    <2>1. StartRun(p) \/ Find(p)
      BY MoveNotices DEF CronStep
    <2>2. Ahead(actor[p])' < Ahead(actor[p])
      BY <2>1, RunNears DEF Within
    <2>3. Ahead(actor[p])' \in 0 .. 5 /\ Ahead(actor[p]) \in 0 .. 5
      BY DEF Ahead
    <2> QED
      BY <2>2, <2>3 DEF Within
  <1>3. Watching => [](SubIInv) /\ [][SubNext]_subVars
    BY SubInitHolds, SubSteps, PTL DEF Watching, SubSpec
  <1>4. SubFairness => RunsAgain(p)
    BY DEF SubFairness
  <1>5. RunsCanGoOn => RunCanGoOn(p)
    BY DEF RunsCanGoOn
  <1> QED
    BY <1>1, <1>2, <1>3, <1>4, <1>5, PTL
       DEF Watching, SubSpec, WithinFrom, RunsAgain, RunCanGoOn

(* Once a run is about to move the row, it is moved. *)
LEMMA LapseEnds ==
    ASSUME NEW p \in Passes PROVE Watching => (Within(p, 0) ~> ~Lapsed)
  <1>1. SubIInv /\ Within(p, 0) /\ [SubNext]_subVars => ~Lapsed' \/ Within(p, 0)'
    BY WithinStays
  <1>2. SubIInv /\ Within(p, 0) /\ <<CronStep(p)>>_subVars => ~Lapsed'
    <2> SUFFICES ASSUME SubIInv, Within(p, 0), CronStep(p) PROVE ~Lapsed'
      OBVIOUS
    <2>1. actor[p].pc = "move"
      BY DEF Within, Ahead
    <2> QED
      BY <2>1, MoveNotices DEF CronStep, StartRun, Find
  <1>3. Watching => [](SubIInv) /\ [][SubNext]_subVars
    BY SubInitHolds, SubSteps, PTL DEF Watching, SubSpec
  <1>4. SubFairness => RunsAgain(p)
    BY DEF SubFairness
  <1>5. RunsCanGoOn => RunCanGoOn(p)
    BY DEF RunsCanGoOn
  <1> QED
    BY <1>1, <1>2, <1>3, <1>4, <1>5, PTL DEF Watching, SubSpec, RunsAgain, RunCanGoOn

(* However requests at the gate, payments, refunds, administrators and      *)
(* overlapping runs of the cron touch the row, and whatever a run had read  *)
(* before: a subscription does not stay in force after its period, as long  *)
(* as there is a scheduler.                                                 *)
THEOREM LapsesAreNoticed ==
    ASSUME Passes # {} PROVE SubSpec /\ []RunsCanGoOn => LapseIsNoticed
  <1>1. PICK p \in Passes : TRUE
    OBVIOUS
  <1>2. Watching => WithinFrom(p, 1, 0) /\ WithinFrom(p, 2, 1) /\ WithinFrom(p, 3, 2)
                    /\ WithinFrom(p, 4, 3) /\ WithinFrom(p, 5, 4)
    <2>1. /\ 0 \in 0 .. 4 /\ 1 \in 0 .. 4 /\ 2 \in 0 .. 4 /\ 3 \in 0 .. 4 /\ 4 \in 0 .. 4
          /\ 1 = 0 + 1 /\ 2 = 1 + 1 /\ 3 = 2 + 1 /\ 4 = 3 + 1 /\ 5 = 4 + 1
      OBVIOUS
    <2> QED
      BY <2>1, RunsComeNearer
  <1>3. Lapsed => Within(p, 5)
    BY DEF Within, Ahead
  <1>4. Watching => (Within(p, 0) ~> ~Lapsed)
    BY LapseEnds
  <1> QED
    BY <1>2, <1>3, <1>4, PTL DEF Watching, WithinFrom, LapseIsNoticed

-----------------------------------------------------------------------------
(*************************************************************************)
(* JobInv of JobQueue, for any jobs, workers, attempts, stalls and retries: *)
(* what a worker, the queue and the row know of a job fit together at each *)
(* point of its life.                                                    *)
(*************************************************************************)

(* How far a job of the queue may have come: a waiting job has an attempt  *)
(* left, one more for each stall; only an active job has a holder, and the *)
(* holder runs it; and a job whose row is still to be created has none.    *)
JobIsSound(j) ==
    /\ queue[j].made <= Attempts + stalls
    /\ queue[j].state = "waiting" => queue[j].made < Attempts + stalls
    /\ queue[j].holder # None => /\ queue[j].state = "active"
                                 /\ worker[queue[j].holder].job = j
    /\ j \in adding => row[j] = None
    /\ row[j] = "completed" => queue[j].done
    /\ queue[j].recorded =>
          queue[j].state = "completed" /\ row[j] = "completed"
    /\ stalls = 0 /\ row[j] = "completed" =>
          \/ queue[j].state \in {"completed", "absent"}
          \/ queue[j].holder # None /\ worker[queue[j].holder].pc = "report"

(* What a worker knows: the work is done when it comes to its end, it has  *)
(* seen the row it marked, and unless a job stalled it holds its job.      *)
WorkerIsSound(w) ==
    LET j == worker[w].job
    IN  /\ worker[w].pc = "idle" <=> j = None
        /\ worker[w].pc \in {"finish", "report"} => queue[j].done
        /\ worker[w].pc \in {"work", "finish"} /\ worker[w].sawRow =>
              row[j] \in {"running", "completed"}
        /\ worker[w].pc = "report" /\ worker[w].sawRow => row[j] = "completed"
        /\ stalls = 0 /\ j # None => queue[j].holder = w

JobIInv ==
    /\ JobTypeOK
    /\ \A j \in Jobs : JobIsSound(j)
    /\ \A w \in Workers : WorkerIsSound(w)

JobRecord == [state : {"absent", "waiting", "active", "failed", "completed"},
              made : 0 .. Attempts + MaxStalls, holder : Workers \cup {None},
              done : BOOLEAN, recorded : BOOLEAN]

WorkerRecord == [job : Jobs \cup {None}, sawRow : BOOLEAN,
                 pc : {"idle", "start", "work", "finish", "report"}]

Statuses == {None, "pending", "running", "completed"}

LEMMA JobTypes ==
    ASSUME JobTypeOK
    PROVE  /\ queue \in [Jobs -> JobRecord] /\ row \in [Jobs -> Statuses]
           /\ worker \in [Workers -> WorkerRecord] /\ stalls \in 0 .. MaxStalls
           /\ stalls \in Nat /\ \A j \in Jobs : queue[j].made \in Nat
           /\ Attempts \in Nat /\ Attempts > 0 /\ MaxStalls \in Nat
           /\ None \notin Jobs /\ None \notin Workers
  BY AttemptsAssumption, NoneAssumption DEF JobTypeOK, JobRecord, WorkerRecord, Statuses

(* A step that leaves the counts alone and keeps every job and worker sound *)
(* keeps the types if what it writes is well typed.                        *)
LEMMA JobTypesKept ==
    ASSUME JobTypeOK, queue' \in [Jobs -> JobRecord], row' \in [Jobs -> Statuses],
           worker' \in [Workers -> WorkerRecord], adding' \subseteq Jobs,
           UNCHANGED <<stalls, retries>>
    PROVE  JobTypeOK'
  BY DEF JobTypeOK, JobRecord, WorkerRecord, Statuses

LEMMA AddKeeps == ASSUME JobIInv, NEW j \in Jobs, Add(j) PROVE JobIInv'
  <1> USE DEF JobIInv
  <1>1. /\ queue[j] = NoJob /\ row[j] = None
        /\ queue' = [queue EXCEPT ![j] = [queue[j] EXCEPT !.state = "waiting"]]
        /\ adding' = adding \cup {j}
        /\ UNCHANGED <<row, worker, stalls, retries>>
    BY DEF Add
  <1>2. \A i \in Jobs : i # j => queue'[i] = queue[i]
    BY <1>1, JobTypes
  <1>3. queue'[j] = [queue[j] EXCEPT !.state = "waiting"]
    BY <1>1, JobTypes
  <1>4. JobTypeOK'
    <2>1. queue'[j] \in JobRecord
      BY <1>3, JobTypes DEF JobRecord
    <2> QED
      BY <1>1, <2>1, JobTypes, JobTypesKept DEF JobTypeOK
  <1>5. \A i \in Jobs : JobIsSound(i)'
    <2>1. JobIsSound(j)'
      BY <1>1, <1>3, JobTypes DEF JobIsSound, NoJob
    <2> QED
      BY <1>1, <1>2, <2>1 DEF JobIsSound
  <1>6. \A w \in Workers : WorkerIsSound(w)'
    <2>1. \A i \in Jobs : /\ queue'[i].done = queue[i].done
                          /\ queue'[i].holder = queue[i].holder
      BY <1>2, <1>3, JobTypes DEF JobRecord
    <2> QED
      BY <1>1, <2>1, JobTypes DEF WorkerIsSound, WorkerRecord
  <1> QED
    BY <1>4, <1>5, <1>6

LEMMA CreateRecordKeeps == ASSUME JobIInv, NEW j \in Jobs, CreateRecord(j) PROVE JobIInv'
  <1> USE DEF JobIInv
  <1>1. /\ j \in adding /\ row[j] = None /\ adding' = adding \ {j}
        /\ \A i \in Jobs : i # j => row'[i] = row[i]
        /\ row'[j] \in {None, "pending"} /\ row' \in [Jobs -> Statuses]
        /\ UNCHANGED <<queue, worker, stalls, retries>>
    BY JobTypes DEF CreateRecord, JobIsSound, Statuses
  <1>4. JobTypeOK'
    BY <1>1, JobTypes, JobTypesKept DEF JobTypeOK
  <1>5. \A i \in Jobs : JobIsSound(i)'
    BY <1>1 DEF JobIsSound, None
  <1>6. ASSUME NEW w \in Workers PROVE WorkerIsSound(w)'
    <2>1. WorkerIsSound(w) /\ worker[w] \in WorkerRecord
      BY JobTypes
    <2>2. CASE worker[w].job = j
      BY <1>1, <2>1, <2>2 DEF WorkerIsSound, None
    <2>3. CASE worker[w].job # j
      BY <1>1, <2>1, <2>3 DEF WorkerIsSound, WorkerRecord
    <2> QED
      BY <2>2, <2>3
  <1> QED
    BY <1>4, <1>5, <1>6

(* A worker's step writes at most its job, that job's row and itself. *)
Writes(w, j, q, v, r) ==
    /\ queue' = [queue EXCEPT ![j] = q] /\ row' = [row EXCEPT ![j] = v]
    /\ worker' = [worker EXCEPT ![w] = r] /\ UNCHANGED <<adding, stalls, retries>>

Others(w, j) ==
    /\ \A i \in Jobs : i # j => queue'[i] = queue[i] /\ row'[i] = row[i]
    /\ \A x \in Workers : x # w => worker'[x] = worker[x]
    /\ UNCHANGED <<adding, stalls, retries>>

LEMMA WorkerWrites ==
    ASSUME JobTypeOK, NEW w \in Workers, NEW j \in Jobs,
           NEW q \in JobRecord, NEW v \in Statuses, NEW r \in WorkerRecord,
           Writes(w, j, q, v, r)
    PROVE  /\ JobTypeOK' /\ Others(w, j)
           /\ queue'[j] = q /\ row'[j] = v /\ worker'[w] = r
  <1>1. /\ queue' \in [Jobs -> JobRecord] /\ row' \in [Jobs -> Statuses]
        /\ worker' \in [Workers -> WorkerRecord]
    BY JobTypes DEF Writes
  <1>2. JobTypeOK'
    BY <1>1, JobTypesKept DEF JobTypeOK, Writes
  <1> QED
    BY <1>2, JobTypes DEF Writes, Others

LEMMA FreeIsWorker == Free \in WorkerRecord
  BY DEF Free, WorkerRecord

LEMMA TakeKeeps ==
    ASSUME JobIInv, NEW w \in Workers, NEW j \in Jobs, Take(w, j) PROVE JobIInv'
  <1> USE DEF JobIInv
  <1>q. PICK q : q = [queue[j] EXCEPT !.state = "active", !.holder = w,
                                      !.made = Tried(queue[j].made)]
    OBVIOUS
  <1>r. PICK r : r = [Free EXCEPT !.job = j, !.pc = "start"]
    OBVIOUS
  <1>1. PICK v : v = row[j]
    OBVIOUS
  <1>2. worker[w] = Free /\ queue[j].state = "waiting"
    BY DEF Take
  <1>3. queue[j].made < Attempts + stalls /\ queue[j] \in JobRecord /\ JobIsSound(j)
    BY <1>2, JobTypes DEF JobIsSound
  <1>4. queue[j].made + 1 \in 0 .. Attempts + MaxStalls
    BY <1>3, JobTypes
  <1>5. /\ q \in JobRecord /\ q.state = "active" /\ q.holder = w
        /\ q.made = queue[j].made + 1 /\ q.done = queue[j].done
        /\ q.recorded = queue[j].recorded
    BY <1>q, <1>3, <1>4 DEF JobRecord, Tried
  <1>6. r = [job |-> j, pc |-> "start", sawRow |-> FALSE]
    BY <1>r DEF Free
  <1>7. r \in WorkerRecord /\ v \in Statuses
    BY <1>1, <1>6, JobTypes DEF WorkerRecord
  <1>8. Writes(w, j, q, v, r)
    <2>1. queue' = [queue EXCEPT ![j] = q]
      BY <1>q DEF Take
    <2>2. row' = [row EXCEPT ![j] = v]
      BY <1>1, JobTypes DEF Take
    <2>3. worker' = [worker EXCEPT ![w] = r] /\ UNCHANGED <<adding, stalls, retries>>
      BY <1>r DEF Take
    <2> QED
      BY <2>1, <2>2, <2>3 DEF Writes
  <1>9. /\ JobTypeOK' /\ Others(w, j)
        /\ queue'[j] = q /\ row'[j] = v /\ worker'[w] = r
    BY <1>5, <1>7, <1>8, WorkerWrites
  <1>10. ASSUME NEW i \in Jobs PROVE JobIsSound(i)'
    <2>1. CASE i = j
      <3>1. ~ (stalls = 0 /\ row[j] = "completed") /\ ~queue[j].recorded
        BY <1>2, <1>3 DEF JobIsSound
      <3>2. UNCHANGED <<adding, stalls, retries>>
        BY <1>9 DEF Others
      <3>3. q.made <= Attempts + stalls /\ q.state # "waiting"
        BY <1>3, <1>5, JobTypes
      <3>4. r.job = j
        BY <1>6
      <3> QED
        BY <1>1, <1>3, <1>5, <1>9, <2>1, <3>1, <3>2, <3>3, <3>4 DEF JobIsSound
    <2>2. CASE i # j
      <3>1. JobIsSound(i) /\ queue[i].holder # w
        BY <1>2, JobTypes DEF JobIsSound, Free
      <3> QED
        BY <1>9, <2>2, <3>1, JobTypes DEF JobIsSound, JobRecord, Others
    <2> QED
      BY <2>1, <2>2
  <1>11. ASSUME NEW x \in Workers PROVE WorkerIsSound(x)'
    <2>1. CASE x = w
      BY <1>5, <1>6, <1>9, <2>1, JobTypes DEF WorkerIsSound
    <2>2. CASE x # w
      <3>1. WorkerIsSound(x) /\ worker[x] \in WorkerRecord
        BY JobTypes
      <3>2. stalls = 0 => worker[x].job # j
        BY <1>2, <1>3, <3>1, JobTypes DEF WorkerIsSound, JobIsSound
      <3>3. /\ worker'[x] = worker[x] /\ stalls' = stalls /\ row' = row
            /\ \A i \in Jobs : queue'[i].done = queue[i].done
        BY <1>5, <1>9, <2>2 DEF Others, Take
      <3>4. stalls = 0 /\ worker[x].job # None =>
               queue'[worker[x].job] = queue[worker[x].job]
        BY <1>9, <3>1, <3>2 DEF Others, WorkerRecord
      <3> QED
        BY <3>1, <3>3, <3>4, JobTypes DEF WorkerIsSound, WorkerRecord
    <2> QED
      BY <2>1, <2>2
  <1> QED
    BY <1>9, <1>10, <1>11

(* What a worker does to its own job disturbs no other job and no other    *)
(* worker, if it never takes back the work done or the status of the row.  *)
LEMMA OwnJobKeeps ==
    ASSUME JobIInv, NEW w \in Workers, NEW j \in Jobs, worker[w].job = j,
           Others(w, j), JobTypeOK', JobIsSound(j)', WorkerIsSound(w)',
           queue[j].done => queue'[j].done,
           row[j] \in {"running", "completed"} => row'[j] \in {"running", "completed"},
           row[j] = "completed" => row'[j] = "completed"
    PROVE  JobIInv'
  <1> USE DEF JobIInv
  <1>1. ASSUME NEW i \in Jobs, i # j PROVE JobIsSound(i)'
    <2>1. JobIsSound(i) /\ queue[i] \in JobRecord
      BY JobTypes
    <2>2. queue[i].holder # w
      BY <1>1, <2>1, JobTypes DEF JobIsSound
    <2> QED
      BY <1>1, <2>1, <2>2 DEF JobIsSound, JobRecord, Others
  <1>2. ASSUME NEW x \in Workers, x # w PROVE WorkerIsSound(x)'
    <2>1. WorkerIsSound(x) /\ worker[x] \in WorkerRecord
      BY JobTypes
    <2>2. stalls = 0 => worker[x].job # j
      <3>1. WorkerIsSound(w)
        OBVIOUS
      <3> QED
        BY <1>2, <2>1, <3>1, JobTypes DEF WorkerIsSound
    <2>3. worker'[x] = worker[x] /\ stalls' = stalls
      BY <1>2 DEF Others
    <2>4. \A i \in Jobs : /\ queue[i].done => queue'[i].done
                          /\ row[i] \in {"running", "completed"} => row'[i] \in {"running", "completed"}
                          /\ row[i] = "completed" => row'[i] = "completed"
                          /\ i # j => queue'[i] = queue[i]
      BY DEF Others
    <2> QED
      BY <2>1, <2>2, <2>3, <2>4, JobTypes DEF WorkerIsSound, WorkerRecord
  <1> QED
    BY <1>1, <1>2

LEMMA StartKeeps == ASSUME JobIInv, NEW w \in Workers, Start(w) PROVE JobIInv'
  <1>0. PICK j : j = worker[w].job
    OBVIOUS
  <1>1. JobTypeOK /\ WorkerIsSound(w) /\ worker[w].pc = "start"
    BY DEF JobIInv, Start
  <1>2. worker[w] \in WorkerRecord /\ j \in Jobs
    BY <1>0, <1>1, JobTypes DEF WorkerIsSound, WorkerRecord
  <1>3. JobIsSound(j) /\ row[j] \in Statuses
    BY <1>1, <1>2, JobTypes DEF JobIInv
  <1>4. row' \in {row, [row EXCEPT ![j] = IF row[j] = "pending" THEN "running" ELSE row[j]]}
    BY <1>0 DEF Start
  <1>5. /\ row' \in [Jobs -> Statuses] /\ \A i \in Jobs : i # j => row'[i] = row[i]
        /\ row'[j] = row[j] \/ (row[j] = "pending" /\ row'[j] = "running")
    BY <1>1, <1>2, <1>3, <1>4, JobTypes DEF Statuses
  <1>6. PICK saw : saw = (row'[j] \in {"running", "completed"})
    OBVIOUS
  <1>b. saw \in BOOLEAN
    BY <1>6
  <1>s. saw => row'[j] \in {"running", "completed"}
    BY <1>6
  <1>r. PICK r : r = [worker[w] EXCEPT !.pc = "work", !.sawRow = saw]
    OBVIOUS
  <1>7. r \in WorkerRecord /\ r.job = j /\ r.pc = "work" /\ r.sawRow = saw
    BY <1>0, <1>2, <1>b, <1>r DEF WorkerRecord
  <1>8. r.sawRow => row'[j] \in {"running", "completed"}
    BY <1>s, <1>7
  <1>9. worker' = [worker EXCEPT ![w] = r]
    BY <1>0, <1>6, <1>r DEF Start
  <1>10. /\ worker' \in [Workers -> WorkerRecord] /\ worker'[w] = r
         /\ \A x \in Workers : x # w => worker'[x] = worker[x]
    BY <1>1, <1>7, <1>9, JobTypes
  <1>11. UNCHANGED <<queue, adding, stalls, retries>>
    BY DEF Start
  <1>12. JobTypeOK' /\ Others(w, j)
    BY <1>1, <1>5, <1>10, <1>11, JobTypes, JobTypesKept DEF Others, JobTypeOK
  <1>13. JobIsSound(j)'
    <2>1. row'[j] = "completed" => row[j] = "completed"
      BY <1>5
    <2>2. j \in adding => row'[j] = row[j]
      BY <1>3, <1>5 DEF JobIsSound, None
    <2>3. \A x \in Workers : worker'[x].job = worker[x].job
      BY <1>0, <1>7, <1>10
    <2>4. queue[j].holder # None => queue[j].holder \in Workers
      BY <1>1, <1>2, JobTypes DEF JobRecord
    <2>5. \A x \in Workers : worker[x].pc = "report" => worker'[x].pc = "report"
      BY <1>1, <1>10
    <2>6. row[j] = "completed" => row'[j] = "completed"
      BY <1>5
    <2> QED
      BY <1>3, <1>11, <2>1, <2>2, <2>3, <2>4, <2>5, <2>6 DEF JobIsSound
  <1>14. WorkerIsSound(w)'
    BY <1>0, <1>1, <1>2, <1>7, <1>8, <1>10, <1>11, JobTypes DEF WorkerIsSound
  <1> QED
    BY <1>0, <1>2, <1>5, <1>11, <1>12, <1>13, <1>14, OwnJobKeeps

LEMMA WorkKeeps == ASSUME JobIInv, NEW w \in Workers, Work(w) PROVE JobIInv'
  <1>0. PICK j : j = worker[w].job
    OBVIOUS
  <1>1. JobTypeOK /\ WorkerIsSound(w) /\ worker[w].pc = "work"
    BY DEF JobIInv, Work
  <1>2. worker[w] \in WorkerRecord /\ j \in Jobs
    BY <1>0, <1>1, JobTypes DEF WorkerIsSound, WorkerRecord
  <1>3. JobIsSound(j) /\ queue[j] \in JobRecord
    BY <1>1, <1>2, JobTypes DEF JobIInv
  <1>4. PICK q : q = [queue[j] EXCEPT !.done = TRUE]
    OBVIOUS
  <1>5. PICK r : r = [worker[w] EXCEPT !.pc = "finish"]
    OBVIOUS
  <1>6. /\ q \in JobRecord /\ q.done /\ q.state = queue[j].state
        /\ q.made = queue[j].made /\ q.holder = queue[j].holder
        /\ q.recorded = queue[j].recorded
    BY <1>3, <1>4 DEF JobRecord
  <1>7. /\ r \in WorkerRecord /\ r.job = j /\ r.pc = "finish"
        /\ r.sawRow = worker[w].sawRow
    BY <1>0, <1>2, <1>5 DEF WorkerRecord
  <1>8. /\ queue' = [queue EXCEPT ![j] = q] /\ worker' = [worker EXCEPT ![w] = r]
    BY <1>0, <1>4, <1>5 DEF Work
  <1>9. /\ queue' \in [Jobs -> JobRecord] /\ queue'[j] = q
        /\ \A i \in Jobs : i # j => queue'[i] = queue[i]
    BY <1>1, <1>2, <1>6, <1>8, JobTypes
  <1>10. /\ worker' \in [Workers -> WorkerRecord] /\ worker'[w] = r
         /\ \A x \in Workers : x # w => worker'[x] = worker[x]
    BY <1>1, <1>7, <1>8, JobTypes
  <1>11. UNCHANGED <<row, adding, stalls, retries>>
    BY DEF Work
  <1>12. JobTypeOK' /\ Others(w, j)
    BY <1>1, <1>9, <1>10, <1>11, JobTypes, JobTypesKept DEF Others, JobTypeOK
  <1>13. JobIsSound(j)'
    <2>1. queue[j].holder # None => queue[j].holder \in Workers
      BY <1>3 DEF JobRecord
    <2>2. /\ \A x \in Workers : worker'[x].job = worker[x].job
          /\ \A x \in Workers : worker[x].pc = "report" => worker'[x].pc = "report"
      BY <1>0, <1>1, <1>7, <1>10
    <2> QED
      BY <1>3, <1>6, <1>9, <1>11, <2>1, <2>2 DEF JobIsSound
  <1>14. WorkerIsSound(w)'
    BY <1>0, <1>1, <1>2, <1>6, <1>7, <1>9, <1>10, <1>11, JobTypes DEF WorkerIsSound
  <1> QED
    BY <1>0, <1>2, <1>6, <1>9, <1>11, <1>12, <1>13, <1>14, OwnJobKeeps

LEMMA FinishRowKeeps ==
    ASSUME JobIInv, NEW w \in Workers, FinishRow(w) PROVE JobIInv'
  <1>0. PICK j : j = worker[w].job
    OBVIOUS
  <1>1. JobTypeOK /\ WorkerIsSound(w) /\ worker[w].pc = "finish"
    BY DEF JobIInv, FinishRow
  <1>2. worker[w] \in WorkerRecord /\ j \in Jobs
    BY <1>0, <1>1, JobTypes DEF WorkerIsSound, WorkerRecord
  <1>3. JobIsSound(j) /\ queue[j] \in JobRecord /\ row[j] \in Statuses
    BY <1>1, <1>2, JobTypes DEF JobIInv
  <1>4. PICK written \in BOOLEAN :
           /\ row' = IF written THEN [row EXCEPT ![j] = Finished(row[j])] ELSE row
           /\ worker' = [worker EXCEPT ![w] = [worker[w] EXCEPT !.pc = "report",
                                                  !.sawRow = worker[w].sawRow /\ written]]
    BY <1>0 DEF FinishRow
  <1>5. /\ row' \in [Jobs -> Statuses] /\ \A i \in Jobs : i # j => row'[i] = row[i]
        /\ row'[j] = row[j] \/ (row[j] = "running" /\ row'[j] = "completed")
        /\ written /\ row[j] = "running" => row'[j] = "completed"
    BY <1>1, <1>2, <1>3, <1>4, JobTypes DEF Statuses, Finished
  <1>6. PICK saw : saw = (worker[w].sawRow /\ written)
    OBVIOUS
  <1>b. saw \in BOOLEAN
    BY <1>6
  <1>s. saw => worker[w].sawRow /\ written
    BY <1>6
  <1>r. PICK r : r = [worker[w] EXCEPT !.pc = "report", !.sawRow = saw]
    OBVIOUS
  <1>7. r \in WorkerRecord /\ r.job = j /\ r.pc = "report" /\ r.sawRow = saw
    BY <1>0, <1>2, <1>b, <1>r DEF WorkerRecord
  <1>8. r.sawRow => worker[w].sawRow /\ written
    BY <1>s, <1>7
  <1>9. worker' = [worker EXCEPT ![w] = r]
    BY <1>4, <1>6, <1>r
  <1>10. /\ worker' \in [Workers -> WorkerRecord] /\ worker'[w] = r
         /\ \A x \in Workers : x # w => worker'[x] = worker[x]
    BY <1>1, <1>7, <1>9, JobTypes
  <1>11. UNCHANGED <<queue, adding, stalls, retries>>
    BY DEF FinishRow
  <1>12. JobTypeOK' /\ Others(w, j)
    BY <1>1, <1>5, <1>10, <1>11, JobTypes, JobTypesKept DEF Others, JobTypeOK
  <1>d. queue[j].done
    BY <1>0, <1>1 DEF WorkerIsSound
  <1>13. JobIsSound(j)'
    <2>1. j \in adding => row'[j] = row[j]
      BY <1>3, <1>5 DEF JobIsSound, None
    <2>2. queue[j].holder # None => queue[j].holder \in Workers
      BY <1>3 DEF JobRecord
    <2>3. /\ \A x \in Workers : worker'[x].job = worker[x].job
          /\ \A x \in Workers : worker[x].pc = "report" => worker'[x].pc = "report"
      BY <1>0, <1>1, <1>7, <1>10
    <2>4. stalls = 0 => queue[j].holder = w /\ w # None /\ worker'[w].pc = "report"
      BY <1>0, <1>1, <1>2, <1>7, <1>10, JobTypes DEF WorkerIsSound
    <2> QED
      BY <1>3, <1>5, <1>11, <1>d, <2>1, <2>2, <2>3, <2>4 DEF JobIsSound
  <1>14. WorkerIsSound(w)'
    <2>1. worker[w].sawRow => row[j] \in {"running", "completed"}
      BY <1>0, <1>1 DEF WorkerIsSound
    <2>2. r.sawRow => row'[j] = "completed"
      BY <1>5, <1>8, <2>1
    <2> QED
      BY <1>0, <1>1, <1>2, <1>7, <1>10, <1>11, <1>d, <2>2, JobTypes DEF WorkerIsSound
  <1> QED
    BY <1>0, <1>2, <1>5, <1>11, <1>12, <1>13, <1>14, OwnJobKeeps

(* A worker that lets go of its job leaves it to no one, unless the job    *)
(* had been given to another: then the job is as it was.                   *)
LEMMA LetGoKeeps ==
    ASSUME JobIInv, NEW w \in Workers, NEW j \in Jobs, j = worker[w].job,
           NEW q \in JobRecord, queue' = [queue EXCEPT ![j] = q],
           worker' = [worker EXCEPT ![w] = Free],
           UNCHANGED <<row, adding, stalls, retries>>,
           queue[j].holder # w => q = queue[j],
           queue[j].holder = w =>
              /\ q.holder = None /\ q.done = queue[j].done
              /\ q.made = queue[j].made /\ q.state \in {"completed", "waiting", "failed"}
              /\ q.state = "waiting" => q.made < Attempts
              /\ q.recorded => q.state = "completed" /\ row[j] = "completed"
              /\ q.state # "completed" => worker[w].pc # "report"
    PROVE  JobIInv'
  <1>1. JobTypeOK /\ JobIsSound(j) /\ WorkerIsSound(w) /\ queue[j] \in JobRecord
    BY JobTypes DEF JobIInv
  <1>2. /\ queue' \in [Jobs -> JobRecord] /\ queue'[j] = q
        /\ \A i \in Jobs : i # j => queue'[i] = queue[i]
    BY <1>1, JobTypes
  <1>3. /\ worker' \in [Workers -> WorkerRecord] /\ worker'[w] = Free
        /\ \A x \in Workers : x # w => worker'[x] = worker[x]
    BY <1>1, JobTypes, FreeIsWorker
  <1>4. JobTypeOK' /\ Others(w, j)
    BY <1>1, <1>2, <1>3, JobTypes, JobTypesKept DEF Others, JobTypeOK
  <1>5. JobIsSound(j)'
    <2>1. CASE queue[j].holder = w
      <3>1. queue[j].state = "active" /\ w # None
        BY <1>1, <2>1, JobTypes DEF JobIsSound
      <3>2. stalls = 0 /\ row[j] = "completed" => worker[w].pc = "report"
        BY <1>1, <2>1, <3>1 DEF JobIsSound
      <3>3. q.made <= Attempts + stalls /\ (q.state = "waiting" => q.made < Attempts + stalls)
        BY <1>1, <2>1, JobTypes DEF JobIsSound, JobRecord
      <3> QED
        BY <1>1, <1>2, <2>1, <3>2, <3>3 DEF JobIsSound
    <2>2. CASE queue[j].holder # w
      <3>1. queue[j].holder # None => queue[j].holder \in Workers
        BY <1>1 DEF JobRecord
      <3>2. stalls # 0
        BY <1>1, <2>2, JobTypes DEF WorkerIsSound
      <3> QED
        BY <1>1, <1>2, <1>3, <2>2, <3>1, <3>2 DEF JobIsSound
    <2> QED
      BY <2>1, <2>2
  <1>6. WorkerIsSound(w)'
    BY <1>3 DEF WorkerIsSound, Free
  <1>7. queue[j].done => queue'[j].done
    BY <1>2
  <1> QED
    BY <1>4, <1>5, <1>6, <1>7, OwnJobKeeps

LEMMA ReportKeeps == ASSUME JobIInv, NEW w \in Workers, Report(w) PROVE JobIInv'
  <1>0. PICK j : j = worker[w].job
    OBVIOUS
  <1>1. JobTypeOK /\ WorkerIsSound(w) /\ worker[w].pc = "report"
    BY DEF JobIInv, Report
  <1>2. worker[w] \in WorkerRecord /\ j \in Jobs
    BY <1>0, <1>1, JobTypes DEF WorkerIsSound, WorkerRecord
  <1>3. queue[j] \in JobRecord
    BY <1>1, <1>2, JobTypes
  <1>4. CASE queue[j].holder = w
    <2>1. PICK q : q = [queue[j] EXCEPT !.state = "completed", !.holder = None,
                                        !.recorded = worker[w].sawRow]
      OBVIOUS
    <2>2. worker[w].sawRow \in BOOLEAN
      BY <1>2 DEF WorkerRecord
    <2>3. /\ q \in JobRecord /\ q.state = "completed" /\ q.holder = None
          /\ q.done = queue[j].done /\ q.made = queue[j].made
          /\ q.recorded = worker[w].sawRow
      BY <1>3, <2>1, <2>2 DEF JobRecord
    <2>4. worker[w].sawRow => row[j] = "completed"
      BY <1>0, <1>1 DEF WorkerIsSound
    <2>5. queue' = [queue EXCEPT ![j] = q]
      BY <1>0, <1>4, <2>1 DEF Report
    <2>6. worker' = [worker EXCEPT ![w] = Free] /\ UNCHANGED <<row, adding, stalls, retries>>
      BY DEF Report
    <2> QED
      BY <1>0, <1>2, <1>4, <2>3, <2>4, <2>5, <2>6, LetGoKeeps
  <1>5. CASE queue[j].holder # w
    <2>1. queue' = [queue EXCEPT ![j] = queue[j]]
      BY <1>0, <1>1, <1>2, <1>5, JobTypes DEF Report
    <2>2. worker' = [worker EXCEPT ![w] = Free] /\ UNCHANGED <<row, adding, stalls, retries>>
      BY DEF Report
    <2> QED
      BY <1>0, <1>2, <1>3, <1>5, <2>1, <2>2, LetGoKeeps
  <1> QED
    BY <1>4, <1>5

LEMMA ThrowKeeps == ASSUME JobIInv, NEW w \in Workers, Throw(w) PROVE JobIInv'
  <1>0. PICK j : j = worker[w].job
    OBVIOUS
  <1>1. JobTypeOK /\ WorkerIsSound(w) /\ worker[w].pc = "work"
    BY DEF JobIInv, Throw
  <1>2. worker[w] \in WorkerRecord /\ j \in Jobs
    BY <1>0, <1>1, JobTypes DEF WorkerIsSound, WorkerRecord
  <1>3. queue[j] \in JobRecord /\ JobIsSound(j)
    BY <1>1, <1>2, JobTypes DEF JobIInv
  <1>4. CASE queue[j].holder = w
    <2>0. PICK s : s = IF queue[j].made < Attempts THEN "waiting" ELSE "failed"
      OBVIOUS
    <2>1. PICK q : q = [queue[j] EXCEPT !.holder = None, !.state = s]
      OBVIOUS
    <2>2. s \in {"waiting", "failed"} /\ (s = "waiting" => queue[j].made < Attempts)
      BY <2>0
    <2>3. /\ q \in JobRecord /\ q.state = s /\ q.holder = None
          /\ q.done = queue[j].done /\ q.made = queue[j].made
          /\ q.recorded = queue[j].recorded
      BY <1>3, <2>1, <2>2 DEF JobRecord
    <2>4. ~queue[j].recorded
      <3>1. queue[j].state = "active"
        BY <1>1, <1>3, <1>4, JobTypes DEF JobIsSound
      <3> QED
        BY <1>3, <3>1 DEF JobIsSound
    <2>5. queue' = [queue EXCEPT ![j] = q]
      BY <1>0, <1>4, <2>0, <2>1 DEF Throw
    <2>6. worker' = [worker EXCEPT ![w] = Free] /\ UNCHANGED <<row, adding, stalls, retries>>
      BY DEF Throw
    <2> QED
      BY <1>0, <1>1, <1>2, <1>4, <2>2, <2>3, <2>4, <2>5, <2>6, LetGoKeeps
  <1>5. CASE queue[j].holder # w
    <2>1. queue' = [queue EXCEPT ![j] = queue[j]]
      BY <1>0, <1>1, <1>2, <1>5, JobTypes DEF Throw
    <2>2. worker' = [worker EXCEPT ![w] = Free] /\ UNCHANGED <<row, adding, stalls, retries>>
      BY DEF Throw
    <2> QED
      BY <1>0, <1>2, <1>3, <1>5, <2>1, <2>2, LetGoKeeps
  <1> QED
    BY <1>4, <1>5

(* A job taken for stalled waits again; its worker goes on or has stopped. *)
LEMMA StallKeeps == ASSUME JobIInv, NEW w \in Workers, Stall(w) PROVE JobIInv'
  <1>0. PICK j : j = worker[w].job
    OBVIOUS
  <1>1. /\ JobTypeOK /\ j \in Jobs /\ queue[j].holder = w /\ stalls < MaxStalls
        /\ stalls' = stalls + 1 /\ UNCHANGED <<row, adding, retries>>
    BY <1>0, JobTypes DEF JobIInv, Stall, WorkerRecord
  <1>2. queue[j] \in JobRecord /\ JobIsSound(j)
    BY <1>1, JobTypes DEF JobIInv
  <1>3. queue[j].state = "active"
    BY <1>1, <1>2, JobTypes DEF JobIsSound
  <1>4. PICK q : q = [queue[j] EXCEPT !.state = "waiting", !.holder = None]
    OBVIOUS
  <1>5. /\ q \in JobRecord /\ q.state = "waiting" /\ q.holder = None
        /\ q.done = queue[j].done /\ q.made = queue[j].made
        /\ q.recorded = queue[j].recorded
    BY <1>2, <1>4 DEF JobRecord
  <1>6. queue' = [queue EXCEPT ![j] = q]
    BY <1>0, <1>4 DEF Stall
  <1>7. /\ queue' \in [Jobs -> JobRecord] /\ queue'[j] = q
        /\ \A i \in Jobs : i # j => queue'[i] = queue[i]
    BY <1>1, <1>5, <1>6, JobTypes
  <1>8. /\ worker' \in [Workers -> WorkerRecord]
        /\ \A x \in Workers : x # w => worker'[x] = worker[x]
        /\ worker'[w] = worker[w] \/ worker'[w] = Free
    BY <1>1, JobTypes, FreeIsWorker DEF Stall
  <1>9. stalls' \in 0 .. MaxStalls /\ stalls' # 0 /\ stalls \in Nat
    BY <1>1, JobTypes
  <1>10. JobTypeOK'
    BY <1>1, <1>7, <1>8, <1>9 DEF JobTypeOK, JobRecord, WorkerRecord
  <1>11. ASSUME NEW i \in Jobs PROVE JobIsSound(i)'
    <2>1. CASE i = j
      <3>1. q.made < Attempts + stalls'
        BY <1>1, <1>2, <1>5, <1>9, JobTypes DEF JobIsSound, JobRecord
      <3>2. q.made <= Attempts + stalls'
        BY <1>1, <1>2, <1>5, <1>9, JobTypes DEF JobIsSound, JobRecord
      <3>3. ~q.recorded
        BY <1>2, <1>3, <1>5 DEF JobIsSound
      <3> QED
        BY <1>1, <1>2, <1>5, <1>7, <1>9, <2>1, <3>1, <3>2, <3>3 DEF JobIsSound
    <2>2. CASE i # j
      <3>1. JobIsSound(i) /\ queue[i] \in JobRecord
        BY <1>1, JobTypes DEF JobIInv
      <3>2. queue[i].holder # None => queue[i].holder \in Workers \ {w}
        BY <1>0, <2>2, <3>1 DEF JobIsSound, JobRecord
      <3>3. /\ queue[i].made <= Attempts + stalls'
            /\ queue[i].state = "waiting" => queue[i].made < Attempts + stalls'
        BY <1>1, <1>9, <3>1, JobTypes DEF JobIsSound, JobRecord
      <3> QED
        BY <1>1, <1>7, <1>8, <1>9, <2>2, <3>1, <3>2, <3>3 DEF JobIsSound
    <2> QED
      BY <2>1, <2>2
  <1>12. ASSUME NEW x \in Workers PROVE WorkerIsSound(x)'
    <2>1. WorkerIsSound(x) /\ worker[x] \in WorkerRecord
      BY <1>1, JobTypes DEF JobIInv
    <2>2. worker'[x] = worker[x] \/ worker'[x] = Free
      BY <1>8
    <2>3. \A i \in Jobs : queue'[i].done = queue[i].done
      BY <1>5, <1>7
    <2>4. CASE worker'[x] = Free
      BY <2>4 DEF WorkerIsSound, Free
    <2>5. CASE worker'[x] = worker[x]
      BY <1>1, <1>9, <2>1, <2>3, <2>5 DEF WorkerIsSound, WorkerRecord
    <2> QED
      BY <2>2, <2>4, <2>5
  <1> QED
    BY <1>10, <1>11, <1>12 DEF JobIInv

(* An administrator's step on a job that no worker holds. *)
LEMMA AdminKeeps ==
    ASSUME JobIInv, NEW j \in Jobs, NEW q \in JobRecord,
           queue[j].holder = None, queue' = [queue EXCEPT ![j] = q],
           UNCHANGED <<row, adding, worker, stalls>>, retries' \in 0 .. MaxRetries,
           q.holder = None, q.done = queue[j].done, ~q.recorded,
           \/ q.state = "absent" /\ q.made = queue[j].made
           \/ q.state = "waiting" /\ q.made = 0 /\ queue[j].state = "failed"
    PROVE  JobIInv'
  <1>1. JobTypeOK /\ JobIsSound(j) /\ queue[j] \in JobRecord
    BY JobTypes DEF JobIInv
  <1>2. /\ queue' \in [Jobs -> JobRecord] /\ queue'[j] = q
        /\ \A i \in Jobs : i # j => queue'[i] = queue[i]
    BY <1>1, JobTypes
  <1>3. JobTypeOK'
    BY <1>1, <1>2 DEF JobTypeOK, JobRecord
  <1>4. ASSUME NEW i \in Jobs PROVE JobIsSound(i)'
    <2>1. CASE i = j
      <3>1. q.made <= Attempts + stalls
        BY <1>1, JobTypes DEF JobIsSound
      <3>2. q.state = "waiting" => q.made < Attempts + stalls
        BY <1>1, JobTypes
      <3>3. q.state = "waiting" => ~(stalls = 0 /\ row[j] = "completed")
        BY <1>1 DEF JobIsSound
      <3>4. q.state \in {"absent", "waiting"}
        OBVIOUS
      <3> QED
        BY <1>1, <1>2, <2>1, <3>1, <3>2, <3>3, <3>4 DEF JobIsSound
    <2>2. CASE i # j
      BY <1>2, <2>2 DEF JobIInv, JobIsSound
    <2> QED
      BY <2>1, <2>2
  <1>5. ASSUME NEW x \in Workers PROVE WorkerIsSound(x)'
    <2>1. WorkerIsSound(x) /\ worker[x] \in WorkerRecord
      BY <1>1, JobTypes DEF JobIInv
    <2>2. \A i \in Jobs : /\ queue'[i].done = queue[i].done
                          /\ queue'[i].holder = queue[i].holder
      BY <1>2
    <2> QED
      BY <2>1, <2>2 DEF WorkerIsSound, WorkerRecord
  <1> QED
    BY <1>3, <1>4, <1>5 DEF JobIInv

LEMMA RetryKeeps == ASSUME JobIInv, NEW j \in Jobs, Retry(j) PROVE JobIInv'
  <1>1. JobTypeOK /\ JobIsSound(j) /\ queue[j] \in JobRecord /\ queue[j].state = "failed"
    BY JobTypes DEF JobIInv, Retry
  <1>2. queue[j].holder = None /\ ~queue[j].recorded
    BY <1>1 DEF JobIsSound
  <1>3. PICK q : q = [queue[j] EXCEPT !.state = "waiting", !.made = 0]
    OBVIOUS
  <1>4. 0 \in 0 .. Attempts + MaxStalls
    BY <1>1, JobTypes
  <1>5. /\ q \in JobRecord /\ q.state = "waiting" /\ q.made = 0 /\ q.holder = None
        /\ q.done = queue[j].done /\ q.recorded = queue[j].recorded
    BY <1>1, <1>2, <1>3, <1>4 DEF JobRecord
  <1>6. queue' = [queue EXCEPT ![j] = q] /\ UNCHANGED <<row, adding, worker, stalls>>
    BY <1>3 DEF Retry
  <1>7. retries' \in 0 .. MaxRetries
    BY <1>1, AttemptsAssumption DEF Retry, JobTypeOK
  <1> QED
    BY <1>1, <1>2, <1>5, <1>6, <1>7, AdminKeeps

LEMMA RemoveKeeps == ASSUME JobIInv, NEW j \in Jobs, Remove(j) PROVE JobIInv'
  <1>1. JobTypeOK /\ JobIsSound(j) /\ queue[j] \in JobRecord /\ queue[j].state # "active"
    BY JobTypes DEF JobIInv, Remove
  <1>2. queue[j].holder = None
    BY <1>1 DEF JobIsSound
  <1>3. PICK q : q = [queue[j] EXCEPT !.state = "absent", !.recorded = FALSE]
    OBVIOUS
  <1>5. /\ q \in JobRecord /\ q.state = "absent" /\ q.made = queue[j].made
        /\ q.holder = None /\ q.done = queue[j].done /\ ~q.recorded
    BY <1>1, <1>2, <1>3 DEF JobRecord
  <1>6. /\ queue' = [queue EXCEPT ![j] = q] /\ UNCHANGED <<row, adding, worker, stalls>>
        /\ retries' = retries
    BY <1>3 DEF Remove
  <1>7. retries' \in 0 .. MaxRetries
    BY <1>1, <1>6 DEF JobTypeOK
  <1> QED
    BY <1>1, <1>2, <1>5, <1>6, <1>7, AdminKeeps

LEMMA JobInitHolds == JobInit => JobIInv
  <1> SUFFICES ASSUME JobInit PROVE JobIInv
    OBVIOUS
  <1>1. /\ 0 \in 0 .. Attempts + MaxStalls
        /\ stalls \in 0 .. MaxStalls /\ retries \in 0 .. MaxRetries
    BY AttemptsAssumption DEF JobInit
  <1>0. NoJob \in JobRecord
    BY <1>1 DEF NoJob, JobRecord
  <1>2. JobTypeOK
    <2>1. /\ queue \in [Jobs -> JobRecord] /\ worker \in [Workers -> WorkerRecord]
          /\ row \in [Jobs -> Statuses] /\ adding \subseteq Jobs
      BY <1>0, FreeIsWorker DEF JobInit, Statuses
    <2> QED
      BY <1>1, <2>1 DEF JobTypeOK, JobRecord, WorkerRecord, Statuses
  <1>3. \A j \in Jobs : JobIsSound(j)
    <2>1. Attempts \in Nat /\ Attempts > 0 /\ stalls = 0
      BY AttemptsAssumption DEF JobInit
    <2>2. \A j \in Jobs : /\ queue[j] = NoJob /\ row[j] = None /\ j \notin adding
      BY DEF JobInit
    <2>3. 0 <= Attempts + stalls /\ 0 < Attempts + stalls
      BY <2>1
    <2>4. /\ NoJob.made = 0 /\ NoJob.state = "absent" /\ NoJob.holder = None
          /\ ~NoJob.recorded
      BY DEF NoJob
    <2>5. None # "completed"
      BY DEF None
    <2> QED
      BY <2>2, <2>3, <2>4, <2>5 DEF JobIsSound
  <1>4. \A w \in Workers : WorkerIsSound(w)
    BY DEF JobInit, WorkerIsSound, Free
  <1> QED
    BY <1>2, <1>3, <1>4 DEF JobIInv

LEMMA JobSteps == JobIInv /\ [JobNext]_jobVars => JobIInv'
  <1> SUFFICES ASSUME JobIInv, [JobNext]_jobVars PROVE JobIInv'
    OBVIOUS
  <1>1. CASE UNCHANGED jobVars
    BY <1>1 DEF jobVars, JobIInv, JobTypeOK, JobIsSound, WorkerIsSound
  <1> QED
    BY <1>1, AddKeeps, CreateRecordKeeps, TakeKeeps, StartKeeps, WorkKeeps,
       FinishRowKeeps, ReportKeeps, ThrowKeeps, StallKeeps, RetryKeeps, RemoveKeeps
    DEF JobNext, WorkerStep

(* A row of table Job tells the truth of its job: it is completed only when *)
(* the work was done, and a job that failed has no completed row unless a   *)
(* worker stalled, for any number of jobs, workers, attempts, stalls and    *)
(* retries (redis-queue.ts, worker/index.ts).                               *)
THEOREM RowsTellOutcomes == JobSpec => []JobInv
  <1>1. JobIInv => JobInv
    <2> SUFFICES ASSUME JobIInv PROVE JobInv
      OBVIOUS
    <2>1. ASSUME NEW j \in Jobs, queue[j].state = "failed", row[j] = "completed"
          PROVE  stalls > 0
      <3>1. JobIsSound(j) /\ stalls \in Nat
        BY JobTypes DEF JobIInv
      <3>2. stalls # 0
        BY <2>1, <3>1 DEF JobIsSound
      <3> QED
        BY <3>1, <3>2
    <2> QED
      BY <2>1 DEF JobIInv, JobInv, RowTellsOutcome, JobIsSound
  <1> QED
    BY <1>1, JobInitHolds, JobSteps, PTL DEF JobSpec

-----------------------------------------------------------------------------
(*************************************************************************)
(* Verification of the chain.  The rows of a tenant are a set, and the   *)
(* walk goes over them in order: the row in place i is the one with i    *)
(* rows up to it.  Up to the first number that was edited, deleted or    *)
(* recorded with a date, every place holds the row of its number and     *)
(* that row is confirmed.  In that number's own place stands its row, of *)
(* which the digest is of other contents, or after a deletion a later    *)
(* row, which hangs from another digest than the one before it.  What    *)
(* takes the place of an induction is the least number of a set.         *)
(*************************************************************************)

(* A set of numbers that is not empty has a least. *)
LEMMA LeastNatural ==
    ASSUME NEW T \in SUBSET Nat, NEW t \in T
    PROVE  \E x \in T : \A y \in T : x <= y
<1>1. PICK R : R = OpToRel(<, Nat)
  BY Zenon
<1>2. IsWellFoundedOn(R, Nat)
  BY <1>1, NatLessThanWellFounded, Zenon
<1>3. PICK x \in T : \A y \in T : ~ (<<y, x>> \in R)
  BY <1>2, WFMin
<1>4. ASSUME NEW y \in T, y < x PROVE FALSE
  <2>1. <<y, x>> \in R
    BY <1>1, <1>4, Zenon DEF OpToRel
  <2>2. QED
    BY <1>3, <2>1
<1>5. QED
  BY <1>4

(* Rows with numbers of their own. *)
RowsNumbered(S) ==
    /\ IsFiniteSet(S)
    /\ \A e \in S : e.sequenceNum \in Nat \ {0}
    /\ \A e, f \in S : e.sequenceNum = f.sequenceNum => e = f

LEMMA UpToIsFinite ==
    ASSUME NEW S, RowsNumbered(S), NEW e \in S
    PROVE  /\ IsFiniteSet(UpTo(S, e)) /\ Cardinality(UpTo(S, e)) \in Nat
           /\ Cardinality(S) \in Nat /\ Cardinality(UpTo(S, e)) <= Cardinality(S)
<1>1. UpTo(S, e) \in SUBSET S
  BY DEF UpTo
<1>2. QED
  BY <1>1, FS_Subset, FS_CardinalityType DEF RowsNumbered

(* The place of a row tells the row. *)
LEMMA RanksDiffer ==
    ASSUME NEW S, RowsNumbered(S), NEW e \in S, NEW f \in S, e.sequenceNum < f.sequenceNum
    PROVE  Cardinality(UpTo(S, e)) < Cardinality(UpTo(S, f))
<1>1. UpTo(S, e) \in SUBSET UpTo(S, f) /\ f \in UpTo(S, f) /\ f \notin UpTo(S, e)
  BY DEF UpTo, RowsNumbered
<1>2. /\ IsFiniteSet(UpTo(S, f)) /\ Cardinality(UpTo(S, f)) \in Nat
      /\ Cardinality(UpTo(S, e)) \in Nat
  BY UpToIsFinite
<1>3. /\ Cardinality(UpTo(S, e)) <= Cardinality(UpTo(S, f))
      /\ Cardinality(UpTo(S, e)) # Cardinality(UpTo(S, f))
  BY <1>1, <1>2, FS_Subset
<1>4. QED
  BY <1>2, <1>3

LEMMA RanksTell ==
    ASSUME NEW S, RowsNumbered(S), NEW e \in S, NEW f \in S,
           Cardinality(UpTo(S, e)) = Cardinality(UpTo(S, f))
    PROVE  e = f
<1>1. e.sequenceNum \in Nat /\ f.sequenceNum \in Nat
  BY DEF RowsNumbered
<1>2. Cardinality(UpTo(S, e)) \in Nat /\ Cardinality(UpTo(S, f)) \in Nat
  BY UpToIsFinite
<1>3. ~(e.sequenceNum < f.sequenceNum) /\ ~(f.sequenceNum < e.sequenceNum)
  BY <1>2, RanksDiffer
<1>4. QED
  BY <1>1, <1>3 DEF RowsNumbered

(* Before the first gap a row's place is its number, and the row after the *)
(* gap has the place of the gap.                                           *)
LEMMA PlaceOf ==
    ASSUME NEW S, RowsNumbered(S), NEW k \in Nat,
           \A n \in 1 .. k : \E e \in S : e.sequenceNum = n,
           NEW x \in S, x.sequenceNum > k,
           \A e \in S : e.sequenceNum > k => e.sequenceNum >= x.sequenceNum
    PROVE  Cardinality(UpTo(S, x)) = k + 1
<1> DEFINE low == {e \in S : e.sequenceNum <= k}
           rowOf == [n \in 1 .. k |-> CHOOSE e \in S : e.sequenceNum = n]
<1>1. \A n \in 1 .. k : rowOf[n] \in S /\ rowOf[n].sequenceNum = n
  OBVIOUS
<1>2. rowOf \in [1 .. k -> low]
  BY <1>1
<1>3. \A m, n \in 1 .. k : rowOf[m] = rowOf[n] => m = n
  BY <1>1
<1>4. \A e \in low : \E n \in 1 .. k : rowOf[n] = e
  <2>1. SUFFICES ASSUME NEW e \in low PROVE rowOf[e.sequenceNum] = e /\ e.sequenceNum \in 1 .. k
    OBVIOUS
  <2>2. e.sequenceNum \in 1 .. k
    BY DEF RowsNumbered
  <2>3. QED
    BY <1>1, <2>2 DEF RowsNumbered
<1>5. rowOf \in Bijection(1 .. k, low)
  BY <1>2, <1>3, <1>4 DEF Bijection, Injection, Surjection, IsInjective
<1>6. IsFiniteSet(1 .. k) /\ Cardinality(1 .. k) = k
  BY FS_Interval
<1>7. IsFiniteSet(low) /\ Cardinality(low) = k
  BY <1>5, <1>6, FS_Bijection DEF ExistsBijection
<1>8. UpTo(S, x) = low \cup {x} /\ x \notin low
  BY DEF UpTo, RowsNumbered
<1>9. QED
  BY <1>7, <1>8, FS_AddElement

LEMMA RowAt ==
    ASSUME NEW S, RowsNumbered(S), NEW k \in Nat,
           \A n \in 1 .. k : \E e \in S : e.sequenceNum = n,
           NEW x \in S, x.sequenceNum > k,
           \A e \in S : e.sequenceNum > k => e.sequenceNum >= x.sequenceNum
    PROVE  /\ k + 1 <= Cardinality(S)
           /\ \A e \in S : Cardinality(UpTo(S, e)) = k + 1 <=> e = x
<1>1. Cardinality(UpTo(S, x)) = k + 1
  BY PlaceOf
<1>2. k + 1 <= Cardinality(S)
  BY <1>1, UpToIsFinite
<1>3. \A e \in S : Cardinality(UpTo(S, e)) = k + 1 => e = x
  BY <1>1, RanksTell
<1>4. QED
  BY <1>1, <1>2, <1>3

LEMMA FewRows ==
    ASSUME NEW S, RowsNumbered(S), NEW n \in Nat, \A e \in S : e.sequenceNum <= n
    PROVE  Cardinality(S) <= n
<1> DEFINE f == [e \in S |-> e.sequenceNum]
<1>1. f \in Injection(S, 1 .. n)
  BY DEF Injection, IsInjective, RowsNumbered
<1>2. IsFiniteSet(1 .. n) /\ Cardinality(1 .. n) = n
  BY FS_Interval
<1>3. QED
  BY <1>1, <1>2, FS_Injection

-----------------------------------------------------------------------------
(* The fields of rows and invocations. *)
RowsLike(e) ==
    [tenantId : Tenants, sequenceNum : Nat \ {0}, request : Requests, kind : Kinds,
     metadata : Persisted, prevHash : {e.prevHash}, eventHash : {e.eventHash}]

RequestsLike(q) ==
    [pc : Pcs, input : Inputs \cup {NoInput}, kind : Kinds, latest : {q.latest}]

VerificationTypes ==
    /\ IsFiniteSet(auditEvent) /\ \A e \in auditEvent : e \in RowsLike(e)
    /\ DOMAIN req = Requests /\ \A r \in Requests : req[r] \in RequestsLike(req[r])
    /\ damaged \subseteq Tenants \X (Nat \ {0})
    /\ SequenceUnique /\ AppenderHasInput

(* No number is missing but those of deleted rows, and each of those has a *)
(* row above it.                                                           *)
GapsAreDamage ==
    /\ \A e \in auditEvent : \A n \in 1 .. e.sequenceNum :
          SequenceTaken(e.tenantId, n) \/ <<e.tenantId, n>> \in damaged
    /\ \A d \in damaged : \E f \in auditEvent : f.tenantId = d[1] /\ f.sequenceNum >= d[2]

(* A digest is of the row as it went in; it is of the row that is there if *)
(* the row was not edited. *)
HashedAsInserted(e) ==
    LET p == e.eventHash.payload IN
    /\ e.eventHash = ComputeEventHash(e.tenantId, e.sequenceNum, p, e.prevHash)
    /\ p = <<e.request, p[2], IF e.metadata = "isoText" THEN "emptyObject" ELSE "plain">>
    /\ p[2] = e.kind <=> <<e.tenantId, e.sequenceNum>> \notin damaged

(* A row hangs from the row before it, or from what that was. *)
HangsFromPrevious(e) ==
    /\ e.prevHash.sequenceNum = e.sequenceNum - 1
    /\ e.sequenceNum = 1 => e.prevHash = Genesis
    /\ \A p \in auditEvent :
          p.tenantId = e.tenantId /\ p.sequenceNum + 1 = e.sequenceNum => e.prevHash = p.eventHash

(* What an open transaction read was the last row, and is unless another   *)
(* append took the number it is about to use.                              *)
WriterIsCurrent(q) ==
    LET t == q.input.tenantId
        n == q.latest.sequenceNum IN
    /\ n \in Nat /\ q.latest.eventHash.sequenceNum = n
    /\ n = 0 => q.latest.eventHash = Genesis
    /\ n > 0 => \E f \in TenantRows(t) : f.sequenceNum >= n
    /\ \A p \in TenantRows(t) : p.sequenceNum = n => p.eventHash = q.latest.eventHash
    /\ SequenceTaken(t, n + 1) \/ \A f \in TenantRows(t) : f.sequenceNum <= n

VerificationIInv ==
    /\ VerificationTypes /\ GapsAreDamage
    /\ \A e \in auditEvent : HashedAsInserted(e) /\ HangsFromPrevious(e)
    /\ \A r \in Requests : req[r].pc = "writing" => WriterIsCurrent(req[r])

-----------------------------------------------------------------------------
LEMMA TenantNumbered ==
    ASSUME VerificationIInv, NEW t \in Tenants
    PROVE  RowsNumbered(TenantRows(t)) /\ Cardinality(TenantRows(t)) \in Nat
<1>1. /\ IsFiniteSet(auditEvent) /\ SequenceUnique
      /\ \A e \in auditEvent : e.sequenceNum \in Nat \ {0}
  BY DEF VerificationIInv, VerificationTypes, RowsLike
<1>2. TenantRows(t) \in SUBSET auditEvent
  BY DEF TenantRows
<1>3. IsFiniteSet(TenantRows(t))
  BY <1>1, <1>2, FS_Subset
<1>4. RowsNumbered(TenantRows(t))
  BY <1>1, <1>3 DEF RowsNumbered, SequenceUnique, TenantRows
<1>5. QED
  BY <1>3, <1>4, FS_CardinalityType

(* The rows that the walk looks at. *)
Looked(t, limit) ==
    LET rows == Ordered(t)
    IN  SubSeq(rows, 1, IF limit < Len(rows) THEN limit ELSE Len(rows))

LEMMA WalkLooksAt ==
    ASSUME VerificationIInv, NEW t \in Tenants, NEW limit \in Limits, NEW events,
           events = Looked(t, limit)
    PROVE  \E top \in Nat :
              /\ top <= limit /\ top <= Cardinality(TenantRows(t))
              /\ top = limit \/ top = Cardinality(TenantRows(t))
              /\ Len(events) = top /\ DOMAIN events = 1 .. top
              /\ \A i \in 1 .. top : events[i] =
                    CHOOSE e \in TenantRows(t) : Cardinality(UpTo(TenantRows(t), e)) = i
<1>1. PICK S : S = TenantRows(t)
  OBVIOUS
<1>2. PICK c \in Nat : c = Cardinality(S)
  BY <1>1, TenantNumbered
<1>3. PICK rows : rows = Ordered(t)
  OBVIOUS
<1>4. /\ DOMAIN rows = 1 .. c /\ rows = [i \in 1 .. c |-> rows[i]]
      /\ \A i \in 1 .. c : rows[i] = CHOOSE e \in S : Cardinality(UpTo(S, e)) = i
  BY <1>1, <1>2, <1>3 DEF Ordered
<1>5. PICK R : R = {rows[i] : i \in 1 .. c}
  OBVIOUS
<1>6. rows \in Seq(R) /\ Len(rows) = c
  <2>1. rows \in [1 .. c -> R]
    BY <1>4, <1>5
  <2>2. QED
    BY <2>1
<1>7. PICK top \in Nat : top = IF limit < Len(rows) THEN limit ELSE Len(rows)
  BY <1>6, LimitsAssumption
<1>8. events = SubSeq(rows, 1, top)
  BY <1>3, <1>7 DEF Looked
<1>9. Len(events) = top /\ DOMAIN events = 1 .. top /\ \A i \in 1 .. top : events[i] = rows[i]
  BY <1>6, <1>7, <1>8, LimitsAssumption, SubSeqProperties
<1>10. limit \in Nat
  BY LimitsAssumption
<1>11. top <= limit /\ top <= c /\ (top = limit \/ top = c)
  BY <1>6, <1>7, <1>10
<1>12. QED
  BY <1>1, <1>2, <1>4, <1>9, <1>11

(* A row that was neither edited nor dated is confirmed, ...               *)
LEMMA IntactIsConfirmed ==
    ASSUME VerificationIInv, NEW e \in auditEvent, NEW prev, e.prevHash = prev,
           <<e.tenantId, e.sequenceNum>> \notin damaged, e.metadata # "isoText"
    PROVE  Recomputed(e, prev) = e.eventHash
<1>1. e \in RowsLike(e) /\ HashedAsInserted(e)
  BY DEF VerificationIInv, VerificationTypes
<1>2. PICK p : p = e.eventHash.payload
  OBVIOUS
<1>3. /\ e.eventHash = ComputeEventHash(e.tenantId, e.sequenceNum, p, e.prevHash)
      /\ p = <<e.request, p[2], "plain">> /\ p[2] = e.kind
  BY <1>1, <1>2 DEF HashedAsInserted
<1>4. e.metadata = "plain"
  BY <1>1 DEF RowsLike, Persisted
<1>5. QED
  BY <1>3, <1>4 DEF Recomputed, Canonical

(* ... and one that was is not, whatever comes before it.                  *)
LEMMA DamageIsSeen ==
    ASSUME VerificationIInv, NEW e \in auditEvent, NEW prev,
           <<e.tenantId, e.sequenceNum>> \in damaged \/ e.metadata = "isoText"
    PROVE  Recomputed(e, prev) # e.eventHash
<1>1. e \in RowsLike(e) /\ HashedAsInserted(e)
  BY DEF VerificationIInv, VerificationTypes
<1>2. PICK p : p = e.eventHash.payload
  OBVIOUS
<1>3. /\ p[2] = e.kind <=> <<e.tenantId, e.sequenceNum>> \notin damaged
      /\ p = <<e.request, p[2], IF e.metadata = "isoText" THEN "emptyObject" ELSE "plain">>
  BY <1>1, <1>2 DEF HashedAsInserted
<1>4. SUFFICES ASSUME Recomputed(e, prev) = e.eventHash PROVE FALSE
  OBVIOUS
<1>5. p = <<e.request, e.kind, Canonical(e.metadata)>>
  BY <1>2, <1>4 DEF Recomputed, ComputeEventHash
<1>6. p[2] = e.kind /\ p[3] = Canonical(e.metadata)
  BY <1>5
<1>7. e.metadata = "isoText"
  BY <1>3, <1>6
<1>8. p[3] = "emptyObject"
  BY <1>3, <1>7
<1>9. QED
  BY <1>6, <1>7, <1>8 DEF Canonical

LEMMA DigestIsNumbered ==
    ASSUME VerificationIInv, NEW e \in auditEvent
    PROVE  e.eventHash.sequenceNum = e.sequenceNum
<1>1. HashedAsInserted(e)
  BY DEF VerificationIInv
<1>2. PICK p : p = e.eventHash.payload
  OBVIOUS
<1>3. e.eventHash = ComputeEventHash(e.tenantId, e.sequenceNum, p, e.prevHash)
  BY <1>1, <1>2 DEF HashedAsInserted
<1>4. QED
  BY <1>3 DEF ComputeEventHash

(* Numbers below the first hit are taken, by rows that are confirmed. *)
LEMMA TakenBelow ==
    ASSUME VerificationIInv, NEW t \in Tenants, NEW m \in Nat,
           NEW f \in TenantRows(t), f.sequenceNum >= m,
           \A n \in 1 .. m : n \notin DamageAt(t)
    PROVE  \A n \in 1 .. m : \E e \in TenantRows(t) : e.sequenceNum = n
<1>1. SUFFICES ASSUME NEW n \in 1 .. m PROVE \E e \in TenantRows(t) : e.sequenceNum = n
  OBVIOUS
<1>2. f \in auditEvent /\ f.tenantId = t /\ f.sequenceNum \in Nat
  BY DEF TenantRows, VerificationIInv, VerificationTypes, RowsLike
<1>3. SequenceTaken(t, n) \/ <<t, n>> \in damaged
  BY <1>2 DEF VerificationIInv, GapsAreDamage
<1>4. <<t, n>> \notin damaged
  <2>1. SUFFICES ASSUME <<t, n>> \in damaged PROVE n \in DamageAt(t)
    OBVIOUS
  <2>2. <<t, n>>[1] = t /\ <<t, n>>[2] = n
    OBVIOUS
  <2>3. QED
    BY <2>1, <2>2 DEF DamageAt
<1>5. QED
  BY <1>3, <1>4 DEF SequenceTaken, TenantRows

(* A row in its place is not broken, unless it was hit. *)
LEMMA ConfirmedInPlace ==
    ASSUME VerificationIInv, NEW t \in Tenants, NEW k \in Nat, NEW events,
           \A n \in 1 .. k : /\ events[n] \in TenantRows(t)
                             /\ events[n].sequenceNum = n
                             /\ n \notin DamageAt(t) \cup DatedAt(t),
           NEW i \in 1 .. k
    PROVE  ~BrokenLink(events, i)
<1>1. PICK e : e = events[i]
  OBVIOUS
<1>2. /\ e \in auditEvent /\ e.tenantId = t /\ e.sequenceNum = i
      /\ i \notin DamageAt(t) /\ i \notin DatedAt(t) /\ e \in TenantRows(t)
  BY <1>1 DEF TenantRows
<1>3. <<e.tenantId, e.sequenceNum>> \notin damaged
  <2>1. SUFFICES ASSUME <<t, i>> \in damaged PROVE i \in DamageAt(t)
    BY <1>2
  <2>2. <<t, i>>[1] = t /\ <<t, i>>[2] = i
    OBVIOUS
  <2>3. QED
    BY <2>1, <2>2 DEF DamageAt
<1>4. e.metadata # "isoText"
  BY <1>2 DEF DatedAt
<1>5. PICK prev : prev = IF i = 1 THEN Genesis ELSE events[i - 1].eventHash
  OBVIOUS
<1>6. e.prevHash = prev
  <2>1. HangsFromPrevious(e)
    BY <1>2 DEF VerificationIInv
  <2>2. CASE i = 1
    BY <1>2, <1>5, <2>1, <2>2 DEF HangsFromPrevious
  <2>3. CASE i # 1
    <3>1. PICK p : p = events[i - 1]
      OBVIOUS
    <3>2. p \in auditEvent /\ p.tenantId = t /\ p.sequenceNum + 1 = i
      <4>1. i - 1 \in 1 .. k
        BY <2>3
      <4>2. QED
        BY <3>1, <4>1 DEF TenantRows
    <3>3. QED
      BY <1>2, <1>5, <2>1, <2>3, <3>1, <3>2 DEF HangsFromPrevious
  <2>4. QED
    BY <2>2, <2>3
<1>7. Recomputed(e, prev) = e.eventHash
  BY <1>2, <1>3, <1>4, <1>6, IntactIsConfirmed
<1>8. QED
  BY <1>1, <1>5, <1>6, <1>7 DEF BrokenLink

(* What stands in the place of the first hit is broken. *)
LEMMA BrokenInPlace ==
    ASSUME VerificationIInv, NEW t \in Tenants, NEW m \in Nat, m > 0, NEW events,
           \A n \in 1 .. m - 1 : /\ events[n] \in TenantRows(t)
                                 /\ events[n].sequenceNum = n,
           m \in DamageAt(t) \cup DatedAt(t),
           events[m] \in TenantRows(t), events[m].sequenceNum >= m
    PROVE  BrokenLink(events, m)
<1>1. PICK e : e = events[m]
  OBVIOUS
<1>2. e \in auditEvent /\ e.tenantId = t /\ e.sequenceNum >= m /\ e.sequenceNum \in Nat
  BY <1>1 DEF TenantRows, VerificationIInv, VerificationTypes, RowsLike
<1>3. PICK prev : prev = IF m = 1 THEN Genesis ELSE events[m - 1].eventHash
  OBVIOUS
<1>4. CASE e.sequenceNum = m
  <2>1. <<t, m>> \in damaged \/ e.metadata = "isoText"
    <3>1. CASE m \in DamageAt(t)
      <4>1. PICK d \in damaged : d[1] = t /\ d[2] = m
        BY <3>1 DEF DamageAt
      <4>2. d = <<t, m>>
        BY <4>1 DEF VerificationIInv, VerificationTypes
      <4>3. QED
        BY <4>1, <4>2
    <3>2. CASE m \in DatedAt(t)
      <4>1. PICK f \in TenantRows(t) : f.metadata = "isoText" /\ f.sequenceNum = m
        BY <3>2 DEF DatedAt
      <4>2. f = e
        BY <1>2, <1>4, <4>1 DEF VerificationIInv, VerificationTypes, SequenceUnique, TenantRows
      <4>3. QED
        BY <4>1, <4>2
    <3>3. QED
      BY <3>1, <3>2
  <2>2. Recomputed(e, prev) # e.eventHash
    BY <1>2, <1>4, <2>1, DamageIsSeen
  <2>3. QED
    BY <1>1, <1>3, <2>2 DEF BrokenLink
<1>5. CASE e.sequenceNum > m
  <2>1. e.prevHash.sequenceNum = e.sequenceNum - 1
    BY <1>2 DEF VerificationIInv, HangsFromPrevious
  <2>2. prev.sequenceNum = m - 1
    <3>1. CASE m = 1
      BY <1>3, <3>1 DEF Genesis
    <3>2. CASE m # 1
      <4>1. PICK p : p = events[m - 1]
        OBVIOUS
      <4>2. p \in auditEvent /\ p.sequenceNum = m - 1
        <5>1. m - 1 \in 1 .. m - 1
          BY <3>2
        <5>2. QED
          BY <4>1, <5>1 DEF TenantRows
      <4>3. p.eventHash.sequenceNum = p.sequenceNum
        BY <4>2, DigestIsNumbered
      <4>4. QED
        BY <1>3, <3>2, <4>1, <4>2, <4>3
    <3>3. QED
      BY <3>1, <3>2
  <2>3. e.prevHash # prev
    BY <1>2, <1>5, <2>1, <2>2
  <2>4. QED
    BY <1>1, <1>3, <2>3 DEF BrokenLink
<1>6. QED
  BY <1>2, <1>4, <1>5

(* Without a hit the walk meets a row in its place until it ends, ...      *)
LEMMA NoHitNoBreak ==
    ASSUME VerificationIInv, NEW t \in Tenants, NEW limit \in Limits, NEW events,
           events = Looked(t, limit),
           \A n \in 1 .. limit : n \notin DamageAt(t) \cup DatedAt(t)
    PROVE  \A i \in DOMAIN events : ~BrokenLink(events, i)
<1>1. PICK top \in Nat :
         /\ top <= limit /\ top <= Cardinality(TenantRows(t))
         /\ DOMAIN events = 1 .. top
         /\ \A i \in 1 .. top : events[i] =
               CHOOSE e \in TenantRows(t) : Cardinality(UpTo(TenantRows(t), e)) = i
  BY WalkLooksAt
<1>2. PICK S : S = TenantRows(t)
  OBVIOUS
<1>3. RowsNumbered(S) /\ Cardinality(S) \in Nat /\ limit \in Nat
  BY <1>2, TenantNumbered, LimitsAssumption
<1>4. \A n \in 1 .. top : \E e \in S : e.sequenceNum = n
  <2>1. SUFFICES ASSUME top > 0 PROVE \A n \in 1 .. top : \E e \in S : e.sequenceNum = n
    BY <1>1
  <2>2. ~ \A e \in S : e.sequenceNum <= top - 1
    <3>1. top - 1 \in Nat
      BY <2>1
    <3>2. QED
      BY <1>1, <1>2, <1>3, <3>1, FewRows
  <2>3. PICK f \in S : f.sequenceNum >= top
    BY <1>3, <2>2 DEF RowsNumbered
  <2>4. \A n \in 1 .. top : n \notin DamageAt(t)
    BY <1>1, <1>3
  <2>5. QED
    BY <1>2, <2>3, <2>4, TakenBelow
<1>5. ASSUME NEW i \in 1 .. top
      PROVE  /\ events[i] \in S /\ events[i].sequenceNum = i
             /\ i \notin DamageAt(t) \cup DatedAt(t)
  <2>1. PICK x \in S : x.sequenceNum = i
    BY <1>4
  <2>2. PICK k \in Nat : k = i - 1
    OBVIOUS
  <2>3. /\ \A n \in 1 .. k : \E e \in S : e.sequenceNum = n
        /\ x.sequenceNum > k
        /\ \A e \in S : e.sequenceNum > k => e.sequenceNum >= x.sequenceNum
    BY <1>3, <1>4, <2>1, <2>2 DEF RowsNumbered
  <2>4. \A e \in S : Cardinality(UpTo(S, e)) = i <=> e = x
    <3>1. \A e \in S : Cardinality(UpTo(S, e)) = k + 1 <=> e = x
      BY <1>3, <2>3, RowAt
    <3>2. k + 1 = i
      BY <2>2
    <3>3. QED
      BY <3>1, <3>2
  <2>5. events[i] = x
    BY <1>1, <1>2, <2>1, <2>4
  <2>6. QED
    BY <1>1, <1>3, <2>1, <2>5
<1>6. QED
  BY <1>1, <1>2, <1>5, ConfirmedInPlace

(* ... and with one it stops there.                                        *)
LEMMA FirstHitBreaks ==
    ASSUME VerificationIInv, NEW t \in Tenants, NEW limit \in Limits, NEW events,
           events = Looked(t, limit), NEW m \in 1 .. limit,
           m \in DamageAt(t) \cup DatedAt(t),
           \A n \in 1 .. m - 1 : n \notin DamageAt(t) \cup DatedAt(t)
    PROVE  /\ m \in DOMAIN events /\ BrokenLink(events, m)
           /\ \A i \in DOMAIN events : i \in Nat /\ (i < m => ~BrokenLink(events, i))
<1>1. PICK top \in Nat :
         /\ top = limit \/ top = Cardinality(TenantRows(t))
         /\ DOMAIN events = 1 .. top
         /\ \A i \in 1 .. top : events[i] =
               CHOOSE e \in TenantRows(t) : Cardinality(UpTo(TenantRows(t), e)) = i
  BY WalkLooksAt
<1>2. PICK S : S = TenantRows(t)
  OBVIOUS
<1>3. RowsNumbered(S) /\ Cardinality(S) \in Nat /\ limit \in Nat
  BY <1>2, TenantNumbered, LimitsAssumption
<1>4. PICK f \in S : f.sequenceNum >= m
  <2>1. CASE m \in DamageAt(t)
    <3>1. PICK d \in damaged : d[1] = t /\ d[2] = m
      BY <2>1 DEF DamageAt
    <3>2. PICK f \in auditEvent : f.tenantId = t /\ f.sequenceNum >= m
      BY <3>1 DEF VerificationIInv, GapsAreDamage
    <3>3. QED
      BY <1>2, <3>2 DEF TenantRows
  <2>2. CASE m \in DatedAt(t)
    BY <1>2, <2>2 DEF DatedAt
  <2>3. QED
    BY <2>1, <2>2
<1>5. PICK k \in Nat : k = m - 1
  OBVIOUS
<1>6. \A n \in 1 .. k : \E e \in S : e.sequenceNum = n
  <2>1. f.sequenceNum \in Nat
    BY <1>3 DEF RowsNumbered
  <2>2. f.sequenceNum >= k
    BY <1>4, <1>5, <2>1
  <2>3. \A n \in 1 .. k : n \notin DamageAt(t)
    BY <1>5
  <2>4. QED
    BY <1>2, <2>2, <2>3, TakenBelow
<1>7. ASSUME NEW i \in 0 .. k, NEW x \in S, x.sequenceNum > i,
             \A e \in S : e.sequenceNum > i => e.sequenceNum >= x.sequenceNum,
             x.sequenceNum = i + 1 \/ i = k
      PROVE  i + 1 \in 1 .. top /\ events[i + 1] = x
  <2>1. i \in Nat /\ \A n \in 1 .. i : \E e \in S : e.sequenceNum = n
    BY <1>6
  <2>2. /\ i + 1 <= Cardinality(S)
        /\ \A e \in S : Cardinality(UpTo(S, e)) = i + 1 <=> e = x
    BY <1>3, <1>7, <2>1, RowAt
  <2>3. i + 1 \in 1 .. top
    BY <1>1, <1>2, <1>3, <1>5, <2>1, <2>2
  <2>4. QED
    BY <1>1, <1>2, <2>2, <2>3
<1>8. ASSUME NEW n \in 1 .. k
      PROVE  /\ events[n] \in TenantRows(t) /\ events[n].sequenceNum = n
             /\ n \notin DamageAt(t) \cup DatedAt(t)
  <2>1. PICK x \in S : x.sequenceNum = n
    BY <1>6
  <2>2. PICK i \in 0 .. k : i + 1 = n
    <3>1. n - 1 \in 0 .. k /\ (n - 1) + 1 = n
      OBVIOUS
    <3>2. QED
      BY <3>1
  <2>3. \A e \in S : e.sequenceNum > i => e.sequenceNum >= x.sequenceNum
    BY <1>3, <2>1, <2>2 DEF RowsNumbered
  <2>4. events[n] = x
    <3>1. x.sequenceNum = i + 1 /\ x.sequenceNum > i
      BY <2>1, <2>2
    <3>2. events[i + 1] = x
      BY <1>7, <2>3, <3>1
    <3>3. QED
      BY <2>2, <3>2
  <2>5. QED
    BY <1>2, <1>5, <2>1, <2>4
<1>9. m \in 1 .. top /\ events[m] \in TenantRows(t) /\ events[m].sequenceNum >= m
  <2> DEFINE later == {e.sequenceNum : e \in {g \in S : g.sequenceNum > k}}
  <2>1. later \in SUBSET Nat /\ f.sequenceNum \in later
    BY <1>3, <1>4, <1>5 DEF RowsNumbered
  <2>2. PICK z \in later : \A y \in later : z <= y
    BY <2>1, LeastNatural
  <2>3. PICK x \in S : x.sequenceNum = z /\ z > k /\ z \in Nat
    BY <2>1, <2>2
  <2>4. \A e \in S : e.sequenceNum > k => e.sequenceNum >= x.sequenceNum
    <3>1. SUFFICES ASSUME NEW e \in S, e.sequenceNum > k PROVE z <= e.sequenceNum
      BY <1>3, <2>3 DEF RowsNumbered
    <3>2. e.sequenceNum \in later
      BY <3>1
    <3>3. QED
      BY <2>2, <3>2
  <2> HIDE DEF later
  <2>5. k + 1 \in 1 .. top /\ events[k + 1] = x
    BY <1>7, <2>3, <2>4
  <2>6. QED
    BY <1>2, <1>5, <2>3, <2>5
<1>10. BrokenLink(events, m)
  BY <1>5, <1>8, <1>9, BrokenInPlace
<1>11. \A i \in 1 .. k : ~BrokenLink(events, i)
  BY <1>8, ConfirmedInPlace
<1>12. QED
  BY <1>1, <1>5, <1>9, <1>10, <1>11

LEMMA VerdictFollows ==
    ASSUME VerificationIInv
    PROVE  VerdictIsExact
<1> SUFFICES ASSUME NEW t \in Tenants, NEW limit \in Limits, NEW hits,
                    hits = {n \in DamageAt(t) \cup DatedAt(t) : n <= limit},
                    NEW verdict, verdict = VerifyAuditChain(t, limit)
             PROVE  IF hits = {}
                    THEN verdict.ok
                    ELSE /\ ~verdict.ok
                         /\ \A n \in hits : verdict.verifiedCount < n
                         /\ verdict.verifiedCount + 1 \in hits
  BY DEF VerdictIsExact
<1>1. PICK events : events = Looked(t, limit)
  OBVIOUS
<1>2. PICK broken : broken = {i \in DOMAIN events : BrokenLink(events, i)}
  OBVIOUS
<1>3. verdict = IF broken = {}
                THEN [ok |-> TRUE, verifiedCount |-> Len(events)]
                ELSE [ok |-> FALSE,
                      verifiedCount |-> (CHOOSE i \in broken : \A j \in broken : i <= j) - 1]
  BY <1>1, <1>2 DEF VerifyAuditChain, Looked
<1>4. limit \in Nat
  BY LimitsAssumption
<1>5. DamageAt(t) \cup DatedAt(t) \subseteq Nat \ {0}
  BY DEF DamageAt, DatedAt, VerificationIInv, VerificationTypes, RowsLike, TenantRows
<1>6. CASE hits = {}
  <2>1. \A n \in 1 .. limit : n \notin DamageAt(t) \cup DatedAt(t)
    BY <1>4, <1>6
  <2>2. broken = {}
    BY <1>1, <1>2, <2>1, NoHitNoBreak
  <2>3. QED
    BY <1>3, <1>6, <2>2
<1>7. CASE hits # {}
  <2>1. hits \in SUBSET Nat
    BY <1>5
  <2>2. PICK m \in hits : \A n \in hits : m <= n
    BY <1>7, <2>1, LeastNatural
  <2>3. m \in 1 .. limit /\ m \in DamageAt(t) \cup DatedAt(t)
    BY <1>4, <1>5, <2>2
  <2>4. \A n \in 1 .. m - 1 : n \notin DamageAt(t) \cup DatedAt(t)
    BY <1>4, <2>2, <2>3
  <2>5. /\ m \in DOMAIN events /\ BrokenLink(events, m)
        /\ \A i \in DOMAIN events : i \in Nat /\ (i < m => ~BrokenLink(events, i))
    BY <1>1, <2>3, <2>4, FirstHitBreaks
  <2>6. m \in broken /\ \A i \in broken : i \in Nat /\ m <= i
    BY <1>2, <2>3, <2>5
  <2>7. PICK first : first = CHOOSE i \in broken : \A j \in broken : i <= j
    OBVIOUS
  <2>8. first = m
    <3>1. first \in broken /\ first <= m
      BY <2>6, <2>7
    <3>2. first \in Nat /\ m <= first /\ m \in Nat
      BY <2>3, <2>6, <3>1
    <3>3. QED
      BY <3>1, <3>2
  <2>9. verdict.ok = FALSE /\ verdict.verifiedCount = m - 1
    BY <1>3, <2>6, <2>7, <2>8
  <2>10. QED
    BY <1>7, <2>1, <2>2, <2>3, <2>9
<1>8. QED
  BY <1>6, <1>7

LEMMA VerificationStarts ==
    ASSUME VerificationInit
    PROVE  VerificationIInv
<1>1. auditEvent = {} /\ damaged = {} /\ IsFiniteSet(auditEvent)
  BY FS_EmptySet DEF VerificationInit, Init
<1>2. PICK q : q = [pc |-> "idle", input |-> NoInput, kind |-> "event", latest |-> NothingRead]
  OBVIOUS
<1>3. DOMAIN req = Requests /\ \A r \in Requests : req[r] = q
  BY <1>2 DEF VerificationInit, Init
<1>4. q \in RequestsLike(q) /\ q.pc = "idle"
  BY <1>2 DEF RequestsLike, Pcs, Kinds
<1>5. VerificationTypes
  BY <1>1, <1>3, <1>4 DEF VerificationTypes, SequenceUnique, AppenderHasInput
<1>6. GapsAreDamage
  BY <1>1 DEF GapsAreDamage
<1>7. QED
  BY <1>1, <1>3, <1>4, <1>5, <1>6 DEF VerificationIInv

(* A step of one invocation that leaves the table alone. *)
LEMMA TableStands ==
    ASSUME VerificationIInv, NEW r \in Requests, NEW q, q \in RequestsLike(q),
           q.pc \in {"reading", "writing"} => q.input \in Inputs,
           q.pc = "writing" => WriterIsCurrent(q),
           req' = [req EXCEPT ![r] = q], UNCHANGED <<auditEvent, damaged>>
    PROVE  VerificationIInv'
<1>1. auditEvent' = auditEvent /\ damaged' = damaged
  OBVIOUS
<1>2. /\ DOMAIN req' = Requests /\ req'[r] = q
      /\ \A s \in Requests : s # r => req'[s] = req[s]
  BY DEF VerificationIInv, VerificationTypes
<1>3. VerificationTypes'
  <2>1. IsFiniteSet(auditEvent)' /\ (\A e \in auditEvent : e \in RowsLike(e))'
    BY <1>1 DEF VerificationIInv, VerificationTypes, RowsLike
  <2>2. (DOMAIN req = Requests /\ \A s \in Requests : req[s] \in RequestsLike(req[s]))'
    <3>1. ASSUME NEW s \in Requests PROVE req'[s] \in RequestsLike(req'[s])
      <4>1. CASE s = r
        BY <1>2, <4>1
      <4>2. CASE s # r
        BY <1>2, <4>2 DEF VerificationIInv, VerificationTypes
      <4>3. QED
        BY <4>1, <4>2
    <3>2. QED
      BY <1>2, <3>1 DEF RequestsLike
  <2>3. (damaged \subseteq Tenants \X (Nat \ {0}))' /\ SequenceUnique'
    BY <1>1 DEF VerificationIInv, VerificationTypes, SequenceUnique
  <2>4. AppenderHasInput'
    BY <1>2 DEF VerificationIInv, VerificationTypes, AppenderHasInput
  <2>5. QED
    BY <2>1, <2>2, <2>3, <2>4 DEF VerificationTypes
<1>4. GapsAreDamage'
  BY <1>1 DEF VerificationIInv, GapsAreDamage, SequenceTaken
<1>5. \A e \in auditEvent' : HashedAsInserted(e)' /\ HangsFromPrevious(e)'
  BY <1>1 DEF VerificationIInv, HashedAsInserted, HangsFromPrevious
<1>6. ASSUME NEW s \in Requests, req'[s].pc = "writing" PROVE WriterIsCurrent(req[s])'
  <2>1. PICK k : k = req'[s]
    OBVIOUS
  <2>2. WriterIsCurrent(k)
    <3>1. CASE s = r
      BY <1>2, <1>6, <2>1, <3>1
    <3>2. CASE s # r
      BY <1>2, <1>6, <2>1, <3>2 DEF VerificationIInv
    <3>3. QED
      BY <3>1, <3>2
  <2>3. QED
    BY <1>1, <2>1, <2>2 DEF WriterIsCurrent, SequenceTaken, TenantRows
<1>7. QED
  BY <1>3, <1>4, <1>5, <1>6 DEF VerificationIInv

(* What the transaction reads is the last row. *)
LEMMA LatestIsCurrent ==
    ASSUME VerificationIInv, NEW q, NEW latest \in Latest(q.input.tenantId),
           q.latest = latest
    PROVE  WriterIsCurrent(q)
<1>1. PICK t : t = q.input.tenantId
  OBVIOUS
<1>2. CASE TenantRows(t) = {}
  <2>1. latest = NothingRead
    BY <1>1, <1>2 DEF Latest
  <2>2. latest.sequenceNum = 0 /\ latest.eventHash = Genesis /\ Genesis.sequenceNum = 0
    BY <2>1 DEF NothingRead, Genesis
  <2>3. QED
    BY <1>1, <1>2, <2>2 DEF WriterIsCurrent
<1>3. CASE TenantRows(t) # {}
  <2>1. PICK m \in TenantRows(t) : /\ \A o \in TenantRows(t) : o.sequenceNum <= m.sequenceNum
                                   /\ latest = ReadOf(m)
    BY <1>1, <1>3 DEF Latest
  <2>2. latest.sequenceNum = m.sequenceNum /\ latest.eventHash = m.eventHash
    BY <2>1 DEF ReadOf
  <2>3. m \in auditEvent /\ m.tenantId = t /\ m.sequenceNum \in Nat /\ m.sequenceNum > 0
    BY DEF TenantRows, VerificationIInv, VerificationTypes, RowsLike
  <2>4. m.eventHash.sequenceNum = m.sequenceNum
    BY <2>3, DigestIsNumbered
  <2>5. \A p \in TenantRows(t) : p.sequenceNum = m.sequenceNum => p = m
    BY <2>3 DEF TenantRows, VerificationIInv, VerificationTypes, SequenceUnique
  <2>6. m.sequenceNum >= m.sequenceNum
    BY <2>3
  <2>7. QED
    BY <1>1, <2>1, <2>2, <2>3, <2>4, <2>5, <2>6 DEF WriterIsCurrent
<1>4. QED
  BY <1>2, <1>3

LEMMA InvocationsKeepVerification ==
    ASSUME VerificationIInv, NEW r \in Requests, UNCHANGED damaged,
           \/ CommitChange(r) \/ RejectRequest(r) \/ ReadLatest(r)
           \/ InsertFails(r) \/ Crash(r)
    PROVE  VerificationIInv'
<1>1. PICK q : q = req[r]
  OBVIOUS
<1>2. /\ q \in RequestsLike(q) /\ q \in [pc : Pcs, input : Inputs \cup {NoInput}, kind : Kinds, latest : {q.latest}]
      /\ q.pc \in {"reading", "writing"} => q.input \in Inputs
      /\ DOMAIN req = Requests
  BY <1>1 DEF VerificationIInv, VerificationTypes, RequestsLike, AppenderHasInput
<1>3. CASE CommitChange(r)
  <2>1. PICK i \in Inputs : req' = [req EXCEPT ![r] = [@ EXCEPT !.pc = "reading", !.input = i]]
    BY <1>3 DEF CommitChange
  <2>2. PICK k : k = [q EXCEPT !.pc = "reading", !.input = i]
    OBVIOUS
  <2>3. k \in RequestsLike(k) /\ k.pc = "reading" /\ k.input \in Inputs
    BY <1>2, <2>2 DEF RequestsLike, Pcs
  <2>4. req' = [req EXCEPT ![r] = k] /\ UNCHANGED <<auditEvent, damaged>>
    BY <1>1, <1>3, <2>1, <2>2 DEF CommitChange
  <2>5. QED
    BY <2>3, <2>4, TableStands
<1>4. CASE RejectRequest(r)
  <2>1. PICK i \in Inputs : req' = [req EXCEPT ![r] = [@ EXCEPT !.pc = "reading", !.input = i, !.kind = "error"]]
    BY <1>4 DEF RejectRequest
  <2>2. PICK k : k = [q EXCEPT !.pc = "reading", !.input = i, !.kind = "error"]
    OBVIOUS
  <2>3. k \in RequestsLike(k) /\ k.pc = "reading" /\ k.input \in Inputs
    BY <1>2, <2>2 DEF RequestsLike, Pcs, Kinds
  <2>4. req' = [req EXCEPT ![r] = k] /\ UNCHANGED <<auditEvent, damaged>>
    BY <1>1, <1>4, <2>1, <2>2 DEF RejectRequest
  <2>5. QED
    BY <2>3, <2>4, TableStands
<1>5. CASE ReadLatest(r)
  <2>1. PICK latest \in Latest(q.input.tenantId) :
           req' = [req EXCEPT ![r] = [@ EXCEPT !.pc = "writing", !.latest = latest]]
    BY <1>1, <1>5 DEF ReadLatest
  <2>2. PICK k : k = [q EXCEPT !.pc = "writing", !.latest = latest]
    OBVIOUS
  <2>3. k \in RequestsLike(k) /\ k.input = q.input /\ k.latest = latest
    BY <1>2, <2>2 DEF RequestsLike, Pcs
  <2>4. k.input \in Inputs
    BY <1>1, <1>2, <1>5, <2>3 DEF ReadLatest
  <2>5. WriterIsCurrent(k)
    BY <2>3, LatestIsCurrent
  <2>6. req' = [req EXCEPT ![r] = k] /\ UNCHANGED <<auditEvent, damaged>>
    BY <1>1, <1>5, <2>1, <2>2 DEF ReadLatest
  <2>7. QED
    BY <2>3, <2>4, <2>5, <2>6, TableStands
<1>6. CASE InsertFails(r)
  <2>1. PICK k : k = AfterFailure(r)
    OBVIOUS
  <2>2. k \in RequestsLike(k) /\ k.input = q.input /\ k.pc # "writing"
    BY <1>1, <1>2, <2>1 DEF AfterFailure, RequestsLike, Pcs, Kinds
  <2>3. k.input \in Inputs
    BY <1>1, <1>2, <1>6, <2>2 DEF InsertFails
  <2>4. req' = [req EXCEPT ![r] = k] /\ UNCHANGED <<auditEvent, damaged>>
    BY <1>6, <2>1 DEF InsertFails
  <2>5. QED
    BY <2>2, <2>3, <2>4, TableStands
<1>7. CASE Crash(r)
  <2>1. PICK k : k = [q EXCEPT !.pc = "crashed"]
    OBVIOUS
  <2>2. k \in RequestsLike(k) /\ k.pc = "crashed"
    BY <1>2, <2>1 DEF RequestsLike, Pcs
  <2>3. req' = [req EXCEPT ![r] = k] /\ UNCHANGED <<auditEvent, damaged>>
    BY <1>1, <1>7, <2>1 DEF Crash
  <2>4. QED
    BY <2>2, <2>3, TableStands
<1>8. QED
  BY <1>3, <1>4, <1>5, <1>6, <1>7

(* What an append that goes through writes: a number that no row has, nor  *)
(* ever had, above all the tenant's rows.                                  *)
LEMMA InsertIsAtTheEnd ==
    ASSUME VerificationIInv, NEW r \in Requests, Insert(r), NEW t, NEW n,
           t = req[r].input.tenantId, n = req[r].latest.sequenceNum
    PROVE  /\ t \in Tenants /\ n \in Nat /\ ~SequenceTaken(t, n + 1)
           /\ \A f \in TenantRows(t) : f.sequenceNum \in Nat /\ f.sequenceNum <= n
           /\ n > 0 => \E f \in TenantRows(t) : f.sequenceNum = n
           /\ <<t, n + 1>> \notin damaged
<1>1. t \in Tenants /\ ~SequenceTaken(t, n + 1) /\ req[r].pc = "writing"
  BY DEF Insert, InsertAllowed, ForeignKeysHold
<1>2. WriterIsCurrent(req[r])
  BY <1>1 DEF VerificationIInv
<1>3. /\ n \in Nat /\ \A f \in TenantRows(t) : f.sequenceNum <= n
      /\ n > 0 => \E f \in TenantRows(t) : f.sequenceNum >= n
  BY <1>1, <1>2 DEF WriterIsCurrent
<1>4. \A f \in TenantRows(t) : f \in auditEvent /\ f.tenantId = t /\ f.sequenceNum \in Nat
  BY DEF TenantRows, VerificationIInv, VerificationTypes, RowsLike
<1>5. n > 0 => \E f \in TenantRows(t) : f.sequenceNum = n
  BY <1>3, <1>4
<1>6. ASSUME <<t, n + 1>> \in damaged PROVE FALSE
  <2>1. PICK d \in damaged : d = <<t, n + 1>>
    BY <1>6
  <2>2. d[1] = t /\ d[2] = n + 1
    BY <2>1
  <2>3. PICK f \in auditEvent : f.tenantId = t /\ f.sequenceNum >= n + 1
    BY <2>2 DEF VerificationIInv, GapsAreDamage
  <2>4. f \in TenantRows(t)
    BY <2>3 DEF TenantRows
  <2>5. QED
    BY <1>3, <1>4, <2>3, <2>4
<1>7. QED
  BY <1>1, <1>3, <1>4, <1>5, <1>6

LEMMA InsertKeepsTypes ==
    ASSUME VerificationIInv, NEW r \in Requests, Insert(r), UNCHANGED damaged
    PROVE  VerificationTypes' /\ NewRow(r) \in RowsLike(NewRow(r)) /\ req'[r].pc # "writing"
<1>1. PICK t : t = req[r].input.tenantId
  OBVIOUS
<1>2. PICK n : n = req[r].latest.sequenceNum
  OBVIOUS
<1>3. /\ t \in Tenants /\ n \in Nat /\ ~SequenceTaken(t, n + 1)
      /\ \A f \in TenantRows(t) : f.sequenceNum \in Nat /\ f.sequenceNum <= n
      /\ n > 0 => \E f \in TenantRows(t) : f.sequenceNum = n
      /\ <<t, n + 1>> \notin damaged
  BY <1>1, <1>2, InsertIsAtTheEnd
<1>4. PICK e : e = NewRow(r)
  OBVIOUS
<1>5. PICK q : q = req[r]
  OBVIOUS
<1>6. /\ q \in [pc : Pcs, input : Inputs \cup {NoInput}, kind : Kinds, latest : {q.latest}]
      /\ q.input \in Inputs /\ q.input.metadata \in Metadata
  <2>1. q \in RequestsLike(q) /\ q.input \in Inputs
    BY <1>5 DEF VerificationIInv, VerificationTypes, AppenderHasInput, Insert
  <2>2. QED
    BY <2>1, InputsAssumption DEF RequestsLike
<1>7. PICK meta \in Metadata : meta = MetadataOf(q.input, q.kind)
  BY <1>6 DEF MetadataOf, Metadata
<1>8. Stored(meta) \in Persisted
  BY DEF Metadata, Stored, Persisted
<1>9. /\ e = [tenantId |-> t, sequenceNum |-> n + 1, request |-> r, kind |-> q.kind,
              metadata |-> Stored(meta), prevHash |-> e.prevHash, eventHash |-> e.eventHash]
  BY <1>1, <1>2, <1>4, <1>5, <1>7 DEF NewRow
<1>10. e \in RowsLike(e) /\ e.tenantId = t /\ e.sequenceNum = n + 1
  BY <1>3, <1>6, <1>8, <1>9 DEF RowsLike
<1>11. PICK k : k = AfterInsert(r)
  OBVIOUS
<1>12. k \in RequestsLike(k) /\ k.input = q.input /\ k.pc # "writing"
  BY <1>5, <1>6, <1>11 DEF AfterInsert, RequestsLike, Pcs, Kinds
<1>13. auditEvent' = auditEvent \cup {e} /\ req' = [req EXCEPT ![r] = k] /\ damaged' = damaged
  BY <1>4, <1>11 DEF Insert
<1>14. /\ DOMAIN req' = Requests /\ req'[r] = k
       /\ \A s \in Requests : s # r => req'[s] = req[s]
  BY <1>13 DEF VerificationIInv, VerificationTypes
<1>15. IsFiniteSet(auditEvent)'
  BY <1>13, FS_AddElement DEF VerificationIInv, VerificationTypes
<1>16. (\A f \in auditEvent : f \in RowsLike(f))'
  BY <1>10, <1>13 DEF VerificationIInv, VerificationTypes, RowsLike
<1>17. ASSUME NEW s \in Requests PROVE req'[s] \in RequestsLike(req'[s])
  <2>1. CASE s = r
    BY <1>12, <1>14, <2>1
  <2>2. CASE s # r
    BY <1>14, <2>2 DEF VerificationIInv, VerificationTypes
  <2>3. QED
    BY <2>1, <2>2
<1>18. (DOMAIN req = Requests /\ \A s \in Requests : req[s] \in RequestsLike(req[s]))'
  BY <1>14, <1>17 DEF RequestsLike
<1>19. SequenceUnique'
  <2>1. \A f \in auditEvent : f.tenantId = t => f.sequenceNum # n + 1
    BY <1>3 DEF TenantRows
  <2>2. QED
    BY <1>10, <1>13, <2>1 DEF VerificationIInv, VerificationTypes, SequenceUnique
<1>20. AppenderHasInput'
  BY <1>6, <1>12, <1>14 DEF VerificationIInv, VerificationTypes, AppenderHasInput
<1>21. QED
  BY <1>4, <1>10, <1>12, <1>13, <1>14, <1>15, <1>16, <1>18, <1>19, <1>20
     DEF VerificationIInv, VerificationTypes

LEMMA InsertKeepsVerification ==
    ASSUME VerificationIInv, NEW r \in Requests, Insert(r), UNCHANGED damaged
    PROVE  VerificationIInv'
<1>1. PICK t : t = req[r].input.tenantId
  OBVIOUS
<1>2. PICK n : n = req[r].latest.sequenceNum
  OBVIOUS
<1>3. /\ t \in Tenants /\ n \in Nat /\ ~SequenceTaken(t, n + 1)
      /\ \A f \in TenantRows(t) : f.sequenceNum \in Nat /\ f.sequenceNum <= n
      /\ n > 0 => \E f \in TenantRows(t) : f.sequenceNum = n
      /\ <<t, n + 1>> \notin damaged
  BY <1>1, <1>2, InsertIsAtTheEnd
<1>4. PICK e : e = NewRow(r)
  OBVIOUS
<1>5. PICK q : q = req[r]
  OBVIOUS
<1>6. q.input.metadata \in Metadata /\ q.pc = "writing" /\ WriterIsCurrent(q)
  BY <1>5, InputsAssumption DEF Insert, VerificationIInv, VerificationTypes, AppenderHasInput
<1>7. PICK meta \in Metadata : meta = MetadataOf(q.input, q.kind)
  BY <1>6 DEF MetadataOf, Metadata
<1>8. PICK payload : payload = <<r, q.kind, Canonical(meta)>>
  OBVIOUS
<1>9. e = [tenantId |-> t, sequenceNum |-> n + 1, request |-> r, kind |-> q.kind,
           metadata |-> Stored(meta), prevHash |-> q.latest.eventHash,
           eventHash |-> ComputeEventHash(t, n + 1, payload, q.latest.eventHash)]
  BY <1>1, <1>2, <1>4, <1>5, <1>7, <1>8 DEF NewRow
<1>10. /\ e.tenantId = t /\ e.sequenceNum = n + 1 /\ e.request = r /\ e.kind = q.kind
       /\ e.metadata = Stored(meta) /\ e.prevHash = q.latest.eventHash
       /\ e.eventHash = ComputeEventHash(t, n + 1, payload, e.prevHash)
  BY <1>9
<1>11. auditEvent' = auditEvent \cup {e} /\ damaged' = damaged
  BY <1>4 DEF Insert
<1>12. VerificationTypes' /\ req'[r].pc # "writing"
  BY InsertKeepsTypes
<1>13. \A s \in Requests : s # r => req'[s] = req[s]
  BY DEF Insert, VerificationIInv, VerificationTypes
<1>14. \A f \in auditEvent : f.tenantId = t => f.sequenceNum \in Nat /\ f.sequenceNum <= n
  BY <1>3 DEF TenantRows
<1>15. GapsAreDamage'
  <2>1. \A u, m : SequenceTaken(u, m) => SequenceTaken(u, m)'
    BY <1>11 DEF SequenceTaken
  <2>2. ASSUME NEW f \in auditEvent', NEW m \in 1 .. f.sequenceNum
        PROVE  SequenceTaken(f.tenantId, m)' \/ <<f.tenantId, m>> \in damaged
    <3>1. CASE f \in auditEvent
      BY <2>1, <2>2, <3>1 DEF VerificationIInv, GapsAreDamage
    <3>2. CASE f = e /\ m = n + 1
      BY <1>10, <1>11, <3>2 DEF SequenceTaken
    <3>3. CASE f = e /\ m # n + 1
      <4>1. m \in 1 .. n /\ n > 0
        BY <1>3, <1>10, <3>3
      <4>2. PICK g \in auditEvent : g.tenantId = t /\ g.sequenceNum = n
        BY <1>3, <4>1 DEF TenantRows
      <4>3. QED
        BY <1>10, <2>1, <3>3, <4>1, <4>2 DEF VerificationIInv, GapsAreDamage
    <3>4. QED
      BY <1>11, <3>1, <3>2, <3>3
  <2>3. \A d \in damaged : \E f \in auditEvent' : f.tenantId = d[1] /\ f.sequenceNum >= d[2]
    BY <1>11 DEF VerificationIInv, GapsAreDamage
  <2>4. QED
    BY <1>11, <2>2, <2>3 DEF GapsAreDamage
<1>16. HashedAsInserted(e)
  <2>1. payload = <<e.request, e.kind, Canonical(meta)>> /\ payload[2] = e.kind
    BY <1>8, <1>10
  <2>2. Canonical(meta) = IF e.metadata = "isoText" THEN "emptyObject" ELSE "plain"
    BY <1>10 DEF Canonical, Stored, Metadata
  <2>3. e.eventHash.payload = payload
    BY <1>10 DEF ComputeEventHash
  <2>4. <<e.tenantId, e.sequenceNum>> \notin damaged
    BY <1>3, <1>10
  <2>5. QED
    BY <1>10, <2>1, <2>2, <2>3, <2>4 DEF HashedAsInserted
<1>17. ASSUME NEW f \in auditEvent' PROVE HashedAsInserted(f)'
  <2>1. HashedAsInserted(f)
    BY <1>11, <1>16, <1>17 DEF VerificationIInv
  <2>2. QED
    BY <1>11, <2>1 DEF HashedAsInserted
<1>18. ASSUME NEW f \in auditEvent' PROVE HangsFromPrevious(f)'
  <2>1. CASE f = e
    <3>1. /\ e.prevHash.sequenceNum = e.sequenceNum - 1
          /\ e.sequenceNum = 1 => e.prevHash = Genesis
      BY <1>2, <1>3, <1>5, <1>6, <1>10 DEF WriterIsCurrent
    <3>2. ASSUME NEW p \in auditEvent', p.tenantId = t, p.sequenceNum + 1 = n + 1
          PROVE  e.prevHash = p.eventHash
      <4>1. p \in auditEvent
        BY <1>3, <1>10, <1>11, <3>2
      <4>2. p \in TenantRows(t) /\ p.sequenceNum = n
        BY <1>3, <1>14, <3>2, <4>1 DEF TenantRows
      <4>3. QED
        BY <1>1, <1>2, <1>5, <1>6, <1>10, <4>2 DEF WriterIsCurrent
    <3>3. QED
      BY <1>10, <2>1, <3>1, <3>2 DEF HangsFromPrevious
  <2>2. CASE f # e
    <3>1. f \in auditEvent /\ HangsFromPrevious(f)
      BY <1>11, <2>2 DEF VerificationIInv
    <3>2. ~(e.tenantId = f.tenantId /\ e.sequenceNum + 1 = f.sequenceNum)
      BY <1>3, <1>10, <1>14, <3>1
    <3>3. QED
      BY <1>11, <3>1, <3>2 DEF HangsFromPrevious
  <2>3. QED
    BY <2>1, <2>2
<1>19. ASSUME NEW s \in Requests, req'[s].pc = "writing" PROVE WriterIsCurrent(req[s])'
  <2>1. PICK k : k = req'[s]
    OBVIOUS
  <2>2. WriterIsCurrent(k)
    BY <1>12, <1>13, <1>19, <2>1 DEF VerificationIInv
  <2>3. PICK u : u = k.input.tenantId
    OBVIOUS
  <2>4. PICK c \in Nat : c = k.latest.sequenceNum
    BY <2>2 DEF WriterIsCurrent
  <2>5. /\ k.latest.eventHash.sequenceNum = c
        /\ c = 0 => k.latest.eventHash = Genesis
        /\ c > 0 => \E f \in TenantRows(u) : f.sequenceNum >= c
        /\ \A p \in TenantRows(u) : p.sequenceNum = c => p.eventHash = k.latest.eventHash
        /\ SequenceTaken(u, c + 1) \/ \A f \in TenantRows(u) : f.sequenceNum <= c
    BY <2>2, <2>3, <2>4 DEF WriterIsCurrent
  <2>6. TenantRows(u)' = IF u = t THEN TenantRows(u) \cup {e} ELSE TenantRows(u)
    BY <1>10, <1>11 DEF TenantRows
  <2>7. c > 0 => \E f \in TenantRows(u)' : f.sequenceNum >= c
    BY <2>5, <2>6
  <2>8. u = t => c <= n
    BY <1>3, <2>4, <2>5
  <2>9. \A p \in TenantRows(u)' : p.sequenceNum = c => p.eventHash = k.latest.eventHash
    BY <1>3, <1>10, <2>4, <2>5, <2>6, <2>8
  <2>10. SequenceTaken(u, c + 1)' \/ \A f \in TenantRows(u)' : f.sequenceNum <= c
    <3>1. CASE SequenceTaken(u, c + 1)
      BY <1>11, <3>1 DEF SequenceTaken
    <3>2. CASE u # t
      BY <1>11, <2>5, <2>6, <3>2 DEF SequenceTaken
    <3>3. CASE u = t /\ \A f \in TenantRows(u) : f.sequenceNum <= c
      <4>1. n = c
        BY <1>3, <2>4, <2>8, <3>3
      <4>2. QED
        BY <1>10, <1>11, <3>3, <4>1 DEF SequenceTaken
    <3>4. QED
      BY <2>5, <3>1, <3>2, <3>3
  <2>11. QED
    BY <2>1, <2>3, <2>4, <2>5, <2>7, <2>9, <2>10 DEF WriterIsCurrent
<1>20. QED
  BY <1>12, <1>15, <1>17, <1>18, <1>19 DEF VerificationIInv

LEMMA EditKeepsVerification ==
    ASSUME VerificationIInv, NEW e \in auditEvent, EditRow(e)
    PROVE  VerificationIInv'
<1>1. PICK k \in Kinds \ {e.kind} :
         auditEvent' = (auditEvent \ {e}) \cup {[e EXCEPT !.kind = k]}
  BY DEF EditRow
<1>2. PICK g : g = [e EXCEPT !.kind = k]
  OBVIOUS
<1>3. /\ auditEvent' = (auditEvent \ {e}) \cup {g} /\ req' = req
      /\ damaged' = damaged \cup {<<e.tenantId, e.sequenceNum>>}
      /\ <<e.tenantId, e.sequenceNum>> \notin damaged
  BY <1>1, <1>2 DEF EditRow
<1>4. e \in RowsLike(e)
  BY DEF VerificationIInv, VerificationTypes
<1>5. /\ g \in RowsLike(g) /\ g.kind = k
      /\ g.tenantId = e.tenantId /\ g.sequenceNum = e.sequenceNum
      /\ g.request = e.request /\ g.metadata = e.metadata
      /\ g.prevHash = e.prevHash /\ g.eventHash = e.eventHash
  BY <1>2, <1>4 DEF RowsLike
<1>6. \A f \in auditEvent : f.tenantId = e.tenantId /\ f.sequenceNum = e.sequenceNum => f = e
  BY DEF VerificationIInv, VerificationTypes, SequenceUnique
<1>7. VerificationTypes'
  <2>1. IsFiniteSet(auditEvent)'
    <3>1. auditEvent \ {e} \in SUBSET auditEvent /\ IsFiniteSet(auditEvent)
      BY DEF VerificationIInv, VerificationTypes
    <3>2. QED
      BY <1>3, <3>1, FS_Subset, FS_AddElement
  <2>2. (\A f \in auditEvent : f \in RowsLike(f))'
    BY <1>3, <1>5 DEF VerificationIInv, VerificationTypes, RowsLike
  <2>3. (DOMAIN req = Requests /\ \A r \in Requests : req[r] \in RequestsLike(req[r]))'
    BY <1>3 DEF VerificationIInv, VerificationTypes, RequestsLike
  <2>4. <<e.tenantId, e.sequenceNum>> \in Tenants \X (Nat \ {0})
    BY <1>4 DEF RowsLike
  <2>5. (damaged \subseteq Tenants \X (Nat \ {0}))'
    BY <1>3, <2>4 DEF VerificationIInv, VerificationTypes
  <2>6. SequenceUnique'
    BY <1>3, <1>5, <1>6 DEF VerificationIInv, VerificationTypes, SequenceUnique
  <2>7. AppenderHasInput'
    BY <1>3 DEF VerificationIInv, VerificationTypes, AppenderHasInput
  <2>8. QED
    BY <2>1, <2>2, <2>3, <2>5, <2>6, <2>7 DEF VerificationTypes
<1>8. \A u, m : SequenceTaken(u, m)' <=> SequenceTaken(u, m)
  BY <1>3, <1>5 DEF SequenceTaken
<1>9. GapsAreDamage'
  <2>1. ASSUME NEW f \in auditEvent', NEW m \in 1 .. f.sequenceNum
        PROVE  SequenceTaken(f.tenantId, m)' \/ <<f.tenantId, m>> \in damaged'
    <3>1. PICK h \in auditEvent : h.tenantId = f.tenantId /\ h.sequenceNum = f.sequenceNum
      BY <1>3, <1>5
    <3>2. SequenceTaken(f.tenantId, m) \/ <<f.tenantId, m>> \in damaged
      BY <2>1, <3>1 DEF VerificationIInv, GapsAreDamage
    <3>3. QED
      BY <1>3, <1>8, <3>2
  <2>2. ASSUME NEW d \in damaged'
        PROVE  \E f \in auditEvent' : f.tenantId = d[1] /\ f.sequenceNum >= d[2]
    <3>1. CASE d \in damaged
      <4>1. PICK f \in auditEvent : f.tenantId = d[1] /\ f.sequenceNum >= d[2]
        BY <3>1 DEF VerificationIInv, GapsAreDamage
      <4>2. QED
        BY <1>3, <1>5, <4>1
    <3>2. CASE d = <<e.tenantId, e.sequenceNum>>
      <4>1. d[1] = e.tenantId /\ d[2] = e.sequenceNum
        BY <3>2
      <4>2. g.sequenceNum >= d[2]
        BY <1>4, <1>5, <4>1 DEF RowsLike
      <4>3. QED
        BY <1>3, <1>5, <4>1, <4>2
    <3>3. QED
      BY <1>3, <3>1, <3>2
  <2>3. QED
    BY <2>1, <2>2 DEF GapsAreDamage
<1>10. ASSUME NEW f \in auditEvent' PROVE HashedAsInserted(f)'
  <2>1. PICK h \in auditEvent : IF f = g THEN h = e ELSE h = f
    BY <1>3
  <2>2. HashedAsInserted(h)
    BY DEF VerificationIInv
  <2>3. PICK p : p = h.eventHash.payload
    OBVIOUS
  <2>4. /\ h.eventHash = ComputeEventHash(h.tenantId, h.sequenceNum, p, h.prevHash)
        /\ p = <<h.request, p[2], IF h.metadata = "isoText" THEN "emptyObject" ELSE "plain">>
        /\ p[2] = h.kind <=> <<h.tenantId, h.sequenceNum>> \notin damaged
    BY <2>2, <2>3 DEF HashedAsInserted
  <2>5. CASE f = g
    <3>1. h = e /\ p[2] # f.kind
      BY <1>3, <1>5, <2>1, <2>4, <2>5
    <3>2. <<f.tenantId, f.sequenceNum>> \in damaged'
      BY <1>3, <1>5, <2>5
    <3>3. /\ p = f.eventHash.payload
          /\ f.eventHash = ComputeEventHash(f.tenantId, f.sequenceNum, p, f.prevHash)
          /\ p = <<f.request, p[2], IF f.metadata = "isoText" THEN "emptyObject" ELSE "plain">>
      BY <1>5, <2>3, <2>4, <2>5, <3>1
    <3>4. QED
      BY <3>1, <3>2, <3>3 DEF HashedAsInserted
  <2>6. CASE f # g
    <3>1. h = f /\ f # e
      BY <1>3, <2>1, <2>6
    <3>2. <<f.tenantId, f.sequenceNum>> # <<e.tenantId, e.sequenceNum>>
      BY <1>6, <3>1
    <3>3. <<f.tenantId, f.sequenceNum>> \in damaged' <=> <<f.tenantId, f.sequenceNum>> \in damaged
      BY <1>3, <3>2
    <3>4. QED
      BY <2>3, <2>4, <3>1, <3>3 DEF HashedAsInserted
  <2>7. QED
    BY <2>5, <2>6
<1>11. ASSUME NEW f \in auditEvent' PROVE HangsFromPrevious(f)'
  <2>1. PICK h \in auditEvent : /\ h.tenantId = f.tenantId /\ h.sequenceNum = f.sequenceNum
                                /\ h.prevHash = f.prevHash
    BY <1>3, <1>5
  <2>2. HangsFromPrevious(h)
    BY DEF VerificationIInv
  <2>3. ASSUME NEW p \in auditEvent', p.tenantId = f.tenantId, p.sequenceNum + 1 = f.sequenceNum
        PROVE  f.prevHash = p.eventHash
    <3>1. PICK o \in auditEvent : /\ o.tenantId = p.tenantId /\ o.sequenceNum = p.sequenceNum
                                  /\ o.eventHash = p.eventHash
      BY <1>3, <1>5
    <3>2. QED
      BY <2>1, <2>2, <2>3, <3>1 DEF HangsFromPrevious
  <2>4. QED
    BY <2>1, <2>2, <2>3 DEF HangsFromPrevious
<1>12. ASSUME NEW s \in Requests, req'[s].pc = "writing" PROVE WriterIsCurrent(req[s])'
  <2>1. PICK q : q = req[s]
    OBVIOUS
  <2>2. WriterIsCurrent(q)
    BY <1>3, <1>12, <2>1 DEF VerificationIInv
  <2>3. PICK u : u = q.input.tenantId
    OBVIOUS
  <2>4. \A f \in TenantRows(u) : \E h \in TenantRows(u)' :
           h.sequenceNum = f.sequenceNum /\ h.eventHash = f.eventHash
    BY <1>3, <1>5 DEF TenantRows
  <2>5. \A h \in TenantRows(u)' : \E f \in TenantRows(u) :
           h.sequenceNum = f.sequenceNum /\ h.eventHash = f.eventHash
    BY <1>3, <1>5 DEF TenantRows
  <2>6. PICK c : c = q.latest.sequenceNum
    OBVIOUS
  <2>7. /\ c \in Nat /\ q.latest.eventHash.sequenceNum = c
        /\ c = 0 => q.latest.eventHash = Genesis
        /\ c > 0 => \E f \in TenantRows(u) : f.sequenceNum >= c
        /\ \A p \in TenantRows(u) : p.sequenceNum = c => p.eventHash = q.latest.eventHash
        /\ SequenceTaken(u, c + 1) \/ \A f \in TenantRows(u) : f.sequenceNum <= c
    BY <2>2, <2>3, <2>6 DEF WriterIsCurrent
  <2>8. /\ c > 0 => \E f \in TenantRows(u)' : f.sequenceNum >= c
        /\ \A p \in TenantRows(u)' : p.sequenceNum = c => p.eventHash = q.latest.eventHash
        /\ SequenceTaken(u, c + 1)' \/ \A f \in TenantRows(u)' : f.sequenceNum <= c
    BY <1>8, <2>4, <2>5, <2>7
  <2>9. q = req'[s]
    BY <1>3, <2>1
  <2>10. QED
    BY <2>3, <2>6, <2>7, <2>8, <2>9 DEF WriterIsCurrent
<1>13. QED
  BY <1>7, <1>9, <1>10, <1>11, <1>12 DEF VerificationIInv

LEMMA DeletionKeepsVerification ==
    ASSUME VerificationIInv, NEW e \in auditEvent, DeleteRow(e)
    PROVE  VerificationIInv'
<1>1. /\ auditEvent' = auditEvent \ {e} /\ req' = req
      /\ damaged' = damaged \cup {<<e.tenantId, e.sequenceNum>>}
  BY DEF DeleteRow
<1>2. e \in RowsLike(e) /\ e.sequenceNum \in Nat /\ e.tenantId \in Tenants
      /\ \A f \in auditEvent : f.sequenceNum \in Nat \ {0}
  BY DEF VerificationIInv, VerificationTypes, RowsLike
<1>3. \A f \in auditEvent : f.tenantId = e.tenantId /\ f.sequenceNum = e.sequenceNum => f = e
  BY DEF VerificationIInv, VerificationTypes, SequenceUnique
<1>4. PICK g \in auditEvent : g.tenantId = e.tenantId /\ g.sequenceNum > e.sequenceNum
  BY DEF DeleteRow, TenantRows
<1>5. g \in auditEvent' /\ g # e
  BY <1>1, <1>2, <1>4
<1>6. VerificationTypes'
  <2>1. IsFiniteSet(auditEvent)'
    <3>1. auditEvent' \in SUBSET auditEvent /\ IsFiniteSet(auditEvent)
      BY <1>1 DEF VerificationIInv, VerificationTypes
    <3>2. QED
      BY <3>1, FS_Subset
  <2>2. (\A f \in auditEvent : f \in RowsLike(f))'
    BY <1>1 DEF VerificationIInv, VerificationTypes, RowsLike
  <2>3. (DOMAIN req = Requests /\ \A r \in Requests : req[r] \in RequestsLike(req[r]))'
    BY <1>1 DEF VerificationIInv, VerificationTypes, RequestsLike
  <2>4. <<e.tenantId, e.sequenceNum>> \in Tenants \X (Nat \ {0})
    BY <1>2 DEF RowsLike
  <2>5. (damaged \subseteq Tenants \X (Nat \ {0}))'
    BY <1>1, <2>4 DEF VerificationIInv, VerificationTypes
  <2>6. SequenceUnique' /\ AppenderHasInput'
    BY <1>1 DEF VerificationIInv, VerificationTypes, SequenceUnique, AppenderHasInput
  <2>7. QED
    BY <2>1, <2>2, <2>3, <2>5, <2>6 DEF VerificationTypes
<1>7. \A u, m : SequenceTaken(u, m) =>
         SequenceTaken(u, m)' \/ (u = e.tenantId /\ m = e.sequenceNum)
  BY <1>1 DEF SequenceTaken
<1>8. GapsAreDamage'
  <2>1. ASSUME NEW f \in auditEvent', NEW m \in 1 .. f.sequenceNum
        PROVE  SequenceTaken(f.tenantId, m)' \/ <<f.tenantId, m>> \in damaged'
    <3>1. SequenceTaken(f.tenantId, m) \/ <<f.tenantId, m>> \in damaged
      BY <1>1, <2>1 DEF VerificationIInv, GapsAreDamage
    <3>2. QED
      BY <1>1, <1>7, <3>1
  <2>2. ASSUME NEW d \in damaged'
        PROVE  \E f \in auditEvent' : f.tenantId = d[1] /\ f.sequenceNum >= d[2]
    <3>1. PICK c \in Nat : c = d[2]
      <4>1. d \in Tenants \X (Nat \ {0})
        BY <1>6, <2>2 DEF VerificationTypes
      <4>2. QED
        BY <4>1
    <3>2. PICK f \in auditEvent : f.tenantId = d[1] /\ f.sequenceNum >= c
      <4>1. CASE d \in damaged
        BY <3>1, <4>1 DEF VerificationIInv, GapsAreDamage
      <4>2. CASE d = <<e.tenantId, e.sequenceNum>>
        <5>1. d[1] = e.tenantId /\ c = e.sequenceNum
          BY <3>1, <4>2
        <5>2. QED
          BY <1>2, <5>1
      <4>3. QED
        BY <1>1, <4>1, <4>2
    <3>3. CASE f = e
      BY <1>2, <1>4, <1>5, <3>1, <3>2, <3>3
    <3>4. CASE f # e
      BY <1>1, <3>1, <3>2, <3>4
    <3>5. QED
      BY <3>3, <3>4
  <2>3. QED
    BY <2>1, <2>2 DEF GapsAreDamage
<1>9. ASSUME NEW f \in auditEvent' PROVE HashedAsInserted(f)' /\ HangsFromPrevious(f)'
  <2>1. f \in auditEvent /\ f # e /\ HashedAsInserted(f) /\ HangsFromPrevious(f)
    BY <1>1 DEF VerificationIInv
  <2>2. <<f.tenantId, f.sequenceNum>> # <<e.tenantId, e.sequenceNum>>
    BY <1>3, <2>1
  <2>3. <<f.tenantId, f.sequenceNum>> \in damaged' <=> <<f.tenantId, f.sequenceNum>> \in damaged
    BY <1>1, <2>2
  <2>4. HashedAsInserted(f)'
    BY <2>1, <2>3 DEF HashedAsInserted
  <2>5. HangsFromPrevious(f)'
    BY <1>1, <2>1 DEF HangsFromPrevious
  <2>6. QED
    BY <2>4, <2>5
<1>10. ASSUME NEW s \in Requests, req'[s].pc = "writing" PROVE WriterIsCurrent(req[s])'
  <2>1. PICK q : q = req[s]
    OBVIOUS
  <2>2. WriterIsCurrent(q) /\ q.pc = "writing"
    BY <1>1, <1>10, <2>1 DEF VerificationIInv
  <2>3. PICK u : u = q.input.tenantId
    OBVIOUS
  <2>4. PICK c : c = q.latest.sequenceNum
    OBVIOUS
  <2>5. /\ c \in Nat /\ q.latest.eventHash.sequenceNum = c
        /\ c = 0 => q.latest.eventHash = Genesis
        /\ c > 0 => \E f \in TenantRows(u) : f.sequenceNum >= c
        /\ \A p \in TenantRows(u) : p.sequenceNum = c => p.eventHash = q.latest.eventHash
        /\ SequenceTaken(u, c + 1) \/ \A f \in TenantRows(u) : f.sequenceNum <= c
    BY <2>2, <2>3, <2>4 DEF WriterIsCurrent
  <2>6. c + 1 # e.sequenceNum
    BY <2>1, <2>2, <2>4 DEF DeleteRow
  <2>7. TenantRows(u)' = TenantRows(u) \ {e}
    BY <1>1 DEF TenantRows
  <2>8. ASSUME c > 0 PROVE \E f \in TenantRows(u)' : f.sequenceNum >= c
    <3>1. PICK f \in TenantRows(u) : f.sequenceNum >= c
      BY <2>5, <2>8
    <3>2. CASE f = e
      <4>1. g \in TenantRows(u)'
        BY <1>4, <1>5, <3>1, <3>2 DEF TenantRows
      <4>2. g.sequenceNum >= c
        BY <1>2, <1>4, <2>5, <3>1, <3>2
      <4>3. QED
        BY <4>1, <4>2
    <3>3. CASE f # e
      BY <2>7, <3>1, <3>3
    <3>4. QED
      BY <3>2, <3>3
  <2>9. \A p \in TenantRows(u)' : p.sequenceNum = c => p.eventHash = q.latest.eventHash
    BY <2>5, <2>7
  <2>10. SequenceTaken(u, c + 1)' \/ \A f \in TenantRows(u)' : f.sequenceNum <= c
    BY <1>7, <2>5, <2>6, <2>7
  <2>11. q = req'[s]
    BY <1>1, <2>1
  <2>12. QED
    BY <2>3, <2>4, <2>5, <2>8, <2>9, <2>10, <2>11 DEF WriterIsCurrent
<1>11. QED
  BY <1>6, <1>8, <1>9, <1>10 DEF VerificationIInv

LEMMA StutteringKeepsVerification ==
    ASSUME VerificationIInv, UNCHANGED verificationVars
    PROVE  VerificationIInv'
<1>1. auditEvent' = auditEvent /\ req' = req /\ damaged' = damaged
  BY DEF verificationVars, vars
<1>2. VerificationTypes' /\ GapsAreDamage'
  BY <1>1 DEF VerificationIInv, VerificationTypes, RowsLike, RequestsLike, SequenceUnique,
              AppenderHasInput, GapsAreDamage, SequenceTaken
<1>3. (\A e \in auditEvent : HashedAsInserted(e) /\ HangsFromPrevious(e))'
  BY <1>1 DEF VerificationIInv, HashedAsInserted, HangsFromPrevious
<1>4. (\A r \in Requests : req[r].pc = "writing" => WriterIsCurrent(req[r]))'
  BY <1>1 DEF VerificationIInv, WriterIsCurrent, SequenceTaken, TenantRows
<1>5. QED
  BY <1>2, <1>3, <1>4 DEF VerificationIInv

LEMMA VerificationSteps ==
    ASSUME VerificationIInv, [VerificationNext]_verificationVars
    PROVE  VerificationIInv'
<1>1. CASE Service
  <2>1. PICK r \in Requests : CommitChange(r) \/ RejectRequest(r) \/ Progress(r) \/ Crash(r)
    BY <1>1 DEF Service, Next
  <2>2. UNCHANGED damaged
    BY <1>1 DEF Service
  <2>3. CASE Insert(r)
    BY <2>2, <2>3, InsertKeepsVerification
  <2>4. CASE CommitChange(r) \/ RejectRequest(r) \/ ReadLatest(r) \/ InsertFails(r) \/ Crash(r)
    BY <2>2, <2>4, InvocationsKeepVerification
  <2>5. QED
    BY <2>1, <2>3, <2>4 DEF Progress
<1>2. CASE Damage
  <2>1. PICK e \in auditEvent : EditRow(e) \/ DeleteRow(e)
    BY <1>2 DEF Damage
  <2>2. QED
    BY <2>1, EditKeepsVerification, DeletionKeepsVerification
<1>3. CASE UNCHANGED verificationVars
  BY <1>3, StutteringKeepsVerification
<1>4. QED
  BY <1>1, <1>2, <1>3 DEF VerificationNext

(* Whatever number of appends race, and whatever is edited or deleted       *)
(* behind the service, verifyAuditChain (src/lib/audit/audit-service.ts)   *)
(* answers no exactly when one of the rows it was asked to look at was     *)
(* edited, deleted or recorded with a date, and it stops at the first.     *)
THEOREM VerdictsAreExact == VerificationSpec => []VerdictIsExact
<1>1. VerificationInit => VerificationIInv
  BY VerificationStarts
<1>2. VerificationIInv /\ [VerificationNext]_verificationVars => VerificationIInv'
  BY VerificationSteps
<1>3. VerificationIInv => VerdictIsExact
  BY VerdictFollows
<1>4. QED
  BY <1>1, <1>2, <1>3, PTL DEF VerificationSpec
=============================================================================
