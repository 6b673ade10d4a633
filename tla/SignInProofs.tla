---------------------------- MODULE SignInProofs ----------------------------
(*************************************************************************)
(* The safety properties of SignIn, for any finite set of calls.         *)
(*                                                                       *)
(* Counters are read and written in separate statements and a call may be *)
(* overtaken, so what bounds them is who may still count: the calls that *)
(* have not yet (Fresh), each of which adds at most one.                 *)
(*************************************************************************)
EXTENDS SignIn, FiniteSetTheorems, TLAPS

(* Requests that have not counted yet: each may still add one failure, one *)
(* password, one code or one reset.                                        *)
Fresh == {c \in Calls : call[c].pc \in {"working", "mfa"}}

CountsAreBounded ==
    /\ account.failed + Cardinality(Fresh) <= made
    /\ account.password + Cardinality(Fresh) <= made + 1
    /\ \A n \in Codes : taken[n] + Cardinality(Fresh) <= made
    /\ resets + Cardinality(Fresh) <= made

(* Wrong passwords under way that will not lock the account. *)
Careless == {c \in Calls : /\ call[c].way = "password" /\ call[c].pc = "working"
                           /\ call[c].read.failed + 1 < Threshold}

(* Once the next failure that is seen locks the account, those that slip   *)
(* through are under way already.                                          *)
LateFailures ==
    account.lockedUntil = NotLocked /\ account.failed + 1 >= Threshold =>
       account.failed + Cardinality(Careless) + 2 <= Threshold + Cardinality(Calls)

CodesAreFresh ==
    ~crossed => \A n \in Codes : taken[n] <= 1 /\ (account.lastCode < n => taken[n] = 0)

(* A request that was not overtaken knows the lock. *)
LockIsKnown(c) ==
    ~call[c].overtaken =>
       /\ call[c].pc = "working" => call[c].read.lockedUntil = account.lockedUntil
       /\ call[c].pc \in {"mfa", "opening"} => ~Locked(account)

SignInIInv ==
    /\ SignInTypeOK /\ CountsAreBounded /\ LateFailures /\ CodesAreFresh /\ PasswordEndsSessions
    /\ resets <= 1 /\ (resetToken => resets = 0)
    /\ \A c \in Calls : LockIsKnown(c)

CallType == [way : Ways, pc : {"idle", "working", "mfa", "opening", "revoke"},
             right : BOOLEAN, code : Codes \cup {NoCode}, read : RowTypes, overtaken : BOOLEAN]

(* The rows the table may hold, however large the counts. *)
AnyRow == [failed : Nat, lockedUntil : 0 .. LastStep + LockTicks, mfa : BOOLEAN,
           lastCode : Codes \cup {NoCode}, password : Nat \ {0}]

LEMMA SignInTypes ==
    ASSUME SignInTypeOK
    PROVE  /\ Threshold \in Nat \ {0} /\ LockTicks \in Nat /\ LastStep \in Nat \ {0}
           /\ MaxSignIns \in Nat /\ IsFiniteSet(Calls) /\ Calls # {}
           /\ step \in Nat \ {0} /\ step <= LastStep /\ made \in Nat /\ made <= MaxSignIns
           /\ account \in RowTypes /\ account \in AnyRow
           /\ account.failed \in Nat /\ account.lockedUntil \in Nat
           /\ account.lockedUntil <= LastStep + LockTicks
           /\ account.mfa \in BOOLEAN /\ account.lastCode \in Codes \cup {NoCode}
           /\ account.lastCode \in Nat /\ account.password \in Nat \ {0}
           /\ call \in [Calls -> CallType]
           /\ \A c \in Calls : /\ call[c] \in CallType /\ call[c].read \in RowTypes
                               /\ call[c].read.failed \in Nat
                               /\ call[c].read.lockedUntil \in Nat
                               /\ call[c].read.lastCode \in Nat
                               /\ call[c].read.password \in 1 .. MaxSignIns + 1
           /\ taken \in [Codes -> Nat] /\ resets \in Nat
           /\ \A n \in Codes : n \in Nat /\ n # 0
  <1>1. /\ Threshold \in Nat \ {0} /\ LockTicks \in Nat /\ LastStep \in Nat \ {0}
        /\ MaxSignIns \in Nat /\ IsFiniteSet(Calls) /\ Calls # {}
    BY SignInBounds
  <1>2. step \in 1 .. LastStep /\ made \in 0 .. MaxSignIns /\ resets \in 0 .. MaxSignIns
    BY DEF SignInTypeOK
  <1>3. \A n \in Codes : n \in Nat /\ n # 0
    BY <1>1 DEF Codes
  <1>4. account \in RowTypes /\ call \in [Calls -> CallType] /\ taken \in [Codes -> 0 .. MaxSignIns]
    BY DEF SignInTypeOK, CallType
  <1>5. ASSUME NEW row \in RowTypes
        PROVE  /\ row.failed \in Nat /\ row.lockedUntil \in Nat
               /\ row.lockedUntil <= LastStep + LockTicks /\ row.mfa \in BOOLEAN
               /\ row.lastCode \in Codes \cup {NoCode} /\ row.lastCode \in Nat
               /\ row.password \in Nat \ {0} /\ row.password \in 1 .. MaxSignIns + 1
               /\ row \in AnyRow
    <2>1. /\ row.failed \in 0 .. MaxSignIns /\ row.lockedUntil \in 0 .. LastStep + LockTicks
          /\ row.mfa \in BOOLEAN /\ row.lastCode \in Codes \cup {NoCode}
          /\ row.password \in 1 .. MaxSignIns + 1
      BY DEF RowTypes
    <2>2. row.lastCode \in Nat
      <3>1. row.lastCode \in Codes \/ row.lastCode = 0
        BY <2>1 DEF NoCode
      <3> QED
        BY <1>3, <3>1
    <2>3. /\ row.failed \in Nat /\ row.lockedUntil \in Nat
          /\ row.lockedUntil <= LastStep + LockTicks /\ row.password \in Nat \ {0}
      BY <1>1, <2>1
    <2>4. row \in AnyRow
      BY <2>1, <2>3 DEF RowTypes, AnyRow
    <2> QED
      BY <2>1, <2>2, <2>3, <2>4
  <1>6. \A c \in Calls : call[c] \in CallType /\ call[c].read \in RowTypes
    BY <1>4 DEF CallType
  <1>7. taken \in [Codes -> Nat]
    BY <1>1, <1>4
  <1> QED
    BY <1>1, <1>2, <1>3, <1>4, <1>5, <1>6, <1>7

LEMMA QuietIsACall ==
    Quiet \in CallType /\ Quiet.pc = "idle" /\ Quiet.way = "password"
  <1>1. NoUser \in RowTypes
    BY SignInBounds DEF NoUser, RowTypes, NotLocked, NoCode, Codes
  <1>2. Quiet = [way |-> "password", pc |-> "idle", right |-> FALSE, code |-> NoCode,
                 read |-> NoUser, overtaken |-> FALSE]
    BY DEF Quiet
  <1> QED
    BY <1>1, <1>2 DEF CallType, Ways

(* A step of one request leaves the others what they hold. *)
OthersStay(c) ==
    /\ call' \in [Calls -> CallType]
    /\ \A d \in Calls \ {c} :
          /\ call'[d].way = call[d].way /\ call'[d].pc = call[d].pc
          /\ call'[d].read = call[d].read
          /\ call[d].pc # "idle" /\ call[d].overtaken => call'[d].overtaken

(* A write of the row overtakes them. *)
OthersLate(c) == \A d \in Calls \ {c} : call[d].pc # "idle" => call'[d].overtaken

LEMMA QuietStep ==
    ASSUME SignInTypeOK, NEW c \in Calls, NEW q \in CallType, call' = [call EXCEPT ![c] = q]
    PROVE  /\ OthersStay(c) /\ call'[c] = q
           /\ \A d \in Calls \ {c} : call'[d] = call[d]
  BY SignInTypes DEF OthersStay

LEMMA WriteStep ==
    ASSUME SignInTypeOK, NEW c \in Calls, NEW q \in CallType,
           call' = [d \in Calls |-> IF d = c THEN q
                                    ELSE [call[d] EXCEPT !.overtaken = call[d].pc # "idle"]]
    PROVE  OthersStay(c) /\ OthersLate(c) /\ call'[c] = q
  <1>0. call \in [Calls -> CallType]
    BY SignInTypes
  <1>1. ASSUME NEW d \in Calls
        PROVE  /\ [call[d] EXCEPT !.overtaken = call[d].pc # "idle"] \in CallType
               /\ d # c => /\ call'[d].way = call[d].way /\ call'[d].pc = call[d].pc
                           /\ call'[d].read = call[d].read
                           /\ call'[d].overtaken = (call[d].pc # "idle")
    <2>1. call[d] \in CallType
      BY <1>0
    <2>2. PICK b \in BOOLEAN : b = (call[d].pc # "idle")
      OBVIOUS
    <2>3. PICK r : r = [call[d] EXCEPT !.overtaken = b]
      OBVIOUS
    <2>4. r \in CallType /\ r.way = call[d].way /\ r.pc = call[d].pc /\ r.read = call[d].read
          /\ r.overtaken = b
      BY <2>1, <2>3 DEF CallType
    <2>5. [call[d] EXCEPT !.overtaken = call[d].pc # "idle"] = r
      BY <2>2, <2>3
    <2>6. d # c => call'[d] = r
      BY <2>5
    <2> QED
      BY <2>2, <2>4, <2>5, <2>6
  <1>2. call' \in [Calls -> CallType] /\ call'[c] = q
    BY <1>1
  <1> QED
    BY <1>1, <1>2 DEF OthersStay, OthersLate

(* What c goes on with after a write. *)
LEMMA WroteStep ==
    ASSUME SignInTypeOK, NEW c \in Calls, NEW pc \in {"mfa", "opening", "revoke"},
           call' = Wrote(c, pc)
    PROVE  /\ OthersStay(c) /\ OthersLate(c) /\ call'[c].pc = pc
           /\ call'[c].way = call[c].way /\ call'[c].read = call[c].read
           /\ call'[c].overtaken = call[c].overtaken
  <1>0. call[c] \in CallType
    BY SignInTypes
  <1>1. PICK q : q = [call[c] EXCEPT !.pc = pc]
    OBVIOUS
  <1>2. /\ q \in CallType /\ q.pc = pc /\ q.way = call[c].way /\ q.read = call[c].read
        /\ q.overtaken = call[c].overtaken
    BY <1>0, <1>1 DEF CallType
  <1>3. call' = [d \in Calls |-> IF d = c THEN q
                                 ELSE [call[d] EXCEPT !.overtaken = call[d].pc # "idle"]]
    BY <1>1 DEF Wrote
  <1> QED
    BY <1>2, <1>3, WriteStep

LEMMA WroteAndEnded ==
    ASSUME SignInTypeOK, NEW c \in Calls, NEW pc, call' = [Wrote(c, pc) EXCEPT ![c] = Quiet]
    PROVE  OthersStay(c) /\ OthersLate(c) /\ call'[c] = Quiet
  <1>1. call' = [d \in Calls |-> IF d = c THEN Quiet
                                 ELSE [call[d] EXCEPT !.overtaken = call[d].pc # "idle"]]
    BY DEF Wrote
  <1> QED
    BY <1>1, WriteStep, QuietIsACall

(* A request goes on without a write. *)
LEMMA GoesOn ==
    ASSUME SignInTypeOK, NEW c \in Calls, NEW pc \in {"mfa", "opening"},
           call' = [call EXCEPT ![c].pc = pc]
    PROVE  /\ OthersStay(c) /\ call'[c].pc = pc
           /\ call'[c].way = call[c].way /\ call'[c].read = call[c].read
           /\ call'[c].overtaken = call[c].overtaken
           /\ \A d \in Calls \ {c} : call'[d] = call[d]
  <1>0. call[c] \in CallType /\ call \in [Calls -> CallType]
    BY SignInTypes
  <1>1. PICK q : q = [call[c] EXCEPT !.pc = pc]
    OBVIOUS
  <1>2. /\ q \in CallType /\ q.pc = pc /\ q.way = call[c].way /\ q.read = call[c].read
        /\ q.overtaken = call[c].overtaken
    BY <1>0, <1>1 DEF CallType
  <1>3. call' = [call EXCEPT ![c] = q]
    BY <1>0, <1>1
  <1> QED
    BY <1>2, <1>3, QuietStep

-----------------------------------------------------------------------------
(* One element more or less changes a finite number by one. *)
LEMMA OneLess ==
    ASSUME NEW S, IsFiniteSet(S), NEW T \in SUBSET S, NEW c \in S, c \notin T
    PROVE  /\ Cardinality(S) \in Nat /\ Cardinality(T) \in Nat
           /\ Cardinality(T) + 1 <= Cardinality(S)
  <1>1. T \subseteq S \ {c} /\ IsFiniteSet(S \ {c})
    BY FS_Subset
  <1>2. /\ Cardinality(S \ {c}) = Cardinality(S) - 1
        /\ Cardinality(S) \in Nat /\ Cardinality(T) \in Nat
    BY <1>1, FS_RemoveElement, FS_CardinalityType, FS_Subset
  <1>3. Cardinality(T) <= Cardinality(S \ {c})
    BY <1>1, FS_Subset
  <1>4. Cardinality(S \ {c}) \in Nat
    BY <1>1, FS_CardinalityType
  <1> QED
    BY <1>2, <1>3, <1>4

LEMMA OneMore ==
    ASSUME NEW S, IsFiniteSet(S), NEW c, NEW T \in SUBSET (S \cup {c})
    PROVE  /\ Cardinality(S) \in Nat /\ Cardinality(T) \in Nat
           /\ Cardinality(T) <= Cardinality(S) + 1
  <1>1. IsFiniteSet(S \cup {c}) /\ Cardinality(S) \in Nat /\ Cardinality(S \cup {c}) \in Nat
    BY FS_AddElement, FS_CardinalityType
  <1>2. /\ Cardinality(S \cup {c}) <= Cardinality(S) + 1
        /\ IsFiniteSet(T) /\ Cardinality(T) <= Cardinality(S \cup {c})
    BY <1>1, FS_AddElement, FS_Subset
  <1>3. Cardinality(T) \in Nat
    BY <1>2, FS_CardinalityType
  <1> QED
    BY <1>1, <1>2, <1>3

LEMMA FreshCounts ==
    ASSUME SignInTypeOK, NEW c \in Calls, OthersStay(c)
    PROVE  /\ Cardinality(Fresh) \in Nat /\ Cardinality(Fresh') \in Nat
           /\ Cardinality(Fresh') <= Cardinality(Fresh) + 1
           /\ (call'[c].pc \in {"working", "mfa"} => call[c].pc \in {"working", "mfa"})
                 => Cardinality(Fresh') <= Cardinality(Fresh)
           /\ call[c].pc \in {"working", "mfa"} /\ call'[c].pc \notin {"working", "mfa"}
                 => Cardinality(Fresh') + 1 <= Cardinality(Fresh)
  <1>1. IsFiniteSet(Calls)
    BY SignInTypes
  <1>2. Fresh \subseteq Calls /\ Fresh' \subseteq Calls
    BY DEF Fresh
  <1>3. IsFiniteSet(Fresh) /\ IsFiniteSet(Fresh')
    BY <1>1, <1>2, FS_Subset
  <1>4. \A d \in Calls \ {c} : d \in Fresh <=> d \in Fresh'
    BY DEF Fresh, OthersStay
  <1>5. /\ c \in Fresh <=> call[c].pc \in {"working", "mfa"}
        /\ c \in Fresh' <=> call'[c].pc \in {"working", "mfa"}
    BY DEF Fresh
  <1>6. Fresh' \in SUBSET (Fresh \cup {c})
    BY <1>2, <1>4
  <1>7. (c \in Fresh' => c \in Fresh) => Fresh' \subseteq Fresh
    BY <1>2, <1>4
  <1>8. Fresh' \subseteq Fresh => Cardinality(Fresh') <= Cardinality(Fresh)
    BY <1>3, FS_Subset
  <1>9. c \in Fresh /\ c \notin Fresh' => Cardinality(Fresh') + 1 <= Cardinality(Fresh)
    BY <1>3, <1>7, OneLess
  <1>10. /\ Cardinality(Fresh) \in Nat /\ Cardinality(Fresh') \in Nat
         /\ Cardinality(Fresh') <= Cardinality(Fresh) + 1
    BY <1>3, <1>6, OneMore
  <1> QED
    BY <1>5, <1>7, <1>8, <1>9, <1>10

(* A request that is no wrong password under way is not careless. *)
LEMMA CarelessCounts ==
    ASSUME SignInTypeOK, NEW c \in Calls, OthersStay(c), c \notin Careless'
    PROVE  /\ Cardinality(Careless) \in Nat /\ Cardinality(Careless') \in Nat
           /\ Cardinality(Calls) \in Nat \ {0}
           /\ Cardinality(Careless') <= Cardinality(Careless)
           /\ c \in Careless => Cardinality(Careless') + 1 <= Cardinality(Careless)
           /\ Cardinality(Careless') + 1 <= Cardinality(Calls)
  <1>1. IsFiniteSet(Calls)
    BY SignInTypes
  <1>2. Careless \subseteq Calls /\ Careless' \subseteq Calls
    BY DEF Careless
  <1>3. IsFiniteSet(Careless) /\ IsFiniteSet(Careless')
    BY <1>1, <1>2, FS_Subset
  <1>4. \A d \in Calls \ {c} : d \in Careless <=> d \in Careless'
    BY DEF Careless, OthersStay
  <1>5. Careless' \subseteq Careless
    BY <1>2, <1>4
  <1>6. /\ Cardinality(Careless) \in Nat /\ Cardinality(Careless') \in Nat
        /\ Cardinality(Careless') <= Cardinality(Careless)
    BY <1>3, <1>5, FS_Subset, FS_CardinalityType
  <1>7. c \in Careless => Cardinality(Careless') + 1 <= Cardinality(Careless)
    BY <1>3, <1>5, OneLess
  <1>8. Cardinality(Calls) \in Nat /\ Cardinality(Careless') + 1 <= Cardinality(Calls)
    BY <1>1, <1>2, OneLess
  <1> QED
    BY <1>6, <1>7, <1>8

SessionType == [password : 1 .. MaxSignIns + 1, passkey : BOOLEAN, late : BOOLEAN]

(* The counts bound themselves. *)
LEMMA TypesFollow ==
    ASSUME SignInTypeOK, step' \in 1 .. LastStep, account' \in AnyRow, call' \in [Calls -> CallType],
           made' \in 0 .. MaxSignIns, taken' \in [Codes -> Nat], resets' \in Nat,
           pendingMfa' \in BOOLEAN, challenge' \in BOOLEAN, resetToken' \in BOOLEAN,
           crossed' \in BOOLEAN, sessions' \subseteq SessionType,
           Cardinality(Fresh') \in Nat, CountsAreBounded'
    PROVE  SignInTypeOK'
  <1>1. /\ account'.failed \in Nat /\ account'.password \in Nat \ {0}
        /\ account'.lockedUntil \in 0 .. LastStep + LockTicks /\ account'.mfa \in BOOLEAN
        /\ account'.lastCode \in Codes \cup {NoCode}
    BY DEF AnyRow
  <1>2. /\ account'.failed + Cardinality(Fresh') <= made'
        /\ account'.password + Cardinality(Fresh') <= made' + 1
        /\ \A n \in Codes : taken'[n] + Cardinality(Fresh') <= made'
        /\ resets' + Cardinality(Fresh') <= made'
    BY DEF CountsAreBounded
  <1>3. account'.failed \in 0 .. MaxSignIns /\ account'.password \in 1 .. MaxSignIns + 1
    BY <1>1, <1>2, SignInTypes
  <1>4. account' \in RowTypes
    BY <1>1, <1>3 DEF AnyRow, RowTypes
  <1>5. taken' \in [Codes -> 0 .. MaxSignIns] /\ resets' \in 0 .. MaxSignIns
    <2>1. \A n \in Codes : taken'[n] \in 0 .. MaxSignIns
      BY <1>2, SignInTypes
    <2> QED
      BY <1>2, <2>1, SignInTypes
  <1> QED
    BY <1>4, <1>5 DEF SignInTypeOK, CallType, SessionType

LEMMA LateFailuresStay ==
    ASSUME SignInTypeOK, LateFailures, NEW c \in Calls, OthersStay(c), call'[c].pc # "working",
           \/ account'.failed = 0
           \/ account'.failed = account.failed /\ account'.lockedUntil = account.lockedUntil
    PROVE  LateFailures'
  <1>1. c \notin Careless'
    BY DEF Careless
  <1>2. /\ Cardinality(Careless) \in Nat /\ Cardinality(Careless') \in Nat
        /\ Cardinality(Calls) \in Nat \ {0} /\ Cardinality(Careless') <= Cardinality(Careless)
        /\ Cardinality(Careless') + 1 <= Cardinality(Calls)
    BY <1>1, CarelessCounts
  <1>3. CASE account'.failed = 0
    <2>1. CASE Threshold = 1
      <3>1. Careless' = {}
        BY <1>1, <2>1, SignInTypes DEF Careless, OthersStay
      <3>2. Cardinality(Careless') = 0
        BY <3>1, FS_EmptySet
      <3> QED
        BY <1>2, <1>3, <2>1, <3>2 DEF LateFailures
    <2>2. CASE Threshold # 1
      BY <1>3, <2>2, SignInTypes DEF LateFailures
    <2> QED
      BY <2>1, <2>2
  <1>4. CASE account'.failed = account.failed /\ account'.lockedUntil = account.lockedUntil
    BY <1>2, <1>4, SignInTypes DEF LateFailures
  <1> QED
    BY <1>3, <1>4

LEMMA SessionsEnd ==
    ASSUME PasswordEndsSessions, NEW c \in Calls, OthersStay(c),
           \A s \in sessions' : s \in sessions \/ s.late \/ s.password = account'.password,
           account'.password = account.password \/ call'[c].pc = "revoke",
           call[c].pc # "revoke" \/ sessions' = {}
    PROVE  PasswordEndsSessions'
  <1> SUFFICES ASSUME NEW s \in sessions', s.password # account'.password, ~s.late
               PROVE  \E d \in Calls : call'[d].pc = "revoke"
    BY DEF PasswordEndsSessions
  <1>1. CASE call'[c].pc = "revoke"
    BY <1>1
  <1>2. CASE account'.password = account.password
    <2>1. PICK d \in Calls : call[d].pc = "revoke"
      BY <1>2 DEF PasswordEndsSessions
    <2> QED
      BY <2>1 DEF OthersStay
  <1> QED
    BY <1>1, <1>2

(* What a step of a request that is under way has to show. *)
Spends(c) ==
    /\ account'.failed <= account.failed + 1
    /\ account'.password <= account.password + 1
    /\ \A n \in Codes : taken'[n] <= taken[n] + 1
    /\ resets' <= resets + 1

SpendsNothing ==
    account'.failed <= account.failed /\ account'.password = account.password
    /\ taken' = taken /\ resets' = resets

LEMMA RequestKeeps ==
    ASSUME SignInIInv, NEW c \in Calls, OthersStay(c), step' = step, made' = made,
           account' \in AnyRow, taken' \in [Codes -> Nat], resets' \in Nat,
           pendingMfa' \in BOOLEAN, challenge' \in BOOLEAN, resetToken' \in BOOLEAN,
           crossed' \in BOOLEAN, sessions' \subseteq SessionType,
           call'[c].pc # "working",
           call'[c].pc = "mfa" => call[c].pc = "working",
           SpendsNothing
             \/ (Spends(c) /\ call[c].pc \in {"working", "mfa"} /\ call'[c].pc # "mfa"),
           LateFailures', CodesAreFresh', PasswordEndsSessions',
           resets' <= 1, resetToken' => resets' = 0,
           account'.lockedUntil = account.lockedUntil \/ OthersLate(c),
           LockIsKnown(c)'
    PROVE  SignInIInv'
  <1>0. SignInTypeOK /\ CountsAreBounded /\ \A d \in Calls : LockIsKnown(d)
    BY DEF SignInIInv
  <1>1. /\ Cardinality(Fresh) \in Nat /\ Cardinality(Fresh') \in Nat
        /\ Cardinality(Fresh') <= Cardinality(Fresh)
        /\ call[c].pc \in {"working", "mfa"} /\ call'[c].pc # "mfa"
              => Cardinality(Fresh') + 1 <= Cardinality(Fresh)
    BY <1>0, FreshCounts
  <1>2. /\ account'.failed \in Nat /\ account'.password \in Nat
        /\ account.failed \in Nat /\ account.password \in Nat /\ made \in Nat /\ resets \in Nat
        /\ \A n \in Codes : taken[n] \in Nat /\ taken'[n] \in Nat
    BY <1>0, SignInTypes DEF AnyRow
  <1>3. CountsAreBounded'
    <2>1. CASE SpendsNothing
      BY <1>0, <1>1, <1>2, <2>1 DEF SpendsNothing, CountsAreBounded
    <2>2. CASE Spends(c) /\ call[c].pc \in {"working", "mfa"} /\ call'[c].pc # "mfa"
      <3>1. Cardinality(Fresh') + 1 <= Cardinality(Fresh)
        BY <1>1, <2>2
      <3> HIDE DEF Fresh
      <3>2. account'.failed + Cardinality(Fresh') <= made'
        BY <1>0, <1>1, <1>2, <2>2, <3>1 DEF Spends, CountsAreBounded
      <3>3. account'.password + Cardinality(Fresh') <= made' + 1
        BY <1>0, <1>1, <1>2, <2>2, <3>1 DEF Spends, CountsAreBounded
      <3>4. \A n \in Codes : taken'[n] + Cardinality(Fresh') <= made'
        BY <1>0, <1>1, <1>2, <2>2, <3>1 DEF Spends, CountsAreBounded
      <3>5. resets' + Cardinality(Fresh') <= made'
        BY <1>0, <1>1, <1>2, <2>2, <3>1 DEF Spends, CountsAreBounded
      <3> QED
        BY <3>2, <3>3, <3>4, <3>5 DEF CountsAreBounded
    <2> QED
      BY <2>1, <2>2
  <1>4. SignInTypeOK'
    <2>1. call' \in [Calls -> CallType] /\ step' \in 1 .. LastStep /\ made' \in 0 .. MaxSignIns
      BY <1>0 DEF OthersStay, SignInTypeOK
    <2> QED
      BY <1>0, <1>1, <1>3, <2>1, TypesFollow
  <1>5. ASSUME NEW d \in Calls \ {c} PROVE LockIsKnown(d)'
    <2>1. /\ call'[d].pc = call[d].pc /\ call'[d].read = call[d].read
          /\ call[d].pc # "idle" /\ call[d].overtaken => call'[d].overtaken
          /\ account'.lockedUntil = account.lockedUntil
                \/ (call[d].pc # "idle" => call'[d].overtaken)
      BY DEF OthersStay, OthersLate
    <2> QED
      BY <1>0, <2>1 DEF LockIsKnown, Locked
  <1> QED
    BY <1>3, <1>4, <1>5 DEF SignInIInv

(* The rows the code writes. *)
LEMMA FieldsOfARow ==
    ASSUME NEW row \in AnyRow
    PROVE  /\ row.failed \in Nat /\ row.lockedUntil \in 0 .. LastStep + LockTicks
           /\ row.mfa \in BOOLEAN /\ row.lastCode \in Codes \cup {NoCode}
           /\ row.password \in Nat \ {0}
  BY DEF AnyRow

LEMMA ClearedRow ==
    ASSUME SignInTypeOK, NEW row \in AnyRow, NEW r, r = Cleared(row)
    PROVE  /\ r \in AnyRow /\ r.failed = 0 /\ r.lockedUntil = NotLocked
           /\ r.password = row.password /\ r.lastCode = row.lastCode
  <1>1. NotLocked \in 0 .. LastStep + LockTicks
    BY SignInTypes DEF NotLocked
  <1> QED
    BY <1>1 DEF Cleared, AnyRow

LEMMA NewPasswordRow ==
    ASSUME NEW row \in AnyRow, NEW r, r = NewPassword(row)
    PROVE  /\ r \in AnyRow /\ r.failed = row.failed /\ r.lockedUntil = row.lockedUntil
           /\ r.password = row.password + 1 /\ r.lastCode = row.lastCode
  <1>1. PICK p \in Nat \ {0} : p = row.password + 1
    BY FieldsOfARow
  <1>2. r = [row EXCEPT !.password = p]
    BY <1>1 DEF NewPassword
  <1> QED
    BY <1>1, <1>2 DEF AnyRow

LEMMA FailedRowIs ==
    ASSUME SignInTypeOK, NEW row \in AnyRow, NEW read, NEW r, r = FailedRow(row, read)
    PROVE  /\ r \in AnyRow /\ r.failed = row.failed + 1
           /\ r.lockedUntil = (IF read.failed + 1 >= Threshold THEN step + LockTicks
                               ELSE row.lockedUntil)
           /\ r.password = row.password /\ r.lastCode = row.lastCode
  <1>1. PICK f \in Nat : f = row.failed + 1
    BY FieldsOfARow
  <1>2. step + LockTicks \in 0 .. LastStep + LockTicks
    BY SignInTypes
  <1>3. PICK u \in 0 .. LastStep + LockTicks :
           u = (IF read.failed + 1 >= Threshold THEN step + LockTicks ELSE row.lockedUntil)
    BY <1>2, FieldsOfARow
  <1>4. r = [row EXCEPT !.failed = f, !.lockedUntil = u]
    BY <1>1, <1>3 DEF FailedRow
  <1> QED
    BY <1>1, <1>3, <1>4 DEF AnyRow

LEMMA SwitchedRow ==
    ASSUME NEW row \in AnyRow, NEW b \in BOOLEAN, NEW r, r = [row EXCEPT !.mfa = b]
    PROVE  /\ r \in AnyRow /\ r.failed = row.failed /\ r.lockedUntil = row.lockedUntil
           /\ r.password = row.password /\ r.lastCode = row.lastCode
  BY DEF AnyRow

LEMMA UsedCodeRow ==
    ASSUME NEW row \in AnyRow, NEW n \in Codes, NEW r, r = [row EXCEPT !.lastCode = n]
    PROVE  /\ r \in AnyRow /\ r.failed = row.failed /\ r.lockedUntil = row.lockedUntil
           /\ r.password = row.password /\ r.lastCode = n
  BY DEF AnyRow

LEMMA CodesStay ==
    ASSUME CodesAreFresh, taken' = taken, crossed' = crossed,
           account'.lastCode = account.lastCode
    PROVE  CodesAreFresh'
  BY DEF CodesAreFresh

LEMMA Plain ==
    ASSUME SignInIInv
    PROVE  /\ SignInTypeOK /\ CountsAreBounded /\ LateFailures /\ CodesAreFresh
           /\ PasswordEndsSessions /\ resets <= 1 /\ (resetToken => resets = 0)
           /\ \A c \in Calls : LockIsKnown(c)
           /\ pendingMfa \in BOOLEAN /\ challenge \in BOOLEAN /\ resetToken \in BOOLEAN
           /\ crossed \in BOOLEAN /\ sessions \subseteq SessionType
  BY DEF SignInIInv, SignInTypeOK, SessionType

(* A request that leaves the row alone. *)
LEMMA RowStays ==
    ASSUME SignInIInv, NEW c \in Calls, OthersStay(c),
           UNCHANGED <<step, made, account, taken, crossed, resets, resetToken>>,
           pendingMfa' \in BOOLEAN, challenge' \in BOOLEAN,
           sessions' = sessions \/ sessions' = {},
           call[c].pc = "revoke" => sessions' = {},
           call'[c].pc # "working", call'[c].pc = "mfa" => call[c].pc = "working",
           LockIsKnown(c)'
    PROVE  SignInIInv'
  <1>1. CodesAreFresh' /\ LateFailures'
    BY Plain, CodesStay, LateFailuresStay
  <1>2. PasswordEndsSessions'
    BY Plain, SessionsEnd
  <1>3. account' \in AnyRow /\ SpendsNothing
    BY Plain, SignInTypes DEF SpendsNothing
  <1> QED
    BY <1>1, <1>2, <1>3, Plain, SignInTypes, RequestKeeps

(* It may just end. *)
LEMMA EndKeeps ==
    ASSUME SignInIInv, NEW c \in Calls, End(c),
           UNCHANGED <<step, made, account, taken, crossed, resets, resetToken>>,
           pendingMfa' \in BOOLEAN, challenge' \in BOOLEAN,
           sessions' = sessions \/ sessions' = {},
           call[c].pc = "revoke" => sessions' = {}
    PROVE  SignInIInv'
  <1>1. OthersStay(c) /\ call'[c] = Quiet
    BY Plain, QuietStep, QuietIsACall DEF End
  <1>2. call'[c].pc = "idle" /\ LockIsKnown(c)'
    BY <1>1, QuietIsACall DEF LockIsKnown
  <1> QED
    BY <1>1, <1>2, RowStays

-----------------------------------------------------------------------------
LEMMA ArrivalKeeps ==
    ASSUME SignInIInv, NEW c \in Calls, NEW way \in Ways, NEW right \in BOOLEAN,
           NEW code \in Codes \cup {NoCode}, Call(c, way, right, code), Unmoved
    PROVE  SignInIInv'
  <1>1. PICK q : q = [way |-> way, pc |-> "working", right |-> right, code |-> code,
                      read |-> account, overtaken |-> FALSE]
    OBVIOUS
  <1>2. /\ q \in CallType /\ q.pc = "working" /\ q.read = account /\ q.way = way
    BY <1>1, Plain, SignInTypes DEF CallType
  <1>3. call[c].pc = "idle" /\ call' = [call EXCEPT ![c] = q]
        /\ made' = made + 1 /\ made < MaxSignIns
    BY <1>1 DEF Call
  <1>4. OthersStay(c) /\ call'[c] = q /\ \A d \in Calls \ {c} : call'[d] = call[d]
    BY <1>2, <1>3, Plain, QuietStep
  <1>5. UNCHANGED <<step, account, pendingMfa, challenge, resetToken, sessions, taken, resets,
                    crossed>>
    BY DEF Unmoved
  <1>6. CountsAreBounded'
    <2>1. /\ Cardinality(Fresh) \in Nat /\ Cardinality(Fresh') \in Nat
          /\ Cardinality(Fresh') <= Cardinality(Fresh) + 1
      BY <1>4, Plain, FreshCounts
    <2> QED
      BY <1>3, <1>5, <2>1, Plain, SignInTypes DEF CountsAreBounded
  <1>7. SignInTypeOK'
    <2>1. step' \in 1 .. LastStep /\ made' \in 0 .. MaxSignIns /\ Cardinality(Fresh') \in Nat
      BY <1>3, <1>4, <1>5, Plain, SignInTypes, FreshCounts DEF SignInTypeOK
    <2> QED
      BY <1>4, <1>5, <1>6, <2>1, Plain, SignInTypes, TypesFollow DEF OthersStay
  <1>8. LateFailures'
    <2>1. CASE account.failed + 1 >= Threshold
      <3>1. c \notin Careless'
        BY <1>2, <1>4, <2>1, Plain, SignInTypes DEF Careless
      <3>2. /\ Cardinality(Careless) \in Nat /\ Cardinality(Careless') \in Nat
            /\ Cardinality(Calls) \in Nat /\ Cardinality(Careless') <= Cardinality(Careless)
        BY <1>4, <3>1, Plain, CarelessCounts
      <3> QED
        BY <1>5, <3>2, Plain, SignInTypes DEF LateFailures
    <2>2. CASE ~(account.failed + 1 >= Threshold)
      BY <1>5, <2>2 DEF LateFailures
    <2> QED
      BY <2>1, <2>2
  <1>9. CodesAreFresh' /\ PasswordEndsSessions'
    <2>1. PasswordEndsSessions'
      BY <1>3, <1>4, <1>5, Plain, SessionsEnd
    <2> QED
      BY <1>5, <2>1, Plain, CodesStay
  <1>10. \A d \in Calls : LockIsKnown(d)'
    BY <1>2, <1>4, <1>5, Plain DEF LockIsKnown, Locked
  <1> QED
    BY <1>5, <1>6, <1>7, <1>8, <1>9, <1>10, Plain DEF SignInIInv

LEMMA ArrivalsKeep ==
    ASSUME SignInIInv, NEW c \in Calls,
           \/ LogIn(c) \/ LogInByPasskey(c) \/ AskForMore(c) \/ ChangePassword(c)
           \/ ResetPassword(c)
    PROVE  SignInIInv'
  <1>1. CASE LogIn(c)
    <2>1. PICK right \in BOOLEAN, code \in {NoCode} \cup (Codes \cap (step - 1 .. step + 1)) :
             Call(c, "password", right, code)
      BY <1>1 DEF LogIn
    <2>2. code \in Codes \cup {NoCode} /\ "password" \in Ways
      BY DEF Ways
    <2> QED
      BY <1>1, <2>1, <2>2, ArrivalKeeps DEF LogIn
  <1>2. CASE LogInByPasskey(c)
    BY <1>2, ArrivalKeeps DEF LogInByPasskey, Ways
  <1>3. CASE AskForMore(c)
    <2>1. PICK way \in {"stepUp", "enable", "disable"},
               code \in Codes \cap (step - 1 .. step + 1) : Call(c, way, TRUE, code)
      BY <1>3 DEF AskForMore
    <2>2. code \in Codes \cup {NoCode} /\ way \in Ways
      BY DEF Ways
    <2> QED
      BY <1>3, <2>1, <2>2, ArrivalKeeps DEF AskForMore
  <1>4. CASE ChangePassword(c)
    BY <1>4, ArrivalKeeps DEF ChangePassword, Ways
  <1>5. CASE ResetPassword(c)
    BY <1>5, ArrivalKeeps DEF ResetPassword, Ways
  <1> QED
    BY <1>1, <1>2, <1>3, <1>4, <1>5

-----------------------------------------------------------------------------
(* The failure that locks is found by every request that had read one less. *)
LEMMA WrongPasswordKeeps ==
    ASSUME SignInIInv, NEW c \in Calls, WrongPassword(c)
    PROVE  SignInIInv'
  <1>1. /\ call[c].way = "password" /\ call[c].pc = "working"
        /\ account' = FailedRow(account, call[c].read)
        /\ UNCHANGED <<step, made, pendingMfa, challenge, resetToken, sessions, taken,
                       resets, crossed>>
    BY DEF WrongPassword
  <1>2. OthersStay(c) /\ OthersLate(c) /\ call'[c] = Quiet
    BY Plain, WroteAndEnded DEF WrongPassword
  <1>3. call'[c].pc = "idle" /\ call'[c].way = "password" /\ LockIsKnown(c)'
    BY <1>2, QuietIsACall DEF LockIsKnown
  <1>4. /\ account' \in AnyRow /\ account'.failed = account.failed + 1
        /\ account'.lockedUntil = (IF call[c].read.failed + 1 >= Threshold
                                   THEN step + LockTicks ELSE account.lockedUntil)
        /\ account'.password = account.password /\ account'.lastCode = account.lastCode
    <2>1. account \in AnyRow /\ SignInTypeOK
      BY Plain, SignInTypes
    <2> QED
      BY <1>1, <2>1, FailedRowIs
  <1>5. c \notin Careless'
    BY <1>3 DEF Careless
  <1>6. /\ Cardinality(Careless) \in Nat /\ Cardinality(Careless') \in Nat
        /\ Cardinality(Calls) \in Nat \ {0}
        /\ c \in Careless => Cardinality(Careless') + 1 <= Cardinality(Careless)
        /\ Cardinality(Careless') + 1 <= Cardinality(Calls)
    BY <1>2, <1>5, Plain, CarelessCounts
  <1>7. LateFailures'
    <2>1. CASE call[c].read.failed + 1 >= Threshold
      <3>1. account'.lockedUntil # NotLocked
        BY <1>4, <2>1, Plain, SignInTypes DEF NotLocked
      <3> QED
        BY <3>1 DEF LateFailures
    <2>2. CASE ~(call[c].read.failed + 1 >= Threshold)
      <3>1. c \in Careless
        BY <1>1, <2>2, Plain, SignInTypes DEF Careless
      <3>2. account'.lockedUntil = account.lockedUntil
        BY <1>4, <2>2
      <3>3. CASE account.failed + 1 >= Threshold
        BY <1>4, <1>6, <3>1, <3>2, <3>3, Plain, SignInTypes DEF LateFailures
      <3>4. CASE ~(account.failed + 1 >= Threshold)
        BY <1>4, <1>6, <3>2, <3>4, Plain, SignInTypes DEF LateFailures
      <3> QED
        BY <3>3, <3>4
    <2> QED
      BY <2>1, <2>2
  <1>8. CodesAreFresh' /\ PasswordEndsSessions'
    <2>1. PasswordEndsSessions'
      BY <1>1, <1>2, <1>4, Plain, SessionsEnd
    <2> QED
      BY <1>1, <1>4, <2>1, Plain, CodesStay
  <1>9. Spends(c)
    BY <1>1, <1>4, Plain, SignInTypes DEF Spends
  <1> QED
    BY <1>1, <1>2, <1>3, <1>4, <1>7, <1>8, <1>9, Plain, SignInTypes, RequestKeeps

(* A step that clears failures and lock. *)
LEMMA ClearingKeeps ==
    ASSUME SignInIInv, NEW c \in Calls, OthersStay(c), OthersLate(c), account' = Cleared(account),
           call'[c].pc # "working", call'[c].pc = "mfa" => call[c].pc = "working",
           call[c].pc # "revoke",
           UNCHANGED <<step, made, taken, crossed, resets, resetToken, pendingMfa>>,
           challenge' \in BOOLEAN, sessions' \subseteq SessionType,
           \A s \in sessions' : s \in sessions \/ s.late \/ s.password = account.password
    PROVE  SignInIInv'
  <1>1. /\ account' \in AnyRow /\ account'.failed = 0 /\ account'.lockedUntil = NotLocked
        /\ account'.password = account.password /\ account'.lastCode = account.lastCode
    <2>1. account \in AnyRow /\ SignInTypeOK
      BY Plain, SignInTypes
    <2> QED
      BY <2>1, ClearedRow
  <1>2. LockIsKnown(c)'
    BY <1>1, Plain, SignInTypes DEF LockIsKnown, Locked, NotLocked
  <1>3. CodesAreFresh' /\ LateFailures'
    BY <1>1, Plain, CodesStay, LateFailuresStay
  <1>4. PasswordEndsSessions'
    BY <1>1, Plain, SessionsEnd
  <1>5. SpendsNothing
    BY <1>1, Plain, SignInTypes DEF SpendsNothing
  <1> QED
    BY <1>1, <1>2, <1>3, <1>4, <1>5, Plain, SignInTypes, RequestKeeps

LEMMA RightPasswordKeeps ==
    ASSUME SignInIInv, NEW c \in Calls, RightPassword(c)
    PROVE  SignInIInv'
  <1>1. /\ call[c].pc = "working"
        /\ UNCHANGED <<step, made, pendingMfa, challenge, resetToken, sessions, taken,
                       resets, crossed>>
    BY DEF RightPassword
  <1>2. CASE ~LetIn(c)
    BY <1>1, <1>2, Plain, EndKeeps DEF RightPassword
  <1>3. CASE LetIn(c) /\ call[c].read.failed > 0
    <2>1. account' = Cleared(account) /\ call' = Wrote(c, "mfa")
      BY <1>3 DEF RightPassword
    <2>2. OthersStay(c) /\ OthersLate(c) /\ call'[c].pc = "mfa"
      BY <2>1, Plain, WroteStep
    <2> QED
      BY <1>1, <2>1, <2>2, Plain, ClearingKeeps
  <1>4. CASE LetIn(c) /\ ~(call[c].read.failed > 0)
    <2>1. account' = account /\ call' = [call EXCEPT ![c].pc = "mfa"]
      BY <1>4 DEF RightPassword
    <2>2. /\ OthersStay(c) /\ call'[c].pc = "mfa" /\ call'[c].overtaken = call[c].overtaken
      BY <2>1, Plain, GoesOn
    <2>3. LockIsKnown(c)'
      BY <1>1, <1>4, <2>1, <2>2, Plain DEF LockIsKnown, LetIn, Locked
    <2> QED
      BY <1>1, <2>1, <2>2, <2>3, Plain, RowStays
  <1> QED
    BY <1>2, <1>3, <1>4

(* A code is taken. *)
LEMMA CodeKeeps ==
    ASSUME SignInIInv, NEW c \in Calls, NEW pc \in {"idle", "opening"}, TakeCode(c, pc),
           CodeIsGood(c), call[c].pc \in {"working", "mfa"},
           pc = "opening" => call[c].pc = "mfa",
           UNCHANGED <<step, made, challenge, resetToken, sessions, resets>>,
           pendingMfa' \in BOOLEAN
    PROVE  SignInIInv'
  <1>1. /\ account' = [account EXCEPT !.lastCode = call[c].code]
        /\ taken' = [taken EXCEPT ![call[c].code] = @ + 1]
        /\ crossed' = (crossed \/ account.lastCode # call[c].read.lastCode)
    BY DEF TakeCode
  <1>2. /\ OthersStay(c) /\ OthersLate(c) /\ call'[c].pc = pc
        /\ pc = "opening" => call'[c].overtaken = call[c].overtaken
    <2>1. CASE pc = "idle"
      BY <2>1, Plain, WroteAndEnded, QuietIsACall DEF TakeCode
    <2>2. CASE pc = "opening"
      BY <2>2, Plain, WroteStep DEF TakeCode
    <2> QED
      BY <2>1, <2>2
  <1>3. PICK n \in Codes : n = call[c].code
    <2>1. call[c].code \in Codes \cup {NoCode}
      BY Plain, SignInTypes DEF CallType
    <2>2. call[c].code > call[c].read.lastCode /\ call[c].read.lastCode \in Nat
      BY Plain, SignInTypes DEF CodeIsGood
    <2>3. call[c].code # NoCode
      BY <2>2 DEF NoCode
    <2> QED
      BY <2>1, <2>3
  <1>4. /\ account' \in AnyRow /\ account'.failed = account.failed
        /\ account'.lockedUntil = account.lockedUntil
        /\ account'.password = account.password /\ account'.lastCode = n
    <2>1. account \in AnyRow /\ account' = [account EXCEPT !.lastCode = n]
      BY <1>1, <1>3, Plain, SignInTypes
    <2> QED
      BY <2>1, UsedCodeRow
  <1>5. /\ taken' \in [Codes -> Nat]
        /\ \A m \in Codes : taken'[m] = IF m = n THEN taken[n] + 1 ELSE taken[m]
    BY <1>1, <1>3, Plain, SignInTypes
  <1>6. crossed' \in BOOLEAN
    BY <1>1, Plain
  <1>7. CodesAreFresh'
    <2> SUFFICES ASSUME ~crossed' PROVE \A m \in Codes : /\ taken'[m] <= 1
                                                         /\ n < m => taken'[m] = 0
      BY <1>4 DEF CodesAreFresh
    <2>1. ~crossed /\ account.lastCode = call[c].read.lastCode
      BY <1>1
    <2>2. account.lastCode < n /\ account.lastCode \in Nat
      BY <1>3, <2>1, Plain, SignInTypes DEF CodeIsGood
    <2>3. taken[n] = 0 /\ \A m \in Codes : taken[m] <= 1
      BY <2>1, <2>2, Plain DEF CodesAreFresh
    <2>4. \A m \in Codes : n < m => taken[m] = 0
      <3>1. \A m \in Codes : n < m => account.lastCode < m
        BY <2>2, Plain, SignInTypes
      <3> QED
        BY <2>1, <3>1, Plain DEF CodesAreFresh
    <2> QED
      BY <1>5, <2>3, <2>4, Plain, SignInTypes
  <1>8. LateFailures' /\ PasswordEndsSessions'
    <2>1. PasswordEndsSessions'
      BY <1>2, <1>4, Plain, SessionsEnd
    <2> QED
      BY <1>2, <1>4, <2>1, Plain, LateFailuresStay
  <1>9. LockIsKnown(c)'
    BY <1>2, <1>4, Plain DEF LockIsKnown, Locked
  <1>10. Spends(c)
    BY <1>4, <1>5, Plain, SignInTypes DEF Spends
  <1> QED
    BY <1>2, <1>4, <1>5, <1>6, <1>7, <1>8, <1>9, <1>10, Plain, SignInTypes, RequestKeeps

LEMMA SecondFactorKeeps ==
    ASSUME SignInIInv, NEW c \in Calls, SecondFactor(c)
    PROVE  SignInIInv'
  <1>1. call[c].pc = "mfa" /\ UNCHANGED <<step, made, challenge, resetToken, sessions, resets>>
    BY DEF SecondFactor
  <1>2. CASE /\ call' = [call EXCEPT ![c].pc = "opening"]
             /\ UNCHANGED <<account, taken, crossed, pendingMfa>>
    <2>1. /\ OthersStay(c) /\ call'[c].pc = "opening" /\ call'[c].overtaken = call[c].overtaken
      BY <1>2, Plain, GoesOn
    <2>2. LockIsKnown(c)'
      BY <1>1, <1>2, <2>1, Plain DEF LockIsKnown, Locked
    <2> QED
      BY <1>1, <1>2, <2>1, <2>2, Plain, RowStays
  <1>3. CASE pendingMfa' = TRUE /\ End(c) /\ UNCHANGED <<account, taken, crossed>>
    BY <1>1, <1>3, Plain, EndKeeps
  <1>4. CASE /\ CodeIsGood(c) /\ TakeCode(c, "opening")
             /\ \E named \in BOOLEAN : pendingMfa' = (pendingMfa /\ ~named)
    BY <1>1, <1>4, Plain, CodeKeeps
  <1>5. CASE End(c) /\ UNCHANGED <<account, taken, crossed, pendingMfa>>
    BY <1>1, <1>5, Plain, EndKeeps
  <1> QED
    BY <1>2, <1>3, <1>4, <1>5 DEF SecondFactor

LEMMA OpenSessionKeeps ==
    ASSUME SignInIInv, NEW c \in Calls, OpenSession(c)
    PROVE  SignInIInv'
  <1>1. /\ account' = Cleared(account) /\ call[c].pc \in {"opening", "working"}
        /\ UNCHANGED <<step, made, pendingMfa, resetToken, taken, resets, crossed>>
        /\ challenge' \in BOOLEAN
    BY DEF OpenSession
  <1>2. OthersStay(c) /\ OthersLate(c) /\ call'[c].pc = "idle"
    BY Plain, WroteAndEnded, QuietIsACall DEF OpenSession
  <1>3. PICK s : /\ s = [password |-> call[c].read.password,
                         passkey |-> call[c].way = "passkey",
                         late |-> call[c].read.password # account.password]
                 /\ sessions' = sessions \cup {s}
    BY DEF OpenSession
  <1>4. s \in SessionType /\ (s.late \/ s.password = account.password)
    <2>1. call[c].read.password \in 1 .. MaxSignIns + 1
      BY Plain, SignInTypes
    <2>2. /\ (call[c].way = "passkey") \in BOOLEAN
          /\ (call[c].read.password # account.password) \in BOOLEAN
      OBVIOUS
    <2>3. s \in SessionType /\ s.password = call[c].read.password
          /\ s.late = (call[c].read.password # account.password)
      BY <1>3, <2>1, <2>2 DEF SessionType
    <2> QED
      BY <2>3
  <1>5. sessions' \subseteq SessionType
    BY <1>3, <1>4, Plain
  <1>6. \A t \in sessions' : t \in sessions \/ t.late \/ t.password = account.password
    BY <1>3, <1>4
  <1> QED
    BY <1>1, <1>2, <1>5, <1>6, ClearingKeeps

LEMMA TooManySessionsKeeps ==
    ASSUME SignInIInv, NEW c \in Calls, TooManySessions(c)
    PROVE  SignInIInv'
  <1>1. OthersStay(c) /\ OthersLate(c) /\ call'[c].pc = "idle"
    BY Plain, WroteAndEnded, QuietIsACall DEF TooManySessions
  <1> QED
    BY <1>1, Plain, ClearingKeeps DEF TooManySessions

LEMMA RefusePasskeyKeeps ==
    ASSUME SignInIInv, NEW c \in Calls, RefusePasskey(c)
    PROVE  SignInIInv'
  BY Plain, EndKeeps DEF RefusePasskey

LEMMA StepUpKeeps ==
    ASSUME SignInIInv, NEW c \in Calls, StepUp(c)
    PROVE  SignInIInv'
  <1>1. /\ call[c].pc = "working"
        /\ UNCHANGED <<step, made, pendingMfa, challenge, resetToken, sessions, resets>>
    BY DEF StepUp
  <1>2. CASE CodeIsGood(c) /\ TakeCode(c, "idle")
    BY <1>1, <1>2, Plain, CodeKeeps
  <1>3. CASE End(c) /\ UNCHANGED <<account, taken, crossed>>
    BY <1>1, <1>3, Plain, EndKeeps
  <1> QED
    BY <1>2, <1>3 DEF StepUp

(* The second factor is switched on or off. *)
LEMMA SwitchKeeps ==
    ASSUME SignInIInv, NEW c \in Calls, NEW b \in BOOLEAN, account' = [account EXCEPT !.mfa = b],
           call[c].pc = "working", OthersStay(c), OthersLate(c), call'[c].pc \in {"idle", "revoke"},
           UNCHANGED <<step, made, pendingMfa, challenge, resetToken, sessions, taken,
                       resets, crossed>>
    PROVE  SignInIInv'
  <1>1. /\ account' \in AnyRow /\ account'.failed = account.failed
        /\ account'.lockedUntil = account.lockedUntil
        /\ account'.password = account.password /\ account'.lastCode = account.lastCode
    <2>1. account \in AnyRow /\ SignInTypeOK
      BY Plain, SignInTypes
    <2> QED
      BY <2>1, SwitchedRow
  <1>2. CodesAreFresh' /\ LateFailures'
    BY <1>1, Plain, CodesStay, LateFailuresStay
  <1>3. PasswordEndsSessions'
    BY <1>1, Plain, SessionsEnd
  <1>4. LockIsKnown(c)' /\ SpendsNothing
    BY <1>1, Plain, SignInTypes DEF SpendsNothing, LockIsKnown
  <1> QED
    BY <1>1, <1>2, <1>3, <1>4, Plain, SignInTypes, RequestKeeps

LEMMA EnableMfaKeeps ==
    ASSUME SignInIInv, NEW c \in Calls, EnableMfa(c)
    PROVE  SignInIInv'
  <1>1. CASE MfaCodePasses(c)
    <2>1. OthersStay(c) /\ OthersLate(c) /\ call'[c].pc = "idle"
      BY <1>1, Plain, WroteAndEnded, QuietIsACall DEF EnableMfa
    <2> QED
      BY <1>1, <2>1, SwitchKeeps DEF EnableMfa
  <1>2. CASE ~MfaCodePasses(c)
    BY <1>2, Plain, EndKeeps DEF EnableMfa
  <1> QED
    BY <1>1, <1>2

LEMMA DisableMfaKeeps ==
    ASSUME SignInIInv, NEW c \in Calls, DisableMfa(c)
    PROVE  SignInIInv'
  <1>1. CASE MfaCodePasses(c)
    <2>1. OthersStay(c) /\ OthersLate(c) /\ call'[c].pc = "revoke"
      BY <1>1, Plain, WroteStep DEF DisableMfa
    <2> QED
      BY <1>1, <2>1, SwitchKeeps DEF DisableMfa
  <1>2. CASE ~MfaCodePasses(c)
    BY <1>2, Plain, EndKeeps DEF DisableMfa
  <1> QED
    BY <1>1, <1>2

(* A new password is stored, and the sessions are about to be revoked. *)
LEMMA NewPasswordKeeps ==
    ASSUME SignInIInv, NEW c \in Calls, NEW row \in AnyRow, account' = NewPassword(row),
           row = account \/ row = Cleared(account),
           call[c].pc = "working", call' = Wrote(c, "revoke"),
           \/ resetToken' = resetToken /\ resets' = resets
           \/ resetToken /\ resetToken' = FALSE /\ resets' = resets + 1,
           UNCHANGED <<step, made, pendingMfa, challenge, sessions, taken, crossed>>
    PROVE  SignInIInv'
  <1>1. OthersStay(c) /\ OthersLate(c) /\ call'[c].pc = "revoke"
    BY Plain, WroteStep
  <1>2. /\ row.password = account.password /\ row.lastCode = account.lastCode
        /\ \/ row.failed = 0
           \/ row.failed = account.failed /\ row.lockedUntil = account.lockedUntil
    <2>1. account \in AnyRow /\ SignInTypeOK
      BY Plain, SignInTypes
    <2> QED
      BY <2>1, ClearedRow
  <1>3. /\ account' \in AnyRow /\ account'.failed = row.failed
        /\ account'.lockedUntil = row.lockedUntil
        /\ account'.password = row.password + 1 /\ account'.lastCode = row.lastCode
    BY NewPasswordRow
  <1>4. CodesAreFresh' /\ LateFailures'
    BY <1>1, <1>2, <1>3, Plain, CodesStay, LateFailuresStay
  <1>5. PasswordEndsSessions'
    BY <1>1, Plain, SessionsEnd
  <1>6. resets' \in Nat /\ resets' <= 1 /\ (resetToken' => resets' = 0)
        /\ resetToken' \in BOOLEAN /\ resets' <= resets + 1
    <2>1. /\ resets \in Nat /\ resets <= 1 /\ (resetToken => resets = 0)
          /\ resetToken \in BOOLEAN
      BY Plain, SignInTypes
    <2>2. CASE resetToken' = resetToken /\ resets' = resets
      BY <2>1, <2>2
    <2>3. CASE resetToken /\ resetToken' = FALSE /\ resets' = resets + 1
      <3>1. resets = 0
        BY <2>1, <2>3
      <3>2. resets' = 1
        BY <2>3, <3>1
      <3>3. ~resetToken' /\ resetToken' \in BOOLEAN
        BY <2>3
      <3> QED
        BY <3>1, <3>2, <3>3
    <2> QED
      BY <2>2, <2>3
  <1>7. LockIsKnown(c)' /\ Spends(c)
    BY <1>1, <1>2, <1>3, <1>6, Plain, SignInTypes DEF Spends, LockIsKnown
  <1> QED
    BY <1>1, <1>3, <1>4, <1>5, <1>6, <1>7, Plain, SignInTypes, RequestKeeps

LEMMA StorePasswordKeeps ==
    ASSUME SignInIInv, NEW c \in Calls, StorePassword(c)
    PROVE  SignInIInv'
  <1>1. account \in AnyRow
    BY Plain, SignInTypes
  <1> QED
    BY <1>1, NewPasswordKeeps DEF StorePassword

LEMMA StoreResetKeeps ==
    ASSUME SignInIInv, NEW c \in Calls, StoreReset(c)
    PROVE  SignInIInv'
  <1>1. CASE resetToken
    <2>1. Cleared(account) \in AnyRow
      <3>1. account \in AnyRow /\ SignInTypeOK
        BY Plain, SignInTypes
      <3> QED
        BY <3>1, ClearedRow
    <2> QED
      BY <1>1, <2>1, NewPasswordKeeps DEF StoreReset, TokenIsThere
  <1>2. CASE ~resetToken
    BY <1>2, Plain, EndKeeps DEF StoreReset, TokenIsThere
  <1> QED
    BY <1>1, <1>2

LEMMA RevokeSessionsKeeps ==
    ASSUME SignInIInv, NEW c \in Calls, RevokeSessions(c)
    PROVE  SignInIInv'
  BY Plain, EndKeeps DEF RevokeSessions, Revoked

LEMMA NextStepKeeps ==
    ASSUME SignInIInv, NextStep
    PROVE  SignInIInv'
  <1>1. /\ step' = step + 1 /\ step < LastStep
        /\ UNCHANGED <<account, call, made, pendingMfa, challenge, resetToken, sessions,
                       taken, resets, crossed>>
    BY DEF NextStep
  <1>2. step' \in 1 .. LastStep
    BY <1>1, Plain, SignInTypes
  <1>3. SignInTypeOK' /\ CountsAreBounded' /\ LateFailures' /\ CodesAreFresh'
        /\ PasswordEndsSessions'
    BY <1>1, <1>2, Plain DEF SignInTypeOK, CountsAreBounded, Fresh, LateFailures, Careless,
                             CodesAreFresh, PasswordEndsSessions
  <1>4. \A c \in Calls : LockIsKnown(c)'
    BY <1>1, Plain, SignInTypes DEF LockIsKnown, Locked
  <1> QED
    BY <1>1, <1>3, <1>4, Plain DEF SignInIInv

-----------------------------------------------------------------------------
(* Only a request that was overtaken, or a reset, lifts a lock. *)
LiftsNoLock ==
    Locked(account) /\ account'.lockedUntil = NotLocked
       => \E c \in Calls : /\ call'[c] # call[c]
                           /\ call[c].overtaken \/ call[c].way = "reset"

LEMMA LockStays ==
    ASSUME SignInTypeOK, account'.lockedUntil = account.lockedUntil \/ account'.lockedUntil # NotLocked
    PROVE  LiftsNoLock
  BY SignInTypes DEF LiftsNoLock, Locked, NotLocked

LEMMA RequestLiftsNoLock ==
    ASSUME SignInIInv, NEW c \in Calls,
           \/ WrongPassword(c) \/ RightPassword(c) \/ SecondFactor(c)
           \/ OpenSession(c) \/ TooManySessions(c) \/ RefusePasskey(c)
           \/ StepUp(c) \/ EnableMfa(c) \/ DisableMfa(c)
           \/ StorePassword(c) \/ StoreReset(c) \/ RevokeSessions(c)
    PROVE  LiftsNoLock
  <1>1. SignInTypeOK /\ account \in AnyRow /\ LockIsKnown(c)
    BY Plain, SignInTypes
  <1>2. CASE UNCHANGED account
    BY <1>1, <1>2, LockStays
  <1>3. CASE WrongPassword(c)
    <2>1. /\ account'.lockedUntil = (IF call[c].read.failed + 1 >= Threshold
                                     THEN step + LockTicks ELSE account.lockedUntil)
      BY <1>1, <1>3, FailedRowIs DEF WrongPassword
    <2>2. step + LockTicks # NotLocked
      BY <1>1, SignInTypes DEF NotLocked
    <2> QED
      BY <1>1, <2>1, <2>2, LockStays
  <1>4. CASE RightPassword(c) /\ account' # account
    <2>1. call[c].pc = "working" /\ ~Locked(call[c].read) /\ call' = Wrote(c, "mfa")
      BY <1>4 DEF RightPassword, LetIn
    <2>2. call'[c] # call[c]
      BY <1>1, <2>1, WroteStep
    <2> QED
      BY <1>1, <2>1, <2>2 DEF LiftsNoLock, LockIsKnown, Locked
  <1>5. CASE TakeCode(c, "opening") \/ TakeCode(c, "idle")
    <2>1. account' = [account EXCEPT !.lastCode = call[c].code]
      BY <1>5 DEF TakeCode
    <2>2. account'.lockedUntil = account.lockedUntil
      BY <1>1, <2>1 DEF AnyRow
    <2> QED
      BY <1>1, <2>2, LockStays
  <1>6. CASE OpenSession(c)
    <2>1. call'[c] # call[c]
      BY <1>1, <1>6, WroteAndEnded, QuietIsACall DEF OpenSession
    <2>2. CASE call[c].pc = "opening"
      BY <1>1, <2>1, <2>2 DEF LiftsNoLock, LockIsKnown
    <2>3. CASE call[c].pc = "working" /\ ~Locked(call[c].read)
      BY <1>1, <2>1, <2>3 DEF LiftsNoLock, LockIsKnown, Locked
    <2> QED
      BY <1>6, <2>2, <2>3 DEF OpenSession
  <1>7. CASE TooManySessions(c)
    <2>1. call'[c] # call[c]
      BY <1>1, <1>7, WroteAndEnded, QuietIsACall DEF TooManySessions
    <2> QED
      BY <1>1, <1>7, <2>1 DEF TooManySessions, LiftsNoLock, LockIsKnown
  <1>8. CASE EnableMfa(c) /\ account' # account
    BY <1>1, <1>8, SwitchedRow, LockStays DEF EnableMfa
  <1>9. CASE DisableMfa(c) /\ account' # account
    BY <1>1, <1>9, SwitchedRow, LockStays DEF DisableMfa
  <1>10. CASE StorePassword(c)
    BY <1>1, <1>10, NewPasswordRow, LockStays DEF StorePassword
  <1>11. CASE StoreReset(c) /\ account' # account
    <2>1. call[c].way = "reset" /\ call[c].pc = "working" /\ call' = Wrote(c, "revoke")
      BY <1>11 DEF StoreReset
    <2>2. call'[c] # call[c]
      BY <1>1, <2>1, WroteStep
    <2> QED
      BY <2>1, <2>2 DEF LiftsNoLock
  <1>12. CASE RefusePasskey(c) \/ RevokeSessions(c)
    BY <1>2, <1>12 DEF RefusePasskey, RevokeSessions
  <1>13. CASE SecondFactor(c) \/ StepUp(c)
    BY <1>2, <1>5, <1>13 DEF SecondFactor, StepUp
  <1> QED
    BY <1>2, <1>3, <1>4, <1>6, <1>7, <1>8, <1>9, <1>10, <1>11, <1>12, <1>13

LEMMA SignInStarts ==
    SignInInit => SignInIInv
  <1> SUFFICES ASSUME SignInInit PROVE SignInIInv
    OBVIOUS
  <1>1. account \in RowTypes /\ account.failed = 0 /\ account.lockedUntil = 0
        /\ account.password = 1
    <2>1. NoUser \in RowTypes /\ NoUser.failed = 0 /\ NoUser.lockedUntil = 0
          /\ NoUser.password = 1
      BY SignInBounds DEF NoUser, RowTypes, NotLocked, NoCode, Codes
    <2>2. PICK r : r = [NoUser EXCEPT !.mfa = TRUE]
      OBVIOUS
    <2>3. r \in RowTypes /\ r.failed = 0 /\ r.lockedUntil = 0 /\ r.password = 1
      BY <2>1, <2>2 DEF RowTypes
    <2> QED
      BY <2>1, <2>2, <2>3 DEF SignInInit
  <1>2. call \in [Calls -> CallType] /\ \A c \in Calls : call[c] = Quiet
    BY QuietIsACall DEF SignInInit
  <1>3. SignInTypeOK
    <2>1. step \in 1 .. LastStep /\ made \in 0 .. MaxSignIns /\ resets \in 0 .. MaxSignIns
      BY SignInBounds DEF SignInInit
    <2>2. taken \in [Codes -> 0 .. MaxSignIns]
      BY SignInBounds DEF SignInInit
    <2>3. /\ {pendingMfa, challenge, resetToken, crossed} \subseteq BOOLEAN
          /\ sessions \subseteq SessionType
      BY DEF SignInInit
    <2> QED
      BY <1>1, <1>2, <2>1, <2>2, <2>3 DEF SignInTypeOK, CallType, SessionType
  <1>4. Cardinality(Fresh) = 0
    BY <1>2, QuietIsACall, FS_EmptySet DEF Fresh
  <1>5. CountsAreBounded
    BY <1>1, <1>4 DEF CountsAreBounded, SignInInit
  <1>6. LateFailures
    <2>1. Careless = {}
      BY <1>2, QuietIsACall DEF Careless
    <2>2. Cardinality(Careless) = 0 /\ Cardinality(Calls) \in Nat /\ Cardinality(Calls) # 0
      BY <2>1, SignInBounds, FS_EmptySet, FS_CardinalityType
    <2> QED
      BY <1>1, <2>2, SignInBounds DEF LateFailures
  <1>7. CodesAreFresh /\ PasswordEndsSessions
    BY DEF SignInInit, CodesAreFresh, PasswordEndsSessions
  <1>8. \A c \in Calls : LockIsKnown(c)
    BY <1>2, QuietIsACall DEF LockIsKnown
  <1> QED
    BY <1>3, <1>5, <1>6, <1>7, <1>8 DEF SignInIInv, SignInInit

LEMMA SignInSteps ==
    SignInIInv /\ [SignInNext]_signInVars => SignInIInv' /\ [LiftsNoLock]_signInVars
  <1> SUFFICES ASSUME SignInIInv, [SignInNext]_signInVars
               PROVE  SignInIInv' /\ [LiftsNoLock]_signInVars
    OBVIOUS
  <1>1. ASSUME NEW c \in Calls,
               \/ LogIn(c) \/ LogInByPasskey(c) \/ AskForMore(c) \/ ChangePassword(c)
               \/ ResetPassword(c)
        PROVE  SignInIInv' /\ LiftsNoLock
    <2>1. account' = account
      BY <1>1 DEF LogIn, LogInByPasskey, AskForMore, ChangePassword, ResetPassword, Unmoved
    <2> QED
      BY <1>1, <2>1, ArrivalsKeep, LockStays, Plain
  <1>2. ASSUME NEW c \in Calls,
               \/ WrongPassword(c) \/ RightPassword(c) \/ SecondFactor(c)
               \/ OpenSession(c) \/ TooManySessions(c) \/ RefusePasskey(c)
               \/ StepUp(c) \/ EnableMfa(c) \/ DisableMfa(c)
               \/ StorePassword(c) \/ StoreReset(c) \/ RevokeSessions(c)
        PROVE  SignInIInv' /\ LiftsNoLock
    <2>1. LiftsNoLock
      BY <1>2, RequestLiftsNoLock
    <2> QED
      BY <1>2, <2>1, WrongPasswordKeeps, RightPasswordKeeps, SecondFactorKeeps,
         OpenSessionKeeps, TooManySessionsKeeps, RefusePasskeyKeeps, StepUpKeeps,
         EnableMfaKeeps, DisableMfaKeeps, StorePasswordKeeps, StoreResetKeeps,
         RevokeSessionsKeeps
  <1>3. CASE NextStep
    <2>1. account' = account
      BY <1>3 DEF NextStep
    <2> QED
      BY <1>3, <2>1, NextStepKeeps, LockStays, Plain
  <1>4. CASE UNCHANGED signInVars
    <2>1. UNCHANGED <<step, account, call, made, pendingMfa, challenge, resetToken, sessions,
                      taken, resets, crossed>>
      BY <1>4 DEF signInVars
    <2>2. /\ SignInTypeOK' /\ CountsAreBounded' /\ LateFailures' /\ CodesAreFresh'
          /\ PasswordEndsSessions' /\ \A c \in Calls : LockIsKnown(c)'
      BY <2>1, Plain DEF SignInTypeOK, CountsAreBounded, Fresh, LateFailures, Careless,
                         CodesAreFresh, PasswordEndsSessions, LockIsKnown, Locked
    <2> QED
      BY <1>4, <2>1, <2>2, Plain DEF SignInIInv
  <1> QED
    BY <1>1, <1>2, <1>3, <1>4 DEF SignInNext

LEMMA SignInFollows ==
    SignInIInv => SignInInv
  <1> SUFFICES ASSUME SignInIInv PROVE SignInInv
    OBVIOUS
  <1>1. /\ Cardinality(Careless) \in Nat /\ Cardinality(Calls) \in Nat
    <2>1. IsFiniteSet(Calls) /\ Careless \subseteq Calls
      BY Plain, SignInTypes DEF Careless
    <2> QED
      BY <2>1, FS_Subset, FS_CardinalityType
  <1>2. CountedFailuresLock
    BY <1>1, Plain, SignInTypes DEF CountedFailuresLock, LateFailures
  <1>3. CodeCountsOnce /\ ResetsOnce
    BY Plain DEF CodesAreFresh, CodeCountsOnce, ResetsOnce
  <1> QED
    BY <1>2, <1>3, Plain DEF SignInInv

(* The account locks after wrong passwords, a code and a reset token count *)
(* once, a new password ends the older sessions, and no request that knew  *)
(* of a lock lifts it: for any number of requests, any threshold and any   *)
(* time the lock lasts.                                                    *)
THEOREM SignInIsSafe ==
    SignInSpec => SignInIsSound
  <1>1. SignInIInv /\ [SignInNext]_signInVars => SignInIInv' /\ [LiftsNoLock]_signInVars
    BY SignInSteps
  <1>2. [LiftsNoLock]_signInVars
          => [ Locked(account) /\ account'.lockedUntil = NotLocked
                 => \E c \in Calls : /\ call'[c] # call[c]
                                     /\ call[c].overtaken \/ call[c].way = "reset" ]_signInVars
    BY DEF LiftsNoLock
  <1> QED
    BY <1>1, <1>2, SignInStarts, SignInFollows, PTL DEF SignInSpec, SignInIsSound, LockIsKept

=============================================================================
