---------------------------- MODULE AccessProofs ----------------------------
(*************************************************************************)
(* What lets a request in: the session, the licence, the rate limiter,    *)
(* the membership of its user and the policies of its tenant.            *)
(*************************************************************************)
EXTENDS SessionRevocation, LicenceGate, RateLimiter, Membership, PolicyEngine,
        FiniteSetTheorems, FunctionTheorems, SequenceTheorems, WellFoundedInduction, TLAPS

-----------------------------------------------------------------------------
(*************************************************************************)
(* The bound of RevocationIsSeenInTime, for any number of requests, any  *)
(* life of a cache entry and any time a request is in flight.            *)
(*                                                                       *)
(* What makes it hold is how old an answer can be: a request on its way  *)
(* has read a table no revocation had reached only if it came before the *)
(* revocation, so a cache entry of such a request dies Latency + Ttl after *)
(* the revocation, and a request that finds the entry is over Latency    *)
(* later.                                                                *)
(*************************************************************************)

(* Requests on their way are not older than Latency, and those that were   *)
(* accepted stand in the tick of their last step.                          *)
InFlightIsYoung ==
    \A r \in Bearers :
        /\ bearer[r].since <= clock
        /\ bearer[r].pc # "idle" => clock <= bearer[r].since + Latency

(* No date lies in the future, no entry was made there. *)
DatesArePast ==
    /\ 1 <= clock /\ clock <= LastSessionTick
    /\ denied <= clock /\ revokedAt <= clock /\ userCache.ts <= clock
    /\ validUntil <= clock + Ttl

(* How long what a request read of the token, or a cache entry made of it, *)
(* outlives the logout.                                                    *)
TokenAnswers ==
    denied # NeverRevoked =>
        /\ validUntil <= denied + Latency + Ttl
        /\ \A r \in Bearers :
              /\ bearer[r].pc = "fillToken" => bearer[r].since <= denied
              /\ bearer[r].pc \in {"user", "fillUser", "accepted"} /\ ~bearer[r].open
                    => bearer[r].since < denied + Latency + Ttl

(* The same for the time of mass revocation. *)
UserAnswers ==
    revokedAt # NeverRevoked =>
        /\ userCache.value = NeverRevoked => userCache.ts <= revokedAt + Latency
        /\ \A r \in Bearers :
              /\ bearer[r].pc = "fillUser" /\ bearer[r].read = NeverRevoked
                    => bearer[r].since <= revokedAt
              /\ bearer[r].pc = "accepted" /\ ~bearer[r].open
                    => clock < revokedAt + Latency + Ttl

AnswersInv == SesTypeOK /\ InFlightIsYoung /\ DatesArePast /\ TokenAnswers /\ UserAnswers

BearerType ==
    [pc : {"idle", "token", "fillToken", "user", "fillUser", "accepted"},
     since : Ticks, read : Ticks, open : BOOLEAN]

LEMMA TickFacts ==
    /\ Ticks \subseteq Nat /\ 0 \in Ticks /\ Idle \in BearerType
    /\ \A t \in Nat : t <= LastSessionTick + Ttl => t \in Ticks
    /\ Ttl \in Nat /\ Ttl > 0 /\ Latency \in Nat /\ Latency > 0
    /\ LastSessionTick \in Nat /\ LastSessionTick > 0
  BY ClockAssumption DEF Ticks, BearerType, Idle, NeverRevoked

LEMMA InitAnswers == SesInit => AnswersInv
  BY TickFacts
  DEF SesInit, AnswersInv, SesTypeOK, InFlightIsYoung, DatesArePast, TokenAnswers,
      UserAnswers, NoEntry, Idle, NeverRevoked, Ticks, BearerType

(* The answer a request gets from the user's cache, or the query it is left *)
(* with: what it may be, given what the invariant says of the cache.       *)
LEMMA AskedUser ==
    ASSUME AnswersInv, NEW r \in Bearers
    PROVE  /\ AskUser(r) \in BearerType
           /\ AskUser(r).pc \in {"idle", "user", "accepted"}
           /\ AskUser(r).since <= clock
           /\ AskUser(r).pc # "idle" => /\ AskUser(r).since = bearer[r].since
                                       /\ AskUser(r).open = bearer[r].open
           /\ AskUser(r).pc = "accepted" /\ revokedAt # NeverRevoked
                  => clock < revokedAt + Latency + Ttl
  <1>1. bearer[r] \in BearerType /\ bearer[r].since <= clock
    BY DEF AnswersInv, SesTypeOK, BearerType, InFlightIsYoung
  <1>2. userCache.ts \in Nat /\ clock \in Nat /\ revokedAt \in Nat
    BY TickFacts DEF AnswersInv, SesTypeOK
  <1>3. CASE CachedUser /\ userCache.value = NeverRevoked
    <2>1. revokedAt # NeverRevoked => clock < revokedAt + Latency + Ttl
      BY <1>2, <1>3, TickFacts DEF AnswersInv, UserAnswers, CachedUser
    <2>2. AskUser(r) = [bearer[r] EXCEPT !.pc = "accepted", !.read = NeverRevoked]
      BY <1>3 DEF AskUser, Judged
    <2> QED
      BY <1>1, <2>1, <2>2, TickFacts DEF BearerType, NeverRevoked
  <1>4. CASE CachedUser /\ userCache.value # NeverRevoked
    <2>1. AskUser(r) = Idle
      BY <1>4 DEF AskUser, Judged
    <2>2. Idle.pc = "idle" /\ Idle.since = 0
      BY DEF Idle, NeverRevoked
    <2> QED
      BY <2>1, <2>2, <1>2, TickFacts
  <1>5. CASE ~CachedUser
    <2>1. AskUser(r) = [bearer[r] EXCEPT !.pc = "user"]
      BY <1>5 DEF AskUser
    <2> QED
      BY <1>1, <2>1 DEF BearerType
  <1> QED
    BY <1>3, <1>4, <1>5

(* A step that changes one request and leaves clock and table alone keeps  *)
(* the invariant if the request and the caches are as the invariant wants. *)
Moves(r, b) ==
    /\ b \in BearerType
    /\ bearer' = [bearer EXCEPT ![r] = b]
    /\ clock' = clock /\ denied' = denied /\ revokedAt' = revokedAt /\ forget' = forget
    /\ b.since <= clock
    /\ b.pc # "idle" => clock <= b.since + Latency
    /\ validUntil' \in Ticks /\ validUntil' <= clock + Ttl
    /\ denied # NeverRevoked => validUntil' <= denied + Latency + Ttl
    /\ userCache' \in [value : Ticks, ts : Ticks] /\ userCache'.ts <= clock
    /\ revokedAt # NeverRevoked /\ userCache'.value = NeverRevoked
          => userCache'.ts <= revokedAt + Latency
    /\ denied # NeverRevoked =>
          /\ b.pc = "fillToken" => b.since <= denied
          /\ b.pc \in {"user", "fillUser", "accepted"} /\ ~b.open
                => b.since < denied + Latency + Ttl
    /\ revokedAt # NeverRevoked =>
          /\ b.pc = "fillUser" /\ b.read = NeverRevoked => b.since <= revokedAt
          /\ b.pc = "accepted" /\ ~b.open => clock < revokedAt + Latency + Ttl

LEMMA OneBearerMoves ==
    ASSUME AnswersInv, NEW r \in Bearers, NEW b, Moves(r, b) PROVE AnswersInv'
  <1> USE DEF AnswersInv, Moves
  <1>1. /\ bearer' \in [Bearers -> BearerType]
        /\ bearer'[r] = b
        /\ \A o \in Bearers \ {r} : bearer'[o] = bearer[o]
    BY DEF SesTypeOK, BearerType
  <1>2. SesTypeOK'
    BY <1>1 DEF SesTypeOK, BearerType, Ticks
  <1>3. InFlightIsYoung'
    BY <1>1 DEF InFlightIsYoung
  <1>4. DatesArePast'
    BY DEF DatesArePast
  <1>5. TokenAnswers'
    BY <1>1 DEF TokenAnswers
  <1>6. UserAnswers'
    BY <1>1 DEF UserAnswers
  <1> QED
    BY <1>2, <1>3, <1>4, <1>5, <1>6

(* What the invariant says of the caches alone. *)
LEMMA CacheFacts ==
    ASSUME AnswersInv
    PROVE  /\ clock \in Ticks /\ clock \in Nat /\ 1 <= clock
           /\ denied \in Nat /\ revokedAt \in Nat
           /\ validUntil \in Ticks /\ validUntil <= clock + Ttl
           /\ denied # NeverRevoked => validUntil <= denied + Latency + Ttl
           /\ userCache \in [value : Ticks, ts : Ticks] /\ userCache.ts <= clock
           /\ revokedAt # NeverRevoked /\ userCache.value = NeverRevoked
                 => userCache.ts <= revokedAt + Latency
  BY TickFacts DEF AnswersInv, SesTypeOK, DatesArePast, TokenAnswers, UserAnswers

LEMMA ArrivePreserves ==
    ASSUME AnswersInv, NEW r \in Bearers, Arrive(r) PROVE AnswersInv'
  <1>1. clock \in Ticks /\ clock \in Nat /\ validUntil \in Nat /\ denied \in Nat
    BY TickFacts DEF AnswersInv, SesTypeOK
  <1>2. /\ clock' = clock /\ denied' = denied /\ revokedAt' = revokedAt
        /\ forget' = forget /\ validUntil' = validUntil /\ userCache' = userCache
    BY DEF Arrive
  <1>3. CASE CachedValid
    <2> DEFINE b == [AskUser(r) EXCEPT !.since = clock]
    <2>1. bearer' = [bearer EXCEPT ![r] = b]
      BY <1>3 DEF Arrive
    <2>2. /\ b \in BearerType /\ b.since = clock
          /\ b.pc = AskUser(r).pc /\ b.pc \in {"idle", "user", "accepted"}
      BY <1>1, AskedUser DEF BearerType
    <2>3. denied # NeverRevoked => clock < denied + Latency + Ttl
      BY <1>1, <1>3, TickFacts DEF CachedValid, AnswersInv, TokenAnswers
    <2>4. revokedAt # NeverRevoked /\ b.pc = "accepted" => clock < revokedAt + Latency + Ttl
      BY <2>2, AskedUser
    <2> HIDE DEF b
    <2>5. Moves(r, b)
      BY <1>1, <1>2, <2>1, <2>2, <2>3, <2>4, TickFacts, CacheFacts DEF Moves
    <2> QED
      BY <2>5, OneBearerMoves
  <1>4. CASE ~CachedValid
    <2> DEFINE b == [Idle EXCEPT !.pc = "token", !.since = clock]
    <2>1. bearer' = [bearer EXCEPT ![r] = b]
      BY <1>4 DEF Arrive
    <2>2. b \in BearerType /\ b.since = clock /\ b.pc = "token"
      BY <1>1, TickFacts DEF BearerType, Idle
    <2> HIDE DEF b
    <2>5. Moves(r, b)
      BY <1>1, <1>2, <2>1, <2>2, TickFacts, CacheFacts DEF Moves
    <2> QED
      BY <2>5, OneBearerMoves
  <1> QED
    BY <1>3, <1>4

LEMMA ReadTokenPreserves ==
    ASSUME AnswersInv, NEW r \in Bearers, ReadToken(r) PROVE AnswersInv'
  <1>1. /\ bearer[r] \in BearerType /\ bearer[r].pc = "token"
        /\ bearer[r].since <= clock /\ clock <= bearer[r].since + Latency
        /\ denied # NeverRevoked => denied \in Nat
    BY TickFacts DEF ReadToken, AnswersInv, SesTypeOK, BearerType, InFlightIsYoung
  <1>2. /\ clock' = clock /\ denied' = denied /\ revokedAt' = revokedAt
        /\ forget' = forget /\ validUntil' = validUntil /\ userCache' = userCache
    BY DEF ReadToken
  <1>3. clock \in Nat /\ Idle.pc = "idle" /\ Idle.since = 0
    BY TickFacts DEF AnswersInv, SesTypeOK, Idle, NeverRevoked
  <1>4. CASE bearer' = [bearer EXCEPT ![r] = [@ EXCEPT !.pc = "fillToken"]]
             /\ denied = NeverRevoked
    <2> DEFINE b == [bearer[r] EXCEPT !.pc = "fillToken"]
    <2>1. bearer' = [bearer EXCEPT ![r] = b]
      BY <1>4
    <2>2. b \in BearerType /\ b.since = bearer[r].since /\ b.pc = "fillToken"
      BY <1>1 DEF BearerType
    <2> HIDE DEF b
    <2>5. Moves(r, b)
      BY <1>1, <1>2, <1>4, <2>1, <2>2, CacheFacts DEF Moves
    <2> QED
      BY <2>5, OneBearerMoves
  <1>5. CASE bearer' = [bearer EXCEPT ![r] = Idle]
    <2>5. Moves(r, Idle)
      BY <1>2, <1>3, <1>5, TickFacts, CacheFacts DEF Moves
    <2> QED
      BY <2>5, OneBearerMoves
  <1>6. CASE bearer' = [bearer EXCEPT ![r] = [AskUser(r) EXCEPT !.open = TRUE]]
    <2> DEFINE b == [AskUser(r) EXCEPT !.open = TRUE]
    <2>1. bearer' = [bearer EXCEPT ![r] = b]
      BY <1>6
    <2>2. /\ b \in BearerType /\ b.open /\ b.pc \in {"idle", "user", "accepted"}
          /\ b.since <= clock /\ (b.pc # "idle" => b.since = bearer[r].since)
      BY AskedUser DEF BearerType
    <2> HIDE DEF b
    <2>5. Moves(r, b)
      BY <1>1, <1>2, <2>1, <2>2, CacheFacts DEF Moves
    <2> QED
      BY <2>5, OneBearerMoves
  <1> QED
    BY <1>4, <1>5, <1>6 DEF ReadToken

LEMMA FillTokenPreserves ==
    ASSUME AnswersInv, NEW r \in Bearers, FillToken(r) PROVE AnswersInv'
  <1>1. /\ bearer[r] \in BearerType /\ bearer[r].pc = "fillToken"
        /\ bearer[r].since <= clock /\ clock <= bearer[r].since + Latency
        /\ clock \in Nat /\ denied \in Nat /\ bearer[r].since \in Nat
    BY TickFacts DEF FillToken, AnswersInv, SesTypeOK, BearerType, InFlightIsYoung
  <1>2. /\ clock' = clock /\ denied' = denied /\ revokedAt' = revokedAt /\ forget' = forget
        /\ userCache' = userCache
        /\ validUntil' = clock + Ttl
        /\ bearer' = [bearer EXCEPT ![r] = AskUser(r)]
    BY DEF FillToken
  <1>3. denied # NeverRevoked => bearer[r].since <= denied
    BY <1>1 DEF AnswersInv, TokenAnswers
  <1>4. validUntil' \in Ticks
    BY <1>1, <1>2, TickFacts DEF AnswersInv, DatesArePast
  <1>5. denied # NeverRevoked =>
            /\ clock + Ttl <= denied + Latency + Ttl
            /\ bearer[r].since < denied + Latency + Ttl
    BY <1>1, <1>3, TickFacts
  <1>6. Moves(r, AskUser(r))
    BY <1>1, <1>2, <1>3, <1>4, <1>5, AskedUser, TickFacts, CacheFacts DEF Moves
  <1> QED
    BY <1>6, OneBearerMoves

LEMMA ReadUserPreserves ==
    ASSUME AnswersInv, NEW r \in Bearers, ReadUser(r) PROVE AnswersInv'
  <1>1. /\ bearer[r] \in BearerType /\ bearer[r].pc = "user" /\ revokedAt \in Ticks
        /\ bearer[r].since <= clock /\ clock <= bearer[r].since + Latency
    BY DEF ReadUser, AnswersInv, SesTypeOK, BearerType, InFlightIsYoung
  <1>2. /\ clock' = clock /\ denied' = denied /\ revokedAt' = revokedAt
        /\ forget' = forget /\ validUntil' = validUntil /\ userCache' = userCache
    BY DEF ReadUser
  <1>3. PICK b \in BearerType :
          /\ bearer' = [bearer EXCEPT ![r] = b]
          /\ b.since = bearer[r].since
          /\ \/ b.pc = "fillUser" /\ b.read = revokedAt /\ b.open = bearer[r].open
             \/ b.pc = "accepted" /\ b.open
    <2>1. CASE bearer' = [bearer EXCEPT ![r].pc = "fillUser", ![r].read = revokedAt]
      <3> DEFINE b == [bearer[r] EXCEPT !.pc = "fillUser", !.read = revokedAt]
      <3>1. b \in BearerType /\ b.since = bearer[r].since /\ b.pc = "fillUser"
            /\ b.read = revokedAt /\ b.open = bearer[r].open
        BY <1>1 DEF BearerType
      <3>2. bearer' = [bearer EXCEPT ![r] = b]
        BY <2>1
      <3> QED
        BY <3>1, <3>2
    <2>2. CASE bearer' = [bearer EXCEPT ![r].pc = "accepted", ![r].open = TRUE]
      <3> DEFINE b == [bearer[r] EXCEPT !.pc = "accepted", !.open = TRUE]
      <3>1. b \in BearerType /\ b.since = bearer[r].since /\ b.pc = "accepted" /\ b.open
        BY <1>1 DEF BearerType
      <3>2. bearer' = [bearer EXCEPT ![r] = b]
        BY <2>2
      <3> QED
        BY <3>1, <3>2
    <2> QED
      BY <2>1, <2>2 DEF ReadUser
  <1>4. denied # NeverRevoked /\ ~bearer[r].open
            => bearer[r].since < denied + Latency + Ttl
    BY <1>1 DEF AnswersInv, TokenAnswers
  <1>5. Moves(r, b)
    BY <1>1, <1>2, <1>3, <1>4, CacheFacts DEF Moves
  <1> QED
    BY <1>5, OneBearerMoves

LEMMA FillUserPreserves ==
    ASSUME AnswersInv, NEW r \in Bearers, FillUser(r) PROVE AnswersInv'
  <1>1. /\ bearer[r] \in BearerType /\ bearer[r].pc = "fillUser"
        /\ bearer[r].since <= clock /\ clock <= bearer[r].since + Latency
        /\ clock \in Ticks /\ clock \in Nat /\ bearer[r].since \in Nat
        /\ revokedAt \in Nat /\ bearer[r].read \in Ticks
    BY TickFacts DEF FillUser, AnswersInv, SesTypeOK, BearerType, InFlightIsYoung
  <1>2. /\ clock' = clock /\ denied' = denied /\ revokedAt' = revokedAt /\ forget' = forget
        /\ validUntil' = validUntil
        /\ userCache' = [value |-> bearer[r].read, ts |-> clock]
        /\ bearer' = [bearer EXCEPT ![r] = Judged(r, bearer[r].read)]
    BY DEF FillUser
  <1>3. revokedAt # NeverRevoked /\ bearer[r].read = NeverRevoked
            => /\ clock <= revokedAt + Latency
               /\ clock < revokedAt + Latency + Ttl
    BY <1>1, TickFacts DEF AnswersInv, UserAnswers
  <1>4. userCache' \in [value : Ticks, ts : Ticks]
        /\ userCache'.ts = clock /\ userCache'.value = bearer[r].read
    BY <1>1, <1>2
  <1>5. denied # NeverRevoked /\ ~bearer[r].open
            => bearer[r].since < denied + Latency + Ttl
    BY <1>1 DEF AnswersInv, TokenAnswers
  <1>6. /\ clock' = clock /\ denied' = denied /\ revokedAt' = revokedAt /\ forget' = forget
        /\ validUntil' = validUntil
    BY <1>2
  <1>7. CASE bearer[r].read = NeverRevoked
    <2> DEFINE b == [bearer[r] EXCEPT !.pc = "accepted", !.read = NeverRevoked]
    <2>1. bearer' = [bearer EXCEPT ![r] = b]
      BY <1>2, <1>7 DEF Judged
    <2>2. b \in BearerType /\ b.since = bearer[r].since /\ b.pc = "accepted"
          /\ b.open = bearer[r].open
      BY <1>1, TickFacts DEF BearerType, NeverRevoked
    <2> HIDE DEF b
    <2>5. Moves(r, b)
      BY <1>1, <1>3, <1>4, <1>7, <1>5, <1>6, <2>1, <2>2, CacheFacts DEF Moves
    <2> QED
      BY <2>5, OneBearerMoves
  <1>8. CASE bearer[r].read # NeverRevoked
    <2>1. bearer' = [bearer EXCEPT ![r] = Idle]
      BY <1>2, <1>8 DEF Judged
    <2>2. Idle.pc = "idle" /\ Idle.since = 0
      BY DEF Idle, NeverRevoked
    <2>5. Moves(r, Idle)
      BY <1>1, <1>4, <1>8, <1>6, <2>1, <2>2, TickFacts, CacheFacts DEF Moves
    <2> QED
      BY <2>5, OneBearerMoves
  <1> QED
    BY <1>7, <1>8

LEMMA DonePreserves ==
    ASSUME AnswersInv, NEW r \in Bearers, Done(r) PROVE AnswersInv'
  <1>1. /\ clock' = clock /\ denied' = denied /\ revokedAt' = revokedAt
        /\ forget' = forget /\ validUntil' = validUntil /\ userCache' = userCache
        /\ bearer' = [bearer EXCEPT ![r] = Idle]
    BY DEF Done
  <1>2. clock \in Nat /\ Idle.pc = "idle" /\ Idle.since = 0
    BY TickFacts DEF AnswersInv, SesTypeOK, Idle, NeverRevoked
  <1>3. Moves(r, Idle)
    BY <1>1, <1>2, TickFacts, CacheFacts DEF Moves
  <1> QED
    BY <1>3, OneBearerMoves

-----------------------------------------------------------------------------
(* The steps that leave the requests alone. *)
LEMMA RevocationPreserves ==
    ASSUME AnswersInv, NEW place \in Places, Logout(place) \/ RevokeAll(place)
    PROVE  AnswersInv'
  <1>1. clock \in Nat /\ clock > 0 /\ denied \in Nat /\ revokedAt \in Nat
        /\ validUntil \in Nat /\ userCache.ts \in Nat
    <2>1. clock \in Nat /\ 1 <= clock /\ denied \in Nat /\ revokedAt \in Nat
      BY CacheFacts
    <2>2. validUntil \in Ticks /\ userCache.ts \in Ticks
      BY CacheFacts
    <2>3. Ticks \subseteq Nat
      BY TickFacts
    <2>4. validUntil \in Nat /\ userCache.ts \in Nat
      BY <2>2, <2>3
    <2> QED
      BY <2>1, <2>4
  <1>2. ASSUME NEW r \in Bearers PROVE bearer[r].since \in Nat
    <2>1. bearer[r] \in BearerType
      BY DEF AnswersInv, SesTypeOK, BearerType
    <2> QED
      BY <2>1, TickFacts DEF BearerType
  <1>3. CASE Logout(place)
    <2>1. SesTypeOK'
      BY <1>3 DEF Logout, AnswersInv, SesTypeOK, Ticks
    <2>2. InFlightIsYoung' /\ DatesArePast' /\ UserAnswers'
      BY <1>1, <1>3 DEF Logout, AnswersInv, InFlightIsYoung, DatesArePast, UserAnswers
    <2>3. TokenAnswers'
      BY <1>1, <1>3, <1>2, TickFacts
      DEF Logout, AnswersInv, InFlightIsYoung, DatesArePast, TokenAnswers
    <2> QED
      BY <2>1, <2>2, <2>3 DEF AnswersInv
  <1>4. CASE RevokeAll(place)
    <2>1. SesTypeOK'
      BY <1>4 DEF RevokeAll, AnswersInv, SesTypeOK, Ticks
    <2>2. InFlightIsYoung' /\ DatesArePast' /\ TokenAnswers'
      BY <1>1, <1>4 DEF RevokeAll, AnswersInv, InFlightIsYoung, DatesArePast, TokenAnswers
    <2>3. UserAnswers'
      BY <1>1, <1>4, <1>2, TickFacts
      DEF RevokeAll, AnswersInv, InFlightIsYoung, DatesArePast, UserAnswers
    <2> QED
      BY <2>1, <2>2, <2>3 DEF AnswersInv
  <1> QED
    BY <1>3, <1>4

LEMMA ForgettingPreserves ==
    ASSUME AnswersInv, ForgetToken \/ ForgetUser PROVE AnswersInv'
  <1>1. clock \in Nat /\ denied \in Nat /\ revokedAt \in Nat
    BY TickFacts DEF AnswersInv, SesTypeOK
  <1>2. NoEntry \in [value : Ticks, ts : Ticks] /\ NoEntry.ts = 0
    BY TickFacts DEF NoEntry, NeverRevoked
  <1>3. CASE ForgetToken
    BY <1>1, <1>3, TickFacts
    DEF ForgetToken, AnswersInv, SesTypeOK, InFlightIsYoung, DatesArePast, TokenAnswers,
        UserAnswers, NeverRevoked
  <1>4. CASE ForgetUser
    BY <1>1, <1>2, <1>4, TickFacts
    DEF ForgetUser, AnswersInv, SesTypeOK, InFlightIsYoung, DatesArePast, TokenAnswers,
        UserAnswers, NeverRevoked
  <1> QED
    BY <1>3, <1>4

LEMMA TickPreserves ==
    ASSUME AnswersInv, SesTick PROVE AnswersInv'
  <1>1. /\ clock \in Nat /\ denied \in Nat /\ revokedAt \in Nat /\ validUntil \in Nat
        /\ userCache.ts \in Nat /\ \A r \in Bearers : bearer[r] \in BearerType
    BY TickFacts DEF AnswersInv, SesTypeOK, BearerType
  <1>2. \A r \in Bearers : bearer[r].since \in Nat
    BY <1>1, TickFacts DEF BearerType
  <1>3. /\ clock' = clock + 1 /\ clock < LastSessionTick
        /\ UNCHANGED <<denied, revokedAt, validUntil, userCache, forget>>
        /\ bearer' = [r \in Bearers |-> IF InFlight(r) THEN bearer[r] ELSE Idle]
    BY DEF SesTick
  <1>4. Idle.pc = "idle" /\ Idle.since = 0
    BY DEF Idle, NeverRevoked
  <1>5. \A r \in Bearers :
          \/ bearer'[r] = Idle
          \/ /\ bearer'[r] = bearer[r] /\ clock < bearer[r].since + Latency
             /\ bearer[r].pc \in {"token", "fillToken", "user", "fillUser"}
    BY <1>3 DEF SesTick, InFlight
  <1>6. SesTypeOK'
    <2>1. clock' \in Ticks
      BY <1>1, <1>3, TickFacts
    <2>2. bearer' \in [Bearers -> BearerType]
      BY <1>1, <1>3, TickFacts
    <2> QED
      BY <1>3, <2>1, <2>2 DEF AnswersInv, SesTypeOK, BearerType, Ticks
  <1>7. InFlightIsYoung'
    BY <1>1, <1>2, <1>3, <1>4, <1>5, TickFacts DEF AnswersInv, InFlightIsYoung
  <1>8. DatesArePast'
    BY <1>1, <1>3, TickFacts DEF AnswersInv, DatesArePast
  <1>9. TokenAnswers'
    BY <1>3, <1>4, <1>5 DEF AnswersInv, TokenAnswers
  <1>10. UserAnswers'
    BY <1>3, <1>4, <1>5 DEF AnswersInv, UserAnswers
  <1> QED
    BY <1>6, <1>7, <1>8, <1>9, <1>10 DEF AnswersInv

LEMMA StutterPreserves ==
    ASSUME AnswersInv, UNCHANGED sesVars PROVE AnswersInv'
  BY DEF sesVars, AnswersInv, SesTypeOK, InFlightIsYoung, DatesArePast, TokenAnswers,
         UserAnswers, Ticks

LEMMA AnswersAreTimely == AnswersInv => SesInv
  <1> SUFFICES ASSUME AnswersInv, NEW r \in Bearers, bearer[r].pc = "accepted",
                      ~bearer[r].open, NEW ended \in {denied, revokedAt} \ {NeverRevoked}
               PROVE  clock < ended + Ttl + 2 * Latency
    BY DEF AnswersInv, SesInv, RevocationIsSeenInTime
  <1>1. clock \in Nat /\ ended \in Nat /\ bearer[r].since \in Nat
    BY TickFacts DEF AnswersInv, SesTypeOK
  <1>2. CASE ended = denied
    BY <1>1, <1>2, TickFacts DEF AnswersInv, TokenAnswers, InFlightIsYoung
  <1>3. CASE ended = revokedAt
    BY <1>1, <1>3, TickFacts DEF AnswersInv, UserAnswers
  <1> QED
    BY <1>2, <1>3

(* For any requests, any life of an entry and any delay of a request, an   *)
(* ended session is refused Ttl and twice the delay after it ended, at     *)
(* every instance, by every request the table answered.                    *)
THEOREM RevocationsAreSeen == SesSpec => []SesInv
  <1>1. AnswersInv /\ [SesNext]_sesVars => AnswersInv'
    BY ArrivePreserves, ReadTokenPreserves, FillTokenPreserves, ReadUserPreserves,
       FillUserPreserves, DonePreserves, RevocationPreserves, ForgettingPreserves,
       TickPreserves, StutterPreserves
    DEF SesNext
  <1> QED
    BY <1>1, InitAnswers, AnswersAreTimely, PTL DEF SesSpec

-----------------------------------------------------------------------------
(*************************************************************************)
(* The properties of LicenceGate, for any times: no mark is later than the *)
(* latest time the clock has shown, and what a process holds of the state *)
(* file was so once.                                                     *)
(*************************************************************************)

(* What LockHasCause asks for. *)
Cause ==
    \/ lic.flag /\ "setBack" \in causes
    \/ lic.hashedMark # Never /\ lic.mark # lic.hashedMark
    \/ lic.machine # "any" /\ "moved" \in causes
    \/ lic.expires < peak

(* The clock, and what is known of it. *)
ClockIsSound ==
    /\ now \in 1 .. LastTick + turns /\ peak \in now .. LastTick + turns
    /\ now + Tolerance < peak => "setBack" \in causes

(* Dates that a row or a plan holds were on the clock. *)
DatesWereSeen ==
    /\ lic.mark <= LastTick + turns /\ lic.hashedMark <= LastTick + turns
    /\ lic.expires <= LastTick + turns + Term
    /\ \A w \in Lookers : check[w].at <= LastTick + turns

(* What the row says has a reason, unless a write was overtaken by an      *)
(* installation.                                                           *)
RowHasCause ==
    /\ ~AtHome(lic) => "moved" \in causes
    /\ ~overrun =>
          /\ lic.mark <= peak
          /\ lic.hashedMark # Never => lic.hashedMark <= lic.mark
          /\ lic.status = "grace_period" => lic.expires < peak
          /\ lic.status = "locked" => Cause

(* So has what an actor is about to write.                                 *)
PlanHasCause(w) ==
    /\ check[w].pc = "write" => check[w].what # "none"
    /\ check[w].pc = "first" => check[w].what = "grace"
    /\ ~overrun /\ check[w].row # "replaced" =>
          /\ check[w].what = "lock" => Cause
          /\ check[w].what = "rolled" => "setBack" \in causes
          /\ check[w].what = "grace" => lic.expires < peak
          /\ check[w].pc = "mark" =>
                check[w].at <= peak /\ (lic.hashedMark # Never => lic.hashedMark < check[w].at)
    /\ check[w].row = "same" =>
          /\ check[w].pc = "mark" => lic.mark = Never \/ lic.mark < check[w].at
          /\ check[w].what = "grace" => lic.status # "locked"
    /\ check[w].pc \in {"idle", "second"} => check[w].what = "none"

LicIInv ==
    /\ LicTypeOK /\ ClockIsSound /\ DatesWereSeen /\ RowHasCause
    /\ \A w \in Lookers : PlanHasCause(w)

CheckType == [pc : {"idle", "mark", "write", "first", "second"}, at : Dates, grace : Dates,
              what : {"none", "lock", "grace", "rolled"}, row : {"same", "changed", "replaced"}]

(* What OnlyRacesUndo says of one step. *)
UndoneInARace ==
    (lic'.mark < lic.mark \/ (lic.status = "locked" /\ lic'.status # "locked"))
       => \/ turns' # turns
          \/ \E w \in Lookers : check[w].row # "same" /\ check'[w] # check[w]

LEMMA LicTypes ==
    ASSUME LicIInv
    PROVE  /\ now \in Nat /\ peak \in Nat /\ turns \in Nat /\ turns <= MaxTurns
           /\ machine \in Machines /\ overrun \in BOOLEAN /\ causes \subseteq {"setBack", "moved"}
           /\ lic \in LicenceRows /\ lic.mark \in Nat /\ lic.hashedMark \in Nat
           /\ lic.expires \in Nat /\ lic.graceEnds \in Nat
           /\ check \in [Lookers -> CheckType]
           /\ \A w \in Lookers : /\ check[w] \in CheckType /\ PlanHasCause(w)
                                 /\ check[w].at \in Nat /\ check[w].at <= LastTick + turns
           /\ ClockIsSound /\ DatesWereSeen /\ RowHasCause
           /\ Tolerance \in Nat /\ GraceDays \in Nat /\ Term \in Nat /\ MaxTurns \in Nat
           /\ LastTick \in Nat \ {0}
  <1>1. /\ Tolerance \in Nat /\ GraceDays \in Nat /\ Term \in Nat /\ MaxTurns \in Nat
        /\ LastTick \in Nat \ {0}
    BY TimesAssumption
  <1>2. Dates \subseteq Nat
    BY <1>1 DEF Dates
  <1>3. /\ lic \in LicenceRows /\ check \in [Lookers -> CheckType]
        /\ now \in Nat /\ peak \in Nat
    BY <1>2 DEF LicIInv, LicTypeOK, CheckType
  <1>4. /\ lic.mark \in Nat /\ lic.hashedMark \in Nat /\ lic.expires \in Nat /\ lic.graceEnds \in Nat
    BY <1>2, <1>3 DEF LicenceRows
  <1>5. \A w \in Lookers : /\ check[w] \in CheckType /\ PlanHasCause(w)
                           /\ check[w].at \in Nat /\ check[w].at <= LastTick + turns
    BY <1>2, <1>3 DEF LicIInv, DatesWereSeen, CheckType
  <1> QED
    BY <1>1, <1>3, <1>4, <1>5 DEF LicIInv, LicTypeOK

LEMMA LicTypesSuffice ==
    ASSUME now \in Dates, peak \in Dates, machine \in Machines, lic \in LicenceRows,
           check \in [Lookers -> CheckType], turns \in 0 .. MaxTurns,
           causes \subseteq {"setBack", "moved"}, overrun \in BOOLEAN
    PROVE  LicTypeOK
  BY DEF LicTypeOK, CheckType

LEMMA DatesBound ==
    ASSUME NEW t \in Nat, t <= MaxTurns, NEW n \in Nat, n <= LastTick + t
    PROVE  n \in Dates
  BY TimesAssumption DEF Dates

LEMMA RestingIsSound ==
    /\ Resting \in CheckType
    /\ Resting = [pc |-> "idle", at |-> Never, what |-> "none", grace |-> Never, row |-> "same"]
  BY TimesAssumption DEF Resting, CheckType, Dates, Never

LEMMA IdleHasCause ==
    ASSUME NEW w \in Lookers, check'[w].pc \in {"idle", "second"}, check'[w].what = "none"
    PROVE  PlanHasCause(w)'
  BY DEF PlanHasCause

(* An actor reads, and plans. *)
LEMMA PlanStep ==
    ASSUME LicIInv, NEW w \in Lookers, NEW c \in CheckType, check' = [check EXCEPT ![w] = c],
           c.at <= LastTick + turns, PlanHasCause(w)',
           UNCHANGED <<now, machine, lic, turns, peak, causes, overrun>>
    PROVE  LicIInv' /\ UndoneInARace
  <1>0. check \in [Lookers -> CheckType] /\ RowHasCause /\ ClockIsSound /\ DatesWereSeen
    BY LicTypes
  <1>1. /\ check' \in [Lookers -> CheckType]
        /\ \A o \in Lookers : check'[o] = IF o = w THEN c ELSE check[o]
    BY <1>0
  <1>2. LicTypeOK'
    BY <1>1 DEF LicIInv, LicTypeOK, CheckType
  <1>3. ClockIsSound' /\ DatesWereSeen' /\ RowHasCause' /\ Cause' = Cause
    BY <1>0, <1>1 DEF ClockIsSound, DatesWereSeen, RowHasCause, Cause, AtHome
  <1>4. ASSUME NEW o \in Lookers \ {w} PROVE PlanHasCause(o)'
    BY <1>1, <1>3, LicTypes DEF PlanHasCause
  <1> QED
    BY <1>1, <1>2, <1>3, <1>4, LicTypes DEF LicIInv, UndoneInARace

(* The plans of the others when the row is written. *)
LEMMA OutdatedPlans ==
    ASSUME NEW w \in Lookers, NEW how \in {"changed", "replaced"}, LicIInv
    PROVE  /\ Outdated(how) \in [Lookers -> CheckType]
           /\ Outdated(how)[w].pc = check[w].pc /\ Outdated(how)[w].at = check[w].at
           /\ Outdated(how)[w].what = check[w].what
           /\ check[w].pc \in {"mark", "write", "first"} =>
                 Outdated(how)[w].row = IF check[w].row = "replaced" THEN "replaced" ELSE how
  <1>0. check \in [Lookers -> CheckType]
    BY LicTypes
  <1>1. \A v \in Lookers : [check[v] EXCEPT !.row = how] \in CheckType
    BY <1>0 DEF CheckType
  <1>2. Outdated(how) \in [Lookers -> CheckType]
    BY <1>0, <1>1 DEF Outdated
  <1>3. PICK c : c = [check[w] EXCEPT !.row = how]
    OBVIOUS
  <1>4. /\ c.pc = check[w].pc /\ c.at = check[w].at /\ c.what = check[w].what /\ c.row = how
    BY <1>0, <1>3 DEF CheckType
  <1>5. Outdated(how)[w] = IF check[w].pc \notin {"mark", "write", "first"}
                              \/ check[w].row = "replaced" THEN check[w] ELSE c
    BY <1>3 DEF Outdated
  <1> QED
    BY <1>2, <1>4, <1>5

(* A write of the row: the others' plans keep their causes. *)
LEMMA PutKeeps ==
    ASSUME LicIInv, NEW w \in Lookers, NEW row \in LicenceRows, NEW then \in CheckType,
           Put(w, row, then), then.at <= LastTick + turns, PlanHasCause(w)',
           row.expires = lic.expires, row.hashedMark = lic.hashedMark,
           row.machine = lic.machine, row.mark <= LastTick + turns, lic.flag => row.flag,
           ~overrun /\ check[w].row # "replaced" =>
              /\ row.mark <= peak /\ (lic.hashedMark # Never => lic.hashedMark <= row.mark)
              /\ lic.hashedMark # Never /\ lic.mark # lic.hashedMark => row.mark # lic.hashedMark
              /\ row.status = "grace_period" => lic.expires < peak
              /\ row.status = "locked" => Cause'
    PROVE  LicIInv'
  <1>0. /\ check \in [Lookers -> CheckType] /\ RowHasCause /\ ClockIsSound /\ DatesWereSeen
        /\ lic' = row /\ (overrun' <=> overrun \/ check[w].row = "replaced")
        /\ UNCHANGED <<now, machine, turns, peak, causes>> /\ overrun' \in BOOLEAN
    BY LicTypes DEF Put
  <1>1. /\ check' \in [Lookers -> CheckType] /\ check'[w] = then
        /\ \A o \in Lookers \ {w} : check'[o] = Outdated("changed")[o]
    BY OutdatedPlans DEF Put
  <1>2. LicTypeOK'
    BY <1>0, <1>1 DEF LicIInv, LicTypeOK, CheckType
  <1>3. \A o \in Lookers : check'[o].at <= LastTick + turns
    BY <1>1, LicTypes, OutdatedPlans
  <1>4. ClockIsSound' /\ DatesWereSeen'
    BY <1>0, <1>3 DEF ClockIsSound, DatesWereSeen
  <1>5. ~overrun' => (Cause => Cause')
    BY <1>0 DEF Cause
  <1>6. RowHasCause'
    BY <1>0 DEF RowHasCause, AtHome
  <1>7. ASSUME NEW o \in Lookers \ {w} PROVE PlanHasCause(o)'
    <2>1. /\ check'[o].pc = check[o].pc /\ check'[o].at = check[o].at
          /\ check'[o].what = check[o].what
          /\ check[o].pc \in {"mark", "write", "first"} =>
                check'[o].row # "same" /\ (check'[o].row # "replaced" => check[o].row # "replaced")
      BY <1>1, OutdatedPlans
    <2>2. PlanHasCause(o) /\ check[o].pc \in {"idle", "mark", "write", "first", "second"}
      BY LicTypes DEF CheckType
    <2>3. CASE check[o].pc \in {"idle", "second"}
      BY <2>1, <2>2, <2>3, IdleHasCause DEF PlanHasCause
    <2>4. CASE check[o].pc \in {"mark", "write", "first"}
      BY <1>0, <1>5, <2>1, <2>2, <2>4 DEF PlanHasCause
    <2> QED
      BY <2>2, <2>3, <2>4
  <1>8. \A o \in Lookers : PlanHasCause(o)'
    BY <1>7
  <1> QED
    BY <1>2, <1>4, <1>6, <1>8 DEF LicIInv

LEMMA PlannedIsSound ==
    ASSUME LicIInv, NEW pc \in {"mark", "write", "first", "second"},
           NEW what \in {"none", "lock", "grace", "rolled"}
    PROVE  /\ Planned(pc, what) \in CheckType /\ Planned(pc, what).pc = pc
           /\ Planned(pc, what).what = what /\ Planned(pc, what).row = "same"
           /\ Planned(pc, what).at = IF pc = "write" THEN Never ELSE now
           /\ Planned(pc, what).at <= LastTick + turns
  <1>0. /\ now \in Dates /\ Never \in Dates /\ GraceOf(lic) \in Dates
        /\ now <= LastTick + turns /\ Never <= LastTick + turns
    BY LicTypes DEF Dates, Never, GraceOf, DatesWereSeen, ClockIsSound
  <1>1. PICK at \in Dates : at = IF pc = "write" THEN Never ELSE now
    BY <1>0
  <1>2. PICK grace \in Dates : grace = IF what = "grace" THEN GraceOf(lic) ELSE Never
    BY <1>0
  <1>3. PICK c : c = [Resting EXCEPT !.pc = pc, !.what = what, !.at = at, !.grace = grace]
    OBVIOUS
  <1>4. Planned(pc, what) = c
    BY <1>1, <1>2, <1>3 DEF Planned
  <1>5. c \in CheckType /\ c.pc = pc /\ c.what = what /\ c.row = "same" /\ c.at = at
    BY <1>1, <1>2, <1>3, RestingIsSound DEF CheckType
  <1> QED
    BY <1>0, <1>1, <1>4, <1>5

(* A check decides for a cause. *)
LEMMA VerdictHasCause ==
    ASSUME LicIInv
    PROVE  /\ Verdict(lic, now) \in {"none", "lock", "grace"}
           /\ ~overrun /\ Verdict(lic, now) = "lock" => Cause
           /\ Verdict(lic, now) = "grace" => lic.status # "locked" /\ lic.expires < peak
  <1>0. /\ RowHasCause /\ now <= peak /\ now \in Nat /\ peak \in Nat /\ lic.expires \in Nat
        /\ lic.status \in {"none", "active", "grace_period", "locked"} /\ lic.flag \in BOOLEAN
    BY LicTypes DEF ClockIsSound, LicenceRows, Statuses
  <1>1. CASE lic.flag \/ lic.status = "none"
    BY <1>1 DEF Verdict
  <1>2. CASE ~lic.flag /\ lic.status # "none" /\ ~(Intact(lic) /\ AtHome(lic))
    <2>1. Verdict(lic, now) = "lock"
      BY <1>2 DEF Verdict
    <2>2. ~overrun => Cause
      BY <1>0, <1>2 DEF Intact, HashMatches, AtHome, RowHasCause, Cause
    <2> QED
      BY <2>1, <2>2
  <1>3. CASE ~lic.flag /\ lic.status # "none" /\ Intact(lic) /\ AtHome(lic)
    <2>1. Verdict(lic, now) =
             CASE lic.status = "active" /\ lic.expires < now -> "grace"
               [] lic.status = "grace_period" /\ lic.graceEnds <= now /\ ~lic.lockedAt -> "lock"
               [] OTHER -> "none"
      BY <1>3 DEF Verdict
    <2>2. CASE lic.status = "active" /\ lic.expires < now
      BY <1>0, <2>1, <2>2
    <2>3. CASE lic.status = "grace_period" /\ lic.graceEnds <= now /\ ~lic.lockedAt
      BY <1>0, <2>1, <2>3 DEF RowHasCause, Cause
    <2>4. CASE /\ ~(lic.status = "active" /\ lic.expires < now)
               /\ ~(lic.status = "grace_period" /\ lic.graceEnds <= now /\ ~lic.lockedAt)
      BY <2>1, <2>4
    <2> QED
      BY <2>2, <2>3, <2>4
  <1> QED
    BY <1>1, <1>2, <1>3

LEMMA ReadKeeps ==
    ASSUME LicIInv, NEW w \in Lookers, Read(w) PROVE LicIInv' /\ UndoneInARace
  <1>0. /\ RowHasCause /\ ClockIsSound /\ now \in Nat /\ peak \in Nat /\ lic.mark \in Nat
        /\ Tolerance \in Nat /\ lic.hashedMark \in Nat /\ check \in [Lookers -> CheckType]
        /\ Cause' = Cause /\ UNCHANGED <<now, machine, lic, turns, peak, causes, overrun>>
    BY LicTypes DEF Read, Cause
  <1>1. CASE RolledBack(lic, now)
    <2>1. check' = [check EXCEPT ![w] = Planned("write", "rolled")]
      BY <1>1 DEF Read
    <2>2. PICK c \in CheckType : /\ c = Planned("write", "rolled") /\ c.pc = "write"
                                 /\ c.what = "rolled" /\ c.row = "same" /\ c.at <= LastTick + turns
      BY PlannedIsSound
    <2>3. ~overrun => "setBack" \in causes
      BY <1>0, <1>1 DEF RolledBack, RowHasCause, ClockIsSound
    <2>4. PlanHasCause(w)'
      BY <1>0, <2>1, <2>2, <2>3 DEF PlanHasCause
    <2> QED
      BY <1>0, <2>1, <2>2, <2>4, PlanStep
  <1>2. CASE ~RolledBack(lic, now) /\ Advances(lic, now)
    <2>1. PICK what \in {"none", "lock", "grace"} :
             /\ what = Verdict(lic, now) /\ (~overrun /\ what = "lock" => Cause)
             /\ what = "grace" => lic.status # "locked" /\ lic.expires < peak
      BY VerdictHasCause
    <2>2. check' = [check EXCEPT ![w] = Planned("mark", what)]
      BY <1>2, <2>1 DEF Read
    <2>3. PICK c \in CheckType : /\ c = Planned("mark", what) /\ c.pc = "mark" /\ c.what = what
                                 /\ c.row = "same" /\ c.at = now /\ c.at <= LastTick + turns
      BY PlannedIsSound
    <2>4. /\ now <= peak /\ (lic.mark = Never \/ lic.mark < now)
          /\ ~overrun /\ lic.hashedMark # Never => lic.hashedMark < now
      BY <1>0, <1>2 DEF Advances, RowHasCause, ClockIsSound, Never
    <2>5. PlanHasCause(w)'
      BY <1>0, <2>1, <2>2, <2>3, <2>4 DEF PlanHasCause
    <2> QED
      BY <1>0, <2>2, <2>3, <2>5, PlanStep
  <1>3. CASE /\ ~RolledBack(lic, now) /\ ~Advances(lic, now)
             /\ Verdict(lic, now) # "none"
    <2>1. PICK what \in {"lock", "grace"} :
             /\ what = Verdict(lic, now) /\ (~overrun /\ what = "lock" => Cause)
             /\ what = "grace" => lic.status # "locked" /\ lic.expires < peak
      BY <1>3, VerdictHasCause
    <2>2. check' = [check EXCEPT ![w] = Planned("write", what)]
      BY <1>3, <2>1 DEF Read
    <2>3. PICK c \in CheckType : /\ c = Planned("write", what) /\ c.pc = "write" /\ c.what = what
                                 /\ c.row = "same" /\ c.at <= LastTick + turns
      BY PlannedIsSound
    <2>4. PlanHasCause(w)'
      BY <1>0, <2>1, <2>2, <2>3 DEF PlanHasCause
    <2> QED
      BY <1>0, <2>2, <2>3, <2>4, PlanStep
  <1>4. CASE /\ ~RolledBack(lic, now) /\ ~Advances(lic, now)
             /\ Verdict(lic, now) = "none"
    <2>1. check' = [check EXCEPT ![w] = Resting]
      BY <1>4 DEF Read
    <2>2. PlanHasCause(w)' /\ Resting.at <= LastTick + turns
      BY <1>0, <2>1, RestingIsSound, IdleHasCause, LicTypes DEF Never
    <2> QED
      BY <1>0, <2>1, <2>2, RestingIsSound, PlanStep
  <1> QED
    BY <1>1, <1>2, <1>3, <1>4

LEMMA FindExpiredKeeps ==
    ASSUME LicIInv, NEW p \in Passes, FindExpired(p) PROVE LicIInv' /\ UndoneInARace
  <1>0. /\ p \in Lookers /\ ClockIsSound /\ now \in Nat /\ peak \in Nat /\ lic.expires \in Nat
        /\ check \in [Lookers -> CheckType]
        /\ UNCHANGED <<now, machine, lic, turns, peak, causes, overrun>>
    BY LicTypes DEF FindExpired, Lookers
  <1>1. CASE lic.status = "active" /\ lic.expires < now
    <2>1. check' = [check EXCEPT ![p] = Planned("first", "grace")]
      BY <1>1 DEF FindExpired
    <2>2. PICK c \in CheckType : /\ c = Planned("first", "grace") /\ c.pc = "first"
                                 /\ c.what = "grace" /\ c.row = "same" /\ c.at <= LastTick + turns
      BY PlannedIsSound
    <2>3. PlanHasCause(p)'
      BY <1>0, <1>1, <2>1, <2>2 DEF PlanHasCause, ClockIsSound
    <2> QED
      BY <1>0, <2>1, <2>2, <2>3, PlanStep
  <1>2. CASE ~(lic.status = "active" /\ lic.expires < now)
    <2>1. check' = [check EXCEPT ![p] = Planned("second", "none")]
      BY <1>2 DEF FindExpired
    <2>2. PICK c \in CheckType : /\ c = Planned("second", "none") /\ c.pc = "second"
                                 /\ c.what = "none" /\ c.at <= LastTick + turns
      BY PlannedIsSound
    <2>3. PlanHasCause(p)'
      BY <1>0, <2>1, <2>2, IdleHasCause
    <2> QED
      BY <1>0, <2>1, <2>2, <2>3, PlanStep
  <1> QED
    BY <1>1, <1>2

LEMMA FindGraceOverKeeps ==
    ASSUME LicIInv, NEW p \in Passes, FindGraceOver(p) PROVE LicIInv' /\ UndoneInARace
  <1>0. /\ p \in Lookers /\ RowHasCause /\ check \in [Lookers -> CheckType] /\ Cause' = Cause
        /\ UNCHANGED <<now, machine, lic, turns, peak, causes, overrun>>
    BY LicTypes DEF FindGraceOver, Lookers, Cause
  <1>1. CASE lic.status = "grace_period" /\ lic.graceEnds < check[p].at /\ ~lic.lockedAt
    <2>1. check' = [check EXCEPT ![p] = Planned("write", "lock")]
      BY <1>1 DEF FindGraceOver
    <2>2. PICK c \in CheckType : /\ c = Planned("write", "lock") /\ c.pc = "write"
                                 /\ c.what = "lock" /\ c.row = "same" /\ c.at <= LastTick + turns
      BY PlannedIsSound
    <2>3. ~overrun => Cause
      BY <1>0, <1>1 DEF RowHasCause, Cause
    <2>4. PlanHasCause(p)'
      BY <1>0, <2>1, <2>2, <2>3 DEF PlanHasCause
    <2> QED
      BY <1>0, <2>1, <2>2, <2>4, PlanStep
  <1>2. CASE ~(lic.status = "grace_period" /\ lic.graceEnds < check[p].at /\ ~lic.lockedAt)
    <2>1. check' = [check EXCEPT ![p] = Resting]
      BY <1>2 DEF FindGraceOver
    <2>2. PlanHasCause(p)' /\ Resting.at <= LastTick + turns
      BY <1>0, <2>1, RestingIsSound, IdleHasCause, LicTypes DEF Never
    <2> QED
      BY <1>0, <2>1, <2>2, RestingIsSound, PlanStep
  <1> QED
    BY <1>1, <1>2

LEMMA AdvanceMarkKeeps ==
    ASSUME LicIInv, NEW w \in Lookers, AdvanceMark(w) PROVE LicIInv' /\ UndoneInARace
  <1>0. /\ check \in [Lookers -> CheckType] /\ check[w] \in CheckType /\ check[w].pc = "mark"
        /\ lic \in LicenceRows /\ lic.mark \in Nat /\ lic.hashedMark \in Nat /\ peak \in Nat
        /\ check[w].at \in Nat /\ check[w].at <= LastTick + turns /\ turns \in Nat
        /\ LastTick \in Nat /\ RowHasCause /\ PlanHasCause(w) /\ overrun \in BOOLEAN
    BY LicTypes DEF AdvanceMark
  <1>1. PICK at : at = check[w].at
    OBVIOUS
  <1>2. PICK row : row = [lic EXCEPT !.mark = at]
    OBVIOUS
  <1>3. /\ row \in LicenceRows /\ row.mark = at /\ row.status = lic.status /\ row.flag = lic.flag
        /\ row.expires = lic.expires /\ row.hashedMark = lic.hashedMark
        /\ row.machine = lic.machine
    BY <1>0, <1>1, <1>2 DEF LicenceRows, CheckType
  <1>4. PICK then : then = IF check[w].what = "none" THEN Resting
                           ELSE [check[w] EXCEPT !.pc = "write", !.at = Never]
    OBVIOUS
  <1>5. /\ then \in CheckType /\ then.at = Never
        /\ \/ then.pc = "idle" /\ then.what = "none"
           \/ /\ then.pc = "write" /\ then.what = check[w].what /\ then.row = check[w].row
              /\ check[w].what # "none"
    <2>1. PICK c : c = [check[w] EXCEPT !.pc = "write", !.at = Never]
      OBVIOUS
    <2>2. /\ c \in CheckType /\ c.at = Never /\ c.pc = "write" /\ c.what = check[w].what
          /\ c.row = check[w].row
      BY <1>0, <2>1, RestingIsSound DEF CheckType
    <2> QED
      BY <1>4, <2>1, <2>2, RestingIsSound
  <1>6. Put(w, row, then) /\ lic' = row
    BY <1>1, <1>2, <1>4 DEF AdvanceMark, Put
  <1>7. check'[w] = then
    BY <1>6, OutdatedPlans DEF Put
  <1>8. /\ UNCHANGED <<now, machine, turns, peak, causes>>
        /\ (overrun' <=> overrun \/ check[w].row = "replaced")
    BY <1>6 DEF Put
  <1>9. ~overrun /\ check[w].row # "replaced" => 
              /\ at <= peak /\ (lic.hashedMark # Never => lic.hashedMark < at)
    BY <1>0, <1>1 DEF PlanHasCause
  <1>10. ~overrun /\ check[w].row # "replaced" => (Cause => Cause')
    BY <1>0, <1>3, <1>6, <1>8, <1>9 DEF Cause
  <1>11. PlanHasCause(w)'
    <2>1. CASE then.pc = "idle" /\ then.what = "none"
      BY <1>7, <2>1, IdleHasCause
    <2>2. CASE /\ then.pc = "write" /\ then.what = check[w].what /\ then.row = check[w].row
               /\ check[w].what # "none"
      BY <1>0, <1>3, <1>6, <1>7, <1>8, <1>10, <2>2 DEF PlanHasCause
    <2> QED
      BY <1>5, <2>1, <2>2
  <1>12. LicIInv'
    <2>1. ~overrun /\ check[w].row # "replaced" =>
              /\ row.mark <= peak /\ (lic.hashedMark # Never => lic.hashedMark <= row.mark)
              /\ lic.hashedMark # Never /\ lic.mark # lic.hashedMark => row.mark # lic.hashedMark
              /\ row.status = "grace_period" => lic.expires < peak
              /\ row.status = "locked" => Cause'
      BY <1>0, <1>1, <1>3, <1>9, <1>10 DEF RowHasCause
    <2>2. then.at <= LastTick + turns /\ row.mark <= LastTick + turns
      BY <1>0, <1>1, <1>3, <1>5 DEF Never
    <2> QED
      BY <1>3, <1>5, <1>6, <1>11, <2>1, <2>2, PutKeeps
  <1>13. UndoneInARace
    <2>1. check[w].row = "same" => at >= lic.mark
      BY <1>0, <1>1 DEF PlanHasCause, Never
    <2>2. check'[w] # check[w]
      BY <1>0, <1>5, <1>7
    <2>3. check[w].row # "same" => UndoneInARace
      BY <2>2 DEF UndoneInARace
    <2>4. check[w].row = "same" => UndoneInARace
      BY <1>0, <1>1, <1>3, <1>6, <2>1 DEF UndoneInARace
    <2> QED
      BY <2>3, <2>4
  <1> QED
    BY <1>12, <1>13

(* A write of a status that was planned. *)
LEMMA StatusWriteKeeps ==
    ASSUME LicIInv, NEW w \in Lookers, NEW row \in LicenceRows, NEW then \in CheckType,
           NEW what \in {"lock", "grace", "rolled"}, check[w].what = what,
           check[w].pc \in {"write", "first"}, Put(w, row, then),
           then.pc \in {"idle", "second"}, then.what = "none", then.at <= LastTick + turns,
           row.mark = lic.mark, row.hashedMark = lic.hashedMark, row.machine = lic.machine,
           row.expires = lic.expires,
           row.flag = IF what = "rolled" THEN TRUE ELSE lic.flag,
           row.status = IF what = "grace" THEN "grace_period" ELSE "locked"
    PROVE  LicIInv' /\ UndoneInARace
  <1>0. /\ check \in [Lookers -> CheckType] /\ lic \in LicenceRows
        /\ RowHasCause /\ PlanHasCause(w) /\ DatesWereSeen /\ overrun \in BOOLEAN
        /\ lic.mark \in Nat
    BY LicTypes
  <1>1. check'[w] = then
    BY OutdatedPlans DEF Put
  <1>2. /\ lic' = row /\ UNCHANGED <<now, machine, turns, peak, causes>>
    BY DEF Put
  <1>3. PlanHasCause(w)'
    BY <1>1, IdleHasCause
  <1>4. ~overrun /\ check[w].row # "replaced" =>
              /\ row.mark <= peak /\ (lic.hashedMark # Never => lic.hashedMark <= row.mark)
              /\ lic.hashedMark # Never /\ lic.mark # lic.hashedMark => row.mark # lic.hashedMark
              /\ row.status = "grace_period" => lic.expires < peak
              /\ row.status = "locked" => Cause'
    BY <1>0, <1>2 DEF RowHasCause, PlanHasCause, Cause
  <1>5. row.mark <= LastTick + turns /\ (lic.flag => row.flag)
    BY <1>0 DEF DatesWereSeen
  <1>6. LicIInv'
    BY <1>3, <1>4, <1>5, PutKeeps
  <1>7. UndoneInARace
    <2>1. check[w].row = "same" /\ what = "grace" => lic.status # "locked"
      BY <1>0 DEF PlanHasCause
    <2>2. check'[w] # check[w]
      BY <1>1
    <2>3. check[w].row # "same" => UndoneInARace
      BY <2>2 DEF UndoneInARace
    <2>4. check[w].row = "same" => UndoneInARace
      BY <1>0, <1>2, <2>1 DEF UndoneInARace
    <2> QED
      BY <2>3, <2>4
  <1> QED
    BY <1>6, <1>7

LEMMA WriteStatusKeeps ==
    ASSUME LicIInv, NEW w \in Lookers, WriteStatus(w) PROVE LicIInv' /\ UndoneInARace
  <1>0. /\ check[w] \in CheckType /\ check[w].pc = "write" /\ PlanHasCause(w)
        /\ lic \in LicenceRows /\ 0 <= LastTick + turns
    BY LicTypes DEF WriteStatus
  <1>1. PICK what \in {"lock", "grace", "rolled"} : check[w].what = what
    BY <1>0 DEF PlanHasCause, CheckType
  <1>2. PICK grace \in Dates : grace = check[w].grace
    BY <1>0 DEF CheckType
  <1>3. Put(w, Applied(lic, what, grace), Resting)
    BY <1>1, <1>2 DEF WriteStatus
  <1>4. PICK row : row = Applied(lic, what, grace)
    OBVIOUS
  <1>5. PICK locked : locked = [lic EXCEPT !.status = "locked", !.lockedAt = TRUE]
    OBVIOUS
  <1>6. /\ locked \in LicenceRows /\ locked.mark = lic.mark /\ locked.hashedMark = lic.hashedMark
        /\ locked.machine = lic.machine /\ locked.expires = lic.expires
        /\ locked.flag = lic.flag /\ locked.status = "locked"
    BY <1>0, <1>5 DEF LicenceRows, Statuses
  <1>7. /\ row \in LicenceRows /\ row.mark = lic.mark /\ row.hashedMark = lic.hashedMark
        /\ row.machine = lic.machine /\ row.expires = lic.expires
        /\ row.flag = IF what = "rolled" THEN TRUE ELSE lic.flag
        /\ row.status = IF what = "grace" THEN "grace_period" ELSE "locked"
    <2>1. CASE what = "lock"
      <3>1. row = locked
        BY <1>4, <1>5, <2>1 DEF Applied, IsLocked
      <3> QED
        BY <1>6, <2>1, <3>1
    <2>2. CASE what = "grace"
      <3>1. row = [lic EXCEPT !.status = "grace_period", !.graceEnds = grace]
        BY <1>4, <2>2 DEF Applied, InGrace
      <3> QED
        BY <1>0, <2>2, <3>1 DEF LicenceRows, Statuses
    <2>3. CASE what = "rolled"
      <3>1. row = [locked EXCEPT !.flag = TRUE]
        BY <1>4, <1>5, <2>3 DEF Applied, RolledRow, IsLocked
      <3> QED
        BY <1>6, <2>3, <3>1 DEF LicenceRows
    <2> QED
      BY <2>1, <2>2, <2>3
  <1>8. /\ Resting \in CheckType /\ Resting.pc = "idle" /\ Resting.what = "none"
        /\ Resting.at <= LastTick + turns
    BY <1>0, RestingIsSound DEF Never
  <1>9. Put(w, row, Resting)
    BY <1>3, <1>4
  <1> QED
    BY <1>0, <1>1, <1>7, <1>8, <1>9, StatusWriteKeeps

LEMMA FirstPassWritesKeeps ==
    ASSUME LicIInv, NEW p \in Passes, FirstPassWrites(p) PROVE LicIInv' /\ UndoneInARace
  <1>0. /\ p \in Lookers /\ check[p] \in CheckType /\ check[p].pc = "first" /\ PlanHasCause(p)
        /\ lic \in LicenceRows /\ check[p].at <= LastTick + turns
    BY LicTypes DEF FirstPassWrites, Lookers
  <1>1. check[p].what = "grace"
    BY <1>0 DEF PlanHasCause
  <1>2. PICK grace \in Dates : grace = check[p].grace
    BY <1>0 DEF CheckType
  <1>3. PICK row : row = [lic EXCEPT !.status = "grace_period", !.graceEnds = grace]
    OBVIOUS
  <1>4. /\ row \in LicenceRows /\ row.mark = lic.mark /\ row.hashedMark = lic.hashedMark
        /\ row.machine = lic.machine /\ row.expires = lic.expires
        /\ row.flag = lic.flag /\ row.status = "grace_period"
    BY <1>0, <1>3 DEF LicenceRows, Statuses
  <1>5. PICK at : at = check[p].at
    OBVIOUS
  <1>6. PICK then : then = [Resting EXCEPT !.pc = "second", !.at = at]
    OBVIOUS
  <1>7. then \in CheckType /\ then.pc = "second" /\ then.what = "none" /\ then.at = at
    BY <1>0, <1>5, <1>6, RestingIsSound DEF CheckType
  <1>8. Put(p, row, then)
    BY <1>2, <1>3, <1>5, <1>6 DEF FirstPassWrites, InGrace
  <1> QED
    BY <1>0, <1>1, <1>4, <1>5, <1>7, <1>8, StatusWriteKeeps

LEMMA InstallKeeps ==
    ASSUME LicIInv, Install PROVE LicIInv' /\ UndoneInARace
  <1>0. /\ now \in Nat /\ turns \in Nat /\ MaxTurns \in Nat /\ LastTick \in Nat \ {0}
        /\ Term \in Nat /\ GraceDays \in Nat /\ Tolerance \in Nat
        /\ now \in 1 .. LastTick + turns /\ machine \in Machines
        /\ turns < MaxTurns /\ turns' = turns + 1
    BY LicTypes DEF Install, ClockIsSound
  <1>1. PICK mark \in {now, now + 1} : lic' = Installed(mark, now) /\ now' = mark
    BY DEF Install
  <1>2. PICK expires \in Nat : expires = now + Term
    BY <1>0
  <1>3. lic' = [status |-> "active", expires |-> expires, graceEnds |-> Never,
                lockedAt |-> FALSE, flag |-> FALSE, mark |-> mark, hashedMark |-> now,
                machine |-> machine]
    BY <1>1, <1>2 DEF Installed
  <1>4. /\ mark \in 1 .. LastTick + turns' /\ now <= mark /\ expires <= LastTick + turns' + Term
        /\ turns' <= MaxTurns /\ turns' \in Nat
    BY <1>0, <1>1, <1>2
  <1>5. mark \in Dates /\ now \in Dates /\ expires \in Dates /\ Never \in Dates
    BY <1>0, <1>2, <1>4 DEF Dates, Never
  <1>6. lic' \in LicenceRows
    BY <1>0, <1>3, <1>5 DEF LicenceRows, Statuses
  <1>7. /\ peak' = mark /\ causes' = {} /\ overrun' = FALSE /\ machine' = machine
        /\ check' = Outdated("replaced")
    BY <1>1 DEF Install
  <1>8. check' \in [Lookers -> CheckType]
    <2>1. CASE Lookers = {}
      BY <1>7, <2>1 DEF Outdated
    <2>2. CASE Lookers # {}
      BY <1>7, <2>2, OutdatedPlans
    <2> QED
      BY <2>1, <2>2
  <1>9. LicTypeOK'
    <2>1. now' \in Dates /\ peak' \in Dates /\ turns' \in 0 .. MaxTurns
      BY <1>0, <1>1, <1>4, <1>5, <1>7
    <2> QED
      BY <1>0, <1>6, <1>7, <1>8, <2>1 DEF LicTypeOK, CheckType
  <1>10. ClockIsSound'
    BY <1>0, <1>1, <1>4, <1>7 DEF ClockIsSound
  <1>11. DatesWereSeen'
    <2>1. \A w \in Lookers : check'[w].at <= LastTick + turns'
      BY <1>0, <1>7, LicTypes, OutdatedPlans
    <2> QED
      BY <1>0, <1>3, <1>4, <2>1 DEF DatesWereSeen
  <1>12. RowHasCause'
    BY <1>0, <1>1, <1>3, <1>4, <1>7 DEF RowHasCause, AtHome
  <1>13. ASSUME NEW w \in Lookers PROVE PlanHasCause(w)'
    <2>1. /\ check'[w].pc = check[w].pc /\ check'[w].what = check[w].what
          /\ check[w].pc \in {"mark", "write", "first"} => check'[w].row = "replaced"
      BY <1>7, OutdatedPlans
    <2>2. PlanHasCause(w) /\ check[w].pc \in {"idle", "mark", "write", "first", "second"}
      BY LicTypes DEF CheckType
    <2> QED
      BY <2>1, <2>2 DEF PlanHasCause
  <1> QED
    BY <1>0, <1>9, <1>10, <1>11, <1>12, <1>13 DEF LicIInv, UndoneInARace

(* The clock moves, or the server does. *)
LEMMA TurnKeeps ==
    ASSUME LicIInv, NEW t \in {turns, turns + 1}, turns' = t, t <= MaxTurns,
           now' \in Nat \ {0}, peak' \in Nat, now' <= peak', peak' <= LastTick + t, peak <= peak',
           machine' \in Machines, causes \subseteq causes', causes' \subseteq {"setBack", "moved"},
           now' + Tolerance < peak' => "setBack" \in causes',
           lic.machine \notin {"any", machine'} => "moved" \in causes',
           UNCHANGED <<lic, overrun>>,
           \A w \in Lookers : check'[w] \in {check[w], Resting}, check' \in [Lookers -> CheckType]
    PROVE  LicIInv' /\ UndoneInARace
  <1>0. /\ turns \in Nat /\ MaxTurns \in Nat /\ LastTick \in Nat \ {0} /\ now \in Nat /\ peak \in Nat
        /\ Term \in Nat /\ GraceDays \in Nat /\ Tolerance \in Nat
        /\ lic \in LicenceRows /\ lic.mark \in Nat /\ lic.hashedMark \in Nat /\ lic.expires \in Nat
        /\ RowHasCause /\ DatesWereSeen /\ t \in Nat /\ turns <= t
        /\ now' \in Nat /\ peak' \in Nat /\ overrun \in BOOLEAN
    BY LicTypes
  <1>1. LicTypeOK'
    <2>1. turns' \in 0 .. MaxTurns
      BY <1>0
    <2>2. now' <= LastTick + t /\ peak' <= LastTick + t
      BY <1>0
    <2>3. now' \in Dates /\ peak' \in Dates
      BY <1>0, <2>1, <2>2, DatesBound
    <2> QED
      BY <1>0, <2>1, <2>3 DEF LicTypeOK, CheckType
  <1>2. ClockIsSound'
    <2>1. now' \in 1 .. LastTick + t /\ peak' \in now' .. LastTick + t
      BY <1>0
    <2> QED
      BY <2>1 DEF ClockIsSound
  <1>3. DatesWereSeen'
    <2>1. \A w \in Lookers : check'[w].at <= LastTick + t
      BY <1>0, LicTypes, RestingIsSound DEF Never
    <2>2. /\ lic.mark <= LastTick + t /\ lic.hashedMark <= LastTick + t
          /\ lic.expires <= LastTick + t + Term
      BY <1>0 DEF DatesWereSeen
    <2> QED
      BY <2>1, <2>2 DEF DatesWereSeen
  <1>4. Cause => Cause'
    BY <1>0 DEF Cause
  <1>5. RowHasCause'
    BY <1>0, <1>4 DEF RowHasCause, AtHome
  <1>6. ASSUME NEW w \in Lookers PROVE PlanHasCause(w)'
    <2>1. CASE check'[w] = Resting
      BY <2>1, RestingIsSound, IdleHasCause
    <2>2. CASE check'[w] = check[w]
      BY <1>0, <1>4, <2>2, LicTypes DEF PlanHasCause
    <2> QED
      BY <2>1, <2>2
  <1> QED
    BY <1>0, <1>1, <1>2, <1>3, <1>5, <1>6 DEF LicIInv, UndoneInARace

LEMMA MovesOfTimeKeep ==
    ASSUME LicIInv, Tick \/ SetClock \/ Relocate PROVE LicIInv' /\ UndoneInARace
  <1>0. /\ turns \in Nat /\ turns <= MaxTurns /\ MaxTurns \in Nat /\ LastTick \in Nat \ {0}
        /\ now \in Nat /\ peak \in Nat /\ ClockIsSound /\ RowHasCause /\ Tolerance \in Nat
        /\ machine \in Machines /\ causes \subseteq {"setBack", "moved"}
        /\ check \in [Lookers -> CheckType] /\ Resting \in CheckType
    BY LicTypes, RestingIsSound
  <1>1. CASE Tick
    <2>1. /\ now' \in Nat \ {0} /\ peak' \in Nat /\ now' <= peak' /\ peak' <= LastTick + turns
          /\ peak <= peak'
      BY <1>0, <1>1 DEF Tick, ClockIsSound
    <2>2. now' + Tolerance < peak' => "setBack" \in causes'
      BY <1>0, <1>1 DEF Tick, ClockIsSound
    <2>3. lic.machine \notin {"any", machine'} => "moved" \in causes'
      BY <1>0, <1>1 DEF Tick, AtHome, RowHasCause
    <2> QED
      BY <1>0, <1>1, <2>1, <2>2, <2>3, TurnKeeps DEF Tick
  <1>2. CASE SetClock
    <2>1. /\ now' \in Nat \ {0} /\ peak' = peak /\ now' <= peak' /\ peak' <= LastTick + (turns + 1)
          /\ turns' = turns + 1 /\ turns + 1 <= MaxTurns
      BY <1>0, <1>2 DEF SetClock, ClockIsSound
    <2>2. causes \subseteq causes' /\ causes' \subseteq {"setBack", "moved"}
      BY <1>0, <1>2 DEF SetClock
    <2>3. now' + Tolerance < peak' => "setBack" \in causes'
      BY <1>0, <1>2 DEF SetClock
    <2>4. lic.machine \notin {"any", machine'} => "moved" \in causes'
      BY <1>0, <1>2, <2>2 DEF SetClock, AtHome, RowHasCause
    <2>5. /\ machine' \in Machines /\ peak <= peak' /\ UNCHANGED <<lic, overrun>>
          /\ \A w \in Lookers : check'[w] \in {check[w], Resting}
          /\ check' \in [Lookers -> CheckType]
      BY <1>0, <1>2, <2>1 DEF SetClock
    <2> QED
      BY <1>0, <2>1, <2>2, <2>3, <2>4, <2>5, TurnKeeps
  <1>3. CASE Relocate
    <2>1. /\ now' = now /\ peak' = peak /\ turns' = turns + 1 /\ turns + 1 <= MaxTurns
          /\ now' \in Nat \ {0} /\ now' <= peak' /\ peak' <= LastTick + (turns + 1)
      BY <1>0, <1>3 DEF Relocate, ClockIsSound
    <2>2. /\ causes \subseteq causes' /\ causes' \subseteq {"setBack", "moved"}
          /\ "moved" \in causes' /\ machine' \in Machines
      BY <1>0, <1>3 DEF Relocate
    <2>3. now' + Tolerance < peak' => "setBack" \in causes'
      BY <1>0, <2>1, <2>2 DEF ClockIsSound
    <2>4. check' \in [Lookers -> CheckType] /\ \A w \in Lookers : check'[w] = Resting
      BY <1>0, <1>3 DEF Relocate
    <2>5. lic.machine \notin {"any", machine'} => "moved" \in causes'
      BY <2>2
    <2>6. peak <= peak' /\ peak' \in Nat /\ UNCHANGED <<lic, overrun>>
      BY <1>0, <1>3, <2>1 DEF Relocate
    <2> QED
      BY <1>0, <2>1, <2>2, <2>3, <2>4, <2>5, <2>6, TurnKeeps
  <1> QED
    BY <1>1, <1>2, <1>3

LEMMA LicenceBegins == LicInit => LicIInv
  <1> SUFFICES ASSUME LicInit PROVE LicIInv
    OBVIOUS
  <1>0. /\ now = 1 /\ peak = 1 /\ turns = 0 /\ causes = {} /\ overrun = FALSE /\ machine \in Machines
        /\ Tolerance \in Nat /\ GraceDays \in Nat /\ Term \in Nat /\ MaxTurns \in Nat
        /\ LastTick \in Nat \ {0}
    BY TimesAssumption DEF LicInit
  <1>1. \A w \in Lookers : check[w] = Resting
    BY DEF LicInit
  <1>2. check \in [Lookers -> CheckType]
    BY RestingIsSound DEF LicInit
  <1>3. PICK expires \in Nat : expires = now + Term
    BY <1>0
  <1>4. 1 \in Dates /\ expires \in Dates /\ 0 \in Dates
    BY <1>0, <1>3 DEF Dates
  <1>5. PICK mark \in {0, 1} : \E status \in {"none", "active"}, home \in {"any", machine},
                                  e \in {expires, 0} :
           lic = [status |-> status, expires |-> e, graceEnds |-> 0, lockedAt |-> FALSE,
                  flag |-> FALSE, mark |-> mark, hashedMark |-> mark, machine |-> home]
    BY <1>0, <1>3 DEF LicInit, NoLicence, Legacy, Installed, Never
  <1>6. PICK status \in {"none", "active"}, home \in {"any", machine}, e \in {expires, 0} :
           lic = [status |-> status, expires |-> e, graceEnds |-> 0, lockedAt |-> FALSE,
                  flag |-> FALSE, mark |-> mark, hashedMark |-> mark, machine |-> home]
    BY <1>5
  <1>7. mark \in Dates /\ e \in Dates
    BY <1>4
  <1>8. /\ lic \in LicenceRows /\ lic.mark = mark /\ lic.hashedMark = mark /\ lic.status = status
        /\ lic.machine = home /\ lic.expires = e
    BY <1>0, <1>4, <1>6, <1>7 DEF LicenceRows, Statuses
  <1>9. LicTypeOK
    <2>a. now \in Dates /\ peak \in Dates 
      BY <1>0, <1>4
    <2>b. turns \in 0 .. MaxTurns
      BY <1>0
    <2>c. overrun \in BOOLEAN
      BY <1>0
    <2>1. now \in Dates /\ peak \in Dates /\ turns \in 0 .. MaxTurns /\ overrun \in BOOLEAN
      BY <2>a, <2>b, <2>c
    <2> QED
      BY <1>0, <1>2, <1>8, <2>1, LicTypesSuffice
  <1>10. ClockIsSound /\ DatesWereSeen
    BY <1>0, <1>1, <1>3, <1>8, RestingIsSound DEF ClockIsSound, DatesWereSeen, Never
  <1>11. RowHasCause
    BY <1>0, <1>8 DEF RowHasCause, AtHome
  <1>12. \A w \in Lookers : PlanHasCause(w)
    <2>1. Resting.pc = "idle" /\ Resting.what = "none"
      BY RestingIsSound
    <2> QED
      BY <1>1, <2>1 DEF PlanHasCause
  <1> QED
    BY <1>9, <1>10, <1>11, <1>12 DEF LicIInv

LEMMA LicenceStepsKeep ==
    ASSUME LicIInv, [LicNext]_licVars PROVE LicIInv' /\ [UndoneInARace]_licVars
  <1>1. CASE UNCHANGED licVars
    <2>1. UNCHANGED <<now, machine, lic, check, turns, peak, causes, overrun>>
      BY <1>1 DEF licVars
    <2> QED
      BY <1>1, <2>1 DEF LicIInv, LicTypeOK, ClockIsSound, DatesWereSeen, RowHasCause, AtHome,
         Cause, PlanHasCause
  <1>2. ASSUME NEW c \in Checks, Read(c) \/ AdvanceMark(c) PROVE LicIInv' /\ UndoneInARace
    BY <1>2, ReadKeeps, AdvanceMarkKeeps DEF Lookers
  <1> QED
    BY <1>1, <1>2, WriteStatusKeeps, FindExpiredKeeps, FirstPassWritesKeeps, FindGraceOverKeeps,
       InstallKeeps, MovesOfTimeKeep DEF LicNext

LEMMA LicenceHasCause == LicIInv => LicInv
  BY DEF LicIInv, LicInv, LockHasCause, RowHasCause, Cause

(* No licence is locked without a cause, and what lowers the mark or lifts *)
(* a lock was an installation or a write overtaken by another.             *)
THEOREM LicenceHolds == LicSpec => LicenceIsSound
  <1>1. LicIInv /\ [LicNext]_licVars => LicIInv' /\ [UndoneInARace]_licVars
    BY LicenceStepsKeep
  <1>2. [UndoneInARace]_licVars =>
           [ (lic'.mark < lic.mark \/ (lic.status = "locked" /\ lic'.status # "locked"))
              => \/ turns' # turns
                 \/ \E w \in Lookers : check[w].row # "same" /\ check'[w] # check[w] ]_licVars
    BY DEF UndoneInARace
  <1> QED
    BY <1>1, <1>2, LicenceBegins, LicenceHasCause, PTL DEF LicSpec, LicenceIsSound, OnlyRacesUndo

-----------------------------------------------------------------------------
(*************************************************************************)
(* LimiterInv of RateLimiter, for any instances, limit and window: what was *)
(* let through lately is marked where it was counted, so that there are no *)
(* more of them than marks.                                              *)
(*************************************************************************)

LimiterPlaces == Instances \cup {"redis"}

Mark(a) == [id |-> a.id, at |-> a.at]

Store(where) == IF where = "redis" THEN window ELSE local[where]

Admitted == [id : Nat, at : Nat, where : LimiterPlaces]

(* Checks are numbered, and no number was used before its check. *)
ChecksAreNumbered ==
    /\ admitted \subseteq Admitted
    /\ \A a \in admitted : a.id <= checks /\ a.at <= tick
    /\ \A a, b \in admitted : a.id = b.id => a = b
    /\ \A e \in removing : e.id <= checks /\ \A a \in admitted : a.id # e.id

(* What was let through lately stands where it is counted. *)
RecentAreCounted ==
    \A a \in admitted : a.at > tick - Window => Mark(a) \in Store(a.where)

StoresAreFinite ==
    /\ IsFiniteSet(window)
    /\ DOMAIN local = Instances /\ \A i \in Instances : IsFiniteSet(local[i])

LimIInv ==
    /\ LimiterTypeOK /\ ChecksAreNumbered /\ RecentAreCounted /\ StoresAreFinite
    /\ LimitHolds /\ WindowIsHonest

LEMMA LimiterTypes ==
    ASSUME LimiterTypeOK
    PROVE  /\ Limit \in Nat \ {0} /\ Window \in Nat \ {0} /\ LastTickRL \in Nat
           /\ MaxChecks \in Nat /\ "redis" \notin Instances
           /\ tick \in Nat /\ tick <= LastTickRL /\ checks \in Nat /\ checks <= MaxChecks
           /\ redisUp \in BOOLEAN /\ preferRedis \in [Instances -> BOOLEAN]
           /\ \A e \in window \cup removing : e.id \in Nat /\ e.at \in Nat
  BY LimiterBounds DEF LimiterTypeOK

LEMMA LimiterParts ==
    ASSUME LimIInv
    PROVE  /\ LimiterTypeOK /\ ChecksAreNumbered /\ RecentAreCounted /\ StoresAreFinite
           /\ LimitHolds /\ WindowIsHonest
  BY DEF LimIInv

(* No more were let through than there are marks of them. *)
LEMMA MarksCount ==
    ASSUME NEW S, NEW T, IsFiniteSet(T), \A a \in S : Mark(a) \in T,
           \A a, b \in S : a.id = b.id => a = b
    PROVE  /\ Cardinality(S) \in Nat /\ Cardinality(T) \in Nat
           /\ Cardinality(S) <= Cardinality(T)
  <1>1. PICK f : f = [a \in S |-> Mark(a)]
    OBVIOUS
  <1>2. f \in [S -> T]
    BY <1>1
  <1>3. \A a, b \in S : f[a] = f[b] => a = b
    <2>1. \A a \in S : f[a].id = a.id
      BY <1>1 DEF Mark
    <2> QED
      BY <2>1
  <1>4. f \in Injection(S, T)
    BY <1>2, <1>3 DEF Injection, IsInjective
  <1> QED
    BY <1>4, FS_Injection, FS_CardinalityType

(* One more is let through, when all that count are still counted. *)
LEMMA AdmitKeepsLimit ==
    ASSUME LimIInv, NEW p \in LimiterPlaces, Admit(p), tick' = tick, checks' = checks + 1,
           NEW T, IsFiniteSet(T), Cardinality(T) <= Limit, Entry \in T,
           \A e \in Store(p) : e.at > tick - Window => e \in T
    PROVE  LimitHolds' /\ \A a \in admitted' : a.at > tick - Window /\ a.where = p => Mark(a) \in T
  <1>0. /\ LimiterTypeOK /\ ChecksAreNumbered /\ RecentAreCounted /\ LimitHolds
    BY LimiterParts
  <1>1. PICK new : /\ new = [id |-> checks + 1, at |-> tick, where |-> p]
                   /\ admitted' = admitted \cup {new}
    BY DEF Admit
  <1>2. /\ new.id = checks + 1 /\ new.at = tick /\ new.where = p /\ Mark(new) = Entry
    BY <1>1 DEF Mark, Entry
  <1>3. \A a \in admitted : /\ a.id \in Nat /\ a.at \in Nat /\ a.id <= checks /\ a.at <= tick
                            /\ a.where \in LimiterPlaces
    BY <1>0 DEF ChecksAreNumbered, Admitted
  <1>4. \A a, b \in admitted' : a.id = b.id => a = b
    <2>1. \A a \in admitted : a.id # new.id
      BY <1>0, <1>2, <1>3, LimiterTypes
    <2> QED
      BY <1>0, <1>1, <2>1 DEF ChecksAreNumbered
  <1>5. \A a \in admitted' : a.at > tick - Window /\ a.where = p => Mark(a) \in T
    <2>1. ASSUME NEW a \in admitted, a.at > tick - Window, a.where = p
          PROVE  Mark(a) \in T
      <3>1. Mark(a) \in Store(p) /\ Mark(a).at = a.at
        BY <1>0, <2>1 DEF RecentAreCounted, Mark
      <3> QED
        BY <2>1, <3>1
    <2> QED
      BY <1>1, <1>2, <2>1
  <1>6. ASSUME NEW where \in LimiterPlaces, NEW start \in 0 .. LastTickRL
        PROVE  Cardinality({a \in admitted' : a.where = where
                                              /\ a.at \in start .. start + Window - 1}) <= Limit
    <2>1. PICK N : N = {a \in admitted : a.where = where /\ a.at \in start .. start + Window - 1}
      OBVIOUS
    <2>2. PICK M : M = {a \in admitted' : a.where = where /\ a.at \in start .. start + Window - 1}
      OBVIOUS
    <2>3. Cardinality(N) <= Limit
      BY <1>0, <2>1 DEF LimitHolds, LimiterPlaces
    <2>4. CASE where = p /\ tick \in start .. start + Window - 1
      <3>1. ASSUME NEW a \in M PROVE Mark(a) \in T
        <4>1. a \in admitted' /\ a.where = p /\ a.at \in Nat /\ a.at >= start
          BY <1>1, <1>2, <1>3, <2>2, <2>4, LimiterTypes, <1>0
        <4>2. a.at > tick - Window
          BY <1>0, <2>4, <4>1, LimiterTypes
        <4> QED
          BY <1>5, <4>1, <4>2
      <3>2. \A a, b \in M : a.id = b.id => a = b
        BY <1>4, <2>2
      <3>3. /\ Cardinality(M) \in Nat /\ Cardinality(T) \in Nat
            /\ Cardinality(M) <= Cardinality(T)
        BY <3>1, <3>2, MarksCount
      <3>4. Cardinality(M) <= Limit
        BY <1>0, <3>3, LimiterTypes
      <3> QED
        BY <2>2, <3>4
    <2>5. CASE ~(where = p /\ tick \in start .. start + Window - 1)
      <3>1. new \notin M
        BY <1>2, <2>2, <2>5
      <3>2. M = N
        BY <1>1, <2>1, <2>2, <3>1
      <3> QED
        BY <2>2, <2>3, <3>2
    <2> QED
      BY <2>4, <2>5
  <1>7. LimitHolds'
    BY <1>6 DEF LimitHolds, LimiterPlaces
  <1> QED
    BY <1>5, <1>7

(* What is true of the numbers when one more is let through. *)
LEMMA AdmitKeepsNumbers ==
    ASSUME LimIInv, NEW p \in LimiterPlaces, Admit(p), tick' = tick, checks' = checks + 1,
           removing' = removing
    PROVE  ChecksAreNumbered'
  <1>0. LimiterTypeOK /\ ChecksAreNumbered
    BY LimiterParts
  <1>1. PICK new : /\ new = [id |-> checks + 1, at |-> tick, where |-> p]
                   /\ admitted' = admitted \cup {new}
    BY DEF Admit
  <1>2. new \in Admitted /\ new.id = checks + 1 /\ new.at = tick
    BY <1>0, <1>1, LimiterTypes DEF Admitted
  <1>3. admitted' \subseteq Admitted
    BY <1>0, <1>1, <1>2 DEF ChecksAreNumbered
  <1>4. \A a \in admitted' : a.id <= checks' /\ a.at <= tick'
    <2>1. \A a \in admitted : a.id \in Nat /\ a.id <= checks /\ a.at <= tick
      BY <1>0 DEF ChecksAreNumbered, Admitted
    <2>2. \A a \in admitted : a.id <= checks'
      BY <1>0, <2>1, LimiterTypes
    <2> QED
      BY <1>0, <1>1, <1>2, <2>1, <2>2, LimiterTypes
  <1>5. \A a \in admitted : a.id # new.id
    <2>1. \A a \in admitted : a.id \in Nat /\ a.id <= checks
      BY <1>0 DEF ChecksAreNumbered, Admitted
    <2> QED
      BY <1>0, <1>2, <2>1, LimiterTypes
  <1>6. \A a, b \in admitted' : a.id = b.id => a = b
    BY <1>0, <1>1, <1>5 DEF ChecksAreNumbered
  <1>7. \A e \in removing' : e.id <= checks' /\ \A a \in admitted' : a.id # e.id
    <2>1. \A e \in removing : e.id \in Nat /\ e.id <= checks /\ \A a \in admitted : a.id # e.id
      BY <1>0, LimiterTypes DEF ChecksAreNumbered
    <2>2. \A e \in removing : e.id <= checks + 1 /\ e.id # checks + 1
      BY <1>0, <2>1, LimiterTypes
    <2> QED
      BY <1>1, <1>2, <2>1, <2>2
  <1> QED
    BY <1>3, <1>4, <1>6, <1>7 DEF ChecksAreNumbered

(* Nothing is let through. *)
LEMMA NumbersStay ==
    ASSUME LimIInv, admitted' = admitted, tick' \in Nat, tick <= tick', checks' \in Nat,
           checks <= checks', removing' \subseteq removing
    PROVE  ChecksAreNumbered' /\ LimitHolds'
  <1>0. LimiterTypeOK /\ ChecksAreNumbered /\ LimitHolds
    BY LimiterParts
  <1>1. \A a \in admitted : a.id \in Nat /\ a.at \in Nat /\ a.id <= checks /\ a.at <= tick
    BY <1>0 DEF ChecksAreNumbered, Admitted
  <1>2. \A e \in removing : e.id \in Nat /\ e.id <= checks
    BY <1>0, LimiterTypes DEF ChecksAreNumbered
  <1>3. \A a \in admitted : a.id <= checks' /\ a.at <= tick'
    BY <1>0, <1>1, LimiterTypes
  <1>4. \A e \in removing : e.id <= checks'
    BY <1>0, <1>2, LimiterTypes
  <1>5. ChecksAreNumbered'
    BY <1>0, <1>3, <1>4 DEF ChecksAreNumbered
  <1> QED
    BY <1>0, <1>5 DEF LimitHolds

LEMMA EntryIsTyped ==
    ASSUME LimiterTypeOK, checks < MaxChecks
    PROVE  /\ Entry \in [id : 1 .. MaxChecks, at : 0 .. LastTickRL]
           /\ Entry.id = checks + 1 /\ Entry.at = tick
           /\ checks' = checks + 1 => checks' \in 0 .. MaxChecks
  <1>1. checks + 1 \in 1 .. MaxChecks /\ tick \in 0 .. LastTickRL
    BY LimiterTypes
  <1> QED
    BY <1>1, LimiterTypes DEF Entry

LEMMA RecentIsFinite ==
    ASSUME NEW S, IsFiniteSet(S)
    PROVE  IsFiniteSet(Recent(S)) /\ IsFiniteSet(Recent(S \cup {Entry}))
  <1>1. IsFiniteSet(S \cup {Entry}) /\ Recent(S) \subseteq S
        /\ Recent(S \cup {Entry}) \subseteq S \cup {Entry}
    BY FS_AddElement DEF Recent
  <1> QED
    BY <1>1, FS_Subset

-----------------------------------------------------------------------------
LEMMA CheckInRedisKeeps ==
    ASSUME LimIInv, NEW i \in Instances, CheckInRedis(i)
    PROVE  LimIInv'
  <1>0. /\ LimiterTypeOK /\ ChecksAreNumbered /\ RecentAreCounted /\ StoresAreFinite
        /\ LimitHolds /\ WindowIsHonest
    BY LimiterParts
  <1>1. /\ checks < MaxChecks /\ checks' = checks + 1
        /\ UNCHANGED <<tick, redisUp, preferRedis, local, stuck>>
        /\ window' = Recent(window \cup {Entry})
    BY DEF CheckInRedis
  <1>2. /\ Entry \in [id : 1 .. MaxChecks, at : 0 .. LastTickRL]
        /\ Entry.id = checks + 1 /\ Entry.at = tick /\ checks' \in 0 .. MaxChecks
    BY <1>0, <1>1, EntryIsTyped
  <1>3. /\ Entry \in window' /\ window' \subseteq window \cup {Entry}
        /\ \A e \in window : e.at > tick - Window => e \in window'
    BY <1>0, <1>1, <1>2, LimiterTypes DEF Recent
  <1>4. StoresAreFinite'
    BY <1>0, <1>1, RecentIsFinite DEF StoresAreFinite
  <1>5. CASE /\ TooManyEntries(Cardinality(window')) /\ removing' = removing \cup {Entry}
             /\ admitted' = admitted
    <2>1. LimiterTypeOK'
      BY <1>0, <1>1, <1>2, <1>3, <1>5 DEF LimiterTypeOK
    <2>2. ChecksAreNumbered'
      <3>1. \A a \in admitted : a.id \in Nat /\ a.id <= checks
        BY <1>0 DEF ChecksAreNumbered, Admitted
      <3>2. \A a \in admitted : a.id <= checks + 1 /\ a.id # Entry.id
        BY <1>0, <1>2, <3>1, LimiterTypes
      <3>3. \A e \in removing : e.id <= checks + 1 /\ \A a \in admitted : a.id # e.id
        BY <1>0, LimiterTypes DEF ChecksAreNumbered
      <3>4. Entry.id <= checks + 1
        BY <1>0, <1>2, LimiterTypes
      <3> QED
        BY <1>0, <1>1, <1>5, <3>2, <3>3, <3>4 DEF ChecksAreNumbered
    <2>3. RecentAreCounted'
      BY <1>0, <1>1, <1>3, <1>5 DEF RecentAreCounted, Store, Mark
    <2>4. LimitHolds' /\ WindowIsHonest'
      BY <1>0, <1>1, <1>3, <1>5 DEF LimitHolds, WindowIsHonest
    <2> QED
      BY <1>4, <2>1, <2>2, <2>3, <2>4 DEF LimIInv
  <1>6. CASE /\ ~TooManyEntries(Cardinality(window')) /\ Admit("redis") /\ removing' = removing
    <2>1. /\ IsFiniteSet(window') /\ Cardinality(window') \in Nat
      BY <1>4, FS_CardinalityType DEF StoresAreFinite
    <2>2. Cardinality(window') <= Limit
      BY <1>0, <1>6, <2>1, LimiterTypes DEF TooManyEntries
    <2>3. /\ LimitHolds'
          /\ \A a \in admitted' : a.at > tick - Window /\ a.where = "redis" => Mark(a) \in window'
      BY <1>1, <1>3, <1>6, <2>1, <2>2, AdmitKeepsLimit DEF LimiterPlaces, Store
    <2>4. ChecksAreNumbered'
      BY <1>1, <1>6, AdmitKeepsNumbers DEF LimiterPlaces
    <2>5. RecentAreCounted'
      <3>1. \A a \in admitted' : a.where # "redis" => a \in admitted
        BY <1>6 DEF Admit
      <3> QED
        BY <1>0, <1>1, <2>3, <3>1 DEF RecentAreCounted, Store
    <2>6. WindowIsHonest'
      <3>1. admitted \subseteq admitted'
            /\ [id |-> checks + 1, at |-> tick, where |-> "redis"] \in admitted'
        BY <1>6 DEF Admit
      <3>2. \E a \in admitted' : a.id = Entry.id /\ a.where = "redis"
        BY <1>2, <3>1
      <3> QED
        BY <1>0, <1>1, <1>3, <1>6, <3>1, <3>2 DEF WindowIsHonest
    <2>7. LimiterTypeOK'
      BY <1>0, <1>1, <1>2, <1>3, <1>6 DEF LimiterTypeOK
    <2> QED
      BY <1>4, <2>3, <2>4, <2>5, <2>6, <2>7 DEF LimIInv
  <1> QED
    BY <1>1, <1>5, <1>6 DEF CheckInRedis

LEMMA RemoveRefusedKeeps ==
    ASSUME LimIInv, RemoveRefused
    PROVE  LimIInv'
  <1>0. /\ LimiterTypeOK /\ ChecksAreNumbered /\ RecentAreCounted /\ StoresAreFinite
        /\ LimitHolds /\ WindowIsHonest
    BY LimiterParts
  <1>1. PICK e \in removing :
           /\ removing' = removing \ {e}
           /\ IF redisUp THEN window' = window \ {e} /\ UNCHANGED stuck
              ELSE stuck' = stuck \cup {e} /\ UNCHANGED window
    BY DEF RemoveRefused, TakenOut
  <1>2. UNCHANGED <<tick, redisUp, preferRedis, local, admitted, checks>>
    BY DEF RemoveRefused
  <1>3. window' \subseteq window /\ \A x \in window : x # e => x \in window'
    BY <1>1
  <1>4. LimiterTypeOK'
    BY <1>0, <1>1, <1>2, <1>3 DEF LimiterTypeOK
  <1>5. ChecksAreNumbered' /\ LimitHolds'
    BY <1>0, <1>1, <1>2, NumbersStay, LimiterTypes
  <1>6. RecentAreCounted'
    <2>1. \A a \in admitted : Mark(a) # e
      <3>1. \A a \in admitted : a.id # e.id
        BY <1>0, <1>1 DEF ChecksAreNumbered
      <3> QED
        BY <3>1 DEF Mark
    <2> QED
      BY <1>0, <1>2, <1>3, <2>1 DEF RecentAreCounted, Store, Mark
  <1>7. StoresAreFinite'
    BY <1>0, <1>2, <1>3, FS_Subset DEF StoresAreFinite
  <1>8. WindowIsHonest'
    BY <1>0, <1>1, <1>2 DEF WindowIsHonest
  <1> QED
    BY <1>4, <1>5, <1>6, <1>7, <1>8 DEF LimIInv

LEMMA CheckInMemoryKeeps ==
    ASSUME LimIInv, NEW i \in Instances, CheckInMemory(i)
    PROVE  LimIInv'
  <1>0. /\ LimiterTypeOK /\ ChecksAreNumbered /\ RecentAreCounted /\ StoresAreFinite
        /\ LimitHolds /\ WindowIsHonest /\ i # "redis"
    BY LimiterParts, LimiterTypes
  <1>1. /\ checks < MaxChecks /\ checks' = checks + 1
        /\ preferRedis' = [preferRedis EXCEPT ![i] = FALSE]
        /\ UNCHANGED <<tick, redisUp, removing>>
        /\ \/ UNCHANGED <<window, stuck>>
           \/ window' = window \cup {Entry} /\ stuck' = stuck \cup {Entry}
    BY DEF CheckInMemory
  <1>2. /\ Entry \in [id : 1 .. MaxChecks, at : 0 .. LastTickRL]
        /\ Entry.id = checks + 1 /\ Entry.at = tick /\ checks' \in 0 .. MaxChecks
    BY <1>0, <1>1, EntryIsTyped
  <1>3. LimiterTypeOK'
    <2>1. preferRedis' \in [Instances -> BOOLEAN]
      BY <1>0, <1>1, LimiterTypes
    <2> QED
      BY <1>0, <1>1, <1>2, <2>1 DEF LimiterTypeOK
  <1>4. window \subseteq window' /\ IsFiniteSet(window')
    BY <1>0, <1>1, FS_AddElement DEF StoresAreFinite
  <1>5. \A a \in admitted' : a \in admitted \/ a.where = i
    BY DEF CheckInMemory, Admit
  <1>6. admitted \subseteq admitted'
    BY DEF CheckInMemory, Admit
  <1>7. WindowIsHonest'
    BY <1>0, <1>1, <1>6 DEF WindowIsHonest
  <1>8. PICK S : S = Recent(local[i])
    OBVIOUS
  <1>9. /\ IsFiniteSet(S) /\ IsFiniteSet(S \cup {Entry}) /\ Cardinality(S) \in Nat
        /\ \A e \in local[i] : e.at > tick - Window => e \in S
    BY <1>0, <1>8, RecentIsFinite, FS_AddElement, FS_CardinalityType DEF StoresAreFinite, Recent
  <1>10. CASE /\ Cardinality(S) >= Limit /\ local' = [local EXCEPT ![i] = S]
              /\ admitted' = admitted
    <2>1. ChecksAreNumbered' /\ LimitHolds'
      BY <1>0, <1>1, <1>2, <1>10, NumbersStay, LimiterTypes
    <2>2. StoresAreFinite'
      BY <1>0, <1>4, <1>9, <1>10 DEF StoresAreFinite
    <2>3. RecentAreCounted'
      <3> SUFFICES ASSUME NEW a \in admitted, a.at > tick - Window PROVE Mark(a) \in Store(a.where)'
        BY <1>1, <1>10 DEF RecentAreCounted
      <3>1. Mark(a) \in Store(a.where) /\ Mark(a).at = a.at /\ a.where \in LimiterPlaces
        BY <1>0 DEF RecentAreCounted, Mark, ChecksAreNumbered, Admitted
      <3> QED
        BY <1>0, <1>4, <1>9, <1>10, <3>1 DEF Store, LimiterPlaces, StoresAreFinite
    <2> QED
      BY <1>3, <1>7, <2>1, <2>2, <2>3 DEF LimIInv
  <1>11. CASE /\ Cardinality(S) < Limit /\ local' = [local EXCEPT ![i] = S \cup {Entry}]
              /\ Admit(i)
    <2>1. Cardinality(S \cup {Entry}) <= Limit
      <3>1. Cardinality(S \cup {Entry}) <= Cardinality(S) + 1
        BY <1>9, FS_AddElement
      <3>2. Cardinality(S \cup {Entry}) \in Nat
        BY <1>9, FS_CardinalityType
      <3> QED
        BY <1>0, <1>9, <1>11, <3>1, <3>2, LimiterTypes
    <2>2. /\ LimitHolds'
          /\ \A a \in admitted' : a.at > tick - Window /\ a.where = i => Mark(a) \in S \cup {Entry}
      BY <1>0, <1>1, <1>9, <1>11, <2>1, AdmitKeepsLimit DEF LimiterPlaces, Store
    <2>3. ChecksAreNumbered'
      BY <1>1, <1>11, AdmitKeepsNumbers DEF LimiterPlaces
    <2>4. StoresAreFinite'
      BY <1>0, <1>4, <1>9, <1>11 DEF StoresAreFinite
    <2>5. RecentAreCounted'
      <3> SUFFICES ASSUME NEW a \in admitted', a.at > tick - Window PROVE Mark(a) \in Store(a.where)'
        BY <1>1 DEF RecentAreCounted
      <3>1. CASE a.where = i
        BY <1>0, <1>11, <2>2, <3>1 DEF Store, StoresAreFinite
      <3>2. CASE a.where # i
        <4>1. a \in admitted /\ Mark(a) \in Store(a.where) /\ a.where \in LimiterPlaces
          BY <1>0, <1>5, <3>2 DEF RecentAreCounted, ChecksAreNumbered, Admitted
        <4> QED
          BY <1>0, <1>4, <1>11, <3>2, <4>1 DEF Store, LimiterPlaces, StoresAreFinite
      <3> QED
        BY <3>1, <3>2
    <2> QED
      BY <1>3, <1>7, <2>2, <2>3, <2>4, <2>5 DEF LimIInv
  <1>12. IF Cardinality(S) >= Limit
         THEN local' = [local EXCEPT ![i] = S] /\ admitted' = admitted
         ELSE local' = [local EXCEPT ![i] = S \cup {Entry}] /\ Admit(i)
    BY <1>8 DEF CheckInMemory
  <1> QED
    BY <1>0, <1>9, <1>10, <1>11, <1>12, LimiterTypes

LEMMA LimiterRests ==
    ASSUME LimIInv, UNCHANGED <<window, local, removing, admitted, stuck, checks>>,
           tick' = tick \/ (tick < LastTickRL /\ tick' = tick + 1),
           redisUp' \in BOOLEAN, preferRedis' \in [Instances -> BOOLEAN]
    PROVE  LimIInv'
  <1>0. /\ LimiterTypeOK /\ ChecksAreNumbered /\ RecentAreCounted /\ StoresAreFinite
        /\ LimitHolds /\ WindowIsHonest
    BY LimiterParts
  <1>1. tick' \in 0 .. LastTickRL /\ tick <= tick' /\ tick' \in Nat
    BY <1>0, LimiterTypes
  <1>2. LimiterTypeOK'
    BY <1>0, <1>1 DEF LimiterTypeOK
  <1>3. ChecksAreNumbered' /\ LimitHolds'
    BY <1>0, <1>1, NumbersStay, LimiterTypes
  <1>4. RecentAreCounted'
    <2>1. \A a \in admitted : a.at \in Nat
      BY <1>0 DEF ChecksAreNumbered, Admitted
    <2>2. \A a \in admitted : a.at > tick' - Window => a.at > tick - Window
      BY <1>0, <1>1, <2>1, LimiterTypes
    <2> QED
      BY <1>0, <2>2 DEF RecentAreCounted, Store, Mark
  <1>5. StoresAreFinite' /\ WindowIsHonest'
    BY <1>0 DEF StoresAreFinite, WindowIsHonest
  <1> QED
    BY <1>2, <1>3, <1>4, <1>5 DEF LimIInv

LEMMA LimiterStarts ==
    LimiterInit => LimIInv
  <1> SUFFICES ASSUME LimiterInit PROVE LimIInv
    OBVIOUS
  <1>1. LimiterTypeOK
    BY LimiterBounds DEF LimiterInit, LimiterTypeOK
  <1>2. ChecksAreNumbered /\ RecentAreCounted /\ WindowIsHonest
    BY DEF LimiterInit, ChecksAreNumbered, RecentAreCounted, WindowIsHonest
  <1>3. StoresAreFinite
    BY FS_EmptySet DEF LimiterInit, StoresAreFinite
  <1>4. LimitHolds
    <2> SUFFICES ASSUME NEW where \in Instances \cup {"redis"}, NEW start \in 0 .. LastTickRL
                 PROVE  Cardinality({a \in admitted : a.where = where
                                       /\ a.at \in start .. start + Window - 1}) <= Limit
      BY DEF LimitHolds
    <2>1. {a \in admitted : a.where = where /\ a.at \in start .. start + Window - 1} = {}
      BY DEF LimiterInit
    <2> QED
      BY <2>1, FS_EmptySet, LimiterBounds
  <1> QED
    BY <1>1, <1>2, <1>3, <1>4 DEF LimIInv

LEMMA LimiterSteps ==
    LimIInv /\ [LimiterNext]_limiterVars => LimIInv'
  <1> SUFFICES ASSUME LimIInv, [LimiterNext]_limiterVars PROVE LimIInv'
    OBVIOUS
  <1>0. preferRedis \in [Instances -> BOOLEAN] /\ redisUp \in BOOLEAN
    BY LimiterParts, LimiterTypes
  <1>1. CASE RemoveRefused
    BY <1>1, RemoveRefusedKeeps
  <1>2. CASE RedisChanges
    BY <1>0, <1>2, LimiterRests DEF RedisChanges
  <1>3. CASE LimiterTick
    BY <1>0, <1>3, LimiterRests DEF LimiterTick
  <1>4. ASSUME NEW i \in Instances, CheckInRedis(i) \/ CheckInMemory(i) \/ LookAgain(i)
        PROVE  LimIInv'
    <2>1. CASE LookAgain(i)
      BY <1>0, <2>1, LimiterRests DEF LookAgain
    <2> QED
      BY <1>4, <2>1, CheckInRedisKeeps, CheckInMemoryKeeps
  <1>5. CASE UNCHANGED limiterVars
    BY <1>0, <1>5, LimiterRests DEF limiterVars
  <1> QED
    BY <1>1, <1>2, <1>3, <1>4, <1>5 DEF LimiterNext

(* In any window of time Redis lets no more than the limit through, and so *)
(* does the memory of each instance, for any number of instances, however  *)
(* Redis comes and goes; and what is refused does not fill the window.     *)
THEOREM LimitsHold ==
    LimiterSpec => []LimiterInv
  <1>1. LimIInv => LimiterInv
    BY DEF LimIInv, LimiterInv
  <1> QED
    BY <1>1, LimiterStarts, LimiterSteps, PTL DEF LimiterSpec

-----------------------------------------------------------------------------
(*************************************************************************)
(* MembershipInv of Membership, for any roles, weeks and invocations: who *)
(* inserts the user's rows accepted the one invitation, and no other     *)
(* invocation is past that point.                                        *)
(*************************************************************************)

MemberStatuses == {"none", Active, Suspended, "locked"}

WorkType == [pc : {"ready", "inviting", "accepting", "creating", "joining", "created", "joined",
                   "entering", "revoking", "suspending"},
             roles : SUBSET UNION Grants, inv : 0 .. MaxInvitations, seen : MemberStatuses]

InvitationRow == [status : {"pending", "accepted"}, made : 0 .. LastWeek,
                  accepted : 0 .. LastWeek, roles : Grants]

(* What the invocations hold. *)
WorkIsKnown ==
    /\ work \in [Handlers -> WorkType]
    /\ \A h \in Handlers :
          /\ At(h, "inviting") => work[h].roles \in Grants
          /\ At(h, "accepting") => work[h].inv \in DOMAIN invitations

Inserting(h) == work[h].pc \in {"created", "joined"}

(* One invocation at most inserts roles, and what it has not inserted yet  *)
(* is what is missing.                                                     *)
RolesFollow ==
    /\ ~Exists => roleRows = {} /\ granted = {} /\ \A h \in Handlers : ~Inserting(h)
    /\ \A g, h \in Handlers : Inserting(g) /\ Inserting(h) => g = h
    /\ ~unsure =>
          /\ (\A h \in Handlers : ~Inserting(h)) => roleRows = granted
          /\ \A h \in Handlers : Inserting(h) => granted = roleRows \cup work[h].roles

MemIInv ==
    /\ MembershipTypeOK /\ invitations \in Seq(InvitationRow) /\ Len(invitations) <= MaxInvitations
    /\ WorkIsKnown /\ AcceptedOnce /\ RolesFollow /\ SuspendedIsSignedOut

LEMMA MemberTypes ==
    ASSUME MembershipTypeOK
    PROVE  /\ week \in Nat /\ week <= LastWeek /\ LastWeek \in Nat /\ MaxInvitations \in Nat
           /\ Pauses \subseteq Nat /\ DefaultRoles \in Grants
           /\ member \in [status : MemberStatuses, by : 0 .. MaxInvitations]
           /\ member.status \in MemberStatuses /\ member.by \in 0 .. MaxInvitations
           /\ roleRows \subseteq UNION Grants /\ signedIn \in BOOLEAN
           /\ \A n \in DOMAIN invitations : invitations[n] \in InvitationRow
  BY MembershipBounds DEF MembershipTypeOK, MemberStatuses, InvitationRow

LEMMA MemberParts ==
    ASSUME MemIInv
    PROVE  /\ MembershipTypeOK /\ invitations \in Seq(InvitationRow)
           /\ Len(invitations) <= MaxInvitations
           /\ WorkIsKnown /\ AcceptedOnce /\ RolesFollow /\ SuspendedIsSignedOut
           /\ work \in [Handlers -> WorkType]
  BY DEF MemIInv, WorkIsKnown

LEMMA ReadyIsWork ==
    ASSUME MembershipTypeOK
    PROVE  /\ Ready \in WorkType /\ Ready.pc = "ready" /\ Ready.roles = {}
           /\ Ready.inv = 0 /\ Ready.seen = Active
  BY MemberTypes DEF Ready, WorkType, ByHand, MemberStatuses, Active

(* The invocation h goes on, and holds r then. *)
WorkStep(h, r) ==
    /\ r \in WorkType /\ work' = [work EXCEPT ![h] = r]

LEMMA OthersWork ==
    ASSUME work \in [Handlers -> WorkType], NEW h \in Handlers, NEW r, WorkStep(h, r)
    PROVE  /\ work' \in [Handlers -> WorkType] /\ work'[h] = r
           /\ \A g \in Handlers \ {h} : work'[g] = work[g]
  BY DEF WorkStep

LEMMA GoIsAStep ==
    ASSUME MembershipTypeOK, work \in [Handlers -> WorkType], NEW h \in Handlers,
           NEW pc \in {"created", "joined", "entering", "revoking", "suspending", "ready"},
           Go(h, pc)
    PROVE  \E r : WorkStep(h, r) /\ r.pc = pc /\ r.roles = work[h].roles /\ r.seen = work[h].seen
  <1>1. work[h] \in WorkType
    OBVIOUS
  <1>2. PICK r : r = [work[h] EXCEPT !.pc = pc]
    OBVIOUS
  <1>3. /\ r \in WorkType /\ r.pc = pc /\ r.roles = work[h].roles /\ r.seen = work[h].seen
    BY <1>1, <1>2 DEF WorkType
  <1>4. work' = [work EXCEPT ![h] = r]
    BY <1>2 DEF Go
  <1> QED
    BY <1>3, <1>4 DEF WorkStep

LEMMA ReturnIsAStep ==
    ASSUME MembershipTypeOK, NEW h \in Handlers, Return(h)
    PROVE  WorkStep(h, Ready)
  BY ReadyIsWork DEF Return, WorkStep

LEMMA WorkKnownStays ==
    ASSUME WorkIsKnown, NEW h \in Handlers, NEW r, WorkStep(h, r),
           r.pc = "inviting" => r.roles \in Grants,
           r.pc = "accepting" => r.inv \in DOMAIN invitations,
           DOMAIN invitations \subseteq DOMAIN invitations'
    PROVE  WorkIsKnown'
  BY OthersWork DEF WorkIsKnown, At

(* A step of somebody who inserts no roles. *)
LEMMA RolesStay ==
    ASSUME RolesFollow, work \in [Handlers -> WorkType], NEW h \in Handlers, NEW r,
           WorkStep(h, r), ~Inserting(h), r.pc \notin {"created", "joined"},
           Exists => Exists', UNCHANGED <<roleRows, granted, unsure>>
    PROVE  RolesFollow'
  <1>1. \A g \in Handlers : /\ Inserting(g)' <=> Inserting(g)
                            /\ Inserting(g) => work'[g].roles = work[g].roles
    BY OthersWork DEF Inserting
  <1> QED
    BY <1>1 DEF RolesFollow

LEMMA AcceptedStays ==
    ASSUME AcceptedOnce, member'.by = member.by, DOMAIN invitations' = DOMAIN invitations,
           \A n \in DOMAIN invitations : invitations'[n] = invitations[n]
    PROVE  AcceptedOnce'
  BY DEF AcceptedOnce, Expires

LEMMA SuspensionStays ==
    ASSUME SuspendedIsSignedOut, work \in [Handlers -> WorkType], NEW h \in Handlers, NEW r,
           WorkStep(h, r), late => late',
           \/ ~signedIn'
           \/ member'.status # Suspended
           \/ r.pc = "revoking"
           \/ late'
           \/ member' = member /\ signedIn' = signedIn /\ ~At(h, "revoking")
    PROVE  SuspendedIsSignedOut'
  BY OthersWork DEF SuspendedIsSignedOut, At

(* A step that writes down nothing. *)
LEMMA OnlyWork ==
    ASSUME MemIInv, NEW h \in Handlers, NEW r, WorkStep(h, r),
           ~Inserting(h), r.pc \notin {"created", "joined"}, ~At(h, "revoking"),
           r.pc = "inviting" => r.roles \in Grants,
           r.pc = "accepting" => r.inv \in DOMAIN invitations,
           UNCHANGED <<week, member, roleRows, invitations, signedIn, granted, unsure, late>>
    PROVE  MemIInv'
  <1>1. WorkIsKnown'
    BY MemberParts, WorkKnownStays
  <1>2. Exists' <=> Exists
    BY DEF Exists
  <1>3. RolesFollow'
    BY <1>2, MemberParts, RolesStay
  <1>4. AcceptedOnce' /\ SuspendedIsSignedOut'
    BY MemberParts, AcceptedStays, SuspensionStays
  <1>5. MembershipTypeOK'
    BY MemberParts DEF MembershipTypeOK
  <1> QED
    BY <1>1, <1>3, <1>4, <1>5, MemberParts DEF MemIInv

-----------------------------------------------------------------------------
LEMMA LookingKeeps ==
    ASSUME MemIInv, NEW h \in Handlers,
           \/ CheckInvitation(h) \/ ReadInvitation(h) \/ CheckUser(h) \/ SignOn(h) \/ Decide(h)
    PROVE  MemIInv'
  <1>0. /\ MembershipTypeOK /\ At(h, "ready") /\ ~Inserting(h) /\ ~At(h, "revoking")
        /\ UNCHANGED <<week, member, roleRows, invitations, signedIn, granted, unsure, late>>
        /\ work \in [Handlers -> WorkType]
    BY MemberParts DEF CheckInvitation, ReadInvitation, CheckUser, SignOn, Decide, At, Inserting
  <1>1. CASE CheckInvitation(h)
    <2>1. PICK roles \in Grants :
             work' = [work EXCEPT ![h] = [Ready EXCEPT !.pc = "inviting", !.roles = roles]]
      BY <1>1 DEF CheckInvitation
    <2>2. PICK r : r = [Ready EXCEPT !.pc = "inviting", !.roles = roles]
      OBVIOUS
    <2>3. r \in WorkType /\ r.pc = "inviting" /\ r.roles = roles
      BY <1>0, <2>2, ReadyIsWork DEF WorkType
    <2> QED
      BY <1>0, <2>1, <2>2, <2>3, OnlyWork DEF WorkStep
  <1>2. CASE ReadInvitation(h)
    <2>1. PICK n \in DOMAIN invitations :
             work' = [work EXCEPT ![h] = [Ready EXCEPT !.pc = "accepting", !.inv = n]]
      BY <1>2 DEF ReadInvitation
    <2>2. PICK r : r = [Ready EXCEPT !.pc = "accepting", !.inv = n]
      OBVIOUS
    <2>3. n \in 0 .. MaxInvitations
      BY MemberParts, MemberTypes
    <2>4. r \in WorkType /\ r.pc = "accepting" /\ r.inv = n
      BY <1>0, <2>2, <2>3, ReadyIsWork DEF WorkType
    <2> QED
      BY <1>0, <2>1, <2>2, <2>4, OnlyWork DEF WorkStep
  <1>3. CASE CheckUser(h)
    <2>1. PICK roles \in Grants :
             work' = [work EXCEPT ![h] = [Ready EXCEPT !.pc = "creating", !.roles = roles]]
      BY <1>3 DEF CheckUser
    <2>2. PICK r : r = [Ready EXCEPT !.pc = "creating", !.roles = roles]
      OBVIOUS
    <2>3. r \in WorkType /\ r.pc = "creating"
      BY <1>0, <2>2, ReadyIsWork DEF WorkType
    <2> QED
      BY <1>0, <2>1, <2>2, <2>3, OnlyWork DEF WorkStep
  <1>4. CASE SignOn(h)
    <2>1. PICK r : r = IF Exists THEN [Ready EXCEPT !.pc = "entering", !.seen = member.status]
                                 ELSE [Ready EXCEPT !.pc = "joining", !.roles = DefaultRoles]
      OBVIOUS
    <2>2. work' = [work EXCEPT ![h] = r]
      BY <1>4, <2>1 DEF SignOn
    <2>3. member.status \in MemberStatuses /\ DefaultRoles \in Grants
      BY <1>0, MemberTypes
    <2>4. r \in WorkType /\ r.pc \in {"entering", "joining"}
      BY <1>0, <2>1, <2>3, ReadyIsWork DEF WorkType
    <2> QED
      BY <1>0, <2>2, <2>4, OnlyWork DEF WorkStep
  <1>5. CASE Decide(h)
    <2>1. PICK r : WorkStep(h, r) /\ r.pc = "suspending"
      BY <1>0, <1>5, GoIsAStep DEF Decide
    <2> QED
      BY <1>0, <2>1, OnlyWork
  <1> QED
    BY <1>1, <1>2, <1>3, <1>4, <1>5

LEMMA CreateInvitationKeeps ==
    ASSUME MemIInv, NEW h \in Handlers, CreateInvitation(h)
    PROVE  MemIInv'
  <1>0. /\ MembershipTypeOK /\ WorkIsKnown /\ work \in [Handlers -> WorkType]
        /\ invitations \in Seq(InvitationRow) /\ Len(invitations) < MaxInvitations
        /\ At(h, "inviting") /\ work[h].roles \in Grants
        /\ UNCHANGED <<week, member, roleRows, signedIn, granted, unsure, late>>
    BY MemberParts DEF CreateInvitation, WorkIsKnown
  <1>1. PICK row : row = [status |-> "pending", made |-> week, accepted |-> 0,
                          roles |-> work[h].roles]
    OBVIOUS
  <1>2. row \in InvitationRow /\ row.status = "pending"
    BY <1>0, <1>1, MemberTypes DEF InvitationRow
  <1>3. invitations' = Append(invitations, row)
    BY <1>1 DEF CreateInvitation
  <1>4. PICK m \in Nat : m = Len(invitations)
    BY <1>0
  <1>5. /\ invitations' \in Seq(InvitationRow) /\ Len(invitations') = m + 1
        /\ DOMAIN invitations' = 1 .. m + 1 /\ DOMAIN invitations = 1 .. m
        /\ invitations'[m + 1] = row
        /\ \A n \in 1 .. m : invitations'[n] = invitations[n]
    BY <1>0, <1>2, <1>3, <1>4
  <1>6. WorkStep(h, Ready) /\ Ready.pc = "ready"
    BY <1>0, ReturnIsAStep, ReadyIsWork DEF CreateInvitation
  <1>7. WorkIsKnown'
    BY <1>0, <1>5, <1>6, WorkKnownStays
  <1>8. RolesFollow' /\ SuspendedIsSignedOut'
    <2>1. Exists' <=> Exists
      BY <1>0 DEF Exists
    <2>2. ~Inserting(h) /\ ~At(h, "revoking")
      BY <1>0 DEF Inserting, At
    <2> QED
      BY <1>0, <1>6, <2>1, <2>2, MemberParts, RolesStay, SuspensionStays
  <1>9. AcceptedOnce'
    <2>1. ASSUME NEW n \in DOMAIN invitations', invitations'[n].status = "accepted"
          PROVE  member'.by = n /\ invitations'[n].accepted < Expires(n)'
      <3>1. n \in DOMAIN invitations /\ invitations'[n] = invitations[n]
        BY <1>2, <1>5, <2>1
      <3> QED
        BY <1>0, <2>1, <3>1, MemberParts DEF AcceptedOnce, Expires
    <2> QED
      BY <2>1 DEF AcceptedOnce
  <1>10. MembershipTypeOK' /\ Len(invitations') <= MaxInvitations
    <2>1. \A n \in DOMAIN invitations' : invitations'[n] \in InvitationRow
      BY <1>5
    <2>2. Len(invitations') <= MaxInvitations
      BY <1>0, <1>4, <1>5, MemberTypes
    <2> QED
      BY <1>0, <2>1, <2>2 DEF MembershipTypeOK, InvitationRow
  <1> QED
    BY <1>5, <1>7, <1>8, <1>9, <1>10 DEF MemIInv

(* An invitation makes the member, if there is none. *)
LEMMA AcceptKeeps ==
    ASSUME MemIInv, NEW h \in Handlers, Accept(h)
    PROVE  MemIInv'
  <1>0. /\ MembershipTypeOK /\ WorkIsKnown /\ work \in [Handlers -> WorkType] /\ AcceptedOnce
        /\ RolesFollow /\ invitations \in Seq(InvitationRow)
        /\ Len(invitations) <= MaxInvitations
        /\ At(h, "accepting") /\ work[h].inv \in DOMAIN invitations
        /\ UNCHANGED <<week, signedIn, unsure, late>>
    BY MemberParts DEF Accept, WorkIsKnown
  <1>1. WorkStep(h, Ready) /\ Ready.pc = "ready"
    BY <1>0, ReturnIsAStep, ReadyIsWork DEF Accept
  <1>2. ~Inserting(h) /\ ~At(h, "revoking")
    BY <1>0 DEF Inserting, At
  <1>3. CASE ~(Claimable(work[h].inv) /\ ~Exists)
    BY <1>0, <1>1, <1>2, <1>3, OnlyWork DEF Accept
  <1>4. CASE Claimable(work[h].inv) /\ ~Exists
    <2>1. PICK n \in DOMAIN invitations : n = work[h].inv
      BY <1>0
    <2>2. PICK row : row = [[invitations[n] EXCEPT !.status = "accepted"] EXCEPT !.accepted = week]
      OBVIOUS
    <2>3. /\ row \in InvitationRow /\ row.status = "accepted" /\ row.accepted = week
          /\ row.made = invitations[n].made /\ row.roles = invitations[n].roles
      <3>1. invitations[n] \in InvitationRow /\ week \in 0 .. LastWeek
        BY <1>0, MemberTypes
      <3> QED
        BY <2>2, <3>1 DEF InvitationRow
    <2>4. /\ invitations' = [invitations EXCEPT ![n] = row]
          /\ member' = [status |-> Active, by |-> n]
          /\ roleRows' = invitations[n].roles /\ granted' = invitations[n].roles
      BY <1>4, <2>1, <2>2 DEF Accept
    <2>5. PICK m \in Nat : m = Len(invitations) /\ DOMAIN invitations = 1 .. m
      BY <1>0
    <2>6. /\ DOMAIN invitations' = DOMAIN invitations /\ invitations' \in Seq(InvitationRow)
          /\ Len(invitations') = m /\ invitations'[n] = row
          /\ \A k \in DOMAIN invitations \ {n} : invitations'[k] = invitations[k]
      BY <1>0, <2>3, <2>4, <2>5
    <2>7. \A k \in DOMAIN invitations : invitations[k].status # "accepted"
      <3>1. member.by = 0
        BY <1>4 DEF Exists, Outside
      <3>2. \A k \in DOMAIN invitations : k # 0
        BY <2>5
      <3> QED
        BY <1>0, <3>1, <3>2 DEF AcceptedOnce
    <2>8. member'.by = n /\ member'.status = Active /\ Exists'
      <3>1. member'.by = n /\ member'.status = Active
        BY <2>4
      <3> QED
        BY <3>1 DEF Exists, Outside, Active
    <2>9. AcceptedOnce'
      <3>1. week < invitations[n].made + InvitationWeeks
        BY <1>4, <2>1, <1>0, MemberTypes DEF Claimable, Expires, InvitationRow, InvitationWeeks
      <3>2. invitations'[n].accepted < Expires(n)'
        BY <2>3, <2>6, <3>1 DEF Expires, InvitationWeeks
      <3> QED
        BY <2>6, <2>7, <2>8, <3>2 DEF AcceptedOnce
    <2>10. WorkIsKnown'
      BY <1>0, <1>1, <2>6, WorkKnownStays
    <2>11. RolesFollow'
      <3>1. \A g \in Handlers : ~Inserting(g)
        BY <1>0, <1>4 DEF RolesFollow
      <3>2. \A g \in Handlers : ~Inserting(g)'
        BY <1>0, <1>1, <3>1, OthersWork DEF Inserting
      <3> QED
        BY <2>4, <2>8, <3>2 DEF RolesFollow
    <2>12. SuspendedIsSignedOut'
      <3>1. member'.status # Suspended
        BY <2>8 DEF Active, Suspended
      <3> QED
        BY <3>1 DEF SuspendedIsSignedOut
    <2>13. MembershipTypeOK'
      <3>1. member' \in [status : {"none", Active, Suspended, "locked"}, by : 0 .. MaxInvitations]
        BY <1>0, <2>4, <2>5, MemberTypes
      <3>2. roleRows' \subseteq UNION Grants
        BY <1>0, <2>4, MemberTypes DEF InvitationRow
      <3>3. \A k \in DOMAIN invitations' : invitations'[k] \in InvitationRow
        BY <2>6
      <3> QED
        BY <1>0, <3>1, <3>2, <3>3 DEF MembershipTypeOK, InvitationRow
    <2> QED
      BY <1>0, <2>5, <2>6, <2>9, <2>10, <2>11, <2>12, <2>13 DEF MemIInv
  <1> QED
    BY <1>3, <1>4

(* The user is inserted, and the roles are to come. *)
LEMMA InsertUserKeeps ==
    ASSUME MemIInv, NEW h \in Handlers, InsertUser(h)
    PROVE  MemIInv'
  <1>0. /\ MembershipTypeOK /\ WorkIsKnown /\ work \in [Handlers -> WorkType] /\ AcceptedOnce
        /\ RolesFollow /\ work[h].pc \in {"creating", "joining"}
        /\ UNCHANGED <<week, roleRows, invitations, signedIn, unsure, late>>
    BY MemberParts DEF InsertUser
  <1>1. ~Inserting(h) /\ ~At(h, "revoking")
    BY <1>0 DEF Inserting, At
  <1>2. CASE Exists
    <2>1. WorkStep(h, Ready) /\ Ready.pc = "ready" /\ UNCHANGED <<member, granted>>
      BY <1>0, <1>2, ReturnIsAStep, ReadyIsWork DEF InsertUser
    <2> QED
      BY <1>0, <1>1, <2>1, OnlyWork
  <1>3. CASE ~Exists
    <2>1. /\ member' = [status |-> Active, by |-> ByHand] /\ granted' = work[h].roles
          /\ Go(h, IF At(h, "creating") THEN "created" ELSE "joined")
      BY <1>3 DEF InsertUser
    <2>2. PICK r : /\ WorkStep(h, r) /\ r.pc \in {"created", "joined"}
                   /\ r.roles = work[h].roles
      BY <1>0, <2>1, GoIsAStep
    <2>3. /\ member'.by = 0 /\ member'.status = Active /\ Exists'
          /\ member' \in [status : {"none", Active, Suspended, "locked"}, by : 0 .. MaxInvitations]
      <3>1. member'.by = 0 /\ member'.status = Active
        BY <2>1 DEF ByHand
      <3> QED
        BY <1>0, <2>1, <3>1, MemberTypes DEF Exists, Outside, Active, ByHand
    <2>4. member.by = 0
      BY <1>3 DEF Exists, Outside
    <2>5. AcceptedOnce'
      BY <1>0, <2>3, <2>4, AcceptedStays
    <2>6. WorkIsKnown'
      BY <1>0, <2>2, WorkKnownStays
    <2>7. RolesFollow'
      <3>1. roleRows = {} /\ \A g \in Handlers : ~Inserting(g)
        BY <1>0, <1>3 DEF RolesFollow
      <3>2. \A g \in Handlers : Inserting(g)' <=> g = h
        BY <1>0, <2>2, <3>1, OthersWork DEF Inserting
      <3>3. work'[h].roles = work[h].roles
        BY <1>0, <2>2, OthersWork
      <3> QED
        BY <1>0, <2>1, <2>3, <3>1, <3>2, <3>3 DEF RolesFollow
    <2>8. SuspendedIsSignedOut'
      BY <2>3 DEF SuspendedIsSignedOut, Active, Suspended
    <2>9. MembershipTypeOK'
      BY <1>0, <2>3 DEF MembershipTypeOK
    <2> QED
      BY <1>0, <2>5, <2>6, <2>7, <2>8, <2>9, MemberParts DEF MemIInv
  <1> QED
    BY <1>2, <1>3

LEMMA InsertRoleKeeps ==
    ASSUME MemIInv, NEW h \in Handlers, InsertRole(h)
    PROVE  MemIInv'
  <1>0. /\ MembershipTypeOK /\ WorkIsKnown /\ work \in [Handlers -> WorkType] /\ RolesFollow
        /\ Inserting(h) /\ ~At(h, "revoking")
        /\ UNCHANGED <<week, member, invitations, signedIn, granted, late>>
    BY MemberParts DEF InsertRole, Inserting, At
  <1>1. PICK role \in work[h].roles :
           IF role \in roleRows
           THEN Return(h) /\ UNCHANGED roleRows /\ unsure' = TRUE
           ELSE /\ roleRows' = roleRows \cup {role}
                /\ work' = [work EXCEPT ![h].roles = @ \ {role}]
                /\ UNCHANGED unsure
    BY DEF InsertRole
  <1>2. Exists /\ Exists' /\ \A g \in Handlers : Inserting(g) => g = h
    BY <1>0 DEF RolesFollow, Exists
  <1>3. AcceptedOnce'
    BY <1>0, MemberParts, AcceptedStays
  <1>4. CASE role \in roleRows
    <2>1. WorkStep(h, Ready) /\ Ready.pc = "ready" /\ roleRows' = roleRows /\ unsure'
      BY <1>0, <1>1, <1>4, ReturnIsAStep, ReadyIsWork
    <2>2. WorkIsKnown'
      BY <1>0, <2>1, WorkKnownStays
    <2>3. SuspendedIsSignedOut'
      BY <1>0, <2>1, MemberParts, SuspensionStays
    <2>4. \A g \in Handlers : ~Inserting(g)'
      BY <1>0, <1>2, <2>1, OthersWork DEF Inserting
    <2>5. RolesFollow'
      BY <1>2, <2>1, <2>4 DEF RolesFollow
    <2>6. MembershipTypeOK'
      BY <1>0, <2>1 DEF MembershipTypeOK
    <2> QED
      BY <1>0, <1>3, <2>2, <2>3, <2>5, <2>6, MemberParts DEF MemIInv
  <1>5. CASE role \notin roleRows
    <2>1. work[h] \in WorkType /\ work[h].roles \subseteq UNION Grants
      BY <1>0 DEF WorkType
    <2>2. PICK rest : rest = work[h].roles \ {role}
      OBVIOUS
    <2>3. PICK r : r = [work[h] EXCEPT !.roles = rest]
      OBVIOUS
    <2>4. /\ r \in WorkType /\ r.pc = work[h].pc /\ r.roles = rest
      BY <2>1, <2>2, <2>3 DEF WorkType
    <2>5. WorkStep(h, r) /\ roleRows' = roleRows \cup {role} /\ unsure' = unsure
      BY <1>0, <1>1, <1>5, <2>2, <2>3, <2>4 DEF WorkStep
    <2>6. WorkIsKnown'
      BY <1>0, <2>4, <2>5, WorkKnownStays DEF Inserting
    <2>7. SuspendedIsSignedOut'
      BY <1>0, <2>5, MemberParts, SuspensionStays
    <2>8. /\ \A g \in Handlers : Inserting(g)' => g = h
          /\ Inserting(h)' /\ work'[h].roles = rest
      BY <1>0, <1>2, <2>4, <2>5, OthersWork DEF Inserting
    <2>9. RolesFollow'
      <3>1. ~unsure => granted = roleRows \cup work[h].roles
        BY <1>0 DEF RolesFollow
      <3>2. roleRows \cup work[h].roles = roleRows' \cup rest
        BY <2>2, <2>5
      <3> QED
        BY <1>0, <1>2, <2>5, <2>8, <3>1, <3>2 DEF RolesFollow
    <2>10. MembershipTypeOK'
      <3>1. roleRows' \subseteq UNION Grants
        BY <1>0, <2>1, <2>5, MemberTypes
      <3> QED
        BY <1>0, <3>1 DEF MembershipTypeOK
    <2> QED
      BY <1>0, <1>3, <2>6, <2>7, <2>9, <2>10, MemberParts DEF MemIInv
  <1> QED
    BY <1>4, <1>5

LEMMA RolesInsertedKeeps ==
    ASSUME MemIInv, NEW h \in Handlers, RolesInserted(h)
    PROVE  MemIInv'
  <1>0. /\ MembershipTypeOK /\ WorkIsKnown /\ work \in [Handlers -> WorkType] /\ RolesFollow
        /\ Inserting(h) /\ ~At(h, "revoking") /\ work[h].roles = {}
        /\ UNCHANGED <<week, member, roleRows, invitations, signedIn, granted, unsure, late>>
    BY MemberParts DEF RolesInserted, Inserting, At
  <1>1. PICK r : WorkStep(h, r) /\ r.pc \in {"ready", "entering"}
    BY <1>0, ReturnIsAStep, ReadyIsWork, GoIsAStep DEF RolesInserted
  <1>2. Exists /\ Exists' /\ \A g \in Handlers : Inserting(g) => g = h
    BY <1>0 DEF RolesFollow, Exists
  <1>3. WorkIsKnown'
    BY <1>0, <1>1, WorkKnownStays
  <1>4. AcceptedOnce' /\ SuspendedIsSignedOut'
    BY <1>0, <1>1, MemberParts, AcceptedStays, SuspensionStays
  <1>5. RolesFollow'
    <2>1. \A g \in Handlers : ~Inserting(g)'
      BY <1>0, <1>1, <1>2, OthersWork DEF Inserting
    <2>2. ~unsure => granted = roleRows
      BY <1>0 DEF RolesFollow
    <2> QED
      BY <1>0, <1>2, <2>1, <2>2 DEF RolesFollow
  <1>6. MembershipTypeOK'
    BY <1>0 DEF MembershipTypeOK
  <1> QED
    BY <1>0, <1>3, <1>4, <1>5, <1>6, MemberParts DEF MemIInv

(* A step that leaves roles and invitations alone. *)
LEMMA StandingKeeps ==
    ASSUME MemIInv, NEW h \in Handlers, NEW r, WorkStep(h, r),
           ~Inserting(h), r.pc \in {"ready", "revoking", "suspending"},
           UNCHANGED <<week, roleRows, invitations, granted, unsure>>,
           signedIn' \in BOOLEAN, member' \in [status : MemberStatuses, by : 0 .. MaxInvitations],
           member'.by = member.by, Exists => Exists', late => late',
           \/ ~signedIn'
           \/ member'.status # Suspended
           \/ r.pc = "revoking"
           \/ late'
           \/ member' = member /\ signedIn' = signedIn /\ ~At(h, "revoking")
    PROVE  MemIInv'
  <1>1. WorkIsKnown' /\ AcceptedOnce' /\ RolesFollow' /\ SuspendedIsSignedOut'
    BY MemberParts, WorkKnownStays, AcceptedStays, RolesStay, SuspensionStays
  <1>2. MembershipTypeOK'
    BY MemberParts DEF MembershipTypeOK, MemberStatuses
  <1> QED
    BY <1>1, <1>2, MemberParts DEF MemIInv

LEMMA EnterKeeps ==
    ASSUME MemIInv, NEW h \in Handlers, Enter(h)
    PROVE  MemIInv'
  <1>0. /\ MembershipTypeOK /\ WorkStep(h, Ready) /\ Ready.pc = "ready"
        /\ ~Inserting(h) /\ ~At(h, "revoking") /\ (Exists' <=> Exists)
        /\ UNCHANGED <<week, member, roleRows, invitations, granted, unsure>>
    BY MemberParts, ReturnIsAStep, ReadyIsWork DEF Enter, Inserting, At, Exists
  <1>1. CASE work[h].seen = Active
    <2>1. signedIn' = TRUE /\ late' = (late \/ member.status # Active)
      BY <1>1 DEF Enter
    <2>2. late' \/ member'.status # Suspended
      BY <1>0, <2>1 DEF Active, Suspended
    <2> QED
      BY <1>0, <2>1, <2>2, StandingKeeps, MemberTypes
  <1>2. CASE work[h].seen # Active
    BY <1>0, <1>2, StandingKeeps, MemberTypes DEF Enter
  <1> QED
    BY <1>1, <1>2

LEMMA ReplaceRolesKeeps ==
    ASSUME MemIInv, NEW h \in Handlers, ReplaceRoles(h)
    PROVE  MemIInv'
  <1>0. /\ MembershipTypeOK /\ WorkIsKnown /\ work \in [Handlers -> WorkType] /\ RolesFollow
        /\ ~Inserting(h) /\ ~At(h, "revoking") /\ Exists /\ Exists'
        /\ UNCHANGED <<week, member, invitations, signedIn, late>>
    BY MemberParts DEF ReplaceRoles, Inserting, At, Exists
  <1>1. PICK roles \in Grants : roleRows' = roles /\ granted' = roles
    BY DEF ReplaceRoles, Replaced
  <1>2. PICK r : WorkStep(h, r) /\ r.pc = "revoking"
    BY <1>0, GoIsAStep DEF ReplaceRoles
  <1>3. WorkIsKnown' /\ AcceptedOnce' /\ SuspendedIsSignedOut'
    BY <1>0, <1>2, MemberParts, WorkKnownStays, AcceptedStays, SuspensionStays
  <1>4. RolesFollow'
    <2>1. \A g \in Handlers : Inserting(g)' <=> Inserting(g)
      BY <1>0, <1>2, OthersWork DEF Inserting
    <2>2. ~unsure' => \A g \in Handlers : ~Inserting(g)
      BY DEF ReplaceRoles, Inserting
    <2> QED
      BY <1>0, <1>1, <2>1, <2>2 DEF RolesFollow
  <1>5. MembershipTypeOK'
    BY <1>0, <1>1 DEF MembershipTypeOK
  <1> QED
    BY <1>0, <1>3, <1>4, <1>5, MemberParts DEF MemIInv

LEMMA StatusKeepsMember ==
    ASSUME MembershipTypeOK, Exists, NEW status \in {Active, Suspended, "locked"},
           member' = [member EXCEPT !.status = status]
    PROVE  /\ member' \in [status : MemberStatuses, by : 0 .. MaxInvitations]
           /\ member'.status = status /\ member'.by = member.by /\ Exists'
  <1>1. member \in [status : MemberStatuses, by : 0 .. MaxInvitations]
    BY MemberTypes
  <1>2. /\ member' \in [status : MemberStatuses, by : 0 .. MaxInvitations]
        /\ member'.status = status /\ member'.by = member.by
    BY <1>1 DEF MemberStatuses
  <1> QED
    BY <1>2 DEF Exists, Outside, Active, Suspended

LEMMA SetStatusKeeps ==
    ASSUME MemIInv, NEW h \in Handlers, SetStatus(h)
    PROVE  MemIInv'
  <1>0. /\ MembershipTypeOK /\ work \in [Handlers -> WorkType] /\ Exists
        /\ ~Inserting(h) /\ ~At(h, "revoking") /\ signedIn \in BOOLEAN
        /\ UNCHANGED <<week, roleRows, invitations, signedIn, granted, unsure, late>>
    BY MemberParts, MemberTypes DEF SetStatus, Inserting, At
  <1>1. PICK status \in {Active, Suspended, "locked"} :
           /\ member' = [member EXCEPT !.status = status]
           /\ Go(h, IF status = Suspended THEN "revoking" ELSE "ready")
    BY DEF SetStatus
  <1>2. PICK r : WorkStep(h, r) /\ r.pc = IF status = Suspended THEN "revoking" ELSE "ready"
    BY <1>0, <1>1, GoIsAStep
  <1> QED
    BY <1>0, <1>1, <1>2, StatusKeepsMember, StandingKeeps

LEMMA SuspendKeeps ==
    ASSUME MemIInv, NEW h \in Handlers, Suspend(h)
    PROVE  MemIInv'
  <1>0. /\ MembershipTypeOK /\ work \in [Handlers -> WorkType]
        /\ ~Inserting(h) /\ ~At(h, "revoking") /\ signedIn \in BOOLEAN
        /\ UNCHANGED <<week, roleRows, invitations, signedIn, granted, unsure, late>>
    BY MemberParts, MemberTypes DEF Suspend, Inserting, At
  <1>1. member' = [member EXCEPT !.status = Suspended]
    BY DEF Suspend
  <1>2. PICK r : WorkStep(h, r) /\ r.pc = "revoking"
    BY <1>0, GoIsAStep DEF Suspend
  <1>3. member' \in [status : MemberStatuses, by : 0 .. MaxInvitations] /\ member'.by = member.by
        /\ member'.status = Suspended
    BY <1>0, <1>1, MemberTypes DEF MemberStatuses
  <1>4. Exists'
    BY <1>3 DEF Exists, Outside, Suspended
  <1> QED
    BY <1>0, <1>2, <1>3, <1>4, StandingKeeps

LEMMA RevokingKeeps ==
    ASSUME MemIInv, NEW h \in Handlers, RevokeFirst(h) \/ RevokeOpen(h)
    PROVE  MemIInv'
  <1>0. /\ MembershipTypeOK /\ work \in [Handlers -> WorkType] /\ ~Inserting(h)
        /\ UNCHANGED <<week, member, roleRows, invitations, granted, unsure, late>>
        /\ signedIn' = FALSE /\ (Exists' <=> Exists)
        /\ member \in [status : MemberStatuses, by : 0 .. MaxInvitations]
    BY MemberParts, MemberTypes DEF RevokeFirst, RevokeOpen, SessionsLeft, Inserting, At, Exists
  <1>1. CASE RevokeOpen(h)
    <2>1. WorkStep(h, Ready) /\ Ready.pc = "ready"
      BY <1>0, <1>1, ReturnIsAStep, ReadyIsWork DEF RevokeOpen
    <2> QED
      BY <1>0, <2>1, StandingKeeps
  <1>2. CASE RevokeFirst(h)
    <2>1. WorkStep(h, work[h]) /\ work[h].pc = "ready"
      BY <1>0, <1>2 DEF RevokeFirst, At, WorkStep
    <2> QED
      BY <1>0, <2>1, StandingKeeps
  <1> QED
    BY <1>1, <1>2

LEMMA StopHandlerKeeps ==
    ASSUME MemIInv, NEW h \in Handlers, StopHandler(h)
    PROVE  MemIInv'
  <1>0. /\ MembershipTypeOK /\ WorkIsKnown /\ work \in [Handlers -> WorkType] /\ RolesFollow
        /\ WorkStep(h, Ready) /\ Ready.pc = "ready"
        /\ UNCHANGED <<week, member, roleRows, invitations, signedIn, granted>>
        /\ unsure' = (unsure \/ Inserting(h))
        /\ late' = (late \/ work[h].pc \in {"suspending", "revoking"})
    BY MemberParts, ReturnIsAStep, ReadyIsWork DEF StopHandler, Inserting
  <1>1. WorkIsKnown' /\ AcceptedOnce'
    BY <1>0, MemberParts, WorkKnownStays, AcceptedStays
  <1>2. SuspendedIsSignedOut'
    BY <1>0, MemberParts, SuspensionStays DEF At
  <1>3. RolesFollow'
    <2>1. ~Inserting(h)' /\ \A g \in Handlers \ {h} : /\ Inserting(g)' <=> Inserting(g)
                                                     /\ work'[g] = work[g]
      BY <1>0, OthersWork DEF Inserting
    <2>2. Exists' <=> Exists
      BY <1>0 DEF Exists
    <2>3. CASE Inserting(h)
      <3>1. \A g \in Handlers : ~Inserting(g)'
        BY <1>0, <2>1, <2>3 DEF RolesFollow
      <3> QED
        BY <1>0, <2>2, <2>3, <3>1 DEF RolesFollow
    <2>4. CASE ~Inserting(h)
      BY <1>0, <2>1, <2>2, <2>4 DEF RolesFollow
    <2> QED
      BY <2>3, <2>4
  <1>4. MembershipTypeOK'
    BY <1>0 DEF MembershipTypeOK
  <1> QED
    BY <1>0, <1>1, <1>2, <1>3, <1>4, MemberParts DEF MemIInv

LEMMA WeeksKeep ==
    ASSUME MemIInv, week' \in 0 .. LastWeek,
           UNCHANGED <<member, roleRows, invitations, work, signedIn, granted, unsure, late>>
    PROVE  MemIInv'
  <1>1. /\ MembershipTypeOK' /\ WorkIsKnown' /\ AcceptedOnce' /\ RolesFollow'
        /\ SuspendedIsSignedOut'
    BY MemberParts DEF MembershipTypeOK, WorkIsKnown, AcceptedOnce, Expires, RolesFollow,
                       Inserting, Exists, At, SuspendedIsSignedOut
  <1> QED
    BY <1>1, MemberParts DEF MemIInv

LEMMA MembershipStarts ==
    MembershipInit => MemIInv
  <1> SUFFICES ASSUME MembershipInit PROVE MemIInv
    OBVIOUS
  <1>1. MembershipTypeOK
    <2>1. week \in 0 .. LastWeek
      BY MembershipBounds DEF MembershipInit
    <2>2. member \in [status : {"none", Active, Suspended, "locked"}, by : 0 .. MaxInvitations]
      BY MembershipBounds DEF MembershipInit, Outside
    <2>3. DOMAIN invitations = {}
      BY DEF MembershipInit
    <2> QED
      BY <2>1, <2>2, <2>3 DEF MembershipInit, MembershipTypeOK
  <1>2. invitations = <<>> /\ invitations \in Seq(InvitationRow) /\ Len(invitations) <= MaxInvitations
    BY MembershipBounds DEF MembershipInit
  <1>3. work \in [Handlers -> WorkType] /\ \A h \in Handlers : work[h].pc = "ready"
    BY <1>1, ReadyIsWork DEF MembershipInit
  <1>4. WorkIsKnown /\ RolesFollow /\ AcceptedOnce /\ SuspendedIsSignedOut
    BY <1>2, <1>3 DEF WorkIsKnown, RolesFollow, AcceptedOnce, SuspendedIsSignedOut, At,
                      Inserting, MembershipInit
  <1> QED
    BY <1>1, <1>2, <1>4 DEF MemIInv

LEMMA MembershipSteps ==
    MemIInv /\ [MembershipNext]_memberVars => MemIInv'
  <1> SUFFICES ASSUME MemIInv, [MembershipNext]_memberVars PROVE MemIInv'
    OBVIOUS
  <1>1. CASE WeeksPass
    <2>1. week' \in 0 .. LastWeek
      BY <1>1, MemberParts, MemberTypes DEF WeeksPass
    <2> QED
      BY <1>1, <2>1, WeeksKeep DEF WeeksPass
  <1>2. ASSUME NEW h \in Handlers,
               \/ CheckInvitation(h) \/ CreateInvitation(h) \/ ReadInvitation(h) \/ Accept(h)
               \/ CheckUser(h) \/ SignOn(h) \/ InsertUser(h) \/ InsertRole(h) \/ RolesInserted(h)
               \/ Enter(h) \/ ReplaceRoles(h) \/ RevokeFirst(h) \/ SetStatus(h)
               \/ Decide(h) \/ Suspend(h) \/ RevokeOpen(h) \/ StopHandler(h)
        PROVE  MemIInv'
    BY <1>2, LookingKeeps, CreateInvitationKeeps, AcceptKeeps, InsertUserKeeps, InsertRoleKeeps,
       RolesInsertedKeeps, EnterKeeps, ReplaceRolesKeeps, RevokingKeeps, SetStatusKeeps,
       SuspendKeeps, StopHandlerKeeps
  <1>3. CASE UNCHANGED memberVars
    BY <1>3, WeeksKeep, MemberParts DEF memberVars, MembershipTypeOK
  <1> QED
    BY <1>1, <1>2, <1>3 DEF MembershipNext

(* One invitation at most makes the member, before it expires; the member  *)
(* has the roles last decided on, and once put out it is signed out: for   *)
(* any number of invocations, any sets of roles, and any pauses.           *)
THEOREM MembersAreAsDecided ==
    MembershipSpec => []MembershipInv
  <1>1. MemIInv => MembershipInv
    <2> SUFFICES ASSUME MemIInv PROVE MembershipInv
      OBVIOUS
    <2>1. RolesAreAsDecided
      BY MemberParts DEF RolesFollow, RolesAreAsDecided, Inserting
    <2> QED
      BY <2>1, MemberParts DEF MembershipInv
  <1> QED
    BY <1>1, MembershipStarts, MembershipSteps, PTL DEF MembershipSpec

-----------------------------------------------------------------------------
(*************************************************************************)
(* PoliciesAreObeyed, for any tables, situations, askers and durations.  *)
(*                                                                       *)
(* Two things make it hold.  The first of the rules that apply, in the   *)
(* order of the query, is a denial exactly if no rule that allows stands *)
(* over one that denies (DenialsDecide).  And rules are old only for so  *)
(* long: who reads them before an edit came before it, so an entry of    *)
(* such rules is gone RulesTtl + JudgeLatency after the edit, and whom   *)
(* it answered came before that (RulesAreRecent, AnswersFitTheRules).    *)
(*************************************************************************)

(* A set of numbers that is not empty has a least. *)
LEMMA LeastNatural ==
    ASSUME NEW T \in SUBSET Nat, NEW t \in T
    PROVE  \E x \in T : \A y \in T : x <= y
<1>1. PICK R : R = OpToRel(<, Nat)
  BY Zenon
<1>2. IsWellFoundedOn(R, Nat)
  BY <1>1, NatLessThanWellFounded, Zenon
<1>3. PICK x \in T : \A y \in T : ~ (<<y, x>> \in R)
  BY <1>2, WFMin
<1>4. ASSUME NEW y \in T, y < x PROVE FALSE
  <2>1. <<y, x>> \in R
    BY <1>1, <1>4, Zenon DEF OpToRel
  <2> QED
    BY <1>3, <2>1
<1> QED
  BY <1>4

(* Of the rules that apply, one has the highest priority. *)
LEMMA HighestRule ==
    ASSUME NEW rules \in Tables, NEW q, NEW r \in rules, Applies(r, q)
    PROVE  \E m \in rules : /\ Applies(m, q)
                            /\ \A s \in rules : Applies(s, q) => s.priority <= m.priority
<1>1. \A s \in rules : s.priority \in Nat /\ s.priority <= 1000
  BY TablesAssumption DEF Priorities
<1> DEFINE App == {s \in rules : Applies(s, q)}
           T == {1000 - s.priority : s \in App}
<1>2. T \in SUBSET Nat
  BY <1>1
<1>3. 1000 - r.priority \in T
  OBVIOUS
<1> HIDE DEF T
<1>4. PICK x \in T : \A y \in T : x <= y
  BY <1>2, <1>3, LeastNatural
<1> USE DEF T
<1>5. PICK m \in App : x = 1000 - m.priority
  OBVIOUS
<1>6. ASSUME NEW s \in rules, Applies(s, q) PROVE s.priority <= m.priority
  <2>1. 1000 - s.priority \in T
    BY <1>6
  <2>2. 1000 - m.priority <= 1000 - s.priority
    BY <2>1, <1>4, <1>5
  <2> QED
    BY <2>2, <1>1, <1>5
<1> QED
  BY <1>5, <1>6

(* What the first rule says: a request is refused exactly if one rule that *)
(* denies it has no rule over it that allows it.                           *)
DeniedBy(rules, q) ==
    \E r \in rules :
        /\ Applies(r, q) /\ r.effect = "deny"
        /\ \A s \in rules : Applies(s, q) /\ s.effect = "allow" => s.priority < r.priority

LEMMA DenialsDecide ==
    ASSUME NEW rules \in Tables, NEW q
    PROVE  Decision(rules, q) = "deny" <=> DeniedBy(rules, q)
<1>1. \A s \in rules : s.priority \in Int /\ s.effect \in {"allow", "deny"}
  BY TablesAssumption DEF Priorities
<1>2. ASSUME Decision(rules, q) = "deny" PROVE DeniedBy(rules, q)
  <2>1. PICK r \in rules : /\ Applies(r, q) /\ r.effect = "deny"
                           /\ \A s \in rules : Applies(s, q) => ~Before(s, r)
    BY <1>2 DEF Decision
  <2>2. ASSUME NEW s \in rules, Applies(s, q), s.effect = "allow"
        PROVE  s.priority < r.priority
    BY <2>1, <2>2, <1>1 DEF Before
  <2> QED
    BY <2>1, <2>2 DEF DeniedBy
<1>3. ASSUME DeniedBy(rules, q) PROVE Decision(rules, q) = "deny"
  <2>1. PICK r \in rules :
          /\ Applies(r, q) /\ r.effect = "deny"
          /\ \A s \in rules : Applies(s, q) /\ s.effect = "allow" => s.priority < r.priority
    BY <1>3 DEF DeniedBy
  <2>2. PICK m \in rules : /\ Applies(m, q)
                           /\ \A s \in rules : Applies(s, q) => s.priority <= m.priority
    BY <2>1, HighestRule
  <2>3. r.priority <= m.priority
    BY <2>1, <2>2
  <2>4. m.effect = "deny"
    BY <2>1, <2>2, <2>3, <1>1
  <2>5. ASSUME NEW s \in rules, Applies(s, q) PROVE ~Before(s, m)
    BY <2>1, <2>2, <2>3, <2>5, <1>1 DEF Before
  <2> QED
    BY <2>2, <2>4, <2>5 DEF Decision
<1> QED
  BY <1>2, <1>3

(* An asker as it is in any behaviour. *)
AskerSet ==
    [pc : {"idle", "loading", "filling", "passed", "allowed", "refused"},
     kind : {"none", "download", "read"}, step : {"none", "handler", "route"},
     since : 0 .. LastPolicyTick, read : Tables \cup {{}}, open : BOOLEAN]

(* No request is older than JudgeLatency, none is of no judgement. *)
AskersAreYoung ==
    \A a \in Askers : asker[a].pc # "idle" =>
        /\ asker[a].since <= policyTime /\ policyTime <= asker[a].since + JudgeLatency
        /\ asker[a].step # "none"
        /\ asker[a].pc = "passed" => asker[a].step = "handler"

(* Rules a request holds were in force since it came, and those of the     *)
(* cache since a request before it was filled.                             *)
RulesAreRecent ==
    /\ ruleCache.ts <= policyTime
    /\ ruleCache.ts >= 0 => ruleCache.rules \in RulesSince(ruleCache.ts - JudgeLatency)
    /\ \A a \in Askers : asker[a].pc = "filling" => asker[a].read \in RulesSince(asker[a].since)

(* The rules that may answer a request. *)
RulesFor(k) == RulesSince(k.since + 1 - RulesTtl - JudgeLatency)

AllowedBy(rules, q) == Decision(rules, q) # "deny"

(* What such rules have said of a request. *)
FitsTheRules(k) ==
    /\ ~k.open /\ (k.pc = "passed" \/ (k.pc # "idle" /\ k.step = "route")) =>
          \E rules \in RulesFor(k) : AllowedBy(rules, HandlerAsks(k.kind))
    /\ ~k.open /\ k.pc = "allowed" => \E rules \in RulesFor(k) : AllowedBy(rules, Asks(k))
    /\ k.pc = "refused" => \E rules \in RulesFor(k) : ~AllowedBy(rules, Asks(k))

AnswersFitTheRules == \A a \in Askers : FitsTheRules(asker[a])

PolicyIInv ==
    /\ PolicyTypeOK
    /\ AskersAreYoung
    /\ RulesAreRecent
    /\ AnswersFitTheRules

LEMMA PolicyNumbers ==
    /\ {RulesTtl, JudgeLatency, LastPolicyTick} \subseteq Nat \ {0}
    /\ MaxChanges \in Nat
  BY PolicyAssumption

(* A longer look back sees no fewer rules. *)
LEMMA EarlierSeesMore ==
    ASSUME PolicyTypeOK, NEW t \in Int, NEW u \in Int, u <= t
    PROVE  RulesSince(t) \subseteq RulesSince(u)
<1>1. \A p \in past : p.until \in Int
  BY PolicyNumbers DEF PolicyTypeOK
<1> QED
  BY <1>1 DEF RulesSince

LEMMA RulesAreTables == ASSUME PolicyTypeOK, NEW t PROVE RulesSince(t) \subseteq Tables
  BY DEF PolicyTypeOK, RulesSince

LEMMA PolicyBegins == PolicyInit => PolicyIInv
<1> SUFFICES ASSUME PolicyInit PROVE PolicyIInv
  OBVIOUS
<1>1. NotAsked \in AskerSet /\ NotAsked.pc = "idle"
  BY PolicyNumbers DEF NotAsked, AskerSet
<1>2. \A a \in Askers : asker[a] = NotAsked
  BY DEF PolicyInit
<1>3. PolicyTypeOK
  BY <1>1, PolicyNumbers DEF PolicyInit, PolicyTypeOK, AskerSet, Empty
<1>4. AskersAreYoung
  BY <1>1, <1>2 DEF AskersAreYoung
<1>5. RulesAreRecent
  BY <1>1, <1>2 DEF RulesAreRecent, PolicyInit, Empty
<1>6. AnswersFitTheRules
  BY <1>1, <1>2 DEF AnswersFitTheRules, FitsTheRules
<1> QED
  BY <1>3, <1>4, <1>5, <1>6 DEF PolicyIInv

(* The request after its decision: what has not changed of it. *)
LEMMA DecisionTaken ==
    ASSUME NEW k \in AskerSet, k.step # "none", NEW rules, NEW j, j = Decided(k, rules)
    PROVE  /\ j \in AskerSet
           /\ j.kind = k.kind /\ j.step = k.step /\ j.since = k.since
           /\ j.open = k.open /\ j.read = k.read
           /\ j.pc \in {"refused", "passed", "allowed"}
           /\ j.pc = "refused" <=> Decision(rules, Asks(k)) = "deny"
           /\ j.pc = "passed" => k.step = "handler"
           /\ Asks(j) = Asks(k)
<1>1. \E p \in {"refused", "passed", "allowed"} :
         /\ j = [k EXCEPT !.pc = p]
         /\ p = "refused" <=> Decision(rules, Asks(k)) = "deny"
         /\ p = "passed" => k.step = "handler"
  BY DEF Decided
<1>2. PICK p \in {"refused", "passed", "allowed"} :
         /\ j = [k EXCEPT !.pc = p]
         /\ p = "refused" <=> Decision(rules, Asks(k)) = "deny"
         /\ p = "passed" => k.step = "handler"
  BY <1>1
<1>3. /\ j \in AskerSet /\ j.pc = p
      /\ j.kind = k.kind /\ j.step = k.step /\ j.since = k.since
      /\ j.open = k.open /\ j.read = k.read
  BY <1>2 DEF AskerSet
<1>4. Asks(j) = Asks(k)
  BY <1>3 DEF Asks
<1> QED
  BY <1>2, <1>3, <1>4

(* An answer by rules that may answer fits, and so does one without rules. *)
LEMMA AnswersFit ==
    ASSUME NEW k \in AskerSet, k.step # "none", NEW rules,
           NEW j, j = Decided(k, rules),
           ~k.open /\ k.step = "route" =>
               \E r \in RulesFor(k) : AllowedBy(r, HandlerAsks(k.kind)),
           rules \in RulesFor(k) \/ (k.open /\ rules = {})
    PROVE  FitsTheRules(j)
<1>1. /\ j.kind = k.kind /\ j.step = k.step /\ j.since = k.since /\ j.open = k.open
      /\ j.pc \in {"refused", "passed", "allowed"}
      /\ j.pc = "refused" <=> Decision(rules, Asks(k)) = "deny"
      /\ j.pc = "passed" => k.step = "handler"
      /\ Asks(j) = Asks(k)
  BY DecisionTaken
<1>2. RulesFor(j) = RulesFor(k)
  BY <1>1 DEF RulesFor
<1>3. k.step = "handler" => Asks(k) = HandlerAsks(k.kind)
  BY DEF Asks
<1>4. CASE rules \in RulesFor(k)
  BY <1>1, <1>2, <1>3, <1>4 DEF FitsTheRules, AllowedBy
<1>5. CASE k.open /\ rules = {}
  <2>1. j.pc # "refused" /\ j.open
    BY <1>1, <1>5 DEF Decision
  <2> QED
    BY <2>1 DEF FitsTheRules
<1> QED
  BY <1>4, <1>5

(* What a step of one asker has to keep. *)
KeptBy(k) ==
    /\ k \in AskerSet
    /\ k.pc # "idle" =>
          /\ k.since <= policyTime /\ policyTime <= k.since + JudgeLatency
          /\ k.step # "none"
          /\ k.pc = "passed" => k.step = "handler"
    /\ k.pc = "filling" => k.read \in RulesSince(k.since)
    /\ FitsTheRules(k)

(* What the cache has to be. *)
CacheIsRecent(cache) ==
    /\ cache.rules \in Tables \cup {{}} /\ cache.ts \in -1 .. LastPolicyTick
    /\ cache.ts <= policyTime
    /\ cache.ts >= 0 => cache.rules \in RulesSince(cache.ts - JudgeLatency)

LEMMA AskerIsKept == PolicyIInv => \A a \in Askers : KeptBy(asker[a])
  BY DEF PolicyIInv, PolicyTypeOK, AskersAreYoung, RulesAreRecent, AnswersFitTheRules,
         KeptBy, AskerSet

(* Nothing but requests and the cache moves: rules say what they said. *)
LEMMA RulesStand ==
    ASSUME UNCHANGED <<policies, situation, policyTime, past>>
    PROVE  /\ \A t : RulesSince(t)' = RulesSince(t)
           /\ \A k : FitsTheRules(k)' <=> FitsTheRules(k)
<1>1. \A t : RulesSince(t)' = RulesSince(t)
  BY DEF RulesSince
<1>2. \A k : RulesFor(k)' = RulesFor(k)
  BY DEF RulesFor, RulesSince
<1>3. \A k : Asks(k)' = Asks(k) /\ HandlerAsks(k.kind)' = HandlerAsks(k.kind)
  BY DEF Asks, HandlerAsks, RouteAsks
<1> QED
  BY <1>1, <1>2, <1>3 DEF FitsTheRules

LEMMA OneAskerMoves ==
    ASSUME PolicyIInv, NEW a \in Askers, NEW k, KeptBy(k),
           asker' = [asker EXCEPT ![a] = k], CacheIsRecent(ruleCache'),
           UNCHANGED <<policies, situation, policyTime, changes, past, emptied>>
    PROVE  PolicyIInv'
<1>1. \A b \in Askers : asker'[b] = IF b = a THEN k ELSE asker[b]
  BY DEF PolicyIInv, PolicyTypeOK
<1>2. \A b \in Askers : KeptBy(asker'[b])
  BY <1>1, AskerIsKept
<1>3. PolicyTypeOK'
  BY <1>2 DEF PolicyIInv, PolicyTypeOK, KeptBy, AskerSet, CacheIsRecent
<1>4. AskersAreYoung'
  BY <1>2 DEF AskersAreYoung, KeptBy
<1>5. RulesAreRecent'
  <2>1. \A t : RulesSince(t)' = RulesSince(t)
    BY RulesStand
  <2>2. \A b \in Askers : asker'[b].pc = "filling" => asker'[b].read \in RulesSince(asker'[b].since)
    BY <1>2 DEF KeptBy
  <2> QED
    BY <2>1, <2>2 DEF RulesAreRecent, CacheIsRecent
<1>6. AnswersFitTheRules'
  <2>1. \A b \in Askers : FitsTheRules(asker'[b])
    BY <1>2 DEF KeptBy
  <2>2. \A m : FitsTheRules(m)' <=> FitsTheRules(m)
    BY RulesStand
  <2> QED
    BY <2>1, <2>2 DEF AnswersFitTheRules
<1> QED
  BY <1>3, <1>4, <1>5, <1>6 DEF PolicyIInv

LEMMA CacheStays ==
    PolicyIInv /\ UNCHANGED ruleCache => CacheIsRecent(ruleCache) /\ CacheIsRecent(ruleCache')
  BY DEF PolicyIInv, PolicyTypeOK, RulesAreRecent, CacheIsRecent

(* The cached rules are among those that may answer. *)
LEMMA CacheAnswers ==
    ASSUME PolicyIInv, CachedRules, NEW k, k.since \in Nat, k.since <= policyTime
    PROVE  ruleCache.rules \in RulesFor(k)
<1>1. ruleCache.ts \in Int /\ policyTime \in Int /\ PolicyTypeOK
  BY PolicyNumbers DEF PolicyIInv, PolicyTypeOK
<1>2. ruleCache.rules \in RulesSince(ruleCache.ts - JudgeLatency)
  BY DEF PolicyIInv, RulesAreRecent, CachedRules
<1>3. k.since + 1 - RulesTtl - JudgeLatency <= ruleCache.ts - JudgeLatency
  BY <1>1, PolicyNumbers DEF CachedRules
<1>4. /\ k.since + 1 - RulesTtl - JudgeLatency \in Int
      /\ ruleCache.ts - JudgeLatency \in Int
  BY <1>1, PolicyNumbers
<1> QED
  BY <1>1, <1>2, <1>3, <1>4, EarlierSeesMore DEF RulesFor

(* Asking with the cache or without: the request is as it has to be. *)
LEMMA AskedIsKept ==
    ASSUME PolicyIInv, NEW k \in AskerSet, k.step # "none", k.since <= policyTime,
           policyTime <= k.since + JudgeLatency,
           ~k.open /\ k.step = "route" =>
               \E r \in RulesFor(k) : AllowedBy(r, HandlerAsks(k.kind)),
           NEW j, j = Asked(k)
    PROVE  KeptBy(j)
<1>0. k.since \in Nat
  BY DEF AskerSet
<1>1. CASE CachedRules
  <2>1. j = Decided(k, ruleCache.rules)
    BY <1>1 DEF Asked
  <2>2. ruleCache.rules \in RulesFor(k)
    BY <1>0, <1>1, CacheAnswers
  <2>3. FitsTheRules(j)
    BY <2>1, <2>2, AnswersFit
  <2>4. /\ j \in AskerSet /\ j.since = k.since /\ j.step = k.step
        /\ j.pc \in {"refused", "passed", "allowed"}
        /\ j.pc = "passed" => k.step = "handler"
    BY <2>1, DecisionTaken
  <2> QED
    BY <2>3, <2>4 DEF KeptBy
<1>2. CASE ~CachedRules
  <2>1. j = [k EXCEPT !.pc = "loading"]
    BY <1>2 DEF Asked
  <2>2. /\ j \in AskerSet /\ j.pc = "loading" /\ j.kind = k.kind /\ j.step = k.step
        /\ j.since = k.since /\ j.open = k.open
    BY <2>1 DEF AskerSet
  <2>3. RulesFor(j) = RulesFor(k)
    BY <2>2 DEF RulesFor
  <2>4. FitsTheRules(j)
    BY <2>2, <2>3 DEF FitsTheRules
  <2> QED
    BY <2>2, <2>4 DEF KeptBy
<1> QED
  BY <1>1, <1>2

LEMMA AskKeeps ==
    ASSUME PolicyIInv, NEW a \in Askers, Ask(a)
    PROVE  PolicyIInv'
<1>1. PICK kind \in {"download", "read"} :
        asker' = [asker EXCEPT ![a] =
           Asked([NotAsked EXCEPT !.kind = kind, !.step = "handler", !.since = policyTime])]
  BY DEF Ask
<1>2. PICK k : k = [NotAsked EXCEPT !.kind = kind, !.step = "handler", !.since = policyTime]
  OBVIOUS
<1>3. policyTime \in 0 .. LastPolicyTick
  BY DEF PolicyIInv, PolicyTypeOK
<1>4. k \in AskerSet /\ k.step = "handler" /\ k.since = policyTime
  BY <1>2, <1>3 DEF NotAsked, AskerSet
<1>5. PICK j : j = Asked(k)
  OBVIOUS
<1>6. KeptBy(j)
  BY <1>3, <1>4, <1>5, AskedIsKept, PolicyNumbers
<1>7. asker' = [asker EXCEPT ![a] = j]
  BY <1>1, <1>2, <1>5, Zenon
<1> QED
  BY <1>6, <1>7, OneAskerMoves, CacheStays DEF Ask

LEMMA AskAgainKeeps ==
    ASSUME PolicyIInv, NEW a \in Askers, AskAgain(a)
    PROVE  PolicyIInv'
<1>1. PICK m : m = asker[a]
  OBVIOUS
<1>2. KeptBy(m) /\ m.pc = "passed"
  BY <1>1, AskerIsKept DEF AskAgain
<1>3. PICK k : k = [m EXCEPT !.step = "route"]
  OBVIOUS
<1>4. /\ k \in AskerSet /\ k.step = "route" /\ k.since = m.since /\ k.open = m.open
      /\ k.kind = m.kind
  BY <1>2, <1>3 DEF KeptBy, AskerSet
<1>5. RulesFor(k) = RulesFor(m)
  BY <1>4 DEF RulesFor
<1>6. ~k.open => \E r \in RulesFor(k) : AllowedBy(r, HandlerAsks(k.kind))
  BY <1>2, <1>4, <1>5 DEF KeptBy, FitsTheRules
<1>7. PICK j : j = Asked(k)
  OBVIOUS
<1>8. KeptBy(j)
  BY <1>2, <1>4, <1>6, <1>7, AskedIsKept DEF KeptBy
<1>9. asker' = [asker EXCEPT ![a] = j]
  BY <1>1, <1>3, <1>7 DEF AskAgain
<1> QED
  BY <1>8, <1>9, OneAskerMoves, CacheStays DEF AskAgain

LEMMA LoadRulesKeeps ==
    ASSUME PolicyIInv, NEW a \in Askers, LoadRules(a)
    PROVE  PolicyIInv'
<1>1. PICK m : m = asker[a]
  OBVIOUS
<1>2. KeptBy(m) /\ m.pc = "loading" /\ policies \in Tables
  BY <1>1, AskerIsKept DEF LoadRules, PolicyIInv, PolicyTypeOK
<1>3. CASE asker' = [asker EXCEPT ![a].pc = "filling", ![a].read = policies]
  <2>1. PICK k : k = [m EXCEPT !.pc = "filling", !.read = policies]
    OBVIOUS
  <2>2. /\ k \in AskerSet /\ k.pc = "filling" /\ k.read = policies
        /\ k.step = m.step /\ k.since = m.since /\ k.open = m.open /\ k.kind = m.kind
    BY <1>2, <2>1 DEF KeptBy, AskerSet
  <2>3. policies \in RulesSince(k.since) /\ RulesFor(k) = RulesFor(m)
    BY <2>2 DEF RulesSince, RulesFor
  <2>4. KeptBy(k)
    BY <1>2, <2>2, <2>3 DEF KeptBy, FitsTheRules
  <2>5. asker' = [asker EXCEPT ![a] = k]
    BY <1>1, <1>3, <2>1
  <2> QED
    BY <2>4, <2>5, OneAskerMoves, CacheStays DEF LoadRules
<1>4. CASE asker' = [asker EXCEPT ![a] = Decided([@ EXCEPT !.open = TRUE], {})]
  <2>1. PICK k : k = [m EXCEPT !.open = TRUE]
    OBVIOUS
  <2>2. /\ k \in AskerSet /\ k.open /\ k.step = m.step /\ k.since = m.since /\ k.step # "none"
    BY <1>2, <2>1 DEF KeptBy, AskerSet
  <2>3. PICK j : j = Decided(k, {})
    OBVIOUS
  <2>4. /\ j \in AskerSet /\ j.open /\ j.since = k.since /\ j.step = k.step
        /\ j.pc \in {"refused", "passed", "allowed"}
        /\ j.pc = "passed" => k.step = "handler"
    BY <2>2, <2>3, DecisionTaken
  <2>5. KeptBy(j)
    <3>1. FitsTheRules(j)
      BY <2>2, <2>3, AnswersFit
    <3> QED
      BY <1>2, <2>2, <2>4, <3>1 DEF KeptBy
  <2>6. asker' = [asker EXCEPT ![a] = j]
    BY <1>1, <1>4, <2>1, <2>3
  <2> QED
    BY <2>5, <2>6, OneAskerMoves, CacheStays DEF LoadRules
<1> QED
  BY <1>3, <1>4 DEF LoadRules

LEMMA FillRulesKeeps ==
    ASSUME PolicyIInv, NEW a \in Askers, FillRules(a)
    PROVE  PolicyIInv'
<1>1. PICK m : m = asker[a]
  OBVIOUS
<1>2. KeptBy(m) /\ m.pc = "filling"
  BY <1>1, AskerIsKept DEF FillRules
<1>3. policyTime \in 0 .. LastPolicyTick /\ PolicyTypeOK
  BY DEF PolicyIInv, PolicyTypeOK
<1>4. PICK k : k = [m EXCEPT !.read = {}]
  OBVIOUS
<1>5. /\ k \in AskerSet /\ k.step = m.step /\ k.since = m.since /\ k.open = m.open
      /\ k.kind = m.kind /\ k.step # "none" /\ k.since \in Nat /\ m.read \in Tables \cup {{}}
  BY <1>2, <1>4 DEF KeptBy, AskerSet
<1>6. RulesFor(k) = RulesFor(m)
  BY <1>5 DEF RulesFor
<1>7. m.read \in RulesFor(k)
  <2>1. m.read \in RulesSince(k.since)
    BY <1>2, <1>5 DEF KeptBy
  <2>2. /\ k.since \in Int /\ k.since + 1 - RulesTtl - JudgeLatency \in Int
        /\ k.since + 1 - RulesTtl - JudgeLatency <= k.since
    BY <1>5, PolicyNumbers
  <2> QED
    BY <1>3, <2>1, <2>2, EarlierSeesMore DEF RulesFor
<1>8. ~k.open /\ k.step = "route" =>
          \E r \in RulesFor(k) : AllowedBy(r, HandlerAsks(k.kind))
  BY <1>2, <1>5, <1>6 DEF KeptBy, FitsTheRules
<1>9. PICK j : j = Decided(k, m.read)
  OBVIOUS
<1>10. FitsTheRules(j)
  BY <1>5, <1>7, <1>8, <1>9, AnswersFit
<1>11. /\ j \in AskerSet /\ j.since = k.since /\ j.step = k.step
       /\ j.pc \in {"refused", "passed", "allowed"}
       /\ j.pc = "passed" => k.step = "handler"
  BY <1>5, <1>9, DecisionTaken
<1>12. KeptBy(j)
  BY <1>2, <1>5, <1>10, <1>11 DEF KeptBy
<1>13. asker' = [asker EXCEPT ![a] = j]
  BY <1>1, <1>4, <1>9 DEF FillRules
<1>14. ruleCache'.rules = m.read /\ ruleCache'.ts = policyTime
  BY <1>1 DEF FillRules
<1>15. CacheIsRecent(ruleCache')
  <2>1. m.read \in RulesSince(m.since)
    BY <1>2 DEF KeptBy
  <2>2. /\ m.since \in Int /\ policyTime - JudgeLatency \in Int
        /\ policyTime - JudgeLatency <= m.since
    BY <1>2, <1>3, <1>5, PolicyNumbers DEF KeptBy
  <2>3. m.read \in RulesSince(policyTime - JudgeLatency)
    BY <1>3, <2>1, <2>2, EarlierSeesMore
  <2> QED
    BY <1>3, <1>5, <1>14, <2>3, PolicyNumbers DEF CacheIsRecent
<1> QED
  BY <1>12, <1>13, <1>15, OneAskerMoves DEF FillRules

(* An edit adds to the rules that were in force at any time before. *)
LEMMA EditPoliciesKeeps ==
    ASSUME PolicyIInv, EditPolicies
    PROVE  PolicyIInv'
<1>1. /\ policies' \in Tables /\ changes' = changes + 1
      /\ past' = past \cup {[rules |-> policies, until |-> policyTime]}
      /\ changes < MaxChanges /\ emptied' \in BOOLEAN
      /\ UNCHANGED <<situation, ruleCache, asker, policyTime>>
  BY DEF EditPolicies, PolicyIInv, PolicyTypeOK
<1>2. /\ policyTime \in 0 .. LastPolicyTick /\ changes \in 0 .. MaxChanges
      /\ changes' \in 0 .. MaxChanges
  BY <1>1, PolicyNumbers DEF PolicyIInv, PolicyTypeOK
<1>3. PolicyTypeOK'
  BY <1>1, <1>2 DEF PolicyIInv, PolicyTypeOK
<1>4. AskersAreYoung'
  BY <1>1 DEF PolicyIInv, AskersAreYoung
<1>5. \A t \in Int : t <= policyTime => RulesSince(t) \subseteq RulesSince(t)'
  BY <1>1, <1>2 DEF RulesSince
<1>6. RulesAreRecent'
  <2>1. ruleCache.ts \in Int /\ ruleCache.ts <= policyTime
    BY PolicyNumbers DEF PolicyIInv, PolicyTypeOK, RulesAreRecent
  <2>2. ruleCache.ts >= 0 => ruleCache.rules \in RulesSince(ruleCache.ts - JudgeLatency)'
    <3>1. PICK t \in Int : t = ruleCache.ts - JudgeLatency
      BY <2>1, PolicyNumbers
    <3>2. RulesSince(t) \subseteq RulesSince(t)'
      BY <1>2, <1>5, <2>1, <3>1, PolicyNumbers
    <3>3. RulesSince(ruleCache.ts - JudgeLatency)' = RulesSince(t)'
      BY <1>1, <3>1
    <3> QED
      BY <3>1, <3>2, <3>3 DEF PolicyIInv, RulesAreRecent
  <2>3. ASSUME NEW a \in Askers, asker[a].pc = "filling"
        PROVE  asker[a].read \in RulesSince(asker[a].since)'
    <3>1. PICK t \in Int : t = asker[a].since /\ t <= policyTime
      BY <2>3, PolicyNumbers DEF PolicyIInv, PolicyTypeOK, AskersAreYoung
    <3>2. RulesSince(t) \subseteq RulesSince(t)'
      BY <1>5, <3>1
    <3>3. RulesSince(asker[a].since)' = RulesSince(t)'
      BY <1>1, <3>1
    <3> QED
      BY <2>3, <3>1, <3>2, <3>3 DEF PolicyIInv, RulesAreRecent
  <2> QED
    BY <1>1, <2>1, <2>2, <2>3 DEF RulesAreRecent
<1>7. ASSUME NEW b \in Askers PROVE FitsTheRules(asker[b])'
  <2>1. CASE asker[b].pc = "idle"
    BY <1>1, <2>1 DEF FitsTheRules
  <2>2. CASE asker[b].pc # "idle"
    <3>1. asker[b].since <= policyTime /\ asker[b].since \in Int
      BY <2>2, PolicyNumbers DEF PolicyIInv, PolicyTypeOK, AskersAreYoung
    <3>2. /\ asker[b].since + 1 - RulesTtl - JudgeLatency \in Int
          /\ asker[b].since + 1 - RulesTtl - JudgeLatency <= policyTime
      BY <1>2, <3>1, PolicyNumbers
    <3>3. RulesFor(asker[b]) \subseteq RulesFor(asker[b])'
      BY <1>1, <1>5, <3>2 DEF RulesFor
    <3>4. /\ Asks(asker[b])' = Asks(asker[b])
          /\ HandlerAsks(asker[b].kind)' = HandlerAsks(asker[b].kind)
      BY <1>1 DEF Asks, HandlerAsks, RouteAsks
    <3>5. FitsTheRules(asker[b])
      BY DEF PolicyIInv, AnswersFitTheRules
    <3> QED
      BY <1>1, <3>3, <3>4, <3>5 DEF FitsTheRules
  <2> QED
    BY <2>1, <2>2
<1> QED
  BY <1>3, <1>4, <1>6, <1>7 DEF PolicyIInv, AnswersFitTheRules

LEMMA InvalidateKeeps ==
    ASSUME PolicyIInv, Invalidate
    PROVE  PolicyIInv'
<1>1. ruleCache'.ts = -1 /\ ruleCache'.rules = {}
  BY DEF Invalidate, Empty
<1>2. PolicyTypeOK'
  BY <1>1, PolicyNumbers DEF PolicyIInv, PolicyTypeOK, Invalidate
<1>3. /\ \A t : RulesSince(t)' = RulesSince(t)
      /\ \A k : FitsTheRules(k)' <=> FitsTheRules(k)
  BY RulesStand DEF Invalidate
<1>4. AskersAreYoung' /\ RulesAreRecent'
  BY <1>1, <1>3 DEF PolicyIInv, PolicyTypeOK, AskersAreYoung, RulesAreRecent, Invalidate
<1>5. AnswersFitTheRules'
  BY <1>3 DEF PolicyIInv, AnswersFitTheRules, Invalidate
<1> QED
  BY <1>2, <1>4, <1>5 DEF PolicyIInv

(* Time passes only while nobody is late; who is answered is gone. *)
LEMMA PolicyTickKeeps ==
    ASSUME PolicyIInv, PolicyTick
    PROVE  PolicyIInv'
<1>1. /\ policyTime \in 0 .. LastPolicyTick /\ policyTime' = policyTime + 1
      /\ policyTime' \in 0 .. LastPolicyTick
      /\ UNCHANGED <<policies, situation, ruleCache, changes, past, emptied>>
  BY PolicyNumbers DEF PolicyIInv, PolicyTypeOK, PolicyTick
<1>2. NotAsked \in AskerSet /\ NotAsked.pc = "idle"
  BY PolicyNumbers DEF NotAsked, AskerSet
<1>3. \A b \in Askers : asker'[b] = IF Asking(b) THEN asker[b] ELSE NotAsked
  BY DEF PolicyTick
<1>4. ASSUME NEW b \in Askers
      PROVE  \/ asker'[b].pc = "idle"
             \/ asker'[b] = asker[b] /\ policyTime < asker[b].since + JudgeLatency
  BY <1>2, <1>3 DEF PolicyTick
<1>5. asker \in [Askers -> AskerSet] /\ asker' \in [Askers -> AskerSet]
  <2>1. asker \in [Askers -> AskerSet]
    BY DEF PolicyIInv, PolicyTypeOK, AskerSet
  <2> QED
    BY <2>1, <1>2 DEF PolicyTick
<1>6. PolicyTypeOK'
  BY <1>1, <1>5 DEF PolicyIInv, PolicyTypeOK, AskerSet
<1>7. AskersAreYoung'
  <2> SUFFICES ASSUME NEW b \in Askers, asker'[b].pc # "idle"
               PROVE  /\ asker'[b].since <= policyTime'
                      /\ policyTime' <= asker'[b].since + JudgeLatency
                      /\ asker'[b].step # "none"
                      /\ asker'[b].pc = "passed" => asker'[b].step = "handler"
    BY DEF AskersAreYoung
  <2>1. asker'[b] = asker[b] /\ policyTime < asker[b].since + JudgeLatency
    BY <1>4
  <2>2. asker[b].since \in Nat
    BY <1>5 DEF AskerSet
  <2> QED
    BY <1>1, <2>1, <2>2, PolicyNumbers DEF PolicyIInv, AskersAreYoung
<1>8. RulesAreRecent'
  <2>1. \A t : RulesSince(t)' = RulesSince(t)
    BY <1>1 DEF RulesSince
  <2>2. ruleCache.ts \in Int
    BY PolicyNumbers DEF PolicyIInv, PolicyTypeOK
  <2> QED
    BY <1>1, <1>4, <2>1, <2>2 DEF PolicyIInv, RulesAreRecent
<1>9. ASSUME NEW b \in Askers PROVE FitsTheRules(asker[b])'
  <2>1. CASE asker'[b].pc = "idle"
    BY <2>1 DEF FitsTheRules
  <2>2. CASE asker'[b] = asker[b]
    BY <1>1, <2>2 DEF PolicyIInv, AnswersFitTheRules, FitsTheRules, RulesFor, RulesSince,
                      HandlerAsks, RouteAsks, Asks
  <2> QED
    BY <2>1, <2>2, <1>4
<1> QED
  BY <1>6, <1>7, <1>8, <1>9 DEF PolicyIInv, AnswersFitTheRules

LEMMA PolicySteps == PolicyIInv /\ [PolicyNext]_policyVars => PolicyIInv'
<1>1. ASSUME PolicyIInv, UNCHANGED policyVars PROVE PolicyIInv'
  BY <1>1 DEF policyVars, PolicyIInv, PolicyTypeOK, AskersAreYoung, RulesAreRecent,
              AnswersFitTheRules, FitsTheRules, RulesFor, RulesSince, HandlerAsks, RouteAsks, Asks
<1> QED
  BY <1>1, AskKeeps, AskAgainKeeps, LoadRulesKeeps, FillRulesKeeps, EditPoliciesKeeps,
     InvalidateKeeps, PolicyTickKeeps DEF PolicyNext

(* What may answer a request was in force lately, when it is over. *)
LEMMA RulesAreLate ==
    ASSUME PolicyIInv, NEW a \in Askers, asker[a].pc # "idle"
    PROVE  RulesFor(asker[a]) \subseteq RulesLately
<1>1. /\ asker[a].since \in Int /\ policyTime \in Int /\ PolicyTypeOK
      /\ policyTime <= asker[a].since + JudgeLatency
  BY PolicyNumbers DEF PolicyIInv, PolicyTypeOK, AskersAreYoung
<1>2. /\ policyTime + 1 - RulesTtl - 2 * JudgeLatency \in Int
      /\ asker[a].since + 1 - RulesTtl - JudgeLatency \in Int
      /\ policyTime + 1 - RulesTtl - 2 * JudgeLatency
            <= asker[a].since + 1 - RulesTtl - JudgeLatency
  BY <1>1, PolicyNumbers
<1> QED
  BY <1>1, <1>2, EarlierSeesMore DEF RulesFor, RulesLately

(* No denial, or one that gives way: the same in the words of the property. *)
LEMMA DenialsOverruled ==
    ASSUME NEW rules \in Tables, NEW q
    PROVE  /\ AllowedBy(rules, q) => Permits(rules, q) \/ Tied(rules, q)
           /\ ~AllowedBy(rules, q) => ~Permits(rules, q)
<1>1. \A s \in rules : s.priority \in Int /\ s.effect \in {"allow", "deny"}
  BY TablesAssumption DEF Priorities
<1>2. DeniedBy(rules, q) => ~Permits(rules, q)
  BY <1>1 DEF DeniedBy, Denials, Permits
<1>3. ASSUME ~DeniedBy(rules, q), ~Permits(rules, q) PROVE Tied(rules, q)
  <2>1. PICK r \in Denials(rules, q) :
           \A s \in rules : Applies(s, q) /\ s.effect = "allow" => s.priority <= r.priority
    BY <1>1, <1>3 DEF Denials, Permits
  <2>2. \A t \in Denials(rules, q) :
           \E s \in rules : Applies(s, q) /\ s.effect = "allow" /\ s.priority >= t.priority
    BY <1>1, <1>3 DEF DeniedBy, Denials
  <2>3. ASSUME NEW t \in rules, Applies(t, q) PROVE t.priority <= r.priority
    <3>1. CASE t.effect = "allow"
      BY <2>1, <2>3, <3>1
    <3>2. CASE t \in Denials(rules, q)
      <4>1. PICK s \in rules : Applies(s, q) /\ s.effect = "allow" /\ s.priority >= t.priority
        BY <2>2, <3>2
      <4>2. s.priority <= r.priority
        BY <2>1, <4>1
      <4>3. r.priority \in Int /\ s.priority \in Int /\ t.priority \in Int
        BY <1>1 DEF Denials
      <4> QED
        BY <4>1, <4>2, <4>3
    <3> QED
      BY <1>1, <2>3, <3>1, <3>2 DEF Denials
  <2>4. PICK s \in rules : Applies(s, q) /\ s.effect = "allow" /\ s.priority >= r.priority
    BY <2>2
  <2>5. s.priority = r.priority
    <3>1. s.priority <= r.priority /\ r.priority \in Int /\ s.priority \in Int
      BY <1>1, <2>1, <2>4 DEF Denials
    <3> QED
      BY <2>4, <3>1
  <2> QED
    BY <2>3, <2>4, <2>5 DEF Tied
<1> QED
  BY <1>2, <1>3, DenialsDecide DEF AllowedBy

LEMMA AnswersObey == PolicyIInv => PoliciesAreObeyed
<1> SUFFICES ASSUME PolicyIInv, NEW a \in Askers, asker[a].pc \in {"allowed", "refused"}
             PROVE  /\ asker[a].pc = "allowed" /\ ~asker[a].open =>
                          \A q \in Judgements(a) :
                             \E rules \in RulesLately : Permits(rules, q) \/ Tied(rules, q)
                    /\ asker[a].pc = "refused" =>
                          \E q \in Judgements(a), rules \in RulesLately : ~Permits(rules, q)
  BY DEF PoliciesAreObeyed
<1>1. FitsTheRules(asker[a])
  BY DEF PolicyIInv, AnswersFitTheRules
<1>2. asker[a].step \in {"handler", "route"}
  BY DEF PolicyIInv, PolicyTypeOK, AskersAreYoung
<1>3. RulesFor(asker[a]) \subseteq RulesLately
  BY RulesAreLate
<1>4. RulesFor(asker[a]) \subseteq Tables
  BY RulesAreTables DEF PolicyIInv, RulesFor
<1>5. \A q : \A rules \in RulesFor(asker[a]) :
         /\ AllowedBy(rules, q) => Permits(rules, q) \/ Tied(rules, q)
         /\ ~AllowedBy(rules, q) => ~Permits(rules, q)
  BY <1>4, DenialsOverruled
<1>6. Asks(asker[a]) \in Judgements(a)
  BY <1>2 DEF Asks, Judgements
<1>7. ASSUME asker[a].pc = "allowed", ~asker[a].open, NEW q \in Judgements(a)
      PROVE  \E rules \in RulesFor(asker[a]) : AllowedBy(rules, q)
  BY <1>1, <1>2, <1>7 DEF FitsTheRules, Asks, Judgements
<1> QED
  BY <1>1, <1>3, <1>5, <1>6, <1>7 DEF FitsTheRules

(* For any tables, situations, askers and durations, and however the rules  *)
(* are edited: a request that the table answered passes only if rules in   *)
(* force no longer ago than an entry lives and two requests take permit it *)
(* at each judgement, or put an allowance beside a denial at the top, and  *)
(* is refused only if such rules do not permit it.                         *)
THEOREM RulesAreObeyed == PolicySpec => []PolicyInv
<1>1. PolicyIInv => PolicyInv
  BY AnswersObey DEF PolicyIInv, PolicyInv
<1> QED
  BY <1>1, PolicyBegins, PolicySteps, PTL DEF PolicySpec

(* A remainder near the modulus. *)
LEMMA RemainderNear ==
    ASSUME NEW x \in Int, NEW n \in Nat \ {0}
    PROVE  /\ 0 <= x /\ x < n => x % n = x
           /\ n <= x /\ x < 2 * n => x % n = x - n
           /\ -n <= x /\ x < 0 => x % n = x + n
<1>1. PICK d \in Int, m \in 0 .. n - 1 : x = n * d + m /\ x % n = m
  <2>1. x \div n \in Int /\ x % n \in 0 .. n - 1 /\ x = n * (x \div n) + (x % n)
    BY SMT
  <2> QED
    BY <2>1
<1>2. (d <= -2 => n * d <= -2 * n) /\ (d >= 2 => n * d >= 2 * n)
  BY SMT
<1>3. d = -1 \/ d = 0 \/ d = 1 \/ d <= -2 \/ d >= 2
  OBVIOUS
<1> QED
  BY <1>1, <1>2, <1>3, SMT

(* A window of hours, for a day of any length. *)
THEOREM WindowsAreExact == WindowsGoRound
<1> SUFFICES ASSUME NEW start \in 0 .. DayLength - 1, NEW end \in 0 .. DayLength - 1,
                    NEW minute \in 0 .. DayLength - 1
             PROVE  InWindow(start, end, minute) <=>
                      \E k \in 0 .. (end - start) % DayLength : minute = (start + k) % DayLength
  BY DEF WindowsGoRound
<1>1. DayLength \in Nat \ {0}
  BY PolicyAssumption
<1>2. CASE start <= end
  <2>1. (end - start) % DayLength = end - start
    <3>1. end - start \in Int /\ 0 <= end - start /\ end - start < DayLength
      BY <1>1, <1>2
    <3> QED
      BY <1>1, <3>1, RemainderNear
  <2>2. ASSUME NEW k \in 0 .. end - start PROVE (start + k) % DayLength = start + k
    <3>1. start + k \in Int /\ 0 <= start + k /\ start + k < DayLength
      BY <1>1, <1>2
    <3> QED
      BY <1>1, <3>1, RemainderNear
  <2>3. ASSUME InWindow(start, end, minute)
        PROVE  \E k \in 0 .. end - start : minute = (start + k) % DayLength
    <3>1. minute - start \in 0 .. end - start
      BY <1>1, <1>2, <2>3 DEF InWindow
    <3>2. start + (minute - start) = minute
      BY <1>1
    <3> QED
      BY <2>2, <3>1, <3>2
  <2>4. ASSUME NEW k \in 0 .. end - start, minute = (start + k) % DayLength
        PROVE  InWindow(start, end, minute)
    BY <1>1, <1>2, <2>2, <2>4 DEF InWindow
  <2> QED
    BY <2>1, <2>3, <2>4
<1>3. CASE end < start
  <2> DEFINE rest == end - start + DayLength
  <2>1. (end - start) % DayLength = rest
    <3>1. end - start \in Int /\ -DayLength <= end - start /\ end - start < 0
      BY <1>1, <1>3
    <3> QED
      BY <1>1, <3>1, RemainderNear
  <2>2. ASSUME NEW k \in 0 .. rest
        PROVE  /\ start + k < DayLength => (start + k) % DayLength = start + k
               /\ start + k >= DayLength =>
                     (start + k) % DayLength = start + k - DayLength
    <3>1. PICK x \in Int : x = start + k /\ 0 <= x /\ x < 2 * DayLength
      BY <1>1, <1>3
    <3>2. /\ x < DayLength => x % DayLength = x
          /\ DayLength <= x => x % DayLength = x - DayLength
      BY <1>1, <3>1, RemainderNear
    <3> QED
      BY <1>1, <3>1, <3>2
  <2>3. ASSUME InWindow(start, end, minute)
        PROVE  \E k \in 0 .. rest : minute = (start + k) % DayLength
    <3>1. CASE start <= minute
      <4>1. PICK k \in 0 .. rest : start + k = minute
        BY <1>1, <1>3, <3>1
      <4>2. (start + k) % DayLength = minute
        BY <1>1, <2>2, <4>1
      <4> QED
        BY <4>2
    <3>2. CASE minute <= end
      <4>1. PICK k \in 0 .. rest : start + k = minute + DayLength
        BY <1>1, <1>3, <3>2
      <4>2. (start + k) % DayLength = minute
        BY <1>1, <2>2, <4>1
      <4> QED
        BY <4>2
    <3> QED
      BY <1>1, <1>3, <2>3, <3>1, <3>2 DEF InWindow
  <2>4. ASSUME NEW k \in 0 .. rest, minute = (start + k) % DayLength
        PROVE  InWindow(start, end, minute)
    BY <1>1, <1>3, <2>2, <2>4 DEF InWindow
  <2> QED
    BY <2>1, <2>3, <2>4
<1> QED
  BY <1>1, <1>2, <1>3

-----------------------------------------------------------------------------
(*************************************************************************)
(* The mask of an address range, for words of any width.                 *)
(*                                                                       *)
(* Powers of two are numbers of subsets, which gives them the laws of    *)
(* exponents; the mask of a prefix keeps the bits from a place on        *)
(* (MaskKeeps); and words with the same bits from there on have the same *)
(* quotient, by the highest place at which they would not                *)
(* (SameBitsSameQuotient).                                               *)
(*************************************************************************)

(* Powers of two count subsets: twice as many with one more element. *)
LEMMA PowersCount ==
    ASSUME NEW n \in Nat
    PROVE  /\ 2 ^ n \in Nat
           /\ IsFiniteSet(SUBSET (1 .. n)) /\ Cardinality(SUBSET (1 .. n)) = 2 ^ n
<1>1. IsFiniteSet(1 .. n) /\ Cardinality(1 .. n) = n
  BY FS_Interval
<1> QED
  BY <1>1, FS_SUBSET, FS_CardinalityType

LEMMA PowersDouble ==
    ASSUME NEW n \in Nat
    PROVE  2 ^ (n + 1) = 2 * 2 ^ n
<1> DEFINE Old == SUBSET (1 .. n)
           New == {B \cup {n + 1} : B \in Old}
           with == [B \in Old |-> B \cup {n + 1}]
<1>1. SUBSET (1 .. n + 1) = Old \cup New
  <2>1. 1 .. n + 1 = (1 .. n) \cup {n + 1}
    OBVIOUS
  <2>2. ASSUME NEW B \in SUBSET (1 .. n + 1) PROVE B \in Old \cup New
    <3>1. B \ {n + 1} \in Old
      BY <2>1
    <3>2. n + 1 \in B => B = (B \ {n + 1}) \cup {n + 1}
      OBVIOUS
    <3> QED
      BY <2>1, <3>1, <3>2
  <2> QED
    BY <2>1, <2>2
<1>2. Old \cap New = {}
  OBVIOUS
<1>3. with \in Bijection(Old, New)
  <2>1. with \in [Old -> New] /\ \A C \in New : \E B \in Old : with[B] = C
    OBVIOUS
  <2>2. ASSUME NEW A \in Old, NEW B \in Old, with[A] = with[B] PROVE A = B
    <3>1. n + 1 \notin A /\ n + 1 \notin B /\ A \cup {n + 1} = B \cup {n + 1}
      BY <2>2
    <3> QED
      BY <3>1
  <2> HIDE DEF with
  <2>3. \A A, B \in Old : with[A] = with[B] => A = B
    BY <2>2
  <2> QED
    BY <2>1, <2>3, Fun_IsBij
<1>4. IsFiniteSet(Old) /\ Cardinality(Old) = 2 ^ n /\ 2 ^ n \in Nat
  BY PowersCount
<1>5. IsFiniteSet(New) /\ Cardinality(New) = Cardinality(Old)
  BY <1>3, <1>4, FS_Bijection DEF ExistsBijection
<1>6. Cardinality(Old \cup New) = Cardinality(Old) + Cardinality(New) - Cardinality(Old \cap New)
  BY <1>4, <1>5, FS_Union
<1>7. Cardinality(Old \cap New) = 0
  BY <1>2, FS_EmptySet
<1>8. n + 1 \in Nat
  OBVIOUS
<1>9. PICK p : p = 2 ^ (n + 1)
  OBVIOUS
<1>10. Cardinality(SUBSET (1 .. n + 1)) = p
  BY <1>8, <1>9, PowersCount
<1>11. PICK c \in Nat : c = Cardinality(Old)
  BY <1>4
<1> HIDE DEF Old, New
<1>12. p = c + c - 0
  BY <1>1, <1>5, <1>6, <1>7, <1>10, <1>11
<1> QED
  BY <1>4, <1>9, <1>11, <1>12

LEMMA PowersArePositive ==
    ASSUME NEW n \in Nat
    PROVE  2 ^ n \in Nat \ {0}
<1>1. 2 ^ n \in Nat /\ IsFiniteSet(SUBSET (1 .. n)) /\ Cardinality(SUBSET (1 .. n)) = 2 ^ n
  BY PowersCount
<1>2. SUBSET (1 .. n) # {}
  OBVIOUS
<1> QED
  BY <1>1, <1>2, FS_EmptySet

(* The sum of exponents, by the least that would be wrong. *)
LEMMA PowersMultiply ==
    ASSUME NEW m \in Nat, NEW n \in Nat
    PROVE  2 ^ (m + n) = 2 ^ m * 2 ^ n
<1> DEFINE wrong == {k \in Nat : 2 ^ (m + k) # 2 ^ m * 2 ^ k}
<1>1. 0 \notin wrong
  <2>1. PICK a \in Nat : a = 2 ^ m
    BY PowersCount
  <2>2. 2 ^ 0 = 1
    OBVIOUS
  <2>3. m + 0 = m /\ a * 1 = a
    BY <2>1
  <2> QED
    BY <2>1, <2>2, <2>3
<1>2. ASSUME NEW k \in Nat, k \notin wrong PROVE k + 1 \notin wrong
  <2>1. PICK a \in Nat, b \in Nat : a = 2 ^ m /\ b = 2 ^ k
    BY PowersCount
  <2>2. 2 ^ (m + k) = a * b
    BY <1>2, <2>1
  <2>3. 2 ^ ((m + k) + 1) = 2 * (a * b) /\ 2 ^ (k + 1) = 2 * b
    BY <2>1, <2>2, PowersDouble
  <2>4. m + (k + 1) = (m + k) + 1 /\ 2 * (a * b) = a * (2 * b)
    OBVIOUS
  <2> QED
    BY <2>1, <2>3, <2>4
<1>3. ASSUME NEW k \in wrong PROVE FALSE
  <2>1. PICK x \in wrong : \A y \in wrong : x <= y
    BY <1>3, LeastNatural
  <2>2. x # 0
    BY <1>1
  <2>3. x - 1 \in Nat /\ (x - 1) + 1 = x /\ x - 1 \notin wrong
    BY <2>1, <2>2
  <2> QED
    BY <1>2, <2>3
<1> QED
  BY <1>3

(* Quotients of quotients, and what dividing by a power leaves. *)
LEMMA QuotientIs ==
    ASSUME NEW x \in Nat, NEW d \in Nat \ {0}, NEW q \in Nat, NEW r \in Nat,
           r < d, x = d * q + r
    PROVE  x \div d = q /\ x % d = r
  OBVIOUS

LEMMA QuotientIsNatural ==
    ASSUME NEW x \in Nat, NEW d \in Nat \ {0}
    PROVE  /\ x \div d \in Nat /\ x % d \in 0 .. d - 1
           /\ x = d * (x \div d) + (x % d)
  OBVIOUS

(* The address without its last k + 1 places is half of it without k. *)
LEMMA PlacesShift ==
    ASSUME NEW x \in Nat, NEW k \in Nat
    PROVE  /\ x \div 2 ^ k \in Nat
           /\ x \div 2 ^ (k + 1) = (x \div 2 ^ k) \div 2
<1>1. PICK d \in Nat \ {0} : d = 2 ^ k
  BY PowersArePositive
<1>2. 2 ^ (k + 1) = 2 * d
  BY <1>1, PowersDouble
<1>3. x \div (2 * d) = (x \div d) \div 2
  OBVIOUS
<1> QED
  BY <1>1, <1>2, <1>3, QuotientIsNatural

(* The bit at place k. *)
Bit(x, k) == (x \div 2 ^ k) % 2

(* Two words that differ nowhere from place c on are equal from there on.  *)
LEMMA SameBitsSameQuotient ==
    ASSUME NEW c \in 0 .. Width, NEW x \in 0 .. 2 ^ Width - 1, NEW y \in 0 .. 2 ^ Width - 1,
           \A k \in c .. Width - 1 : Bit(x, k) = Bit(y, k)
    PROVE  x \div 2 ^ c = y \div 2 ^ c
<1>0. Width \in Nat /\ x \in Nat /\ y \in Nat /\ x < 2 ^ Width /\ y < 2 ^ Width
  BY PowersArePositive, PolicyAssumption
<1> DEFINE Same(k) == x \div 2 ^ k = y \div 2 ^ k
           wrong == {j \in Nat : j <= Width - c /\ ~Same(Width - j)}
<1>1. Same(Width)
  <2>1. PICK d \in Nat \ {0} : d = 2 ^ Width
    BY <1>0, PowersArePositive
  <2>2. x \div d = 0 /\ y \div d = 0
    BY <1>0, <2>1, QuotientIs
  <2> QED
    BY <2>1, <2>2
<1>2. ASSUME NEW k \in c .. Width - 1, Same(k + 1) PROVE Same(k)
  <2>1. k \in Nat /\ Bit(x, k) = Bit(y, k)
    BY <1>0
  <2>2. PICK a \in Nat, b \in Nat : a = x \div 2 ^ k /\ b = y \div 2 ^ k
    BY <1>0, <2>1, PlacesShift
  <2>3. a \div 2 = b \div 2
    BY <1>0, <1>2, <2>1, <2>2, PlacesShift
  <2>4. a % 2 = b % 2
    BY <2>1, <2>2 DEF Bit
  <2>5. a = 2 * (a \div 2) + (a % 2) /\ b = 2 * (b \div 2) + (b % 2)
    BY QuotientIsNatural
  <2> QED
    BY <2>2, <2>3, <2>4, <2>5
<1> HIDE DEF Same
<1>3. ASSUME NEW j \in wrong PROVE FALSE
  <2>1. PICK least \in wrong : \A i \in wrong : least <= i
    BY <1>3, LeastNatural
  <2>2. least # 0
    BY <1>0, <1>1
  <2>3. PICK k \in c .. Width - 1 : k = Width - least /\ k + 1 = Width - (least - 1)
    BY <1>0, <2>2
  <2>4. least - 1 \in Nat /\ least - 1 <= Width - c /\ least - 1 \notin wrong
    BY <1>0, <2>1, <2>2
  <2>5. Same(k + 1)
    BY <2>3, <2>4
  <2>6. Same(k)
    BY <1>2, <2>3, <2>5
  <2> QED
    BY <2>3, <2>6
<1>4. PICK j \in Nat : j = Width - c
  BY <1>0
<1>5. j <= Width - c /\ Width - j = c
  BY <1>0, <1>4
<1>6. j \notin wrong
  BY <1>3
<1>7. Same(Width - j)
  BY <1>4, <1>5, <1>6
<1> QED
  BY <1>5, <1>7 DEF Same

LEMMA SameQuotientSameBits ==
    ASSUME NEW c \in Nat, NEW x \in Nat, NEW y \in Nat, NEW k \in Nat, c <= k,
           x \div 2 ^ c = y \div 2 ^ c
    PROVE  Bit(x, k) = Bit(y, k)
<1> DEFINE wrong == {j \in Nat : x \div 2 ^ (c + j) # y \div 2 ^ (c + j)}
<1>1. 0 \notin wrong
  BY c + 0 = c
<1>2. ASSUME NEW j \in Nat, j \notin wrong PROVE j + 1 \notin wrong
  <2>1. c + j \in Nat /\ c + (j + 1) = (c + j) + 1
    OBVIOUS
  <2>2. PICK i \in Nat : i = c + j
    BY <2>1
  <2>3. x \div 2 ^ i = y \div 2 ^ i
    BY <1>2, <2>2
  <2>4. /\ x \div 2 ^ (i + 1) = (x \div 2 ^ i) \div 2
        /\ y \div 2 ^ (i + 1) = (y \div 2 ^ i) \div 2
    BY PlacesShift
  <2> QED
    BY <2>1, <2>2, <2>3, <2>4
<1>3. ASSUME NEW j \in wrong PROVE FALSE
  <2>1. PICK least \in wrong : \A i \in wrong : least <= i
    BY <1>3, LeastNatural
  <2>2. least - 1 \in Nat /\ (least - 1) + 1 = least /\ least - 1 \notin wrong
    BY <1>1, <2>1
  <2> QED
    BY <1>2, <2>2
<1>4. k - c \in Nat /\ c + (k - c) = k /\ k - c \notin wrong
  BY <1>3
<1> QED
  BY <1>4 DEF Bit

(* The mask of a prefix keeps the places above it, and for no prefix none. *)
LEMMA MaskKeeps ==
    ASSUME NEW prefix \in 0 .. Width
    PROVE  Ones(Mask(prefix)) = Width - prefix .. Width - 1
<1>0. Width \in Nat \ {0}
  BY PolicyAssumption
<1>1. CASE prefix = 0
  <2>1. ASSUME NEW i \in 0 .. Width - 1 PROVE Bit(0, i) = 0
    <3>1. PICK d \in Nat \ {0} : d = 2 ^ i
      BY <1>0, PowersArePositive
    <3>2. 0 \div d = 0 /\ 0 % 2 = 0
      OBVIOUS
    <3> QED
      BY <3>1, <3>2 DEF Bit
  <2>2. Mask(prefix) = 0
    BY <1>1 DEF Mask
  <2>4. Ones(0) = {i \in 0 .. Width - 1 : Bit(0, i) = 1}
    BY DEF Ones, Bit
  <2>5. Ones(0) = {}
    BY <2>1, <2>4
  <2>3. Width - prefix .. Width - 1 = {}
    BY <1>0, <1>1
  <2> QED
    BY <2>2, <2>3, <2>5
<1>2. CASE prefix # 0
  <2>1. PICK c \in 0 .. Width - 1 : c = Width - prefix
    BY <1>0, <1>2
  <2>2. PICK w \in Nat \ {0}, m \in Nat \ {0}, h \in Nat \ {0} :
           w = 2 ^ Width /\ m = 2 ^ c /\ h = 2 ^ prefix
    BY <1>0, <2>1, PowersArePositive
  <2>3. w = m * h /\ h > 1
    <3>1. c + prefix = Width /\ prefix - 1 \in Nat /\ (prefix - 1) + 1 = prefix /\ c \in Nat
      BY <1>0, <1>2, <2>1
    <3>2. w = m * h
      <4>1. 2 ^ (c + prefix) = 2 ^ c * 2 ^ prefix
        BY <3>1, <1>0, PowersMultiply
      <4> QED
        BY <2>2, <3>1, <4>1
    <3>3. PICK g \in Nat \ {0} : g = 2 ^ (prefix - 1)
      BY <3>1, PowersArePositive
    <3>4. h = 2 * g
      BY <2>2, <3>1, <3>3, PowersDouble
    <3> QED
      BY <3>2, <3>3, <3>4
  <2>4. Mask(prefix) = w - m
    <3>1. c % Width = c
      BY <1>0, QuotientIs, c = Width * 0 + c
    <3>2. Mask(prefix) = ((w - 1) * m) % w
      BY <1>2, <2>1, <2>2, <3>1 DEF Mask, Shifted
    <3>3. m <= w /\ w - m \in Nat /\ w - m < w /\ m - 1 \in Nat
      BY <2>3
    <3>4. (w - 1) * m = w * (m - 1) + (w - m)
      OBVIOUS
    <3>5. (w - 1) * m \in Nat
      BY <3>3, <3>4
    <3> QED
      BY <3>2, <3>3, <3>4, <3>5, QuotientIs
  <2>5. ASSUME NEW i \in 0 .. Width - 1 PROVE Bit(w - m, i) = 1 <=> i >= c
    <3>1. PICK d \in Nat \ {0}, g \in Nat \ {0} :
             d = 2 ^ i /\ g = 2 ^ (Width - 1 - i) /\ w = d * (2 * g)
      <4>1. Width - 1 - i \in Nat /\ (Width - 1 - i) + 1 \in Nat
            /\ i + ((Width - 1 - i) + 1) = Width /\ i \in Nat
        BY <1>0
      <4>2. PICK j \in Nat : j = Width - 1 - i
        BY <4>1
      <4>3. 2 ^ (i + (j + 1)) = 2 ^ i * 2 ^ (j + 1) /\ 2 ^ (j + 1) = 2 * 2 ^ j
        BY <4>1, PowersMultiply, PowersDouble
      <4>4. 2 ^ i \in Nat \ {0} /\ 2 ^ j \in Nat \ {0} /\ i + (j + 1) = Width
        BY <4>1, <4>2, PowersArePositive
      <4> QED
        BY <2>2, <4>2, <4>3, <4>4
    <3>2. CASE i >= c
      <4>1. PICK e \in Nat \ {0} : d = m * e
        <5>1. PICK j \in Nat : c + j = i /\ c \in Nat
          BY <1>0, <3>2, i - c \in Nat, c + (i - c) = i
        <5>2. 2 ^ (c + j) = 2 ^ c * 2 ^ j /\ 2 ^ j \in Nat \ {0}
          BY <5>1, PowersMultiply, PowersArePositive
        <5> QED
          BY <2>2, <3>1, <5>1, <5>2
      <4>2. m <= d /\ d - m \in Nat /\ d - m < d
        BY <4>1
      <4>3. w - m = d * (2 * g - 1) + (d - m) /\ 2 * g - 1 \in Nat /\ w - m \in Nat
        BY <2>3, <3>1, <4>2
      <4>4. (w - m) \div d = 2 * g - 1
        BY <4>2, <4>3, QuotientIs
      <4>5. (2 * g - 1) % 2 = 1
        OBVIOUS
      <4> QED
        BY <3>1, <3>2, <4>4, <4>5 DEF Bit
    <3>3. CASE i < c
      <4>1. PICK e \in Nat \ {0} : m = d * (2 * e)
        <5>1. PICK j \in Nat : i + (j + 1) = c /\ i \in Nat
          BY <1>0, <3>3, c - 1 - i \in Nat, i + ((c - 1 - i) + 1) = c
        <5>2. 2 ^ (i + (j + 1)) = 2 ^ i * 2 ^ (j + 1) /\ 2 ^ (j + 1) = 2 * 2 ^ j
          BY <5>1, PowersMultiply, PowersDouble
        <5>3. 2 ^ j \in Nat \ {0}
          BY PowersArePositive
        <5> QED
          BY <2>2, <3>1, <5>1, <5>2, <5>3
      <4>2. PICK q \in Nat : w - m = d * (2 * q)
        <5>1. w - m = d * (2 * (g - e)) /\ w - m \in Nat
          BY <2>3, <3>1, <4>1
        <5>2. g - e \in Nat
          BY <2>3, <3>1, <4>1
        <5> QED
          BY <5>1, <5>2
      <4>3. PICK p \in Nat, x \in Nat, r \in Nat :
               p = 2 * q /\ x = w - m /\ r = 0 /\ r < d /\ x = d * p + r
        BY <4>2
      <4>5. x \div d = p
        BY <4>3, QuotientIs
      <4>4. (2 * q) % 2 = 0
        OBVIOUS
      <4> QED
        BY <3>1, <3>3, <4>3, <4>4, <4>5 DEF Bit
    <3> QED
      BY <3>2, <3>3
  <2>6. Ones(w - m) = {i \in 0 .. Width - 1 : i >= c}
    BY <2>5 DEF Ones, Bit
  <2>7. {i \in 0 .. Width - 1 : i >= c} = c .. Width - 1
    BY <1>0
  <2> QED
    BY <2>1, <2>4, <2>6, <2>7
<1> QED
  BY <1>1, <1>2

(* A range holds the addresses that begin with its prefix: for words of    *)
(* any width.                                                              *)
THEOREM AddressesAreExact == RangesArePrefixes
<1> SUFFICES ASSUME NEW ip \in 0 .. 2 ^ Width - 1, NEW range \in 0 .. 2 ^ Width - 1,
                    NEW prefix \in 0 .. Width
             PROVE  InCidr(ip, range, prefix) <=>
                      ip \div 2 ^ (Width - prefix) = range \div 2 ^ (Width - prefix)
  BY DEF RangesArePrefixes
<1>0. Width \in Nat /\ ip \in Nat /\ range \in Nat
  BY PowersArePositive, PolicyAssumption
<1>1. PICK c \in 0 .. Width : c = Width - prefix
  BY <1>0
<1>2. InCidr(ip, range, prefix) <=> \A k \in c .. Width - 1 : Bit(ip, k) = Bit(range, k)
  <2>1. Ones(Mask(prefix)) = c .. Width - 1
    BY <1>1, MaskKeeps
  <2>2. \A x \in {ip, range} : Ones(x) \cap (c .. Width - 1) = {k \in c .. Width - 1 : Bit(x, k) = 1}
    BY <1>0 DEF Ones, Bit
  <2>3. \A k \in c .. Width - 1 : Bit(ip, k) \in {0, 1} /\ Bit(range, k) \in {0, 1}
    <3> SUFFICES ASSUME NEW k \in c .. Width - 1
                 PROVE  Bit(ip, k) \in {0, 1} /\ Bit(range, k) \in {0, 1}
      OBVIOUS
    <3>1. k \in Nat /\ ip \div 2 ^ k \in Nat /\ range \div 2 ^ k \in Nat
      BY <1>0, PlacesShift
    <3>3. PICK a \in Nat, b \in Nat : a = ip \div 2 ^ k /\ b = range \div 2 ^ k
      BY <3>1
    <3>2. a % 2 \in {0, 1} /\ b % 2 \in {0, 1}
      OBVIOUS
    <3> QED
      BY <3>2, <3>3 DEF Bit
  <2> QED
    BY <2>1, <2>2, <2>3 DEF InCidr
<1>3. ASSUME \A k \in c .. Width - 1 : Bit(ip, k) = Bit(range, k)
      PROVE  ip \div 2 ^ c = range \div 2 ^ c
  BY <1>3, SameBitsSameQuotient
<1>4. ASSUME ip \div 2 ^ c = range \div 2 ^ c, NEW k \in c .. Width - 1
      PROVE  Bit(ip, k) = Bit(range, k)
  BY <1>0, <1>4, SameQuotientSameBits
<1> QED
  BY <1>1, <1>2, <1>3, <1>4

(* The matchers of hours and of addresses, and the situation, which stays. *)
THEOREM MatchersHold == PolicySpec => []MatchersAreExact
<1>1. PolicyInit => situation \in Situations
  BY DEF PolicyInit
<1>2. situation \in Situations /\ [PolicyNext]_policyVars => (situation \in Situations)'
  BY DEF PolicyNext, policyVars, Ask, AskAgain, LoadRules, FillRules, EditPolicies, Invalidate,
         PolicyTick
<1>3. PolicySpec => [](situation \in Situations)
  BY <1>1, <1>2, PTL DEF PolicySpec
<1>4. situation \in Situations => MatchersAreExact
  BY WindowsAreExact, AddressesAreExact DEF MatchersAreExact
<1> QED
  BY <1>3, <1>4, PTL

=============================================================================
