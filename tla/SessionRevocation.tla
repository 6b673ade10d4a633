------------------------- MODULE SessionRevocation --------------------------
(***************************************************************************)
(* When does an ended session stop being accepted?  lib/auth/              *)
(* session-revocation.ts keeps two caches in every instance of the         *)
(* application, one of tokens found valid and one of the users' times of   *)
(* mass revocation; createApiHandler asks it at each request.              *)
(*                                                                         *)
(* A request fills a cache one await after it read the table.  Meanwhile   *)
(* a logout may write the table and empty the cache of its own instance,   *)
(* which the request then fills with what it had read.  If the table       *)
(* cannot be read the request is let through.                              *)
(*                                                                         *)
(* One user with one token, and one instance: the instances share nothing  *)
(* but the table, so the others show in the revocations that come to them. *)
(* Time is counted in ticks.                                               *)
(***************************************************************************)
EXTENDS Naturals

CONSTANTS
    Places,         \* where a revocation arrives: at this instance or elsewhere
    Here,           \* this instance
    Bearers,        \* requests that carry the token
    Ttl,            \* CACHE_TTL_MS
    Latency,        \* bound: a request is checked in at most so many ticks
    LastSessionTick        \* bound: the clock stops here

ASSUME ClockAssumption == {Ttl, Latency, LastSessionTick} \subseteq Nat \ {0}
ASSUME PlacesAssumption == Here \in Places

NeverRevoked == 0      \* a date that is null, a cache without an entry

VARIABLES
    clock,
    denied,         \* RevokedSession: when the token was revoked
    revokedAt,      \* User.sessionsRevokedAt
    validUntil,     \* the token's entry of VALID_JTI_CACHE
    userCache,      \* the user's entry of USER_REVOKE_CACHE: a value and its date
    bearer,            \* the requests: program counter and locals
    forget          \* the caches a revocation has yet to empty

sesVars == <<clock, denied, revokedAt, validUntil, userCache, bearer, forget>>

-----------------------------------------------------------------------------
NoEntry == [value |-> NeverRevoked, ts |-> NeverRevoked]
Idle    == [pc |-> "idle", since |-> NeverRevoked, read |-> NeverRevoked, open |-> FALSE]

SesInit ==
    /\ clock = 1
    /\ denied = NeverRevoked
    /\ revokedAt = NeverRevoked
    /\ validUntil = NeverRevoked
    /\ userCache = NoEntry
    /\ bearer = [r \in Bearers |-> Idle]
    /\ forget = {}

(* The definition after it without a look at the entry's age. *)
CachedValidBug == validUntil # NeverRevoked

CachedValid == clock < validUntil

CachedUser == userCache.ts # NeverRevoked /\ clock < userCache.ts + Ttl

(* The token was issued at tick 1, so any mass revocation is later. *)
Judged(r, value) ==
    IF value = NeverRevoked THEN [bearer[r] EXCEPT !.pc = "accepted", !.read = NeverRevoked] ELSE Idle

(* The user's entry is looked up at once when the token is found valid. *)
AskUser(r) ==
    IF CachedUser THEN Judged(r, userCache.value)
    ELSE [bearer[r] EXCEPT !.pc = "user"]

Arrive(r) ==
    /\ bearer[r].pc = "idle"
    /\ bearer' = [bearer EXCEPT ![r] =
                 IF CachedValid THEN [AskUser(r) EXCEPT !.since = clock]
                 ELSE [Idle EXCEPT !.pc = "token", !.since = clock]]
    /\ UNCHANGED <<clock, denied, revokedAt, validUntil, userCache, forget>>

(* findUnique of the token, or its failure. *)
ReadToken(r) ==
    /\ bearer[r].pc = "token"
    /\ \/ bearer' = [bearer EXCEPT ![r] = IF denied = NeverRevoked THEN [@ EXCEPT !.pc = "fillToken"]
                                     ELSE Idle]
       \/ bearer' = [bearer EXCEPT ![r] = [AskUser(r) EXCEPT !.open = TRUE]]
    /\ UNCHANGED <<clock, denied, revokedAt, validUntil, userCache, forget>>

FillToken(r) ==
    /\ bearer[r].pc = "fillToken"
    /\ validUntil' = clock + Ttl
    /\ bearer' = [bearer EXCEPT ![r] = AskUser(r)]
    /\ UNCHANGED <<clock, denied, revokedAt, userCache, forget>>

(* findUnique of the user, or its failure, which counts as no revocation. *)
ReadUser(r) ==
    /\ bearer[r].pc = "user"
    /\ \/ bearer' = [bearer EXCEPT ![r].pc = "fillUser", ![r].read = revokedAt]
       \/ bearer' = [bearer EXCEPT ![r].pc = "accepted", ![r].open = TRUE]
    /\ UNCHANGED <<clock, denied, revokedAt, validUntil, userCache, forget>>

FillUser(r) ==
    /\ bearer[r].pc = "fillUser"
    /\ userCache' = [value |-> bearer[r].read, ts |-> clock]
    /\ bearer' = [bearer EXCEPT ![r] = Judged(r, bearer[r].read)]
    /\ UNCHANGED <<clock, denied, revokedAt, validUntil, forget>>

Done(r) ==
    /\ bearer[r].pc = "accepted"
    /\ bearer' = [bearer EXCEPT ![r] = Idle]
    /\ UNCHANGED <<clock, denied, revokedAt, validUntil, userCache, forget>>

-----------------------------------------------------------------------------
(* revokeSession and revokeAllUserSessions write the table first. *)
Logout(place) ==
    /\ denied = NeverRevoked
    /\ denied' = clock
    /\ forget' = forget \cup {c \in {"token"} : place = Here}
    /\ UNCHANGED <<clock, revokedAt, validUntil, userCache, bearer>>

RevokeAll(place) ==
    /\ revokedAt = NeverRevoked /\ 1 < clock
    /\ revokedAt' = clock
    /\ forget' = forget \cup {c \in {"user"} : place = Here}
    /\ UNCHANGED <<clock, denied, validUntil, userCache, bearer>>

ForgetToken ==
    /\ "token" \in forget
    /\ forget' = forget \ {"token"}
    /\ validUntil' = NeverRevoked
    /\ UNCHANGED <<clock, denied, revokedAt, userCache, bearer>>

ForgetUser ==
    /\ "user" \in forget
    /\ forget' = forget \ {"user"}
    /\ userCache' = NoEntry
    /\ UNCHANGED <<clock, denied, revokedAt, validUntil, bearer>>

InFlight(r) == bearer[r].pc \in {"token", "fillToken", "user", "fillUser"}

(* The bound on the time a request is in flight. *)
SesTick ==
    /\ clock < LastSessionTick
    /\ \A r \in Bearers : InFlight(r) => clock < bearer[r].since + Latency
    /\ clock' = clock + 1
    /\ bearer' = [r \in Bearers |-> IF InFlight(r) THEN bearer[r] ELSE Idle]
    /\ UNCHANGED <<denied, revokedAt, validUntil, userCache, forget>>

SesNext ==
    \/ \E r \in Bearers : \/ Arrive(r) \/ ReadToken(r) \/ FillToken(r)
                           \/ ReadUser(r) \/ FillUser(r) \/ Done(r)
    \/ \E place \in Places : Logout(place) \/ RevokeAll(place)
    \/ ForgetToken \/ ForgetUser
    \/ SesTick

SesSpec == SesInit /\ [][SesNext]_sesVars

-----------------------------------------------------------------------------
Ticks == 0 .. LastSessionTick + Ttl

SesTypeOK ==
    /\ clock \in Ticks
    /\ {denied, revokedAt} \subseteq Ticks
    /\ validUntil \in Ticks
    /\ userCache \in [value : Ticks, ts : Ticks]
    /\ bearer \in [Bearers -> [pc : {"idle", "token", "fillToken", "user", "fillUser",
                                   "accepted"},
                             since : Ticks, read : Ticks, open : BOOLEAN]]
    /\ forget \subseteq {"token", "user"}

(* A request that the table answered is accepted only if the session had   *)
(* not ended, or ended no longer ago than an entry lives and two requests  *)
(* are in flight: one that read the table before and filled the cache      *)
(* after the revocation, and the one that found the entry.  At the other   *)
(* instances, and at this one when requests overlap, a revocation is not   *)
(* the immediate one of the comment at session-revocation.ts:27.           *)
RevocationIsSeenInTime ==
    \A r \in Bearers : bearer[r].pc = "accepted" /\ ~bearer[r].open =>
        \A ended \in {denied, revokedAt} \ {NeverRevoked} : clock < ended + Ttl + 2 * Latency

(* Caches and requests are well typed, and revocations are seen in time.   *)
SesInv == SesTypeOK /\ RevocationIsSeenInTime
=============================================================================
