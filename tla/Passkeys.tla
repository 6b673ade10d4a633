------------------------------- MODULE Passkeys -------------------------------
(***************************************************************************)
(* The passkeys of one user: the challenges handed out by the init routes  *)
(* (auth/passkey/login, me/passkey/register) and looked up by the verify   *)
(* routes, the store they wait in (lib/auth/challenge-store.ts), and the   *)
(* JSON column of credentials that registrations and logins write back.    *)
(*                                                                         *)
(* The application runs as several instances.  A store decides once, at    *)
(* its first use in an instance, whether it lives in Redis or in memory,   *)
(* and a command that Redis fails goes to memory instead.  Sign-on and     *)
(* pending codes use the same store, each key for one flow, as logins do.  *)
(*                                                                         *)
(* Challenges are numbered; login keeps one under its own number and       *)
(* registration under the user, key 0.  Credential 0 is there from the     *)
(* beginning, and others have the number of the challenge they came by.    *)
(***************************************************************************)
EXTENDS Integers, FiniteSets

CONSTANTS
    Instances,      \* processes of the application
    Verifiers,      \* concurrent calls of the verify routes
    MaxChallenges,  \* bound: challenges in all
    Ttl,            \* CHALLENGE_TTL_MS
    LastMinute,     \* bound: the clock stops here
    MaxTroubles     \* bound: outages of Redis and restarts of instances

ASSUME PasskeyBounds ==
    {MaxChallenges, Ttl, LastMinute, MaxTroubles} \subseteq Nat

VARIABLES
    minute,         \* the clock
    redisUp, upSince, outages, restarts,
    prefers,        \* preferRedis of each store in each instance
    inRedis,        \* entries in Redis, and in the memory of each instance
    inMemory,
    challenges,     \* what was handed out: for what, when, and what it signed
    verifier,       \* calls of the verify routes: program counter and locals
    counters,       \* the authenticators' own counters
    credentials,    \* column User.passkeyCredentials: counter of each
    confirmed,      \* credentials whose registration was answered "verified"
    logins,         \* sessions each challenge opened: none, one or more
    refusals,       \* history: answers "challenge_expired" without a cause
    lapses          \* history: what went wrong behind the answers

passkeyVars == <<minute, redisUp, upSince, outages, restarts, prefers, inRedis,
                 inMemory, challenges, verifier, counters, credentials,
                 confirmed, logins, refusals, lapses>>

storeVars == <<prefers, inRedis, inMemory>>

Nobody     == -1
Flows      == {"login", "register"}
Challenges == 1 .. MaxChallenges
Keys       == {0} \cup Challenges
NoEntry    == [challenge |-> 0, until |-> -1]
Empty      == [k \in Keys |-> NoEntry]
NotHanded  == [flow |-> "none", at |-> 0, by |-> Nobody, counter |-> 0,
               used |-> FALSE]
Resting    == [pc |-> "idle", at |-> "nowhere", challenge |-> 0, read |-> <<>>]

KeyOf(c) == IF challenges[c].flow = "register" THEN 0 ELSE c

PasskeyInit ==
    /\ minute = 0 /\ redisUp \in BOOLEAN /\ upSince = 0 /\ restarts = 0
    /\ outages = (IF redisUp THEN 0 ELSE 1)
    /\ prefers = [i \in Instances |-> [w \in Flows |-> "unknown"]]
    /\ inRedis = Empty
    /\ inMemory = [i \in Instances |-> Empty]
    /\ challenges = [c \in Challenges |-> NotHanded]
    /\ verifier = [v \in Verifiers |-> Resting]
    /\ counters \in {[k \in Keys |-> 0], [k \in Keys |-> 1]}
    /\ credentials = [k \in {0} |-> counters[0]]
    /\ confirmed = {0}
    /\ logins = [c \in Challenges |-> 0]
    /\ refusals = {} /\ lapses = {}

-----------------------------------------------------------------------------
(* shouldUseRedis: the first answer is kept.  While Redis is away the      *)
(* question waits, or is answered by what the last check found.            *)
Settled(i, flow, to) ==
    /\ to = (IF prefers[i][flow] # "unknown" THEN prefers[i][flow]
             ELSE IF redisUp THEN "redis" ELSE "memory")
    /\ prefers' = [prefers EXCEPT ![i][flow] = to]

Live(entry) == entry.until >= minute

(* set, get and delete of the store: with Redis away a command waits, or   *)
(* fails and is done in memory.                                            *)
SetIn(i, flow, key, entry) ==
    \E to \in {"redis", "memory"} :
       /\ Settled(i, flow, to)
       /\ IF to = "redis" /\ redisUp
          THEN inRedis' = [inRedis EXCEPT ![key] = entry] /\ UNCHANGED inMemory
          ELSE inMemory' = [inMemory EXCEPT ![i][key] = entry] /\ UNCHANGED inRedis

Delete(i, flow, key) == SetIn(i, flow, key, NoEntry)

(* What get finds. *)
Found(i, to, key) == IF to = "redis" /\ redisUp THEN inRedis[key] ELSE inMemory[i][key]

-----------------------------------------------------------------------------
(* POST login/init and register/init. *)
HandOut(i, flow) ==
    \E c \in Challenges :
       /\ challenges[c] = NotHanded
       /\ \A d \in Challenges : d < c => challenges[d] # NotHanded
       /\ challenges' = [challenges EXCEPT ![c] = [NotHanded EXCEPT !.flow = flow,
                                                                    !.at = minute]]
       /\ SetIn(i, flow, IF flow = "register" THEN 0 ELSE c,
                [challenge |-> c, until |-> minute + Ttl])
       /\ UNCHANGED <<minute, redisUp, upSince, outages, restarts, verifier, counters,
                      credentials, confirmed, logins, refusals, lapses>>

(* Why a challenge may not be found, as its user could tell: it is too     *)
(* late, another one was asked for, it was used; or the stores are apart.  *)
Late(c) == minute > challenges[c].at + Ttl

Gone(c) ==
    \E d \in Challenges : KeyOf(d) = KeyOf(c) /\ (d > c \/ challenges[d].used)

Apart(c) ==
    /\ outages > 0
    /\ \/ ~redisUp \/ challenges[c].at <= upSince \/ restarts > 0
       \/ \E i \in Instances, w \in Flows : prefers[i][w] = "memory"

Unexplained(c) ==
    IF Late(c) \/ Gone(c) THEN {}
    ELSE (IF Apart(c) THEN {} ELSE {"causeless"})
         \cup (IF redisUp /\ challenges[c].at > upSince THEN {"recovered"} ELSE {})

(* The browser signs a challenge once; the same answer may be posted again *)
(* and to any instance.  Authenticators that count start above 0.          *)
Up(counter) == IF counter = 0 THEN 0 ELSE counter + 1

Signed(c, k) ==
    [challenges EXCEPT ![c].by = k,
                       ![c].counter = Up(counters[k])]

LookUp(v, i, c) ==
    /\ verifier[v].pc = "idle" /\ challenges[c] # NotHanded
    /\ IF challenges[c].by # Nobody
       THEN UNCHANGED <<challenges, counters>>
       ELSE \E k \in IF challenges[c].flow = "register" THEN {c} ELSE confirmed :
               /\ challenges' = Signed(c, k)
               /\ counters' = [counters EXCEPT ![k] = Up(@)]
    /\ \E to \in {"redis", "memory"} :
          /\ Settled(i, challenges[c].flow, to)
          /\ LET entry == Found(i, to, KeyOf(c)) IN
             IF Live(entry) /\ entry.challenge = c
             THEN /\ verifier' = [verifier EXCEPT ![v] = [Resting EXCEPT !.pc = "found",
                                                             !.at = i, !.challenge = c]]
                  /\ lapses' = IF \E w \in Verifiers : verifier[w].challenge = c
                               THEN lapses \cup {"raced"} ELSE lapses
                  /\ UNCHANGED refusals
             ELSE /\ refusals' = refusals \cup Unexplained(c)
                  /\ UNCHANGED <<verifier, lapses>>
    /\ UNCHANGED <<minute, redisUp, upSince, outages, restarts, inRedis, inMemory,
                   credentials, confirmed, logins>>

(* The row is read; a login fails if it lacks the credential. *)
ReadRow(v) ==
    /\ verifier[v].pc = "found"
    /\ LET c == verifier[v].challenge IN
       verifier' = [verifier EXCEPT
          ![v].pc = IF challenges[c].flow = "login" /\ challenges[c].by \notin DOMAIN credentials
                    THEN "forget" ELSE "checked",
          ![v].read = credentials]
    /\ UNCHANGED <<minute, redisUp, upSince, outages, restarts, storeVars, challenges,
                   counters, credentials, confirmed, logins, refusals, lapses>>

(* What is written back is what was read, and the change; a credential     *)
(* that is appended again stays behind its first entry, which logins find. *)
Rewritten(read, k, n) == [x \in DOMAIN read \cup {k} |-> IF x = k THEN n ELSE read[x]]

Smaller(m, n) == IF m < n THEN m ELSE n

(* The definition after it, which takes any counter. *)
HigherBug(counter, than) == TRUE

Higher(counter, than) == counter > than \/ (counter = 0 /\ than = 0)

(* Verification fails if an authenticator that counts does not go up; then *)
(* the column is written by id, and the answer is "verified".              *)
Verify(v) ==
    /\ verifier[v].pc = "checked"
    /\ LET c == verifier[v].challenge
           k == challenges[c].by
           read == verifier[v].read IN
       IF challenges[c].flow = "login" /\ ~Higher(challenges[c].counter, read[k])
       THEN UNCHANGED <<credentials, confirmed, logins, lapses>>
       ELSE /\ credentials' =
                  IF challenges[c].flow = "register" /\ k \in DOMAIN read THEN read
                  ELSE Rewritten(read, k, challenges[c].counter)
            /\ lapses' = lapses \cup (IF read # credentials THEN {"crossed"} ELSE {})
            /\ IF challenges[c].flow = "login"
               THEN logins' = [logins EXCEPT ![c] = Smaller(@ + 1, 2)] /\ UNCHANGED confirmed
               ELSE confirmed' = confirmed \cup {k} /\ UNCHANGED logins
    /\ verifier' = [verifier EXCEPT ![v].pc = "forget"]
    /\ UNCHANGED <<minute, redisUp, upSince, outages, restarts, storeVars, challenges,
                   counters, refusals>>

(* The challenge is deleted at the end. *)
Forget(v) ==
    /\ verifier[v].pc = "forget"
    /\ LET c == verifier[v].challenge IN
       /\ Delete(verifier[v].at, challenges[c].flow, KeyOf(c))
       /\ challenges' = [challenges EXCEPT ![c].used = TRUE]
    /\ verifier' = [verifier EXCEPT ![v] = Resting]
    /\ UNCHANGED <<minute, redisUp, upSince, outages, restarts, counters, credentials,
                   confirmed, logins, refusals, lapses>>

-----------------------------------------------------------------------------
(* Redis goes away and comes back, with or without its data. *)
RedisStops ==
    /\ redisUp /\ outages + restarts < MaxTroubles
    /\ redisUp' = FALSE /\ outages' = outages + 1
    /\ UNCHANGED <<minute, upSince, restarts, storeVars, challenges, verifier, counters,
                   credentials, confirmed, logins, refusals, lapses>>

RedisReturns ==
    /\ ~redisUp
    /\ redisUp' = TRUE /\ upSince' = minute
    /\ inRedis' \in {inRedis, Empty}
    /\ UNCHANGED <<minute, outages, restarts, prefers, inMemory, challenges, verifier,
                   counters, credentials, confirmed, logins, refusals, lapses>>

(* An instance restarts, with nothing in memory and its calls given up. *)
Restart(i) ==
    /\ outages + restarts < MaxTroubles /\ restarts' = restarts + 1
    /\ prefers' = [prefers EXCEPT ![i] = [w \in Flows |-> "unknown"]]
    /\ inMemory' = [inMemory EXCEPT ![i] = Empty]
    /\ verifier' = [v \in Verifiers |-> IF verifier[v].at = i THEN Resting ELSE verifier[v]]
    /\ lapses' = lapses \cup
          (IF \E v \in Verifiers : verifier[v].at = i THEN {"abandoned"} ELSE {})
    /\ UNCHANGED <<minute, redisUp, upSince, outages, inRedis, challenges, counters,
                   credentials, confirmed, logins, refusals>>

MinutePasses ==
    /\ minute < LastMinute /\ minute' = minute + 1
    /\ UNCHANGED <<redisUp, upSince, outages, restarts, storeVars, challenges, verifier,
                   counters, credentials, confirmed, logins, refusals, lapses>>

PasskeyNext ==
    \/ \E i \in Instances :
          \/ \E flow \in Flows : HandOut(i, flow)
          \/ \E v \in Verifiers, c \in Challenges : LookUp(v, i, c)
          \/ Restart(i)
    \/ \E v \in Verifiers : ReadRow(v) \/ Verify(v) \/ Forget(v)
    \/ RedisStops \/ RedisReturns \/ MinutePasses

PasskeySpec == PasskeyInit /\ [][PasskeyNext]_passkeyVars

-----------------------------------------------------------------------------
PasskeyTypeOK ==
    /\ prefers \in [Instances -> [Flows -> {"unknown", "redis", "memory"}]]
    /\ challenges \in [Challenges -> [flow : Flows \cup {"none"}, at : 0 .. LastMinute,
                                      by : Keys \cup {Nobody}, counter : Nat, used : BOOLEAN]]
    /\ 0 \in DOMAIN credentials /\ DOMAIN credentials \subseteq Keys
    /\ confirmed \subseteq Keys
    /\ logins \in [Challenges -> 0 .. 2]
    /\ refusals \subseteq {"causeless", "recovered"}
    /\ lapses \subseteq {"crossed", "raced", "abandoned"}

(* A passkey is in the column as long as no write overtook another, ...    *)
KeptUnlessCrossed == "crossed" \notin lapses => confirmed = DOMAIN credentials

(* ... its counter never falls behind a login, ...                         *)
CountersKeepUp ==
    "crossed" \notin lapses =>
       \A c \in Challenges : logins[c] > 0 => credentials[challenges[c].by] >= challenges[c].counter

(* ... and one answer opens one session, unless two posts of it raced, the *)
(* first was given up, or Redis was away when the challenge should go; and *)
(* where the authenticator counts, unless they read the same row.          *)
OneSessionPerAnswer ==
    \A c \in Challenges :
       logins[c] = 2 => /\ outages > 0 \/ lapses \cap {"raced", "abandoned"} # {}
                        /\ challenges[c].counter > 0 => "crossed" \in lapses

(* Whatever instance answers: while Redis is there and every instance uses *)
(* it, a challenge is refused only if it is late, superseded or used.      *)
RefusedForACause == "causeless" \notin refusals

PasskeyInv ==
    PasskeyTypeOK /\ KeptUnlessCrossed /\ CountersKeepUp /\ OneSessionPerAnswer
    /\ RefusedForACause

(* register/verify/route.ts:83: the new passkey is "appended to user's     *)
(* credentials".                                                           *)
RegisteredIsKept == confirmed \subseteq DOMAIN credentials

(* OPERATIONS-RUNBOOK.md:96: "Application auto-recovers": a challenge     *)
(* handed out after Redis is back is found again.                          *)
RecoveryIsComplete == "recovered" \notin refusals
=============================================================================
