------------------------------ MODULE RateLimiter ------------------------------
(***************************************************************************)
(* HybridRateLimiter of lib/security/rate-limit.ts for one key: a sorted   *)
(* set in Redis that all instances share, and a list in the memory of each *)
(* instance for when Redis does not answer.                                *)
(*                                                                         *)
(* In Redis a request first adds itself and then counts; one that counts   *)
(* too many takes itself out again with a second command.                  *)
(***************************************************************************)
EXTENDS Integers, FiniteSets

CONSTANTS
    Instances,      \* server processes
    Limit,          \* maxRequests
    Window,         \* windowMs, in ticks
    LastTickRL,     \* bound: the clock stops here
    MaxChecks       \* bound: how many checks there are

ASSUME LimiterBounds ==
    /\ {Limit, Window} \subseteq Nat \ {0}
    /\ {LastTickRL, MaxChecks} \subseteq Nat /\ "redis" \notin Instances

VARIABLES
    tick,           \* the clock
    redisUp,        \* Redis answers
    preferRedis,    \* per instance, since its last look
    window,         \* the sorted set: records of check and time
    local,          \* the list of each instance
    removing,       \* refused checks whose zrem is still to come
    admitted,       \* history: checks let through, where and when
    stuck,          \* history: refused checks whose zrem failed
    checks          \* how many checks there were

limiterVars == <<tick, redisUp, preferRedis, window, local, removing, admitted,
                 stuck, checks>>

LimiterInit ==
    /\ tick = 0
    /\ redisUp \in BOOLEAN
    /\ preferRedis = [i \in Instances |-> redisUp]
    /\ window = {}
    /\ local = [i \in Instances |-> {}]
    /\ removing = {}
    /\ admitted = {}
    /\ stuck = {}
    /\ checks = 0

Entry  == [id |-> checks + 1, at |-> tick]
Recent(entries) == {e \in entries : e.at > tick - Window}

Admit(where) == admitted' = admitted \cup {[id |-> checks + 1, at |-> tick, where |-> where]}

(* The definition after it, which lets the request after the last one in. *)
TooManyEntriesBug(n) == n > Limit + 1

TooManyEntries(n) == n > Limit

(* MULTI: add, prune, count. *)
CheckInRedis(i) ==
    /\ checks < MaxChecks
    /\ preferRedis[i] /\ redisUp
    /\ LET now == Recent(window \cup {Entry}) IN
       /\ window' = now
       /\ IF TooManyEntries(Cardinality(now))
          THEN /\ removing' = removing \cup {Entry}
               /\ UNCHANGED admitted
          ELSE Admit("redis") /\ UNCHANGED removing
    /\ checks' = checks + 1
    /\ UNCHANGED <<tick, redisUp, preferRedis, local, stuck>>

TakenOut(e) == {e}

(* zrem, whose failure is ignored. *)
RemoveRefused ==
    /\ \E e \in removing :
          /\ removing' = removing \ {e}
          /\ IF redisUp
             THEN window' = window \ TakenOut(e) /\ UNCHANGED stuck
             ELSE stuck' = stuck \cup {e} /\ UNCHANGED window
    /\ UNCHANGED <<tick, redisUp, preferRedis, local, admitted, checks>>

(* In memory the count comes first.  When Redis failed in mid-call, the    *)
(* request may stand in its window all the same.                           *)
CheckInMemory(i) ==
    /\ checks < MaxChecks
    /\ ~preferRedis[i] \/ ~redisUp
    /\ preferRedis' = [preferRedis EXCEPT ![i] = FALSE]
    /\ LET now == Recent(local[i]) IN
       IF Cardinality(now) >= Limit
       THEN local' = [local EXCEPT ![i] = now] /\ UNCHANGED admitted
       ELSE local' = [local EXCEPT ![i] = now \cup {Entry}] /\ Admit(i)
    /\ \/ UNCHANGED <<window, stuck>>
       \/ /\ preferRedis[i]
          /\ window' = window \cup {Entry}
          /\ stuck' = stuck \cup {Entry}
    /\ checks' = checks + 1
    /\ UNCHANGED <<tick, redisUp, removing>>

(* More than 30 seconds after the last look, the next check looks again. *)
LookAgain(i) ==
    /\ preferRedis' = [preferRedis EXCEPT ![i] = redisUp]
    /\ UNCHANGED <<tick, redisUp, window, local, removing, admitted, stuck, checks>>

RedisChanges ==
    /\ redisUp' = ~redisUp
    /\ UNCHANGED <<tick, preferRedis, window, local, removing, admitted, stuck, checks>>

(* Entries older than the window decide nothing any more. *)
LimiterTick ==
    /\ tick < LastTickRL
    /\ tick' = tick + 1
    /\ UNCHANGED <<redisUp, preferRedis, window, local, removing, admitted, stuck, checks>>

LimiterNext ==
    \/ RemoveRefused \/ RedisChanges \/ LimiterTick
    \/ \E i \in Instances : CheckInRedis(i) \/ CheckInMemory(i) \/ LookAgain(i)

LimiterSpec == LimiterInit /\ [][LimiterNext]_limiterVars

-----------------------------------------------------------------------------
LimiterTypeOK ==
    /\ tick \in 0 .. LastTickRL /\ checks \in 0 .. MaxChecks
    /\ redisUp \in BOOLEAN /\ preferRedis \in [Instances -> BOOLEAN]
    /\ window \subseteq [id : 1 .. MaxChecks, at : 0 .. LastTickRL]
    /\ removing \subseteq [id : 1 .. MaxChecks, at : 0 .. LastTickRL]

(* In any window no more than Limit requests pass through Redis, and no    *)
(* more than Limit through the memory of any instance: an outage of Redis  *)
(* multiplies the limit by one more than there are instances, not further. *)
LimitHolds ==
    \A where \in Instances \cup {"redis"}, start \in 0 .. LastTickRL :
        Cardinality({a \in admitted : a.where = where /\ a.at \in start .. start + Window - 1})
            <= Limit

(* What stands in Redis against a new request are requests it let through, *)
(* and refused ones only until their removal, or because that failed: a    *)
(* flood of refused requests does not keep the window full.                *)
WindowIsHonest ==
    \A e \in window \ (removing \cup stuck) :
        \E a \in admitted : a.id = e.id /\ a.where = "redis"

LimiterInv == LimiterTypeOK /\ LimitHolds /\ WindowIsHonest
===============================================================================
