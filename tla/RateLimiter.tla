---------------------------- MODULE RateLimiter ----------------------------
(***************************************************************************)
(* The per-key rate limit of the gateway, enforce_rate_limit in            *)
(* backend/app/middleware/rate_limit.py, for one virtual API key.  Every   *)
(* inbound request runs the dependency in its own coroutine, in any        *)
(* worker; all of them share two Redis keys:                               *)
(*   cg:keyrl:<id>           the configured limit, cached for CacheTTL     *)
(*   cg:ratelimit:<key hash> the sorted set of request timestamps          *)
(* A step of a coroutine is what it does between two awaits, so another    *)
(* request, the clock or an operator editing rate_limits may come between  *)
(* the read of the clock and the pipeline that uses it.                    *)
(***************************************************************************)
EXTENDS Integers, FiniteSets

CONSTANTS
    Requests,   \* the requests made with the key; each is one sorted-set member
    Rpms,       \* limits an operator may configure; 0 is "no active row"
    Window,     \* window_seconds
    CacheTTL,   \* _RL_CACHE_TTL
    MaxDelay,   \* bound: time one run of enforce_rate_limit takes
    MaxClock    \* bound: the model stops ticking here

ASSUME RateLimiterAssumption ==
    /\ IsFiniteSet(Requests)
    /\ Rpms \subseteq Nat /\ Rpms # {}
    /\ Window \in Nat \ {0} /\ CacheTTL \in Nat \ {0}
    /\ MaxDelay \in 0..(Window - 1) /\ MaxClock \in Nat

VARIABLES
    clock,      \* time.time(), and the clock Redis expires keys by
    rpm,        \* rate_limits.rpm of the active row of the key, 0 without one
    rlCache,    \* [val, exp]: cg:keyrl:<id>; gone once exp <= clock
    zset,       \* members of cg:ratelimit:<key hash>; a member's score is its stamp
    zexp,       \* expiry of that key
    pc,         \* where each request is in enforce_rate_limit, or its verdict
    start,      \* when the request entered enforce_rate_limit
    limit,      \* rpm_limit, once known
    stamp,      \* now, the score of the request's member
    retried,    \* the pipeline was already sent once and timed out
    counted,    \* ghost: requests whose pipeline has run in Redis
    lastConf    \* ghost: the last time each limit was the configured one

vars == <<clock, rpm, rlCache, zset, zexp, pc, start, limit, stamp, retried,
          counted, lastConf>>
redisVars  == <<rlCache, zset, zexp, counted>>
configVars == <<clock, rpm, lastConf>>

Lookup   == {"lookup", "query", "fill"}
InFlight == Lookup \cup {"exec"}
Verdicts == {"allowed", "denied", "open"}    \* "open": let through unlimited

Staleness == CacheTTL + 2 * MaxDelay

Init ==
    /\ clock = 0
    /\ rpm \in Rpms
    /\ rlCache = [val |-> 0, exp |-> 0]
    /\ zset = {} /\ zexp = 0
    /\ pc = [r \in Requests |-> "idle"]
    /\ start = [r \in Requests |-> 0]
    /\ limit = [r \in Requests |-> 0]
    /\ stamp = [r \in Requests |-> 0]
    /\ retried = [r \in Requests |-> FALSE]
    /\ counted = {}
    /\ lastConf = [v \in Rpms |-> IF v = rpm THEN 0 ELSE -1 - Staleness]

-----------------------------------------------------------------------------
(* The limit lookup, _get_cached_rpm_limit. *)

Arrive(r) ==
    /\ pc[r] = "idle"
    /\ pc' = [pc EXCEPT ![r] = "lookup"]
    /\ start' = [start EXCEPT ![r] = clock]
    /\ UNCHANGED <<limit, stamp, retried, redisVars, configVars>>

(* With the limit v in hand: no limit lets the request through, a limit    *)
(* reads the clock for check_rate_limit; nothing awaits in between.        *)
Decide(r, v) ==
    /\ limit' = [limit EXCEPT ![r] = v]
    /\ IF v <= 0
       THEN pc' = [pc EXCEPT ![r] = "open"] /\ UNCHANGED stamp
       ELSE /\ pc' = [pc EXCEPT ![r] = "exec"]
            /\ stamp' = [stamp EXCEPT ![r] = clock]

CacheHit(r) ==
    /\ pc[r] = "lookup" /\ rlCache.exp > clock
    /\ Decide(r, rlCache.val)
    /\ UNCHANGED <<start, retried, redisVars, configVars>>

CacheMiss(r) ==
    /\ pc[r] = "lookup" /\ rlCache.exp <= clock
    /\ pc' = [pc EXCEPT ![r] = "query"]
    /\ UNCHANGED <<start, limit, stamp, retried, redisVars, configVars>>

QueryLimit(r) ==
    /\ pc[r] = "query"
    /\ limit' = [limit EXCEPT ![r] = rpm]
    /\ pc' = [pc EXCEPT ![r] = "fill"]
    /\ UNCHANGED <<start, stamp, retried, redisVars, configVars>>

(* Mutants: entries that outlive the TTL; "no limit" not written as 0. *)
MutantCacheEntry(v) == [val |-> v, exp |-> clock + CacheTTL + 2]
MutantCacheNone(v) == [val |-> IF v = 0 THEN -1 ELSE v, exp |-> clock + CacheTTL]

CacheEntry(v) == [val |-> v, exp |-> clock + CacheTTL]

FillCache(r) ==
    /\ pc[r] = "fill"
    /\ rlCache' = CacheEntry(limit[r])
    /\ Decide(r, limit[r])
    /\ UNCHANGED <<start, retried, zset, zexp, counted, configVars>>

(* An exception of Redis or PostgreSQL anywhere in the lookup: the limit   *)
(* is taken as None, even when the query had already answered.  A setex    *)
(* may have been applied before its reply was lost.                        *)
LookupFails(r) ==
    /\ pc[r] \in Lookup
    /\ pc' = [pc EXCEPT ![r] = "open"]
    /\ \/ UNCHANGED rlCache
       \/ pc[r] = "fill" /\ rlCache' = CacheEntry(limit[r])
    /\ UNCHANGED <<start, limit, stamp, retried, zset, zexp, counted, configVars>>

-----------------------------------------------------------------------------
(* The sliding window, check_rate_limit. *)

(* Mutants: too much evicted; nothing evicted. *)
MutantKept(now) == {m \in zset : stamp[m] > now - Window + MaxDelay + 1}
MutantKeptAll(now) == zset

(* What zremrangebyscore(key, 0, now - window) leaves. *)
Kept(now) == {m \in zset : stamp[m] > now - Window}

(* The MULTI/EXEC pipeline: evict, add the member, refresh the expiry. *)
Pipeline(r) ==
    /\ zset' = Kept(stamp[r]) \cup {r}
    /\ zexp' = clock + Window
    /\ counted' = counted \cup {r}
    /\ UNCHANGED rlCache

(* count <= limit, on the zcard of the same pipeline *)
Allowed(r) == Cardinality(Kept(stamp[r]) \cup {r}) <= limit[r]

Execute(r) ==
    /\ pc[r] = "exec"
    /\ Pipeline(r)
    /\ pc' = [pc EXCEPT ![r] = IF Allowed(r) THEN "allowed" ELSE "denied"]
    /\ UNCHANGED <<start, limit, stamp, retried, configVars>>

(* The pipeline times out, before or after Redis ran it.  The client sends *)
(* the same commands, with the same member, once more (retry_on_timeout);  *)
(* a second failure is logged and the request is let through.              *)
ExecuteTimesOut(r) ==
    /\ pc[r] = "exec"
    /\ Pipeline(r) \/ UNCHANGED redisVars
    /\ retried' = [retried EXCEPT ![r] = TRUE]
    /\ pc' = [pc EXCEPT ![r] = IF retried[r] THEN "open" ELSE "exec"]
    /\ UNCHANGED <<start, limit, stamp, configVars>>

-----------------------------------------------------------------------------
(* The environment. *)

(* An operator edits the rate_limits table. *)
Configure(v) ==
    /\ rpm # v
    /\ rpm' = v
    /\ lastConf' = [lastConf EXCEPT ![v] = clock]
    /\ UNCHANGED <<clock, pc, start, limit, stamp, retried, redisVars>>

(* Time passes; Redis drops the sorted set when its expiry is reached.  No *)
(* request stays longer than MaxDelay in the dependency.                   *)
Tick ==
    /\ clock < MaxClock
    /\ \A r \in Requests : pc[r] \in InFlight => clock < start[r] + MaxDelay
    /\ clock' = clock + 1
    /\ zset' = IF zexp <= clock + 1 THEN {} ELSE zset
    /\ lastConf' = [lastConf EXCEPT ![rpm] = clock + 1]
    /\ UNCHANGED <<rpm, rlCache, zexp, pc, start, limit, stamp, retried, counted>>

Step(r) ==
    \/ Arrive(r) \/ CacheHit(r) \/ CacheMiss(r) \/ QueryLimit(r) \/ FillCache(r)
    \/ LookupFails(r) \/ Execute(r) \/ ExecuteTimesOut(r)

Next ==
    \/ \E r \in Requests : Step(r)
    \/ \E v \in Rpms : Configure(v)
    \/ Tick

Spec == Init /\ [][Next]_vars

-----------------------------------------------------------------------------
(* Properties. *)

(* Every variable has its type, in every reachable state of the model of   *)
(* rate_limit.py.                                                          *)
TypeOK ==
    /\ clock \in Nat /\ rpm \in Rpms
    /\ rlCache \in [val : Rpms \cup {0}, exp : Nat]
    /\ zset \subseteq Requests /\ zexp \in Nat
    /\ pc \in [Requests -> {"idle"} \cup InFlight \cup Verdicts]
    /\ start \in [Requests -> Nat]
    /\ limit \in [Requests -> Rpms \cup {0}]
    /\ stamp \in [Requests -> Nat]
    /\ retried \in [Requests -> BOOLEAN]
    /\ counted \subseteq Requests
    /\ lastConf \in [Rpms -> Int]

Admitted == {r \in Requests : pc[r] = "allowed"}

(* The admitted requests whose timestamp lies in the part of the window    *)
(* before x that a delayed pipeline cannot have evicted.                   *)
AdmittedBefore(x) ==
    {y \in Admitted : stamp[x] - (Window - MaxDelay) < stamp[y] /\ stamp[y] <= stamp[x]}

(* The sliding window limits: of the requests check_rate_limit admitted    *)
(* within any Window - MaxDelay seconds, there are never more than the     *)
(* limit one of them was admitted under, whatever the interleaving of the  *)
(* workers, the retries and the limit changes.  (Not within Window: a      *)
(* pipeline with a clock read MaxDelay ago runs on a set that a fresher    *)
(* pipeline has already trimmed.)                                          *)
WindowLimit ==
    \A x \in Admitted : \E y \in AdmittedBefore(x) :
        Cardinality(AdmittedBefore(x)) <= limit[y]

(* A 429 is deserved: a denied request had more than its limit of requests *)
(* counted in the Window before it, itself included and each only once,    *)
(* even when its pipeline was sent twice.                                  *)
DenialJustified ==
    \A x \in Requests : pc[x] = "denied" =>
        Cardinality({y \in counted : stamp[y] > stamp[x] - Window}) > limit[x]

(* A limit in use is not older than the cache promises: it was configured  *)
(* at some time in the last CacheTTL plus the duration of the two requests *)
(* that carried it, the one that filled the cache and the one that uses it.*)
LimitFresh ==
    \A r \in Requests : pc[r] = "exec" => lastConf[limit[r]] >= clock - Staleness

=============================================================================
