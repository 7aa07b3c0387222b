------------------------- MODULE RateLimiter_proofs -------------------------
(* The rate limit of RateLimiter, for every number of requests, every set  *)
(* of limits and every window: TypeOK, WindowLimit, DenialJustified and    *)
(* LimitFresh are invariants.                                              *)
EXTENDS RateLimiter, TLAPS, FiniteSetTheorems

(* A coroutine is at most MaxDelay old, and the clock it read is one of    *)
(* its lifetime.                                                           *)
Timely ==
    \A r \in Requests : pc[r] \in InFlight =>
        /\ start[r] <= clock /\ clock <= start[r] + MaxDelay
        /\ pc[r] = "exec" => start[r] <= stamp[r] /\ stamp[r] <= clock

(* The sorted set still holds every admitted request of the last Window    *)
(* seconds, and Redis will not expire it before they have left the window. *)
Held ==
    \A y \in Admitted :
        /\ stamp[y] <= clock /\ stamp[y] + Window <= zexp
        /\ stamp[y] > clock - Window => y \in zset

IInv == TypeOK /\ Timely /\ Held /\ WindowLimit

-----------------------------------------------------------------------------

(* Limits are numbers. *)
LEMMA LimitNat == \A v \in Rpms \cup {0} : v \in Nat
  BY RateLimiterAssumption

(* A step that admits nobody and leaves the admitted requests' stamps and  *)
(* limits alone keeps WindowLimit.                                         *)
LEMMA WindowLimitFrame ==
  ASSUME WindowLimit, Admitted' = Admitted,
         \A y \in Admitted : stamp'[y] = stamp[y] /\ limit'[y] = limit[y]
  PROVE  WindowLimit'
<1>1. \A x \in Admitted : AdmittedBefore(x)' = AdmittedBefore(x)
  BY DEF AdmittedBefore
<1>. QED  BY <1>1 DEF WindowLimit, AdmittedBefore

(* The pipeline keeps every admitted request of the last Window seconds,   *)
(* since the clock it was given is not ahead of the time it runs at.       *)
LEMMA PipelineKeeps ==
  ASSUME IInv, NEW r \in Requests, pc[r] = "exec", Pipeline(r)
  PROVE  \A y \in Admitted :
            /\ stamp[y] + Window <= zexp'
            /\ stamp[y] > clock - Window => y \in Kept(stamp[r])
<1>1. stamp[r] <= clock /\ stamp[r] \in Nat /\ clock \in Nat
  BY DEF IInv, Timely, TypeOK, InFlight
<1>. QED
  BY <1>1, RateLimiterAssumption, SMTT(30)
     DEF IInv, TypeOK, Held, Kept, Pipeline, Admitted

-----------------------------------------------------------------------------

(* The invariant holds at the start. *)
LEMMA InitIInv == Init => IInv
<1>. SUFFICES ASSUME Init PROVE IInv
  OBVIOUS
<1>1. TypeOK
  BY RateLimiterAssumption DEF Init, TypeOK, Staleness
<1>2. Timely /\ Held /\ WindowLimit
  BY DEF Init, Timely, Held, WindowLimit, Admitted, InFlight, Lookup
<1>. QED  BY <1>1, <1>2 DEF IInv

(* Every step keeps the types. *)
LEMMA TypeOKStep == TypeOK /\ [Next]_vars => TypeOK'
<1>. SUFFICES ASSUME TypeOK, [Next]_vars PROVE TypeOK'
  OBVIOUS
<1>. USE RateLimiterAssumption DEF TypeOK, InFlight, Lookup, Verdicts
<1>1. ASSUME NEW r \in Requests, Arrive(r) PROVE TypeOK'
  BY <1>1 DEF Arrive, redisVars, configVars
<1>2. ASSUME NEW r \in Requests, NEW v \in Rpms \cup {0}, Decide(r, v)
      PROVE  /\ pc' \in [Requests -> {"idle"} \cup InFlight \cup Verdicts]
             /\ limit' \in [Requests -> Rpms \cup {0}]
             /\ stamp' \in [Requests -> Nat]
  BY <1>2 DEF Decide
<1>3. ASSUME NEW r \in Requests, CacheHit(r) PROVE TypeOK'
  BY <1>2, <1>3 DEF CacheHit, redisVars, configVars
<1>4. ASSUME NEW r \in Requests, CacheMiss(r) PROVE TypeOK'
  BY <1>4 DEF CacheMiss, redisVars, configVars
<1>5. ASSUME NEW r \in Requests, QueryLimit(r) PROVE TypeOK'
  BY <1>5 DEF QueryLimit, redisVars, configVars
<1>6. ASSUME NEW r \in Requests, FillCache(r) PROVE TypeOK'
  <2>1. limit[r] \in Rpms \cup {0}
    OBVIOUS
  <2>2. /\ pc' \in [Requests -> {"idle"} \cup InFlight \cup Verdicts]
        /\ limit' \in [Requests -> Rpms \cup {0}]
        /\ stamp' \in [Requests -> Nat]
    BY <1>2, <1>6, <2>1 DEF FillCache
  <2>3. rlCache' \in [val : Rpms \cup {0}, exp : Nat]
    BY <1>6, <2>1 DEF FillCache, CacheEntry
  <2>. QED  BY <1>6, <2>2, <2>3 DEF FillCache, configVars
<1>7. ASSUME NEW r \in Requests, LookupFails(r) PROVE TypeOK'
  BY <1>7 DEF LookupFails, CacheEntry, configVars
<1>8. ASSUME NEW r \in Requests, Pipeline(r) \/ UNCHANGED redisVars
      PROVE  /\ zset' \subseteq Requests /\ zexp' \in Nat /\ counted' \subseteq Requests
             /\ rlCache' = rlCache
  BY <1>8 DEF Pipeline, Kept, redisVars
<1>9. ASSUME NEW r \in Requests, Execute(r) PROVE TypeOK'
  BY <1>8, <1>9 DEF Execute, configVars
<1>10. ASSUME NEW r \in Requests, ExecuteTimesOut(r) PROVE TypeOK'
  BY <1>8, <1>10 DEF ExecuteTimesOut, configVars
<1>11. ASSUME NEW v \in Rpms, Configure(v) PROVE TypeOK'
  BY <1>11 DEF Configure, redisVars
<1>12. CASE Tick
  BY <1>12 DEF Tick
<1>13. CASE UNCHANGED vars
  BY <1>13 DEF vars
<1>. QED
  BY <1>1, <1>3, <1>4, <1>5, <1>6, <1>7, <1>9, <1>10, <1>11, <1>12, <1>13
     DEF Next, Step

-----------------------------------------------------------------------------

(* A step of a request that is not admitted by it, and does not touch the  *)
(* sorted set, preserves the invariant if the request stays timely.        *)
LEMMA LookupStep ==
  ASSUME IInv, TypeOK', NEW r \in Requests, pc[r] \in {"idle"} \cup InFlight,
         \A q \in Requests \ {r} : /\ pc'[q] = pc[q] /\ start'[q] = start[q]
                                   /\ stamp'[q] = stamp[q] /\ limit'[q] = limit[q],
         pc'[r] # "allowed",
         pc'[r] \in InFlight => start'[r] <= clock /\ clock <= start'[r] + MaxDelay,
         pc'[r] = "exec" => start'[r] <= stamp'[r] /\ stamp'[r] <= clock,
         UNCHANGED <<clock, zset, zexp>>
  PROVE  IInv'
<1>1. Admitted' = Admitted /\ r \notin Admitted
  BY DEF Admitted, InFlight, Lookup
<1>2. Timely'
  BY DEF IInv, Timely
<1>3. Held'
  BY <1>1 DEF IInv, Held, Admitted
<1>4. WindowLimit'
  BY <1>1, WindowLimitFrame DEF IInv, Admitted
<1>. QED  BY <1>2, <1>3, <1>4 DEF IInv

(* Admission: every admitted request a window around r can contain is      *)
(* still in the sorted set, so the zcard the verdict used counted it.      *)
LEMMA ExecuteStep ==
  ASSUME IInv, TypeOK', NEW r \in Requests, Execute(r)
  PROVE  IInv'
<1>. DEFINE In == Kept(stamp[r]) \cup {r}
<1>. USE RateLimiterAssumption
<1>1. /\ pc[r] = "exec" /\ r \notin Admitted
      /\ UNCHANGED <<clock, start, limit, stamp>>
      /\ zset' = In
      /\ pc' = [pc EXCEPT ![r] = IF Allowed(r) THEN "allowed" ELSE "denied"]
      /\ zexp' = clock + Window
  BY DEF Execute, Pipeline, configVars, Admitted
<1>2. /\ start[r] <= stamp[r] /\ stamp[r] <= clock /\ clock <= start[r] + MaxDelay
      /\ clock \in Nat /\ stamp \in [Requests -> Nat] /\ start \in [Requests -> Nat]
      /\ pc \in [Requests -> {"idle"} \cup InFlight \cup Verdicts]
      /\ limit \in [Requests -> Rpms \cup {0}] /\ zset \subseteq Requests
  BY <1>1 DEF IInv, Timely, TypeOK, InFlight
<1>3. \A y \in Admitted : stamp[y] > clock - Window => y \in In
  BY <1>1, PipelineKeeps DEF Execute
<1>4. Admitted' = IF Allowed(r) THEN Admitted \cup {r} ELSE Admitted
  BY <1>1, <1>2 DEF Admitted
<1>5. Timely'
  BY <1>1, <1>2 DEF IInv, Timely, InFlight, Lookup
<1>6. Held'
  BY <1>1, <1>2, <1>3, <1>4 DEF IInv, Held, Admitted
<1>7. CASE ~Allowed(r)
  BY <1>1, <1>4, <1>5, <1>6, <1>7, WindowLimitFrame DEF IInv
<1>8. CASE Allowed(r)
  <2>1. SUFFICES ASSUME NEW x \in Admitted'
                 PROVE  \E y \in AdmittedBefore(x)' :
                            Cardinality(AdmittedBefore(x)') <= limit[y]
    BY <1>1, <1>5, <1>6 DEF IInv, WindowLimit
  <2>2. Admitted' = Admitted \cup {r}
    BY <1>4, <1>8
  <2>3. CASE r \in AdmittedBefore(x)'
    <3>1. stamp[r] <= stamp[x] /\ x \in Requests
      BY <1>1, <2>2, <2>3 DEF AdmittedBefore, Admitted
    <3>2. AdmittedBefore(x)' \subseteq In
      <4>1. SUFFICES ASSUME NEW y \in AdmittedBefore(x)', y # r PROVE y \in In
        OBVIOUS
      <4>2. y \in Admitted /\ stamp[x] - (Window - MaxDelay) < stamp[y]
        BY <1>1, <2>2, <4>1 DEF AdmittedBefore
      <4>3. stamp[y] > clock - Window
        BY <1>2, <3>1, <4>2 DEF Admitted
      <4>. QED  BY <1>3, <4>2, <4>3
    <3>3. IsFiniteSet(In)
      <4>1. In \subseteq Requests
        BY <1>2 DEF Kept
      <4>. QED  BY <4>1, FS_Subset
    <3>4. /\ Cardinality(AdmittedBefore(x)') <= Cardinality(In)
          /\ IsFiniteSet(AdmittedBefore(x)')
      BY <3>2, <3>3, FS_Subset
    <3>5. Cardinality(AdmittedBefore(x)') <= limit[r]
      <4>1. Cardinality(AdmittedBefore(x)') \in Nat /\ Cardinality(In) \in Nat
        BY <3>3, <3>4, FS_CardinalityType
      <4>2. limit[r] \in Nat
        <5>1. limit[r] \in Rpms \cup {0}
          BY <1>2
        <5>. QED  BY <5>1, LimitNat
      <4>. QED  BY <1>8, <3>4, <4>1, <4>2 DEF Allowed
    <3>. QED  BY <2>3, <3>5
  <2>4. CASE r \notin AdmittedBefore(x)'
    <3>1. x # r
      BY <1>1, <1>2, <2>2, <2>4 DEF AdmittedBefore
    <3>2. AdmittedBefore(x)' = AdmittedBefore(x)
      BY <1>1, <2>2, <2>4 DEF AdmittedBefore
    <3>. QED  BY <2>2, <3>1, <3>2 DEF IInv, WindowLimit
  <2>. QED  BY <2>3, <2>4
<1>. QED  BY <1>7, <1>8

(* A timed-out pipeline may have run, but it admits nobody. *)
LEMMA ExecuteTimesOutStep ==
  ASSUME IInv, TypeOK', NEW r \in Requests, ExecuteTimesOut(r)
  PROVE  IInv'
<1>. USE RateLimiterAssumption
<1>1. /\ pc[r] = "exec" /\ UNCHANGED <<clock, start, limit, stamp>>
      /\ pc \in [Requests -> {"idle"} \cup InFlight \cup Verdicts]
  BY DEF ExecuteTimesOut, configVars, IInv, TypeOK
<1>2. Admitted' = Admitted
  BY <1>1 DEF Admitted, ExecuteTimesOut
<1>3. Timely'
  BY <1>1 DEF IInv, Timely, ExecuteTimesOut, InFlight, Lookup
<1>4. Held'
  <2>1. CASE Pipeline(r)
    <3>1. Kept(stamp[r]) \subseteq zset'
      BY <2>1 DEF Pipeline
    <3>. QED  BY <1>1, <1>2, <2>1, <3>1, PipelineKeeps DEF IInv, Held
  <2>2. CASE UNCHANGED redisVars
    BY <1>1, <1>2, <2>2 DEF IInv, Held, redisVars
  <2>. QED  BY <2>1, <2>2 DEF ExecuteTimesOut
<1>. QED  BY <1>1, <1>2, <1>3, <1>4, WindowLimitFrame DEF IInv

(* The clock: Redis drops the sorted set only when nobody admitted is left *)
(* in the window.                                                          *)
LEMMA TickStep ==
  ASSUME IInv, TypeOK', Tick
  PROVE  IInv'
<1>. USE RateLimiterAssumption
<1>1. /\ UNCHANGED <<zexp, pc, start, limit, stamp>> /\ clock' = clock + 1
      /\ clock \in Nat /\ zexp \in Nat
      /\ start \in [Requests -> Nat] /\ stamp \in [Requests -> Nat]
  BY DEF Tick, IInv, TypeOK
<1>2. Admitted' = Admitted
  BY <1>1 DEF Admitted
<1>3. Timely'
  BY <1>1 DEF IInv, Timely, Tick, InFlight
<1>4. Held'
  BY <1>1, <1>2 DEF IInv, Held, Tick, Admitted
<1>. QED  BY <1>1, <1>2, <1>3, <1>4, WindowLimitFrame DEF IInv

(* Every step keeps the invariant. *)
LEMMA NextIInv == IInv /\ [Next]_vars => IInv'
<1>. SUFFICES ASSUME IInv, [Next]_vars PROVE IInv'
  OBVIOUS
<1>. USE RateLimiterAssumption
<1>1. TypeOK' /\ TypeOK
  BY TypeOKStep DEF IInv
<1>2. ASSUME NEW r \in Requests, Arrive(r) PROVE IInv'
  BY <1>1, <1>2, LookupStep DEF Arrive, TypeOK, redisVars, configVars
<1>3. ASSUME NEW r \in Requests, NEW v, Decide(r, v), pc[r] \in Lookup,
             UNCHANGED <<clock, start, zset, zexp>>
      PROVE IInv'
  <2>1. start[r] <= clock /\ clock <= start[r] + MaxDelay
    BY <1>3 DEF IInv, Timely, InFlight
  <2>. QED  BY <1>1, <1>3, <2>1, LookupStep DEF Decide, TypeOK, InFlight
<1>4. ASSUME NEW r \in Requests, CacheHit(r) PROVE IInv'
  BY <1>3, <1>4 DEF CacheHit, Lookup, redisVars, configVars
<1>5. ASSUME NEW r \in Requests, FillCache(r) PROVE IInv'
  BY <1>3, <1>5 DEF FillCache, Lookup, configVars
<1>6. ASSUME NEW r \in Requests, CacheMiss(r) \/ QueryLimit(r) \/ LookupFails(r)
      PROVE IInv'
  <2>1. /\ pc[r] \in Lookup /\ pc'[r] \notin {"allowed", "exec"}
        /\ \A q \in Requests \ {r} : pc'[q] = pc[q] /\ limit'[q] = limit[q]
        /\ UNCHANGED <<clock, start, stamp, zset, zexp>>
    BY <1>1, <1>6 DEF CacheMiss, QueryLimit, LookupFails, Lookup, TypeOK,
                      redisVars, configVars
  <2>2. start[r] <= clock /\ clock <= start[r] + MaxDelay
    BY <2>1 DEF IInv, Timely, InFlight
  <2>. QED  BY <1>1, <2>1, <2>2, LookupStep DEF InFlight
<1>7. ASSUME NEW v \in Rpms, Configure(v) PROVE IInv'
  BY <1>1, <1>7, WindowLimitFrame
     DEF Configure, IInv, Timely, Held, Admitted, redisVars
<1>8. CASE UNCHANGED vars
  BY <1>1, <1>8, WindowLimitFrame DEF vars, IInv, Timely, Held, Admitted
<1>. QED
  BY <1>1, <1>2, <1>4, <1>5, <1>6, <1>7, <1>8, ExecuteStep, ExecuteTimesOutStep,
     TickStep DEF Next, Step

-----------------------------------------------------------------------------

(* Every variable of the rate limiter always has its type. *)
THEOREM TypeCorrect == Spec => []TypeOK
<1>1. Init => TypeOK
  BY InitIInv DEF IInv
<1>. QED  BY <1>1, TypeOKStep, PTL DEF Spec

(* enforce_rate_limit limits: whatever the number of requests and workers, *)
(* the limits an operator sets, their changes, the retries and the time a  *)
(* coroutine is suspended between its clock read and its pipeline, any     *)
(* Window - MaxDelay seconds hold at most as many admitted requests as the *)
(* limit one of them was admitted under.                                   *)
THEOREM WindowLimitHolds == Spec => []WindowLimit
<1>1. IInv => WindowLimit
  BY DEF IInv
<1>. QED  BY <1>1, InitIInv, NextIInv, PTL DEF Spec

-----------------------------------------------------------------------------
(* The denials. *)

(* Everything in the sorted set has been counted, and who was counted has  *)
(* read the clock for good.                                                *)
Tallied ==
    /\ zset \subseteq counted
    /\ \A y \in counted : pc[y] \in {"exec"} \cup Verdicts

DInv == TypeOK /\ Tallied /\ DenialJustified

(* A step that denies nobody, and leaves those counted or denied alone.    *)
LEMMA DenialFrame ==
  ASSUME DInv, TypeOK', counted \subseteq counted',
         \A y \in Requests : y \in counted => stamp'[y] = stamp[y],
         \A x \in Requests : pc'[x] = "denied" =>
             pc[x] = "denied" /\ stamp'[x] = stamp[x] /\ limit'[x] = limit[x]
  PROVE  DenialJustified'
<1>. SUFFICES ASSUME NEW x \in Requests, pc'[x] = "denied"
              PROVE  Cardinality({y \in counted' : stamp'[y] > stamp'[x] - Window}) > limit'[x]
  BY DEF DenialJustified
<1>. DEFINE Before == {y \in counted : stamp[y] > stamp[x] - Window}
            Now == {y \in counted' : stamp'[y] > stamp'[x] - Window}
<1>1. /\ stamp'[x] = stamp[x] /\ limit'[x] = limit[x] /\ Cardinality(Before) > limit[x]
      /\ counted \subseteq Requests /\ counted' \subseteq Requests
  BY DEF DInv, DenialJustified, TypeOK
<1>2. Before \subseteq Now
  BY <1>1
<1>3. IsFiniteSet(Now)
  <2>1. Now \subseteq Requests
    BY <1>1
  <2>. QED  BY <2>1, FS_Subset, RateLimiterAssumption
<1>4. /\ Cardinality(Before) <= Cardinality(Now)
      /\ Cardinality(Before) \in Nat /\ Cardinality(Now) \in Nat
  BY <1>2, <1>3, FS_Subset, FS_CardinalityType
<1>5. limit[x] \in Nat
  <2>1. limit[x] \in Rpms \cup {0}
    BY DEF DInv, TypeOK
  <2>. QED  BY <2>1, LimitNat
<1>. QED  BY <1>1, <1>4, <1>5

(* A step of a request in the lookup: it denies and counts nobody.         *)
LEMMA LookupDenies ==
  ASSUME DInv, TypeOK', NEW r \in Requests, pc[r] \in {"idle"} \cup Lookup,
         \A q \in Requests \ {r} : /\ pc'[q] = pc[q] /\ stamp'[q] = stamp[q]
                                   /\ limit'[q] = limit[q],
         pc'[r] # "denied",
         UNCHANGED <<zset, counted>>
  PROVE  DInv'
<1>1. r \notin counted
  BY DEF DInv, Tallied, Lookup, Verdicts
<1>2. Tallied'
  BY <1>1 DEF DInv, Tallied, TypeOK
<1>3. DenialJustified'
  BY <1>1, DenialFrame
<1>. QED  BY <1>2, <1>3 DEF DInv

(* The verdict of the pipeline compares with what the pipeline has just    *)
(* counted, all of it members of the set.                                  *)
LEMMA ExecuteDenies ==
  ASSUME DInv, TypeOK', NEW r \in Requests, Execute(r)
  PROVE  DInv'
<1>. USE RateLimiterAssumption
<1>1. /\ pc[r] = "exec" /\ UNCHANGED <<limit, stamp>>
      /\ zset' = Kept(stamp[r]) \cup {r} /\ counted' = counted \cup {r}
      /\ pc' = [pc EXCEPT ![r] = IF Allowed(r) THEN "allowed" ELSE "denied"]
      /\ pc \in [Requests -> {"idle"} \cup InFlight \cup Verdicts]
      /\ stamp \in [Requests -> Nat] /\ zset \subseteq counted /\ counted \subseteq Requests
  BY DEF Execute, Pipeline, configVars, DInv, TypeOK, Tallied
<1>2. Kept(stamp[r]) \subseteq zset
  BY DEF Kept
<1>3. Tallied'
  BY <1>1, <1>2 DEF DInv, Tallied, Verdicts
<1>4. CASE Allowed(r)
  <2>1. \A x \in Requests : pc'[x] = "denied" => pc[x] = "denied"
    BY <1>1, <1>4
  <2>2. DenialJustified'
    BY <1>1, <2>1, DenialFrame
  <2>. QED  BY <1>3, <2>2 DEF DInv
<1>5. CASE ~Allowed(r)
  <2>1. SUFFICES ASSUME NEW x \in Requests, pc'[x] = "denied"
                 PROVE  Cardinality({y \in counted' : stamp[y] > stamp[x] - Window}) > limit[x]
    BY <1>1, <1>3 DEF DInv, DenialJustified
  <2>. DEFINE Now == {y \in counted' : stamp[y] > stamp[x] - Window}
              Seen == IF x = r THEN Kept(stamp[r]) \cup {r}
                               ELSE {y \in counted : stamp[y] > stamp[x] - Window}
  <2>2. Seen \subseteq Now
    BY <1>1, <1>2 DEF Kept
  <2>3. IsFiniteSet(Now)
    <3>1. Now \subseteq Requests
      BY <1>1
    <3>. QED  BY <3>1, FS_Subset
  <2>4. /\ Cardinality(Seen) <= Cardinality(Now)
        /\ Cardinality(Seen) \in Nat /\ Cardinality(Now) \in Nat
    <3>. HIDE DEF Seen, Now
    <3>. QED  BY <2>2, <2>3, FS_Subset, FS_CardinalityType
  <2>5. limit[x] \in Nat
    <3>1. limit[x] \in Rpms \cup {0}
      BY DEF DInv, TypeOK
    <3>. QED  BY <3>1, LimitNat
  <2>6. Cardinality(Seen) > limit[x]
    <3>1. CASE x = r
      <4>1. Seen = Kept(stamp[r]) \cup {r} /\ ~(Cardinality(Seen) <= limit[r])
        BY <1>5, <3>1 DEF Allowed
      <4>. HIDE DEF Seen
      <4>. QED  BY <2>4, <2>5, <3>1, <4>1
    <3>2. CASE x # r
      BY <1>1, <2>1, <3>2 DEF DInv, DenialJustified
    <3>. QED  BY <3>1, <3>2
  <2>. HIDE DEF Seen
  <2>. QED  BY <2>4, <2>5, <2>6
<1>. QED  BY <1>4, <1>5

(* Every step keeps the denials justified: a pipeline that is sent twice   *)
(* counts its member once, since it is the same member.                    *)
LEMMA NextDInv == DInv /\ [Next]_vars => DInv'
<1>. SUFFICES ASSUME DInv, [Next]_vars PROVE DInv'
  OBVIOUS
<1>1. TypeOK' /\ TypeOK
  BY TypeOKStep DEF DInv
<1>2. ASSUME NEW r \in Requests, Arrive(r) PROVE DInv'
  BY <1>1, <1>2, LookupDenies DEF Arrive, TypeOK, redisVars, configVars
<1>3. ASSUME NEW r \in Requests, NEW v, Decide(r, v), pc[r] \in Lookup, UNCHANGED <<zset, counted>>
      PROVE  DInv'
  BY <1>1, <1>3, LookupDenies DEF Decide, TypeOK
<1>4. ASSUME NEW r \in Requests, CacheHit(r) \/ FillCache(r) PROVE DInv'
  BY <1>3, <1>4 DEF CacheHit, FillCache, Lookup, redisVars
<1>5. ASSUME NEW r \in Requests, CacheMiss(r) \/ QueryLimit(r) \/ LookupFails(r)
      PROVE  DInv'
  <2>1. /\ pc[r] \in Lookup /\ pc'[r] # "denied" /\ stamp' = stamp
        /\ \A q \in Requests \ {r} : pc'[q] = pc[q] /\ limit'[q] = limit[q]
        /\ UNCHANGED <<zset, counted>>
    BY <1>1, <1>5 DEF CacheMiss, QueryLimit, LookupFails, Lookup, TypeOK,
                      redisVars, configVars
  <2>. QED  BY <1>1, <2>1, LookupDenies
<1>6. ASSUME NEW r \in Requests, ExecuteTimesOut(r) PROVE DInv'
  <2>1. /\ pc[r] = "exec" /\ pc'[r] \in {"open", "exec"} /\ UNCHANGED <<limit, stamp>>
        /\ \A q \in Requests \ {r} : pc'[q] = pc[q]
        /\ \/ zset' \subseteq zset \cup {r} /\ counted' = counted \cup {r}
           \/ UNCHANGED <<zset, counted>>
    BY <1>1, <1>6 DEF ExecuteTimesOut, Pipeline, Kept, TypeOK, redisVars, configVars
  <2>2. Tallied'
    BY <1>1, <2>1 DEF DInv, Tallied, Verdicts, TypeOK
  <2>3. DenialJustified'
    BY <1>1, <2>1, DenialFrame
  <2>. QED  BY <1>1, <2>2, <2>3 DEF DInv
<1>7. ASSUME NEW v \in Rpms, Configure(v) PROVE DInv'
  BY <1>1, <1>7, DenialFrame DEF Configure, DInv, Tallied, redisVars
<1>8. CASE Tick
  <2>1. zset' \subseteq zset /\ UNCHANGED <<pc, stamp, limit, counted>>
    BY <1>8 DEF Tick
  <2>. QED  BY <1>1, <2>1, DenialFrame DEF DInv, Tallied
<1>9. CASE UNCHANGED vars
  BY <1>1, <1>9, DenialFrame DEF vars, DInv, Tallied
<1>. QED
  BY <1>1, <1>2, <1>4, <1>5, <1>6, <1>7, <1>8, <1>9, ExecuteDenies DEF Next, Step

-----------------------------------------------------------------------------
(* The age of a limit. *)

(* The ghost lastConf only grows, up to the present, where the limit that  *)
(* is configured stands.                                                   *)
Dated == lastConf[rpm] = clock /\ \A v \in Rpms : lastConf[v] <= clock

(* A limit is as old as the entry it was found in, plus the run that wrote *)
(* it, plus, for who uses it, its own run.                                 *)
Aged ==
    /\ rlCache.exp > clock =>
          /\ rlCache.val \in Rpms
          /\ lastConf[rlCache.val] >= rlCache.exp - CacheTTL - MaxDelay
    /\ \A r \in Requests : pc[r] = "fill" =>
          limit[r] \in Rpms /\ lastConf[limit[r]] >= start[r]
    /\ \A r \in Requests : pc[r] = "exec" =>
          limit[r] \in Rpms /\ lastConf[limit[r]] >= start[r] - CacheTTL - MaxDelay

FInv == IInv /\ Dated /\ Aged

(* The limits found grow no older by a change of the configuration or the  *)
(* clock.                                                                  *)
LEMMA AgedFrame ==
  ASSUME FInv, TypeOK', \A v \in Rpms : lastConf'[v] >= lastConf[v],
         clock <= clock', UNCHANGED <<rlCache, pc, limit, start>>
  PROVE  Aged'
<1>1. /\ clock \in Nat /\ clock' \in Nat /\ rlCache.exp \in Nat
      /\ lastConf \in [Rpms -> Int] /\ lastConf' \in [Rpms -> Int]
      /\ start \in [Requests -> Nat] /\ CacheTTL \in Nat /\ MaxDelay \in Nat
  BY RateLimiterAssumption DEF FInv, IInv, TypeOK
<1>2. Aged
  BY DEF FInv
<1>3. rlCache'.exp > clock' =>
          /\ rlCache'.val \in Rpms
          /\ lastConf'[rlCache'.val] >= rlCache'.exp - CacheTTL - MaxDelay
  <2>1. SUFFICES ASSUME rlCache.exp > clock'
                 PROVE  /\ rlCache.val \in Rpms
                        /\ lastConf'[rlCache.val] >= rlCache.exp - CacheTTL - MaxDelay
    OBVIOUS
  <2>2. /\ rlCache.val \in Rpms
        /\ lastConf[rlCache.val] >= rlCache.exp - CacheTTL - MaxDelay
    BY <1>1, <1>2, <2>1 DEF Aged
  <2>. QED  BY <1>1, <2>2
<1>4. \A r \in Requests : pc'[r] = "fill" =>
          limit'[r] \in Rpms /\ lastConf'[limit'[r]] >= start'[r]
  BY <1>1, <1>2 DEF Aged
<1>5. \A r \in Requests : pc'[r] = "exec" =>
          limit'[r] \in Rpms /\ lastConf'[limit'[r]] >= start'[r] - CacheTTL - MaxDelay
  BY <1>1, <1>2 DEF Aged
<1>. QED  BY <1>3, <1>4, <1>5 DEF Aged

(* A step of one request: what has to be shown is about it and the entry.  *)
LEMMA AgedRequest ==
  ASSUME FInv, NEW r \in Requests,
         \A q \in Requests \ {r} : /\ pc'[q] = pc[q] /\ start'[q] = start[q]
                                   /\ limit'[q] = limit[q],
         pc'[r] = "fill" => limit'[r] \in Rpms /\ lastConf[limit'[r]] >= start'[r],
         pc'[r] = "exec" =>
             /\ limit'[r] \in Rpms
             /\ lastConf[limit'[r]] >= start'[r] - CacheTTL - MaxDelay,
         \/ rlCache' = rlCache
         \/ /\ rlCache'.exp = clock + CacheTTL /\ rlCache'.val \in Rpms
            /\ lastConf[rlCache'.val] >= clock - MaxDelay,
         UNCHANGED <<clock, lastConf>>
  PROVE  Aged'
<1>1. /\ clock \in Nat /\ lastConf \in [Rpms -> Int]
      /\ CacheTTL \in Nat /\ MaxDelay \in Nat
  BY RateLimiterAssumption DEF FInv, IInv, TypeOK
<1>2. Aged
  BY DEF FInv
<1>3. rlCache'.exp > clock =>
          /\ rlCache'.val \in Rpms
          /\ lastConf[rlCache'.val] >= rlCache'.exp - CacheTTL - MaxDelay
  BY <1>1, <1>2 DEF Aged
<1>4. \A q \in Requests : pc'[q] = "fill" =>
          limit'[q] \in Rpms /\ lastConf[limit'[q]] >= start'[q]
  BY <1>2 DEF Aged
<1>5. \A q \in Requests : pc'[q] = "exec" =>
          limit'[q] \in Rpms /\ lastConf[limit'[q]] >= start'[q] - CacheTTL - MaxDelay
  BY <1>2 DEF Aged
<1>. QED  BY <1>3, <1>4, <1>5 DEF Aged

(* The lookup: a limit read from the table is the one configured now, one  *)
(* found in the entry is younger than the entry's TTL.                     *)
LEMMA AgedLookup ==
  ASSUME FInv, TypeOK', NEW r \in Requests,
         \/ Arrive(r) \/ CacheHit(r) \/ CacheMiss(r) \/ QueryLimit(r) \/ FillCache(r)
         \/ LookupFails(r)
  PROVE  Aged'
<1>1. /\ clock \in Nat /\ lastConf \in [Rpms -> Int] /\ start \in [Requests -> Nat]
      /\ limit \in [Requests -> Rpms \cup {0}] /\ rpm \in Rpms
      /\ rlCache \in [val : Rpms \cup {0}, exp : Nat]
      /\ CacheTTL \in Nat /\ MaxDelay \in Nat
      /\ pc \in [Requests -> {"idle"} \cup InFlight \cup Verdicts]
      /\ Aged /\ Dated
  BY RateLimiterAssumption DEF FInv, IInv, TypeOK
<1>2. pc[r] \in InFlight => start[r] <= clock /\ clock <= start[r] + MaxDelay
  BY DEF FInv, IInv, Timely
<1>3. ASSUME NEW v \in Rpms \cup {0}, Decide(r, v), UNCHANGED start,
             v \in Rpms => lastConf[v] >= start[r] - CacheTTL - MaxDelay,
             v = 0 \/ v \in Rpms,
             UNCHANGED <<clock, lastConf>>,
             \/ rlCache' = rlCache
             \/ /\ rlCache'.exp = clock + CacheTTL /\ rlCache'.val \in Rpms
                /\ lastConf[rlCache'.val] >= clock - MaxDelay
      PROVE  Aged'
  <2>1. /\ \A q \in Requests \ {r} : pc'[q] = pc[q] /\ limit'[q] = limit[q]
        /\ limit'[r] = v /\ pc'[r] = IF v <= 0 THEN "open" ELSE "exec"
    BY <1>1, <1>3 DEF Decide
  <2>2. pc'[r] = "exec" => limit'[r] \in Rpms /\ lastConf[v] >= start[r] - CacheTTL - MaxDelay
    BY <1>3, <2>1
  <2>. QED  BY <1>3, <2>1, <2>2, AgedRequest
<1>4. CASE Arrive(r)
  BY <1>1, <1>4, AgedRequest DEF Arrive, redisVars, configVars
<1>5. CASE CacheHit(r)
  <2>1. /\ pc[r] = "lookup" /\ rlCache.exp > clock /\ Decide(r, rlCache.val)
        /\ UNCHANGED <<start, rlCache, clock, lastConf>>
    BY <1>5 DEF CacheHit, redisVars, configVars
  <2>2. start[r] <= clock
    BY <1>2, <2>1 DEF InFlight, Lookup
  <2>3. /\ rlCache.val \in Rpms /\ rlCache.exp \in Nat /\ start[r] \in Nat
        /\ lastConf[rlCache.val] \in Int
        /\ lastConf[rlCache.val] >= rlCache.exp - CacheTTL - MaxDelay
    BY <1>1, <2>1 DEF Aged
  <2>4. lastConf[rlCache.val] >= start[r] - CacheTTL - MaxDelay
    BY <1>1, <2>1, <2>2, <2>3
  <2>. QED  BY <1>3, <2>1, <2>3, <2>4
<1>6. CASE CacheMiss(r)
  <2>1. /\ pc' = [pc EXCEPT ![r] = "query"]
        /\ UNCHANGED <<start, limit, rlCache, clock, lastConf>>
    BY <1>6 DEF CacheMiss, redisVars, configVars
  <2>. QED  BY <1>1, <2>1, AgedRequest
<1>7. CASE QueryLimit(r)
  <2>1. /\ pc[r] = "query" /\ pc' = [pc EXCEPT ![r] = "fill"]
        /\ limit' = [limit EXCEPT ![r] = rpm]
        /\ UNCHANGED <<start, rlCache, clock, lastConf>>
    BY <1>7 DEF QueryLimit, redisVars, configVars
  <2>2. lastConf[rpm] >= start[r]
    BY <1>1, <1>2, <2>1 DEF Dated, InFlight, Lookup
  <2>. QED  BY <1>1, <2>1, <2>2, AgedRequest
<1>8. ASSUME pc[r] = "fill"
      PROVE  /\ limit[r] \in Rpms /\ lastConf[limit[r]] >= start[r]
             /\ lastConf[limit[r]] >= clock - MaxDelay
             /\ lastConf[limit[r]] >= start[r] - CacheTTL - MaxDelay
  <2>1. limit[r] \in Rpms /\ lastConf[limit[r]] >= start[r] /\ lastConf[limit[r]] \in Int
    BY <1>1, <1>8 DEF Aged
  <2>2. clock <= start[r] + MaxDelay
    BY <1>2, <1>8 DEF InFlight, Lookup
  <2>. QED  BY <1>1, <2>1, <2>2
<1>9. CASE FillCache(r)
  <2>1. /\ pc[r] = "fill" /\ Decide(r, limit[r]) /\ UNCHANGED <<start, clock, lastConf>>
        /\ rlCache' = [val |-> limit[r], exp |-> clock + CacheTTL]
    BY <1>9 DEF FillCache, CacheEntry, configVars
  <2>. QED  BY <1>3, <1>8, <2>1
<1>10. CASE LookupFails(r)
  <2>1. /\ pc' = [pc EXCEPT ![r] = "open"] /\ UNCHANGED <<start, limit, clock, lastConf>>
        /\ \/ rlCache' = rlCache
           \/ pc[r] = "fill" /\ rlCache' = [val |-> limit[r], exp |-> clock + CacheTTL]
    BY <1>10 DEF LookupFails, CacheEntry, configVars
  <2>. QED  BY <1>1, <1>8, <2>1, AgedRequest
<1>. QED  BY <1>4, <1>5, <1>6, <1>7, <1>9, <1>10

(* Every step keeps the limits as fresh as promised.                       *)
LEMMA NextFInv == FInv /\ [Next]_vars => FInv'
<1>. SUFFICES ASSUME FInv, [Next]_vars PROVE FInv'
  OBVIOUS
<1>1. IInv' /\ TypeOK' /\ TypeOK /\ Dated
  BY NextIInv DEF IInv, FInv
<1>2. ASSUME NEW r \in Requests, Step(r) PROVE Dated' /\ Aged'
  <2>1. UNCHANGED <<clock, rpm, lastConf>>
    BY <1>2 DEF Step, Arrive, CacheHit, CacheMiss, QueryLimit, FillCache, LookupFails,
                Execute, ExecuteTimesOut, configVars
  <2>2. CASE Execute(r) \/ ExecuteTimesOut(r)
    <3>1. /\ \A q \in Requests \ {r} : pc'[q] = pc[q]
          /\ pc'[r] \in {"exec"} \cup Verdicts /\ pc[r] = "exec"
          /\ UNCHANGED <<start, limit, rlCache>>
      BY <1>1, <2>2 DEF Execute, ExecuteTimesOut, Pipeline, TypeOK, redisVars, configVars,
                        Verdicts
    <3>. QED  BY <1>1, <2>1, <3>1, AgedRequest DEF Dated, FInv, Aged, Verdicts
  <2>. QED  BY <1>1, <1>2, <2>1, <2>2, AgedLookup DEF Dated, Step
<1>3. ASSUME NEW v \in Rpms, Configure(v) PROVE Dated' /\ Aged'
  <2>1. /\ rpm' = v /\ lastConf' = [lastConf EXCEPT ![v] = clock]
        /\ UNCHANGED <<clock, rlCache, pc, limit, start>>
        /\ lastConf \in [Rpms -> Int] /\ clock \in Nat
    BY <1>1, <1>3 DEF Configure, redisVars, TypeOK
  <2>2. \A u \in Rpms : lastConf'[u] >= lastConf[u] /\ lastConf'[u] <= clock
    BY <1>1, <2>1 DEF Dated
  <2>. QED  BY <1>1, <2>1, <2>2, AgedFrame DEF Dated
<1>4. CASE Tick
  <2>1. /\ clock' = clock + 1 /\ lastConf' = [lastConf EXCEPT ![rpm] = clock + 1]
        /\ UNCHANGED <<rpm, rlCache, pc, limit, start>>
        /\ lastConf \in [Rpms -> Int] /\ clock \in Nat /\ rpm \in Rpms
    BY <1>1, <1>4 DEF Tick, TypeOK
  <2>2. \A u \in Rpms : lastConf'[u] >= lastConf[u] /\ lastConf'[u] <= clock + 1
    BY <1>1, <2>1 DEF Dated
  <2>3. Dated'
    BY <2>1, <2>2 DEF Dated
  <2>4. Aged'
    BY <1>1, <2>1, <2>2, AgedFrame
  <2>. QED  BY <1>1, <2>3, <2>4 DEF FInv
<1>5. CASE UNCHANGED vars
  BY <1>1, <1>5 DEF vars, FInv, Dated, Aged
<1>. QED  BY <1>1, <1>2, <1>3, <1>4, <1>5 DEF Next, FInv

-----------------------------------------------------------------------------

(* A 429 of enforce_rate_limit is deserved, for any number of requests and *)
(* any limits: whoever is denied had more than its limit counted in the    *)
(* window before it, each once, although a pipeline may be sent twice.     *)
THEOREM DenialJustifiedHolds == Spec => []DenialJustified
<1>1. Init => DInv
  <2>. SUFFICES ASSUME Init PROVE DInv
    OBVIOUS
  <2>1. TypeOK
    BY InitIInv DEF IInv
  <2>. QED  BY <2>1 DEF Init, DInv, Tallied, DenialJustified
<1>2. DInv => DenialJustified
  BY DEF DInv
<1>. QED  BY <1>1, <1>2, NextDInv, PTL DEF Spec

(* The limit a request is checked against was the configured one at some   *)
(* time in the last CacheTTL plus the duration of two requests, for any    *)
(* limits, any changes of them and any number of failed lookups.           *)
THEOREM LimitFreshHolds == Spec => []LimitFresh
<1>. USE RateLimiterAssumption
<1>1. Init => FInv
  <2>. SUFFICES ASSUME Init PROVE FInv
    OBVIOUS
  <2>1. IInv
    BY InitIInv
  <2>2. Dated /\ Aged
    BY DEF Init, Dated, Aged, Staleness
  <2>. QED  BY <2>1, <2>2 DEF FInv
<1>2. FInv => LimitFresh
  <2>. SUFFICES ASSUME FInv, NEW r \in Requests, pc[r] = "exec"
                PROVE  lastConf[limit[r]] >= clock - Staleness
    BY DEF LimitFresh
  <2>1. /\ limit[r] \in Rpms /\ lastConf[limit[r]] >= start[r] - CacheTTL - MaxDelay
        /\ clock <= start[r] + MaxDelay
    BY DEF FInv, Aged, IInv, Timely, InFlight
  <2>2. lastConf[limit[r]] \in Int /\ start[r] \in Nat /\ clock \in Nat
    BY <2>1 DEF FInv, IInv, TypeOK
  <2>. QED  BY <2>1, <2>2 DEF Staleness
<1>. QED  BY <1>1, <1>2, NextFInv, PTL DEF Spec
=============================================================================
