--------------------------- MODULE Breaker_proofs ---------------------------
(* The circuit breaker, for any number of deployments and calls and any    *)
(* threshold: TypeOK, CounterDrains, ThresholdOpens and NoSpuriousOpening. *)
EXTENDS Breaker, TLAPS, FiniteSetTheorems

(* Only dispatched calls record failures and successes. *)
Recorders == \A c \in Calls : pc[c] \in Recording \cup {"reset"} => c \in BalancerCalls

IInv == TypeOK /\ Recorders /\ CounterDrains

(* The invariant holds at the start. *)
LEMMA InitIInv == Init => IInv
BY BreakerAssumption
     DEF Init, IInv, TypeOK, Recorders, CounterDrains, Deployments, InFlight, Recording

(* Every step keeps the types. *)
LEMMA TypeOKStep == TypeOK /\ [Next]_vars => TypeOK'
<1>. SUFFICES ASSUME TypeOK, [Next]_vars PROVE TypeOK'
  OBVIOUS
<1>. USE BreakerAssumption
     DEF TypeOK, InFlight, Recording, Ended, Goto, redisVars, ghosts
<1>1. ASSUME NEW c \in Calls, Select(c) PROVE TypeOK'
  <2>1. dep[c] \in 1..N /\ N \in Nat \ {0}
    BY DEF Deployments
  <2>2. dep[c] < N => dep[c] + 1 \in 1..N
    BY <2>1
  <2>3. dep' \in [Calls -> Deployments]
    <3>1. \/ dep' = dep
          \/ dep[c] < N /\ dep' = [dep EXCEPT ![c] = dep[c] + 1]
          \/ dep' = [dep EXCEPT ![c] = 1]
      BY <1>1 DEF Select
    <3>2. 1 \in 1..N
      BY <2>1
    <3>. QED  BY <2>2, <3>1, <3>2 DEF Deployments
  <2>4. pc' \in [Calls -> InFlight \cup Ended]
    BY <1>1 DEF Select, Selected
  <2>. QED  BY <1>1, <2>3, <2>4 DEF Select
<1>2. ASSUME NEW c \in Calls, CheckCooldown(c) PROVE TypeOK'
  BY <1>2 DEF CheckCooldown
<1>3. ASSUME NEW c \in Calls, CheckFails(c) PROVE TypeOK'
  BY <1>3 DEF CheckFails
<1>4. ASSUME NEW c \in Calls, UpstreamOk(c) PROVE TypeOK'
  BY <1>4 DEF UpstreamOk
<1>5. ASSUME NEW c \in Calls, UpstreamFails(c) PROVE TypeOK'
  <2>1. /\ charged' \in [Deployments -> Nat]
        /\ tries' \in [Calls -> Nat]
    BY <1>5 DEF UpstreamFails
  <2>. QED  BY <1>5, <2>1 DEF UpstreamFails
<1>6. ASSUME NEW c \in Calls, Incr(c) PROVE TypeOK'
  <2>1. fails' \in [Deployments -> Nat]
    BY <1>6 DEF Incr, AddFailures
  <2>. QED  BY <1>6, <2>1 DEF Incr, AddFailures
<1>7. ASSUME NEW c \in Calls, SetCooldown(c) PROVE TypeOK'
  BY <1>7 DEF SetCooldown
<1>8. ASSUME NEW c \in Calls, DeleteCounter(c) PROVE TypeOK'
  BY <1>8 DEF DeleteCounter
<1>9. ASSUME NEW c \in Calls, Die(c) PROVE TypeOK'
  BY <1>9 DEF Die
<1>10. ASSUME NEW d \in Deployments, CooldownExpires(d) PROVE TypeOK'
  BY <1>10 DEF CooldownExpires
<1>11. CASE UNCHANGED vars
  BY <1>11 DEF vars
<1>. QED
  BY <1>1, <1>2, <1>3, <1>4, <1>5, <1>6, <1>7, <1>8, <1>9, <1>10, <1>11
     DEF Next, Step

(* The calls that take part in a drain: nobody else has to be looked at.   *)
LEMMA DrainFrame ==
  ASSUME IInv, NEW c \in Calls, pc[c] \notin {"setcool", "delete"},
         \A e \in Calls \ {c} : pc'[e] = pc[e] /\ dep'[e] = dep[e],
         fails' = fails, faulty' = faulty
  PROVE  CounterDrains'
<1>. SUFFICES ASSUME ~faulty, NEW d \in Deployments, fails[d] >= MaxFails
              PROVE  \E e \in BalancerCalls : pc'[e] \in {"setcool", "delete"} /\ dep'[e] = d
  BY DEF CounterDrains
<1>1. PICK e \in BalancerCalls : pc[e] \in {"setcool", "delete"} /\ dep[e] = d
  BY DEF IInv, CounterDrains
<1>2. e \in Calls /\ e # c
  BY <1>1 DEF Calls
<1>. QED  BY <1>1, <1>2

(* Every step keeps the invariant: only record_failure raises a counter,   *)
(* and who raises it to the threshold goes on to reset it.                 *)
LEMMA NextIInv == IInv /\ [Next]_vars => IInv'
<1>. SUFFICES ASSUME IInv, [Next]_vars PROVE IInv'
  OBVIOUS
<1>0. faulty' = faulty
  BY DEF Next, Step, Select, CheckCooldown, CheckFails, UpstreamOk, UpstreamFails, Incr,
         SetCooldown, DeleteCounter, Die, CooldownExpires, redisVars, ghosts, vars
<1>1. TypeOK' /\ TypeOK
  BY TypeOKStep DEF IInv
<1>2. ASSUME NEW c \in Calls,
             \/ Select(c) \/ CheckCooldown(c) \/ CheckFails(c) \/ UpstreamOk(c)
             \/ UpstreamFails(c)
      PROVE  IInv'
  <2>1. /\ pc[c] \notin {"setcool", "delete"} /\ fails' = fails
        /\ \A e \in Calls \ {c} : pc'[e] = pc[e] /\ dep'[e] = dep[e]
        /\ pc'[c] \in Recording \cup {"reset"} => c \in BalancerCalls
    BY <1>1, <1>2
       DEF Select, Selected, CheckCooldown, CheckFails, UpstreamOk, UpstreamFails,
           Goto, TypeOK, redisVars, Recording
  <2>2. Recorders'
    BY <2>1 DEF IInv, Recorders
  <2>. QED  BY <1>0, <1>1, <2>1, <2>2, DrainFrame DEF IInv
<1>3. ASSUME NEW c \in Calls, Incr(c) PROVE IInv'
  <2>1. /\ c \in BalancerCalls /\ dep' = dep /\ dep[c] \in Deployments
        /\ \A e \in Calls \ {c} : pc'[e] = pc[e]
        /\ pc[c] = "incr" /\ pc'[c] \in {"setcool", "error"}
    BY <1>1, <1>3 DEF IInv, Incr, AddFailures, Goto, Recorders, Recording, TypeOK
  <2>2. Recorders'
    BY <2>1 DEF IInv, Recorders
  <2>3. CounterDrains'
    <3>1. SUFFICES ASSUME ~faulty, NEW d \in Deployments, fails'[d] >= MaxFails
                   PROVE  \E e \in BalancerCalls :
                              pc'[e] \in {"setcool", "delete"} /\ dep'[e] = d
      BY <1>0 DEF CounterDrains
    <3>2. CASE d = dep[c]
      BY <1>1, <1>3, <2>1, <3>1, <3>2 DEF Incr, AddFailures, Goto, TypeOK, Calls
    <3>3. CASE d # dep[c]
      <4>1. fails'[d] = fails[d]
        BY <1>1, <1>3, <2>1, <3>1, <3>3 DEF Incr, AddFailures, TypeOK
      <4>2. PICK e \in BalancerCalls : pc[e] \in {"setcool", "delete"} /\ dep[e] = d
        BY <3>1, <4>1 DEF IInv, CounterDrains
      <4>. QED  BY <2>1, <4>2 DEF Calls
    <3>. QED  BY <3>2, <3>3
  <2>. QED  BY <1>1, <2>2, <2>3 DEF IInv
<1>4. ASSUME NEW c \in Calls, SetCooldown(c) PROVE IInv'
  <2>1. /\ pc[c] = "setcool" /\ pc' = [pc EXCEPT ![c] = "delete"]
        /\ UNCHANGED <<fails, dep>>
    BY <1>4 DEF SetCooldown, Goto
  <2>. QED
    BY <1>0, <1>1, <2>1 DEF IInv, Recorders, Recording, CounterDrains, TypeOK, Calls
<1>5. ASSUME NEW c \in Calls, DeleteCounter(c) PROVE IInv'
  <2>1. /\ pc' = [pc EXCEPT ![c] = IF pc[c] = "delete" THEN "error" ELSE "ok"]
        /\ dep' = dep
        /\ ~faulty => fails' = [fails EXCEPT ![dep[c]] = 0]
    BY <1>5 DEF DeleteCounter, Goto
  <2>2. Recorders'
    BY <1>1, <2>1 DEF IInv, Recorders, Recording, TypeOK
  <2>3. CounterDrains'
    <3>1. SUFFICES ASSUME ~faulty, NEW d \in Deployments, fails'[d] >= MaxFails
                   PROVE  \E e \in BalancerCalls :
                              pc'[e] \in {"setcool", "delete"} /\ dep'[e] = d
      BY <1>0 DEF CounterDrains
    <3>2. d # dep[c] /\ fails'[d] = fails[d]
      BY <1>1, <2>1, <3>1, BreakerAssumption DEF TypeOK
    <3>3. PICK e \in BalancerCalls : pc[e] \in {"setcool", "delete"} /\ dep[e] = d
      BY <3>1, <3>2 DEF IInv, CounterDrains
    <3>. QED  BY <1>1, <2>1, <3>2, <3>3 DEF TypeOK, Calls
  <2>. QED  BY <1>1, <2>2, <2>3 DEF IInv
<1>6. ASSUME NEW c \in Calls, Die(c) PROVE IInv'
  BY <1>0, <1>1, <1>6 DEF Die, Goto, IInv, Recorders, Recording, CounterDrains, TypeOK
<1>7. ASSUME NEW d \in Deployments, CooldownExpires(d) PROVE IInv'
  BY <1>0, <1>1, <1>7 DEF CooldownExpires, IInv, Recorders, CounterDrains
<1>8. CASE UNCHANGED vars
  BY <1>1, <1>8 DEF vars, IInv, Recorders, CounterDrains
<1>. QED
  BY <1>2, <1>3, <1>4, <1>5, <1>6, <1>7, <1>8 DEF Next, Step

-----------------------------------------------------------------------------

(* Every variable of the breaker always has its type. *)
THEOREM TypeCorrect == Spec => []TypeOK
<1>1. Init => TypeOK
  BY InitIInv DEF IInv
<1>. QED  BY <1>1, TypeOKStep, PTL DEF Spec

(* Without Redis faults, crashes and cancellations, a failure counter at   *)
(* the threshold is always about to be reset by some call: no deployment   *)
(* is left out of rotation by a counter nobody will clear.                 *)
THEOREM CounterDrainsHolds == Spec => []CounterDrains
<1>1. IInv => CounterDrains
  BY DEF IInv
<1>. QED  BY <1>1, InitIInv, NextIInv, PTL DEF Spec

-----------------------------------------------------------------------------
(* What the counter says of the failed dispatches.                         *)

(* The failed dispatches to d that are charged but not yet counted.        *)
Pending(d) == {c \in BalancerCalls : pc[c] = "incr" /\ dep[c] = d}

(* Each of them adds at most two, so the counter does not exceed twice the *)
(* failures; who is about to open the circuit has seen it at the threshold.*)
Counted ==
    /\ \A d \in Deployments :
           /\ IsFiniteSet(Pending(d))
           /\ fails[d] + 2 * Cardinality(Pending(d)) <= 2 * charged[d]
    /\ \A c \in Calls : pc[c] = "setcool" => 2 * charged[dep[c]] >= MaxFails

(* A dispatch to d ended well: it resets the counter, and stays so.        *)
Praised(d) == \E c \in BalancerCalls : dep[c] = d /\ pc[c] \in {"reset", "ok"}

(* Without faults, and until a success or an opening resets it, the counter*)
(* and what is pending are exactly the failures; the reset that follows an *)
(* opening comes after it.                                                 *)
Exact ==
    ~faulty =>
        /\ \A d \in Deployments : ~opened[d] /\ ~Praised(d) =>
               charged[d] = fails[d] + Cardinality(Pending(d))
        /\ \A c \in Calls : pc[c] = "delete" => opened[dep[c]]

CInv == IInv /\ Counted /\ NoSpuriousOpening /\ Exact

(* The sizes are numbers. *)
LEMMA Sizes ==
  ASSUME CInv, NEW d \in Deployments
  PROVE  /\ Cardinality(Pending(d)) \in Nat /\ fails[d] \in Nat /\ charged[d] \in Nat
         /\ MaxFails \in Nat /\ MaxFails >= 1
BY FS_CardinalityType, BreakerAssumption DEF CInv, Counted, IInv, TypeOK

(* A success is not taken back while nothing fails. *)
LEMMA PraisedStays ==
  ASSUME CInv, NEW c \in Calls, NEW d \in Deployments, ~Praised(d)',
         \A e \in Calls \ {c} : pc'[e] = pc[e] /\ dep'[e] = dep[e],
         pc[c] \in {"reset", "ok"} => pc'[c] \in {"reset", "ok"} /\ dep'[c] = dep[c]
  PROVE  ~Praised(d)
BY DEF Praised, Calls

(* A step of c before and after which it is not counting a failure.        *)
LEMMA OtherStep ==
  ASSUME CInv, NEW c \in Calls, pc[c] # "incr", pc'[c] # "incr",
         \A e \in Calls \ {c} : pc'[e] = pc[e] /\ dep'[e] = dep[e]
  PROVE  \A d \in Deployments : Pending(d)' = Pending(d)
BY DEF Pending, Calls

(* Selection, the checks and the call, but for a dispatch that fails.      *)
LEMMA SelectCInv ==
  ASSUME CInv, IInv', NEW c \in Calls, pc[c] \in InFlight \ (Recording \cup {"reset"}),
         pc'[c] \notin Recording,
         \A e \in Calls \ {c} : pc'[e] = pc[e] /\ dep'[e] = dep[e],
         UNCHANGED <<redisVars, charged, faulty>>
  PROVE  CInv'
<1>1. /\ pc[c] \notin {"incr", "setcool", "delete", "reset", "ok"}
      /\ pc'[c] \notin {"incr", "setcool", "delete"}
      /\ UNCHANGED <<fails, opened>>
  BY DEF InFlight, Recording, redisVars
<1>2. \A d \in Deployments : Pending(d)' = Pending(d)
  BY <1>1, OtherStep
<1>3. Counted'
  BY <1>1, <1>2 DEF CInv, Counted
<1>4. NoSpuriousOpening'
  BY <1>1 DEF CInv, NoSpuriousOpening
<1>5. Exact'
  <2>1. \A d \in Deployments : ~Praised(d)' => ~Praised(d)
    BY <1>1, PraisedStays
  <2>. QED  BY <1>1, <1>2, <2>1 DEF CInv, Exact
<1>. QED  BY <1>3, <1>4, <1>5 DEF CInv

(* A dispatch fails: it is charged and pending. *)
LEMMA ChargeCInv ==
  ASSUME CInv, IInv', NEW c \in BalancerCalls, pc[c] = "call",
         pc' = [pc EXCEPT ![c] = "incr"],
         charged' = [charged EXCEPT ![dep[c]] = @ + 1],
         UNCHANGED <<redisVars, dep, faulty>>
  PROVE  CInv'
<1>1. /\ c \in Calls /\ dep[c] \in Deployments /\ pc'[c] = "incr"
      /\ \A e \in Calls \ {c} : pc'[e] = pc[e]
      /\ UNCHANGED <<fails, opened>>
      /\ charged'[dep[c]] = charged[dep[c]] + 1
      /\ \A d \in Deployments \ {dep[c]} : charged'[d] = charged[d]
  BY DEF CInv, IInv, TypeOK, redisVars, Calls
<1>2. /\ Pending(dep[c])' = Pending(dep[c]) \cup {c} /\ c \notin Pending(dep[c])
      /\ \A d \in Deployments \ {dep[c]} : Pending(d)' = Pending(d)
  BY <1>1 DEF Pending, Calls
<1>3. /\ IsFiniteSet(Pending(dep[c]))
      /\ IsFiniteSet(Pending(dep[c])')
      /\ Cardinality(Pending(dep[c])') = Cardinality(Pending(dep[c])) + 1
  BY <1>1, <1>2, FS_AddElement DEF CInv, Counted
<1>4. \A d \in Deployments : charged'[d] >= charged[d] /\ charged[d] \in Nat /\ charged'[d] \in Nat
  BY <1>1, Sizes
<1>5. Counted'
  <2>1. ASSUME NEW d \in Deployments
        PROVE  /\ IsFiniteSet(Pending(d)')
               /\ fails'[d] + 2 * Cardinality(Pending(d)') <= 2 * charged'[d]
    <3>1. fails[d] + 2 * Cardinality(Pending(d)) <= 2 * charged[d] /\ IsFiniteSet(Pending(d))
      BY DEF CInv, Counted
    <3>2. CASE d = dep[c]
      BY <1>1, <1>3, <3>1, <3>2, Sizes
    <3>3. CASE d # dep[c]
      BY <1>1, <1>2, <3>1, <3>3
    <3>. QED  BY <3>2, <3>3
  <2>2. ASSUME NEW e \in Calls, pc'[e] = "setcool" PROVE 2 * charged'[dep'[e]] >= MaxFails
    <3>1. e # c /\ pc[e] = "setcool" /\ dep'[e] = dep[e] /\ dep[e] \in Deployments
      BY <1>1, <2>2 DEF CInv, IInv, TypeOK
    <3>2. 2 * charged[dep[e]] >= MaxFails
      BY <3>1 DEF CInv, Counted
    <3>. QED  BY <1>4, <3>1, <3>2, BreakerAssumption
  <2>. QED  BY <2>1, <2>2 DEF Counted
<1>6. NoSpuriousOpening'
  BY <1>1, <1>4, BreakerAssumption DEF CInv, NoSpuriousOpening
<1>7. Exact'
  <2>1. SUFFICES ASSUME ~faulty PROVE Exact'
    BY DEF Exact
  <2>2. ASSUME NEW d \in Deployments, ~opened[d], ~Praised(d)'
        PROVE  charged'[d] = fails'[d] + Cardinality(Pending(d)')
    <3>1. ~Praised(d)
      BY <1>1, <2>2, PraisedStays
    <3>2. charged[d] = fails[d] + Cardinality(Pending(d))
      BY <2>1, <2>2, <3>1 DEF CInv, Exact
    <3>3. CASE d = dep[c]
      BY <1>1, <1>3, <3>2, <3>3, Sizes
    <3>4. CASE d # dep[c]
      BY <1>1, <1>2, <3>2, <3>4
    <3>. QED  BY <3>3, <3>4
  <2>3. \A e \in Calls : pc'[e] = "delete" => opened[dep[e]]
    BY <1>1, <2>1 DEF CInv, Exact
  <2>. QED  BY <1>1, <2>2, <2>3 DEF Exact
<1>. QED  BY <1>5, <1>6, <1>7 DEF CInv

(* A pending failure is counted, with up to two, or not counted at all.    *)
LEMMA CountCInv ==
  ASSUME CInv, IInv', NEW c \in Calls, pc[c] = "incr", NEW n \in 0..2,
         ~faulty => n = 1,
         fails' = [fails EXCEPT ![dep[c]] = @ + n],
         pc'[c] \in {"setcool", "error", "lost"},
         pc'[c] = "setcool" => fails'[dep[c]] >= MaxFails,
         \A e \in Calls \ {c} : pc'[e] = pc[e],
         UNCHANGED <<cool, opened, dep, charged, faulty>>
  PROVE  CInv'
<1>1. /\ c \in BalancerCalls /\ dep[c] \in Deployments
      /\ fails'[dep[c]] = fails[dep[c]] + n
      /\ \A d \in Deployments \ {dep[c]} : fails'[d] = fails[d]
  BY DEF CInv, IInv, Recorders, Recording, TypeOK
<1>2. /\ Pending(dep[c])' = Pending(dep[c]) \ {c} /\ c \in Pending(dep[c])
      /\ \A d \in Deployments \ {dep[c]} : Pending(d)' = Pending(d)
  BY <1>1 DEF Pending, Calls
<1>3. /\ IsFiniteSet(Pending(dep[c])')
      /\ Cardinality(Pending(dep[c])') = Cardinality(Pending(dep[c])) - 1
  <2>1. IsFiniteSet(Pending(dep[c]))
    BY <1>1 DEF CInv, Counted
  <2>2. /\ IsFiniteSet(Pending(dep[c]) \ {c})
        /\ Cardinality(Pending(dep[c]) \ {c}) = Cardinality(Pending(dep[c])) - 1
    BY <1>2, <2>1, FS_RemoveElement, Zenon
  <2>. QED
    BY <1>2, <2>2, Zenon
<1>4. ASSUME NEW d \in Deployments
      PROVE  /\ IsFiniteSet(Pending(d)')
             /\ Cardinality(Pending(d)') \in Nat
             /\ fails'[d] + 2 * Cardinality(Pending(d)') <= 2 * charged[d]
  <2>1. fails[d] + 2 * Cardinality(Pending(d)) <= 2 * charged[d] /\ IsFiniteSet(Pending(d))
    BY DEF CInv, Counted
  <2>2. CASE d = dep[c]
    <3>1. Cardinality(Pending(d)') = Cardinality(Pending(d)) - 1 /\ fails'[d] = fails[d] + n
      BY <1>1, <1>3, <2>2
    <3>2. IsFiniteSet(Pending(d)') /\ Cardinality(Pending(d)') \in Nat
      BY <1>3, <2>2, FS_CardinalityType
    <3>3. fails'[d] + 2 * Cardinality(Pending(d)') <= fails[d] + 2 * Cardinality(Pending(d))
      BY <3>1, <3>2, Sizes
    <3>4. fails'[d] \in Nat
      BY <3>1, Sizes
    <3>. QED  BY <2>1, <3>2, <3>3, <3>4, Sizes
  <2>3. CASE d # dep[c]
    BY <1>1, <1>2, <2>1, <2>3, Sizes
  <2>. QED  BY <2>2, <2>3
<1>5. Counted'
  <2>1. ASSUME NEW e \in Calls, pc'[e] = "setcool" PROVE 2 * charged[dep[e]] >= MaxFails
    <3>1. CASE e = c
      BY <1>1, <1>4, <2>1, <3>1, Sizes
    <3>2. CASE e # c
      BY <2>1, <3>2 DEF CInv, Counted
    <3>. QED  BY <3>1, <3>2
  <2>. QED  BY <1>4, <2>1 DEF Counted
<1>6. NoSpuriousOpening'
  BY DEF CInv, NoSpuriousOpening
<1>7. Exact'
  <2>1. SUFFICES ASSUME ~faulty PROVE Exact'
    BY DEF Exact
  <2>2. ASSUME NEW d \in Deployments, ~opened[d], ~Praised(d)'
        PROVE  charged[d] = fails'[d] + Cardinality(Pending(d)')
    <3>1. ~Praised(d)
      BY <2>2, PraisedStays
    <3>2. charged[d] = fails[d] + Cardinality(Pending(d))
      BY <2>1, <2>2, <3>1 DEF CInv, Exact
    <3>3. CASE d = dep[c]
      BY <1>1, <1>3, <2>1, <3>2, <3>3, Sizes
    <3>4. CASE d # dep[c]
      BY <1>1, <1>2, <3>2, <3>4
    <3>. QED  BY <3>3, <3>4
  <2>3. \A e \in Calls : pc'[e] = "delete" => opened[dep[e]]
    BY <2>1 DEF CInv, Exact
  <2>. QED  BY <2>2, <2>3 DEF Exact
<1>. QED  BY <1>5, <1>6, <1>7 DEF CInv

(* The circuit opens, and only for who has seen the threshold.             *)
LEMMA OpenCInv ==
  ASSUME CInv, IInv', NEW c \in Calls, SetCooldown(c)
  PROVE  CInv'
<1>1. /\ pc[c] = "setcool" /\ pc' = [pc EXCEPT ![c] = "delete"]
      /\ UNCHANGED <<fails, dep, charged, faulty>> /\ dep[c] \in Deployments
      /\ pc'[c] = "delete" /\ \A e \in Calls \ {c} : pc'[e] = pc[e]
      /\ \A d \in Deployments \ {dep[c]} : opened'[d] = opened[d]
      /\ \A d \in Deployments : opened[d] => opened'[d]
      /\ ~faulty => opened'[dep[c]]
  BY DEF SetCooldown, Goto, ghosts, CInv, IInv, TypeOK
<1>2. \A d \in Deployments : Pending(d)' = Pending(d)
  BY <1>1, OtherStep
<1>3. Counted'
  BY <1>1, <1>2 DEF CInv, Counted
<1>4. NoSpuriousOpening'
  <2>1. 2 * charged[dep[c]] >= MaxFails
    BY <1>1 DEF CInv, Counted
  <2>. QED  BY <1>1, <2>1 DEF CInv, NoSpuriousOpening
<1>5. Exact'
  <2>1. \A d \in Deployments : ~Praised(d)' => ~Praised(d)
    BY <1>1, PraisedStays
  <2>2. \A e \in Calls : dep[e] \in Deployments
    BY DEF CInv, IInv, TypeOK
  <2>. QED  BY <1>1, <1>2, <2>1, <2>2 DEF CInv, Exact
<1>. QED  BY <1>3, <1>4, <1>5 DEF CInv

(* The counter is reset, after an opening or by a success. *)
LEMMA ResetCInv ==
  ASSUME CInv, IInv', NEW c \in Calls, DeleteCounter(c)
  PROVE  CInv'
<1>1. /\ pc[c] \in {"delete", "reset"} /\ UNCHANGED <<opened, dep, charged, faulty>>
      /\ pc' = [pc EXCEPT ![c] = IF pc[c] = "delete" THEN "error" ELSE "ok"]
      /\ dep[c] \in Deployments /\ \A e \in Calls \ {c} : pc'[e] = pc[e]
      /\ pc'[c] = IF pc[c] = "delete" THEN "error" ELSE "ok"
      /\ \A d \in Deployments \ {dep[c]} : fails'[d] = fails[d]
      /\ fails'[dep[c]] = 0 \/ fails'[dep[c]] = fails[dep[c]]
  BY DEF DeleteCounter, Goto, ghosts, CInv, IInv, TypeOK
<1>2. \A d \in Deployments : Pending(d)' = Pending(d)
  BY <1>1, OtherStep
<1>3. \A d \in Deployments : fails'[d] <= fails[d]
  BY <1>1, Sizes
<1>4. Counted'
  <2>1. ASSUME NEW d \in Deployments
        PROVE  fails'[d] + 2 * Cardinality(Pending(d)) <= 2 * charged[d]
    <3>1. fails[d] + 2 * Cardinality(Pending(d)) <= 2 * charged[d]
      BY DEF CInv, Counted
    <3>2. fails'[d] \in Nat
      BY DEF IInv, TypeOK
    <3>. QED  BY <1>3, <3>1, <3>2, Sizes
  <2>2. \A e \in Calls : pc'[e] = "setcool" => pc[e] = "setcool"
    BY <1>1
  <2>. QED  BY <1>1, <1>2, <2>1, <2>2 DEF CInv, Counted
<1>5. NoSpuriousOpening'
  BY <1>1 DEF CInv, NoSpuriousOpening
<1>6. Exact'
  <2>1. SUFFICES ASSUME ~faulty PROVE Exact'
    BY <1>1 DEF Exact
  <2>2. ASSUME NEW d \in Deployments, ~opened[d], ~Praised(d)'
        PROVE  charged[d] = fails'[d] + Cardinality(Pending(d))
    <3>1. ~Praised(d)
      BY <1>1, <2>2, PraisedStays
    <3>2. charged[d] = fails[d] + Cardinality(Pending(d))
      BY <2>1, <2>2, <3>1 DEF CInv, Exact
    <3>3. d # dep[c]
      <4>1. pc[c] = "delete" => opened[dep[c]]
        BY <2>1 DEF CInv, Exact
      <4>2. pc[c] = "reset" => c \in BalancerCalls
        BY DEF CInv, IInv, Recorders
      <4>. QED  BY <1>1, <2>2, <3>1, <4>1, <4>2 DEF Praised
    <3>. QED  BY <1>1, <3>2, <3>3
  <2>3. \A e \in Calls : pc'[e] = "delete" => opened[dep[e]]
    BY <1>1, <2>1 DEF CInv, Exact
  <2>. QED  BY <1>1, <1>2, <2>2, <2>3 DEF Exact
<1>. QED  BY <1>4, <1>5, <1>6 DEF CInv

(* Every step keeps the account. *)
LEMMA NextCInv == CInv /\ [Next]_vars => CInv'
<1>. SUFFICES ASSUME CInv, [Next]_vars PROVE CInv'
  OBVIOUS
<1>1. IInv' /\ TypeOK' /\ TypeOK
  BY NextIInv DEF CInv, IInv
<1>2. ASSUME NEW c \in Calls, Select(c) \/ CheckCooldown(c) \/ CheckFails(c) \/ UpstreamOk(c)
      PROVE  CInv'
  <2>1. /\ pc[c] \in InFlight \ (Recording \cup {"reset"}) /\ pc'[c] \notin Recording
        /\ \A e \in Calls \ {c} : pc'[e] = pc[e] /\ dep'[e] = dep[e]
        /\ UNCHANGED <<redisVars, charged, faulty>>
    BY <1>1, <1>2 DEF Select, Selected, CheckCooldown, CheckFails, UpstreamOk, Goto,
                      TypeOK, InFlight, Recording, ghosts
  <2>. QED  BY <1>1, <2>1, SelectCInv
<1>3. ASSUME NEW c \in Calls, UpstreamFails(c) PROVE CInv'
  <2>1. CASE c \in BalancerCalls /\ ~(tries'[c] < MaxRetries)
    BY <1>1, <1>3, <2>1, ChargeCInv DEF UpstreamFails, Goto
  <2>2. CASE ~(c \in BalancerCalls /\ ~(tries'[c] < MaxRetries))
    <3>1. /\ pc[c] \in InFlight \ (Recording \cup {"reset"}) /\ pc'[c] \notin Recording
          /\ \A e \in Calls \ {c} : pc'[e] = pc[e] /\ dep'[e] = dep[e]
          /\ UNCHANGED <<redisVars, charged, faulty>>
      BY <1>1, <1>3, <2>2 DEF UpstreamFails, Goto, TypeOK, InFlight, Recording
    <3>. QED  BY <1>1, <3>1, SelectCInv
  <2>. QED  BY <2>1, <2>2
<1>4. ASSUME NEW c \in Calls, Incr(c) PROVE CInv'
  <2>1. /\ pc[c] = "incr" /\ UNCHANGED <<cool, opened, dep, charged, faulty>>
        /\ dep[c] \in Deployments /\ \A e \in Calls \ {c} : pc'[e] = pc[e]
        /\ pc'[c] \in {"setcool", "error", "lost"}
        /\ pc'[c] = "setcool" => fails'[dep[c]] >= MaxFails
    BY <1>1, <1>4 DEF Incr, AddFailures, Goto, TypeOK, ghosts
  <2>2. \E n \in 0..2 : /\ ~faulty => n = 1
                        /\ fails' = [fails EXCEPT ![dep[c]] = @ + n]
    BY <1>1, <1>4 DEF Incr, AddFailures, TypeOK
  <2>. QED  BY <1>1, <2>1, <2>2, CountCInv
<1>5. ASSUME NEW c \in Calls, Die(c) PROVE CInv'
  <2>1. /\ faulty /\ faulty' /\ pc' = [pc EXCEPT ![c] = "lost"]
        /\ UNCHANGED <<fails, cool, opened, dep, charged>>
    BY <1>5, <1>1 DEF Die, Goto, redisVars, ghosts, TypeOK
  <2>2. CASE pc[c] = "incr"
    <3>1. fails' = [fails EXCEPT ![dep[c]] = @ + 0]
      BY <1>1, <2>1 DEF TypeOK
    <3>2. pc'[c] = "lost" /\ \A e \in Calls \ {c} : pc'[e] = pc[e]
      BY <1>1, <2>1 DEF TypeOK
    <3>3. 0 \in 0..2 /\ faulty' = faulty
      BY <1>5 DEF Die, ghosts
    <3>. QED  BY <1>1, <2>1, <2>2, <3>1, <3>2, <3>3, CountCInv
  <2>3. CASE pc[c] # "incr"
    <3>1. \A d \in Deployments : Pending(d)' = Pending(d)
      BY <1>1, <2>1, <2>3, OtherStep DEF TypeOK
    <3>2. Counted'
      BY <1>1, <2>1, <3>1 DEF CInv, Counted, TypeOK
    <3>. QED  BY <1>1, <2>1, <3>2 DEF CInv, NoSpuriousOpening, Exact
  <2>. QED  BY <2>2, <2>3
<1>6. ASSUME NEW d \in Deployments, CooldownExpires(d) PROVE CInv'
  BY <1>1, <1>6 DEF CooldownExpires, ghosts, CInv, Counted, NoSpuriousOpening, Exact,
                    Pending, Praised
<1>7. CASE UNCHANGED vars
  BY <1>1, <1>7 DEF vars, CInv, Counted, NoSpuriousOpening, Exact, Pending, Praised
<1>. QED
  BY <1>1, <1>2, <1>3, <1>4, <1>5, <1>6, <1>7, OpenCInv, ResetCInv DEF Next, Step

(* The account holds always. *)
LEMMA Account == Spec => []CInv
<1>1. Init => CInv
  <2>. SUFFICES ASSUME Init PROVE CInv
    OBVIOUS
  <2>1. IInv
    BY InitIInv
  <2>2. \A d \in Deployments : Pending(d) = {} /\ fails[d] = 0 /\ charged[d] = 0 /\ ~opened[d]
    BY DEF Init, Pending, Calls
  <2>3. \A c \in Calls : pc[c] = "select"
    BY DEF Init
  <2>4. IsFiniteSet({}) /\ Cardinality({}) = 0
    BY FS_EmptySet
  <2>. QED  BY <2>1, <2>2, <2>3, <2>4 DEF CInv, Counted, NoSpuriousOpening, Exact
<1>. QED  BY <1>1, NextCInv, PTL DEF Spec

(* Concurrent failures are not lost, for any number of calls, deployments  *)
(* and any threshold: when the calls to a deployment have ended, none of   *)
(* them well, and at least MaxFails of them failed, the circuit did open.  *)
THEOREM ThresholdOpensHolds == Spec => []ThresholdOpens
<1>1. ASSUME CInv PROVE ThresholdOpens
  <2>. SUFFICES ASSUME ~faulty, NEW d \in Deployments, charged[d] >= MaxFails,
                       \A c \in BalancerCalls : dep[c] = d => pc[c] \in {"error", "unavailable"},
                       ~opened[d]
                PROVE  FALSE
    BY DEF ThresholdOpens
  <2>1. Pending(d) = {} /\ ~Praised(d)
    BY DEF Pending, Praised
  <2>2. charged[d] = fails[d] + Cardinality(Pending(d)) /\ Cardinality({}) = 0
    BY <1>1, <2>1, FS_EmptySet DEF CInv, Exact
  <2>3. fails[d] >= MaxFails
    BY <1>1, <2>1, <2>2, Sizes
  <2>. QED  BY <1>1, <2>3 DEF CInv, IInv, CounterDrains
<1>. QED  BY <1>1, Account, PTL

(* A late Redis does not open circuits for nothing, for any number of      *)
(* calls, deployments and faults: at least half of MaxFails dispatches     *)
(* failed, since a resent INCR counts one failure at most twice.           *)
THEOREM NoSpuriousOpeningHolds == Spec => []NoSpuriousOpening
<1>1. CInv => NoSpuriousOpening
  BY DEF CInv
<1>. QED  BY <1>1, Account, PTL
=============================================================================
