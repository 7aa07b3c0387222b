------------------------------ MODULE Breaker ------------------------------
(***************************************************************************)
(* Deployment selection, circuit breaker and cooldown: LoadBalancer of     *)
(* backend/app/routing/balancer.py with breaker.py and cooldown.py, for    *)
(* the deployments 1..N of one model name, in router.get_model_list order. *)
(* A call made through dispatch_chat or dispatch_stream (BalancerCalls) is *)
(* counted by the breaker; a call made by CoreEngine (EngineCalls) selects *)
(* with the load balancer and then calls the adapter.  The state is in     *)
(* Redis, shared by all workers: every Redis command is a step.  Which     *)
(* deployment litellm.Router calls is its own choice (external).           *)
(***************************************************************************)
EXTENDS Integers

CONSTANTS
    N,              \* number of deployments of the model
    BalancerCalls,  \* calls through LoadBalancer._dispatch
    EngineCalls,    \* calls through CoreEngine._select_deployment
    MaxFails,       \* max_fails, CG_ALLOWED_FAILS
    MaxRetries,     \* max_retries, CG_NUM_RETRIES
    Faults          \* the values of faulty to look at

Calls == BalancerCalls \cup EngineCalls
Deployments == 1..N

ASSUME BreakerAssumption ==
    /\ N \in Nat \ {0} /\ MaxFails \in Nat \ {0} /\ MaxRetries \in Nat
    /\ BalancerCalls \cap EngineCalls = {} /\ Faults \subseteq BOOLEAN

VARIABLES
    fails,      \* cg:breaker:<id>:fails, 0 when absent; it has no TTL
    cool,       \* cg:cooldown:<id> exists
    pc,         \* where each call is, or how it ended
    dep,        \* deployment_id selected, or the candidate being looked at
    tries,      \* attempts tenacity has made
    charged,    \* ghost: failed dispatches with that deployment_id
    opened,     \* ghost: the deployment was put in cooldown at least once
    faulty      \* whether Redis commands may fail and workers may die, in this run

vars == <<fails, cool, pc, dep, tries, charged, opened, faulty>>
redisVars == <<fails, cool, opened>>
ghosts == <<charged, faulty>>

Recording == {"incr", "setcool", "delete"}     \* inside record_failure
InFlight  == {"select", "checkcool", "checkfails", "call", "reset"} \cup Recording
Ended     == {"ok", "error", "unavailable", "lost"}

Init ==
    /\ fails = [d \in Deployments |-> 0]
    /\ cool = [d \in Deployments |-> FALSE]
    /\ pc = [c \in Calls |-> "select"]
    /\ dep = [c \in Calls |-> 1]
    /\ tries = [c \in Calls |-> 0]
    /\ charged = [d \in Deployments |-> 0]
    /\ opened = [d \in Deployments |-> FALSE]
    /\ faulty \in Faults

Goto(c, l) == pc' = [pc EXCEPT ![c] = l]

-----------------------------------------------------------------------------
(* select_deployment and is_available.  An error of Redis counts as "not   *)
(* in cooldown" and as "available".                                        *)

Selected(c) == Goto(c, IF c \in BalancerCalls THEN "checkcool" ELSE "call")

(* One candidate: take it, look at the next, or fall back to the first. *)
Select(c) ==
    /\ pc[c] = "select"
    /\ \/ /\ ~cool[dep[c]] \/ faulty
          /\ Selected(c) /\ UNCHANGED dep
       \/ /\ cool[dep[c]] /\ dep[c] < N
          /\ dep' = [dep EXCEPT ![c] = @ + 1] /\ UNCHANGED pc
       \/ /\ cool[dep[c]] /\ dep[c] = N
          /\ dep' = [dep EXCEPT ![c] = 1] /\ Selected(c)
    /\ UNCHANGED <<redisVars, tries, ghosts>>

CheckCooldown(c) ==
    /\ pc[c] = "checkcool"
    /\ \/ cool[dep[c]] /\ Goto(c, "unavailable")
       \/ (~cool[dep[c]] \/ faulty) /\ Goto(c, "checkfails")
    /\ UNCHANGED <<redisVars, dep, tries, ghosts>>

CheckFails(c) ==
    /\ pc[c] = "checkfails"
    /\ \/ fails[dep[c]] >= MaxFails /\ Goto(c, "unavailable")
       \/ (fails[dep[c]] < MaxFails \/ faulty) /\ Goto(c, "call")
    /\ UNCHANGED <<redisVars, dep, tries, ghosts>>

-----------------------------------------------------------------------------
(* The upstream call.  The litellm router may send it to any deployment of *)
(* the group: what is charged is the one that was selected.                *)

UpstreamOk(c) ==
    /\ pc[c] = "call"
    /\ Goto(c, IF c \in BalancerCalls THEN "reset" ELSE "ok")
    /\ UNCHANGED <<redisVars, dep, tries, ghosts>>

UpstreamFails(c) ==
    /\ pc[c] = "call"
    /\ tries' = [tries EXCEPT ![c] = @ + 1]
    /\ IF c \in BalancerCalls /\ tries'[c] < MaxRetries
       THEN UNCHANGED <<pc, charged>>
       ELSE IF c \in BalancerCalls
       THEN Goto(c, "incr") /\ charged' = [charged EXCEPT ![dep[c]] = @ + 1]
       ELSE Goto(c, "error") /\ UNCHANGED charged
    /\ UNCHANGED <<redisVars, dep, faulty>>

-----------------------------------------------------------------------------
(* record_failure and record_success.  A command that raises ends them; it *)
(* may have been applied.  INCR may be applied twice: the client resends a *)
(* command whose reply timed out, and the second reply may be lost too.    *)

(* Mutants: thresholds off by one either way; no reset after the cooldown; *)
(* a success that takes one failure back instead of all.                   *)
MutantOpensLate(c, n) ==
    /\ fails' = [fails EXCEPT ![dep[c]] = @ + n]
    /\ Goto(c, IF fails'[dep[c]] > MaxFails THEN "setcool" ELSE "error")
MutantOpensEarly(c, n) ==
    /\ fails' = [fails EXCEPT ![dep[c]] = @ + n]
    /\ Goto(c, IF fails'[dep[c]] >= MaxFails - 1 THEN "setcool" ELSE "error")

AddFailures(c, n) ==
    /\ fails' = [fails EXCEPT ![dep[c]] = @ + n]
    /\ Goto(c, IF fails'[dep[c]] >= MaxFails THEN "setcool" ELSE "error")

Incr(c) ==
    /\ pc[c] = "incr"
    /\ \/ AddFailures(c, 1)
       \/ faulty /\ AddFailures(c, 2)
       \/ /\ faulty /\ Goto(c, "error")
          /\ \E n \in 0..2 : fails' = [fails EXCEPT ![dep[c]] = @ + n]
    /\ UNCHANGED <<cool, opened, dep, tries, ghosts>>

MutantSetCooldown(c) ==
    /\ pc[c] = "setcool"
    /\ cool' = [cool EXCEPT ![dep[c]] = TRUE]
    /\ opened' = [opened EXCEPT ![dep[c]] = TRUE]
    /\ Goto(c, "error")
    /\ UNCHANGED <<fails, dep, tries, ghosts>>

(* set_cooldown swallows its own error: the counter is reset either way. *)
SetCooldown(c) ==
    /\ pc[c] = "setcool"
    /\ \/ /\ cool' = [cool EXCEPT ![dep[c]] = TRUE]
          /\ opened' = [opened EXCEPT ![dep[c]] = TRUE]
       \/ faulty /\ UNCHANGED <<cool, opened>>
    /\ Goto(c, "delete")
    /\ UNCHANGED <<fails, dep, tries, ghosts>>

MutantDeleteCounter(c) ==
    /\ pc[c] \in {"delete", "reset"}
    /\ fails' = [fails EXCEPT ![dep[c]] = IF pc[c] = "delete" THEN 0 ELSE @ - 1]
    /\ Goto(c, IF pc[c] = "delete" THEN "error" ELSE "ok")
    /\ UNCHANGED <<cool, opened, dep, tries, ghosts>>

DeleteCounter(c) ==
    /\ pc[c] \in {"delete", "reset"}
    /\ \/ fails' = [fails EXCEPT ![dep[c]] = 0]
       \/ faulty /\ UNCHANGED fails
    /\ Goto(c, IF pc[c] = "delete" THEN "error" ELSE "ok")
    /\ UNCHANGED <<cool, opened, dep, tries, ghosts>>

-----------------------------------------------------------------------------
(* The environment: the TTL of a cooldown, and the death of a worker or    *)
(* the cancellation of a coroutine in the middle of a call.                *)

CooldownExpires(d) ==
    /\ cool[d]
    /\ cool' = [cool EXCEPT ![d] = FALSE]
    /\ UNCHANGED <<fails, opened, pc, dep, tries, ghosts>>

Die(c) ==
    /\ faulty /\ pc[c] \in InFlight
    /\ Goto(c, "lost")
    /\ UNCHANGED <<redisVars, dep, tries, ghosts>>

Step(c) ==
    \/ Select(c) \/ CheckCooldown(c) \/ CheckFails(c) \/ UpstreamOk(c)
    \/ UpstreamFails(c)
    \/ Incr(c) \/ SetCooldown(c) \/ DeleteCounter(c)

Next ==
    \/ \E c \in Calls : Step(c) \/ Die(c)
    \/ \E d \in Deployments : CooldownExpires(d)

Spec == Init /\ [][Next]_vars

(* The event loop runs a coroutine whose reply has arrived (or whose socket *)
(* timed out), and Redis expires keys.                                     *)
FairSpec ==
    /\ Spec
    /\ \A c \in Calls : WF_vars(Step(c))
    /\ \A d \in Deployments : WF_vars(CooldownExpires(d))

-----------------------------------------------------------------------------
(* Properties. *)

(* Every variable of the model of routing/ has its type. *)
TypeOK ==
    /\ fails \in [Deployments -> Nat]
    /\ cool \in [Deployments -> BOOLEAN]
    /\ pc \in [Calls -> InFlight \cup Ended]
    /\ dep \in [Calls -> Deployments]
    /\ tries \in [Calls -> Nat]
    /\ charged \in [Deployments -> Nat]
    /\ opened \in [Deployments -> BOOLEAN]
    /\ faulty \in BOOLEAN

(* Without faults the counter never rests at the threshold: whenever it is *)
(* there, a record_failure is about to open the circuit and to reset it,   *)
(* so no deployment is left rejected by a counter that nothing will clear. *)
CounterDrains ==
    ~faulty => \A d \in Deployments : fails[d] >= MaxFails =>
        \E c \in BalancerCalls : pc[c] \in {"setcool", "delete"} /\ dep[c] = d

(* Concurrent failures are not lost: when the calls to a deployment have   *)
(* ended, none of them well, and MaxFails of them or more failed, it has   *)
(* been put in cooldown.                                                   *)
ThresholdOpens ==
    ~faulty => \A d \in Deployments :
        (/\ charged[d] >= MaxFails
         /\ \A c \in BalancerCalls : dep[c] = d => pc[c] \in {"error", "unavailable"})
        => opened[d]

(* Even when Redis answers late and INCR is applied twice, a circuit opens *)
(* only after at least half of MaxFails failed dispatches.                 *)
NoSpuriousOpening ==
    \A d \in Deployments : opened[d] => 2 * charged[d] >= MaxFails

Eligible(d) == ~cool[d] /\ fails[d] < MaxFails

(* breaker.py:22-24: the deployment "becomes eligible again once the       *)
(* cooldown expires", unless a fault leaves the counter at its threshold:  *)
(* it has no TTL of its own.                                               *)
EligibleAgain == \A d \in Deployments : cool[d] /\ ~faulty ~> Eligible(d)

=============================================================================
