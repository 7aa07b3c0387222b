----------------------------- MODULE HotReload -----------------------------
(***************************************************************************)
(* Hot reload of the LiteLLM router: RouterBuilder of                      *)
(* backend/app/providers/router_builder.py, driven by the admin handlers   *)
(* of backend/app/api/admin/providers.py (commit a provider, deployment or *)
(* key change, then _reload_router) and by every model request             *)
(* (get_or_build).  Each gunicorn worker has its own builder, router and   *)
(* asyncio lock; the database is shared.  The configuration is abstracted  *)
(* to the number of changes committed and to whether any enabled           *)
(* deployment is left; litellm.Router is a snapshot of it.                 *)
(***************************************************************************)
EXTENDS Integers

CONSTANTS
    Workers,    \* gunicorn worker slots; a slot is respawned when it dies
    Admins,     \* provider, deployment and key mutations
    Clients,    \* model requests
    NoTask,     \* "the lock is free"
    MayFail,    \* whether loads may fail and workers may die
    MaxBoots    \* bound: times each worker is respawned

Tasks == Admins \cup Clients

ASSUME HotReloadAssumption ==
    /\ NoTask \notin Tasks /\ Admins \cap Clients = {}
    /\ MayFail \in BOOLEAN /\ MaxBoots \in Nat

VARIABLES
    config,     \* the database: [ver, up]; up: _load_model_list is not empty
    router,     \* _router of each worker: the config it was built from;
                \*   None unless up; ver is -1 before the first build
    builds,     \* _version of each worker
    lock,       \* holder of _lock of each worker
    pc, at,     \* where each task is, and in which worker
    loaded,     \* model_list as the task read it: the config it came from
    mine,       \* ghost: the version a mutation committed
    got,        \* version of the router a request was given
    boots,      \* how often each worker was respawned
    born        \* ghost: the worker's boots when the task started

vars == <<config, router, builds, lock, pc, at, loaded, mine, got, boots, born>>
workerVars == <<router, builds, lock, boots>>

Empty    == [ver |-> -1, up |-> FALSE]
Waiting  == {"lock"}
Building == {"models", "settings"}
Ended    == {"done", "unreloaded", "refused", "served", "unserved", "failed", "lost"}

Init ==
    /\ \E up \in BOOLEAN : config = [ver |-> 0, up |-> up]
    /\ router = [w \in Workers |-> Empty]
    /\ builds = [w \in Workers |-> 0]
    /\ lock = [w \in Workers |-> NoTask]
    /\ pc = [t \in Tasks |-> "idle"]
    /\ at \in [Tasks -> Workers]
    /\ loaded = [t \in Tasks |-> Empty]
    /\ mine = [t \in Tasks |-> -1]
    /\ got = [t \in Tasks |-> -1]
    /\ boots = [w \in Workers |-> 0]
    /\ born = [t \in Tasks |-> 0]

-----------------------------------------------------------------------------
(* The admin handlers: find the row, commit the change, reload the router. *)

Start(t) == pc[t] = "idle" /\ born' = [born EXCEPT ![t] = boots[at[t]]]

(* The change is committed.  When the refresh after the commit raises, the *)
(* handler ends with an error, without a reload.                           *)
Mutate(t, up) ==
    /\ Start(t)
    /\ config' = [ver |-> config.ver + 1, up |-> up]
    /\ mine' = [mine EXCEPT ![t] = config.ver + 1]
    /\ \E l \in {"lock", "failed"} : pc' = [pc EXCEPT ![t] = l] /\ (l = "failed" => MayFail)
    /\ UNCHANGED <<at, loaded, got, workerVars>>

(* 404, or the commit fails: nothing is written and nothing is reloaded. *)
Refuse(t) ==
    /\ Start(t)
    /\ pc' = [pc EXCEPT ![t] = "refused"]
    /\ UNCHANGED <<config, at, loaded, mine, got, workerVars>>

(* A request: get_or_build only builds when there is no router. *)
Serve(t) ==
    /\ Start(t) /\ router[at[t]].up
    /\ pc' = [pc EXCEPT ![t] = "served"]
    /\ got' = [got EXCEPT ![t] = router[at[t]].ver]
    /\ UNCHANGED <<config, at, loaded, mine, workerVars>>

NeedRouter(t) ==
    /\ Start(t) /\ ~router[at[t]].up
    /\ pc' = [pc EXCEPT ![t] = "lock"]
    /\ UNCHANGED <<config, at, loaded, mine, got, workerVars>>

-----------------------------------------------------------------------------
(* RouterBuilder.build *)

(* Mutants: no rebuild lock; a build that trusts the router in place; a    *)
(* lock passed to the worker instead of freed, or kept by a failed build.  *)
MutantAcquire(t) ==
    /\ pc[t] = "lock"
    /\ lock' = [lock EXCEPT ![at[t]] = t]
    /\ pc' = [pc EXCEPT ![t] = "models"]
    /\ UNCHANGED <<config, router, builds, at, loaded, mine, got, boots, born>>

Acquire(t) ==
    /\ pc[t] = "lock" /\ lock[at[t]] = NoTask
    /\ lock' = [lock EXCEPT ![at[t]] = t]
    /\ pc' = [pc EXCEPT ![t] = "models"]
    /\ UNCHANGED <<config, router, builds, at, loaded, mine, got, boots, born>>

MutantLoadModels(t) ==
    /\ pc[t] = "models"
    /\ loaded' = [loaded EXCEPT ![t] = IF router[at[t]].up THEN router[at[t]] ELSE config]
    /\ pc' = [pc EXCEPT ![t] = "settings"]
    /\ UNCHANGED <<config, at, mine, got, workerVars, born>>

LoadModels(t) ==
    /\ pc[t] = "models"
    /\ loaded' = [loaded EXCEPT ![t] = config]
    /\ pc' = [pc EXCEPT ![t] = "settings"]
    /\ UNCHANGED <<config, at, mine, got, workerVars, born>>

MutantRelease(t) == lock' = [lock EXCEPT ![at[t]] = at[t]]

Release(t) == lock' = [lock EXCEPT ![at[t]] = NoTask]

(* The routing rules are read, the router is built and swapped in (or      *)
(* dropped, without counting a version, when there is no deployment), and  *)
(* the lock is left: an admin answers, a request takes what is there.      *)
Swap(t) ==
    /\ pc[t] = "settings"
    /\ router' = [router EXCEPT ![at[t]] = loaded[t]]
    /\ builds' = [builds EXCEPT ![at[t]] = @ + IF loaded[t].up THEN 1 ELSE 0]
    /\ Release(t)
    /\ IF t \in Admins
       THEN pc' = [pc EXCEPT ![t] = "done"] /\ UNCHANGED got
       ELSE /\ pc' = [pc EXCEPT ![t] = IF loaded[t].up THEN "served" ELSE "unserved"]
            /\ got' = [got EXCEPT ![t] = loaded[t].ver]
    /\ UNCHANGED <<config, at, loaded, mine, boots, born>>

MutantBuildFails(t) ==
    /\ MayFail /\ pc[t] \in Building
    /\ pc' = [pc EXCEPT ![t] = IF t \in Admins THEN "unreloaded" ELSE "failed"]
    /\ UNCHANGED <<config, router, builds, lock, at, loaded, mine, got, boots, born>>

(* A load or litellm.Router raises.  The old router stays; _reload_router  *)
(* only logs it, so the admin is told that the change succeeded.           *)
BuildFails(t) ==
    /\ MayFail /\ pc[t] \in Building
    /\ Release(t)
    /\ pc' = [pc EXCEPT ![t] = IF t \in Admins THEN "unreloaded" ELSE "failed"]
    /\ UNCHANGED <<config, router, builds, at, loaded, mine, got, boots, born>>

(* A worker dies and gunicorn spawns another in its place. *)
Respawn(w) ==
    /\ MayFail /\ boots[w] < MaxBoots
    /\ boots' = [boots EXCEPT ![w] = @ + 1]
    /\ router' = [router EXCEPT ![w] = Empty]
    /\ builds' = [builds EXCEPT ![w] = 0]
    /\ lock' = [lock EXCEPT ![w] = NoTask]
    /\ pc' = [t \in Tasks |-> IF at[t] = w /\ pc[t] \in Waiting \cup Building
                              THEN "lost" ELSE pc[t]]
    /\ UNCHANGED <<config, at, loaded, mine, got, born>>

AdminStep(t)  == (\E up \in BOOLEAN : Mutate(t, up)) \/ Refuse(t)
ClientStep(t) == Serve(t) \/ NeedRouter(t)
BuildStep(t)  == Acquire(t) \/ LoadModels(t) \/ Swap(t)

Next ==
    \/ \E t \in Admins : AdminStep(t)
    \/ \E t \in Clients : ClientStep(t)
    \/ \E t \in Tasks : BuildStep(t) \/ BuildFails(t)
    \/ \E w \in Workers : Respawn(w)

Spec == Init /\ [][Next]_vars

(* The event loop runs every coroutine that can run.  _lock wakes waiters  *)
(* in order, so no task waits for ever while others take the lock in turn: *)
(* strong fairness of Acquire.                                             *)
Fairness == \A t \in Tasks : SF_vars(Acquire(t)) /\ WF_vars(LoadModels(t) \/ Swap(t))

FairSpec == Spec /\ Fairness

-----------------------------------------------------------------------------
(* Properties. *)

(* Every variable of the model of router_builder.py has its type. *)
TypeOK ==
    /\ config \in [ver : Nat, up : BOOLEAN]
    /\ router \in [Workers -> [ver : Nat \cup {-1}, up : BOOLEAN]]
    /\ builds \in [Workers -> Nat]
    /\ lock \in [Workers -> Tasks \cup {NoTask}]
    /\ pc \in [Tasks -> {"idle"} \cup Waiting \cup Building \cup Ended]
    /\ at \in [Tasks -> Workers]
    /\ loaded \in [Tasks -> [ver : Nat \cup {-1}, up : BOOLEAN]]
    /\ mine \in [Tasks -> Nat \cup {-1}]
    /\ got \in [Tasks -> Nat \cup {-1}]
    /\ boots \in [Workers -> Nat] /\ born \in [Tasks -> Nat]

(* An admin whose reload went through reads its own write: from the answer *)
(* on, the worker that served it (unless respawned) routes by its change   *)
(* or a newer one, whatever other rebuilds overlapped it.                  *)
OwnWriteVisible ==
    \A t \in Admins : pc[t] = "done" /\ born[t] = boots[at[t]] =>
        router[at[t]].ver >= mine[t]

(* Each worker serves a monotone sequence of published configurations: the *)
(* load of a rebuild happens under the lock, so a slow rebuild cannot put  *)
(* back a router older than the one in place.                              *)
View == INSTANCE ConfigView WITH
    published <- config.ver, view <- [w \in Workers |-> router[w].ver]
MonotoneView == View!Spec

(* Every task that asks for a build gets past it: a rebuild that fails, or *)
(* a worker that dies, never leaves the lock taken.                        *)
BuildsEnd == \A t \in Tasks : pc[t] \in Waiting ~> pc[t] \in Ended

(* DESIGN-EN.md, 6.4: a change in the panel re-triggers RouterBuilder, also *)
(* for multiple instances.  So once the changes stop, every worker that    *)
(* has a router has one with all of them.                                  *)
ChangesReachEveryWorker ==
    \A w \in Workers : <>[](router[w].up => router[w].ver = config.ver)

=============================================================================
