-------------------------- MODULE HotReload_proofs --------------------------
(* Hot reload, for any number of workers, admins and clients: TypeOK,      *)
(* OwnWriteVisible, and the refinement of ConfigView.                      *)
EXTENDS HotReload, TLAPS

(* Who is in a rebuild holds the lock of its worker. *)
Owned == \A t \in Tasks : pc[t] \in Building => lock[at[t]] = t

(* What a rebuild has loaded is not older than the router it will replace, *)
(* nor than the change the task itself committed.                          *)
Snapshot ==
    \A t \in Tasks : pc[t] = "settings" =>
        /\ router[at[t]].ver <= loaded[t].ver /\ loaded[t].ver <= config.ver
        /\ mine[t] <= loaded[t].ver

(* No router and no mutation is ahead of the database. *)
Published ==
    /\ \A w \in Workers : router[w].ver <= config.ver
    /\ \A t \in Tasks : mine[t] <= config.ver /\ born[t] <= boots[at[t]]

IInv == TypeOK /\ Owned /\ Snapshot /\ Published /\ OwnWriteVisible

-----------------------------------------------------------------------------

(* The invariant holds at the start. *)
LEMMA InitIInv == Init => IInv
<1>. SUFFICES ASSUME Init PROVE IInv
  OBVIOUS
<1>1. /\ Empty \in [ver : Nat \cup {-1}, up : BOOLEAN]
      /\ config \in [ver : Nat, up : BOOLEAN] /\ config.ver = 0
  BY DEF Empty, Init
<1>2. TypeOK
  BY <1>1 DEF Init, TypeOK
<1>3. /\ \A w \in Workers : router[w].ver = -1 /\ boots[w] = 0
      /\ \A t \in Tasks : /\ pc[t] = "idle" /\ mine[t] = -1 /\ born[t] = 0
                          /\ at[t] \in Workers
      /\ Admins \subseteq Tasks
  BY DEF Init, Empty, Tasks
<1>4. Owned /\ Snapshot /\ OwnWriteVisible
  BY <1>3 DEF Owned, Snapshot, OwnWriteVisible, Building
<1>5. Published
  BY <1>1, <1>3 DEF Published
<1>. QED  BY <1>2, <1>4, <1>5 DEF IInv

(* Every step keeps the types. *)
LEMMA TypeOKStep == TypeOK /\ [Next]_vars => TypeOK'
<1>. SUFFICES ASSUME TypeOK, [Next]_vars PROVE TypeOK'
  OBVIOUS
<1>. USE DEF TypeOK, Tasks, Waiting, Building, Ended, workerVars, Start
<1>1. ASSUME NEW t \in Admins, AdminStep(t) PROVE TypeOK'
  <2>1. t \in Tasks /\ born' \in [Tasks -> Nat]
    <3>1. t \in Tasks /\ born' = [born EXCEPT ![t] = boots[at[t]]]
      BY <1>1 DEF AdminStep, Mutate, Refuse
    <3>2. boots[at[t]] \in Nat
      BY <3>1
    <3>. QED  BY <3>1, <3>2
  <2>2. CASE Refuse(t)
    BY <2>1, <2>2 DEF Refuse
  <2>3. ASSUME NEW up \in BOOLEAN, Mutate(t, up) PROVE TypeOK'
    <3>1. config' \in [ver : Nat, up : BOOLEAN]
      BY <2>3 DEF Mutate
    <3>2. mine' \in [Tasks -> Nat \cup {-1}]
      BY <2>3 DEF Mutate
    <3>. QED  BY <2>1, <2>3, <3>1, <3>2 DEF Mutate
  <2>. QED  BY <1>1, <2>2, <2>3 DEF AdminStep
<1>2. ASSUME NEW t \in Clients, ClientStep(t) PROVE TypeOK'
  <2>1. t \in Tasks /\ born' = [born EXCEPT ![t] = boots[at[t]]]
    BY <1>2 DEF ClientStep, Serve, NeedRouter
  <2>2. boots[at[t]] \in Nat
    BY <2>1
  <2>3. born' \in [Tasks -> Nat]
    BY <2>1, <2>2
  <2>4. CASE Serve(t)
    <3>1. got' \in [Tasks -> Nat \cup {-1}]
      BY <2>1, <2>4 DEF Serve
    <3>. QED  BY <2>1, <2>3, <2>4, <3>1 DEF Serve
  <2>5. CASE NeedRouter(t)
    BY <2>1, <2>3, <2>5 DEF NeedRouter
  <2>. QED  BY <1>2, <2>4, <2>5 DEF ClientStep
<1>3. ASSUME NEW t \in Tasks, Acquire(t) \/ LoadModels(t) PROVE TypeOK'
  <2>1. config \in [ver : Nat \cup {-1}, up : BOOLEAN]
    OBVIOUS
  <2>2. loaded' \in [Tasks -> [ver : Nat \cup {-1}, up : BOOLEAN]]
    BY <1>3, <2>1 DEF Acquire, LoadModels
  <2>3. lock' \in [Workers -> Tasks \cup {NoTask}]
    BY <1>3 DEF Acquire, LoadModels
  <2>. QED  BY <1>3, <2>2, <2>3 DEF Acquire, LoadModels
<1>4. ASSUME NEW t \in Tasks, Swap(t) PROVE TypeOK'
  <2>1. builds' \in [Workers -> Nat]
    BY <1>4 DEF Swap
  <2>2. router' \in [Workers -> [ver : Nat \cup {-1}, up : BOOLEAN]]
    BY <1>4 DEF Swap
  <2>3. got' \in [Tasks -> Nat \cup {-1}]
    BY <1>4 DEF Swap
  <2>. QED  BY <1>4, <2>1, <2>2, <2>3 DEF Swap, Release
<1>5. ASSUME NEW t \in Tasks, BuildFails(t) PROVE TypeOK'
  BY <1>5 DEF BuildFails, Release
<1>6. ASSUME NEW w \in Workers, Respawn(w) PROVE TypeOK'
  BY <1>6 DEF Respawn, Empty
<1>7. CASE UNCHANGED vars
  BY <1>7 DEF vars
<1>. QED
  BY <1>1, <1>2, <1>3, <1>4, <1>5, <1>6, <1>7 DEF Next, BuildStep

-----------------------------------------------------------------------------

(* One task moves; nothing but its own place, and what the database gains, *)
(* changes: the invariant only has to be shown for that task.              *)
LEMMA SwapStep ==
  ASSUME IInv, TypeOK', NEW t \in Tasks, Swap(t)
  PROVE  IInv'
<1>. USE DEF IInv, TypeOK
<1>1. /\ pc[t] = "settings" /\ lock[at[t]] = t /\ at[t] \in Workers
      /\ router' = [router EXCEPT ![at[t]] = loaded[t]]
      /\ lock' = [lock EXCEPT ![at[t]] = NoTask]
      /\ pc'[t] \notin Building
      /\ \A u \in Tasks \ {t} : pc'[u] = pc[u]
      /\ UNCHANGED <<config, at, loaded, mine, boots, born>>
  BY DEF Swap, Release, Owned, Building
<1>2. \A u \in Tasks : u # t /\ at[u] = at[t] => pc[u] \notin Building
  BY <1>1 DEF Owned
<1>3. Owned'
  BY <1>1, <1>2 DEF Owned
<1>4. Snapshot'
  BY <1>1, <1>2 DEF Snapshot, Building
<1>5. Published'
  BY <1>1 DEF Published, Snapshot
<1>6. OwnWriteVisible'
  <2>1. SUFFICES ASSUME NEW u \in Admins, pc'[u] = "done", born[u] = boots[at[u]]
                 PROVE  router'[at[u]].ver >= mine[u]
    BY <1>1 DEF OwnWriteVisible
  <2>. u \in Tasks
    BY DEF Tasks
  <2>2. CASE u = t
    BY <1>1, <2>2 DEF Snapshot
  <2>3. CASE u # t
    <3>1. router[at[u]].ver >= mine[u]
      BY <1>1, <2>1, <2>3 DEF OwnWriteVisible
    <3>2. router'[at[u]].ver >= router[at[u]].ver
      BY <1>1 DEF Snapshot
    <3>3. router'[at[u]].ver \in Int /\ router[at[u]].ver \in Int /\ mine[u] \in Int
      OBVIOUS
    <3>. QED  BY <3>1, <3>2, <3>3
  <2>. QED  BY <2>2, <2>3
<1>. QED  BY <1>3, <1>4, <1>5, <1>6

(* Every step keeps the invariant. *)
LEMMA NextIInv == IInv /\ [Next]_vars => IInv'
<1>. SUFFICES ASSUME IInv, [Next]_vars PROVE IInv'
  OBVIOUS
<1>1. TypeOK' /\ TypeOK
  BY TypeOKStep DEF IInv
<1>. USE DEF IInv, TypeOK
<1>2. ASSUME NEW t \in Admins, NEW up \in BOOLEAN, Mutate(t, up) PROVE IInv'
  <2>1. /\ t \in Tasks /\ pc[t] = "idle" /\ pc'[t] \in {"lock", "failed"}
        /\ \A u \in Tasks \ {t} :
               pc'[u] = pc[u] /\ born'[u] = born[u] /\ mine'[u] = mine[u]
        /\ mine'[t] = config.ver + 1 /\ born'[t] = boots[at[t]]
        /\ config'.ver = config.ver + 1
        /\ UNCHANGED <<at, loaded, router, lock, boots>>
    BY <1>2 DEF Mutate, Start, Tasks, workerVars
  <2>2. Owned' /\ Snapshot'
    BY <2>1 DEF Owned, Snapshot, Building
  <2>3. Published'
    <3>1. config.ver \in Int /\ \A w \in Workers : router[w].ver \in Int
      OBVIOUS
    <3>2. \A w \in Workers : router'[w].ver <= config'.ver
      BY <2>1, <3>1 DEF Published
    <3>3. \A u \in Tasks : mine[u] \in Int /\ boots[at[u]] \in Int
      OBVIOUS
    <3>4. \A u \in Tasks : mine'[u] <= config'.ver /\ born'[u] <= boots'[at'[u]]
      BY <2>1, <3>1, <3>3 DEF Published
    <3>. QED  BY <3>2, <3>4 DEF Published
  <2>4. OwnWriteVisible'
    BY <2>1 DEF OwnWriteVisible, Tasks
  <2>. QED  BY <1>1, <2>2, <2>3, <2>4
<1>3. ASSUME NEW t \in Tasks, Refuse(t) \/ Serve(t) \/ NeedRouter(t) PROVE IInv'
  <2>1. /\ pc[t] = "idle" /\ pc'[t] \in {"refused", "served", "lock"}
        /\ \A u \in Tasks \ {t} : pc'[u] = pc[u] /\ born'[u] = born[u]
        /\ born'[t] = boots[at[t]]
        /\ UNCHANGED <<config, at, loaded, mine, router, lock, boots>>
    BY <1>3 DEF Refuse, Serve, NeedRouter, Start, workerVars
  <2>2. Owned' /\ Snapshot'
    BY <2>1 DEF Owned, Snapshot, Building
  <2>3. Published'
    BY <2>1 DEF Published
  <2>4. OwnWriteVisible'
    BY <2>1 DEF OwnWriteVisible, Tasks
  <2>. QED  BY <1>1, <2>2, <2>3, <2>4
<1>4. ASSUME NEW t \in Tasks, Acquire(t) PROVE IInv'
  <2>1. NoTask \notin Tasks
    BY HotReloadAssumption
  <2>2. Owned'
    BY <1>1, <1>4, <2>1 DEF Acquire, Owned, Building
  <2>. QED
    BY <1>1, <1>4, <2>2
       DEF Acquire, Tasks, Snapshot, Published, OwnWriteVisible
<1>5. ASSUME NEW t \in Tasks, LoadModels(t) PROVE IInv'
  BY <1>1, <1>5
     DEF LoadModels, Tasks, Owned, Snapshot, Published, OwnWriteVisible,
         Building, workerVars
<1>6. ASSUME NEW t \in Tasks, BuildFails(t) PROVE IInv'
  <2>1. Owned'
    BY <1>1, <1>6 DEF BuildFails, Release, Owned, Building
  <2>. QED
    BY <1>1, <1>6, <2>1
       DEF BuildFails, Tasks, Snapshot, Published, OwnWriteVisible
<1>7. ASSUME NEW w \in Workers, Respawn(w) PROVE IInv'
  <2>1. Owned'
    BY <1>1, <1>7 DEF Respawn, Owned, Building
  <2>2. Snapshot'
    BY <1>1, <1>7 DEF Respawn, Snapshot, Building
  <2>3. Published'
    BY <1>1, <1>7 DEF Respawn, Published, Empty
  <2>4. OwnWriteVisible'
    BY <1>1, <1>7 DEF Respawn, OwnWriteVisible, Published, Tasks
  <2>. QED  BY <1>1, <2>1, <2>2, <2>3, <2>4
<1>8. CASE UNCHANGED vars
  BY <1>1, <1>8 DEF vars, Owned, Snapshot, Published, OwnWriteVisible
<1>. QED
  BY <1>1, <1>2, <1>3, <1>4, <1>5, <1>6, <1>7, <1>8, SwapStep
     DEF Next, AdminStep, ClientStep, BuildStep, Tasks

-----------------------------------------------------------------------------

(* Every variable of the router builders always has its type. *)
THEOREM TypeCorrect == Spec => []TypeOK
<1>1. Init => TypeOK
  BY InitIInv DEF IInv
<1>. QED  BY <1>1, TypeOKStep, PTL DEF Spec

(* An admin whose reload succeeded reads its own write on its worker.      *)
THEOREM OwnWriteVisibleHolds == Spec => []OwnWriteVisible
<1>1. IInv => OwnWriteVisible
  BY DEF IInv
<1>. QED  BY <1>1, InitIInv, NextIInv, PTL DEF Spec

(* Rebuilding under the lock implements ConfigView: whatever rebuilds      *)
(* overlap, fail or die, a worker never goes back to an older version.     *)
THEOREM Refinement == Spec => MonotoneView
<1>. DEFINE view == [w \in Workers |-> router[w].ver]
<1>1. Init => View!Init
  BY DEF Init, View!Init, Empty
<1>2. IInv /\ [Next]_vars => [View!Next]_<<config.ver, view>>
  <2>. SUFFICES ASSUME IInv, [Next]_vars
                PROVE  View!Next \/ UNCHANGED <<config.ver, view>>
    OBVIOUS
  <2>. USE DEF IInv, TypeOK
  <2>1. ASSUME UNCHANGED router PROVE UNCHANGED view
    BY <2>1
  <2>2. ASSUME NEW t \in Admins, NEW up \in BOOLEAN, Mutate(t, up)
        PROVE  View!Next
    BY <2>2 DEF Mutate, workerVars, View!Next, View!Publish
  <2>3. ASSUME NEW t \in Tasks, Swap(t) PROVE View!Next
    <3>1. /\ at[t] \in Workers
          /\ router' = [router EXCEPT ![at[t]] = loaded[t]] /\ config' = config
      BY <2>3 DEF Swap
    <3>2. loaded[t].ver \in router[at[t]].ver .. config.ver
      <4>1. pc[t] = "settings"
        BY <2>3 DEF Swap
      <4>2. loaded[t].ver \in Int /\ router[at[t]].ver \in Int /\ config.ver \in Int
        BY <3>1
      <4>. QED  BY <4>1, <4>2 DEF Snapshot
    <3>3. view' = [view EXCEPT ![at[t]] = loaded[t].ver]
      BY <3>1
    <3>4. view[at[t]] = router[at[t]].ver
      BY <3>1
    <3>. QED  BY <3>1, <3>2, <3>3, <3>4 DEF View!Next, View!Refresh
  <2>4. ASSUME NEW w \in Workers, Respawn(w) PROVE View!Next
    <3>1. view' = [view EXCEPT ![w] = -1] /\ config' = config
      BY <2>4 DEF Respawn, Empty
    <3>. QED  BY <3>1 DEF View!Next, View!Restart
  <2>5. ASSUME UNCHANGED <<config, router>> PROVE UNCHANGED <<config.ver, view>>
    BY <2>5
  <2>. QED
    BY <2>2, <2>3, <2>4, <2>5
       DEF Next, AdminStep, ClientStep, BuildStep, Refuse, Serve, NeedRouter,
           Acquire, LoadModels, BuildFails, workerVars, vars, Tasks
<1>. QED  BY <1>1, <1>2, InitIInv, NextIInv, PTL DEF Spec, MonotoneView, View!Spec
=============================================================================
