------------------------ MODULE LibjujuModels_proofs -------------------------
(***************************************************************************)
(* Proofs about LibjujuModels, for any number of workers, calls and models,*)
(* and that it implements ModelLife.                                       *)
(***************************************************************************)
EXTENDS LibjujuRefinement, TLAPS

\* What resolving a name does to the handles.
LEMMA Resolve ==
  ASSUME live \in [Model -> Creators \cup {NONE}],
         handle \in [Task -> [Model -> Creators \cup {NONE}]],
         NEW t \in Task, NEW m \in Model,
         handle' = [handle EXCEPT ![t][m] = live[m]]
  PROVE  /\ handle' \in [Task -> [Model -> Creators \cup {NONE}]]
         /\ \A u \in Task, n \in Model :
               handle'[u][n] = IF u = t /\ n = m THEN live[m] ELSE handle[u][n]
<1> DEFINE H == [handle[t] EXCEPT ![m] = live[m]]
<1>1. H \in [Model -> Creators \cup {NONE}]
  OBVIOUS
<1>2. handle' = [handle EXCEPT ![t] = H]
  OBVIOUS
<1>3. \A n \in Model : H[n] = IF n = m THEN live[m] ELSE handle[t][n]
  OBVIOUS
<1> HIDE DEF H
<1> QED
  BY <1>1, <1>2, <1>3

\* The actions that branch, each as the two changes it can make.
GetModelChange(t) ==
    /\ pc[t] = "get_model"
    /\ handle' \in [Task -> [Model -> Creators \cup {NONE}]]
    /\ \A u \in Task, n \in Model :
          u # t \/ n # Target[t] => handle'[u][n] = handle[u][n]
    /\ \/ /\ live[Target[t]] # NONE
          /\ handle'[t][Target[t]] = live[Target[t]]
          /\ pc' = [pc EXCEPT ![t] = "add_machine"]
       \/ handle' = handle /\ pc' = [pc EXCEPT ![t] = "failed"]
    /\ UNCHANGED <<juju, recorded, libjuju, request, listed, at>>

\* Resolving a name for a creation changes one handle or fails.
LEMMA GetModelEffect ==
  ASSUME live \in [Model -> Creators \cup {NONE}],
         handle \in [Task -> [Model -> Creators \cup {NONE}]],
         NEW t \in Task, GetModel(t)
  PROVE  GetModelChange(t)
<1>1. pc[t] = "get_model" /\ Target[t] \in Model
  BY CallsAssumption DEF GetModel
<1>2. UNCHANGED <<juju, recorded, libjuju, request, listed, at>>
  BY DEF GetModel
<1>3. CASE Listed(Target[t])
  <2>1. /\ handle' = [handle EXCEPT ![t][Target[t]] = live[Target[t]]]
        /\ pc' = [pc EXCEPT ![t] = "add_machine"]
    BY <1>3 DEF GetModel, Goto
  <2> QED
    BY <1>1, <1>2, <1>3, <2>1, Resolve DEF Listed, GetModelChange
<1>4. CASE ~Listed(Target[t])
  BY <1>1, <1>2, <1>4 DEF GetModel, Goto, GetModelChange
<1> QED
  BY <1>3, <1>4

AddMachineChange(t) ==
    /\ pc[t] = "add_machine" /\ KindOf[t] # "reuse"
    /\ \/ /\ machines' = machines \cup {t}
          /\ pc' = [pc EXCEPT ![t] = "wait_for"]
       \/ machines' = machines /\ pc' = [pc EXCEPT ![t] = "failed"]
    /\ UNCHANGED <<live, dying, reaped, recorded, libjuju,
                   request, listed, at, handle>>

\* Adding a machine succeeds or fails.
LEMMA AddMachineEffect ==
  ASSUME NEW t \in Task, AddMachine(t)
  PROVE  AddMachineChange(t)
  BY DEF AddMachine, Goto, AddMachineChange

OpenModelChange(t, m) ==
    /\ \/ /\ pc[t] = "next" /\ m \in listed[t] /\ handle[t][m] = NONE
          /\ listed' = listed
       \/ /\ pc[t] = "idle" /\ KindOf[t] = "delete"
          /\ listed' = [listed EXCEPT ![t] = {m}]
    /\ listed' \in [Task -> SUBSET Model]
    /\ at' = [at EXCEPT ![t] = m]
    /\ handle' \in [Task -> [Model -> Creators \cup {NONE}]]
    /\ \A u \in Task, n \in Model :
          u # t \/ n # m => handle'[u][n] = handle[u][n]
    /\ \/ /\ live[m] # NONE
          /\ handle'[t][m] = live[m]
          /\ pc' = [pc EXCEPT ![t] = "machines"]
       \/ handle' = handle /\ pc' = [pc EXCEPT ![t] = "failed"]
    /\ UNCHANGED <<juju, recorded, libjuju, request>>

\* Resolving a name for a deletion changes one handle or fails.
LEMMA OpenModelEffect ==
  ASSUME listed \in [Task -> SUBSET Model],
         live \in [Model -> Creators \cup {NONE}],
         handle \in [Task -> [Model -> Creators \cup {NONE}]],
         NEW t \in Task, NEW m \in Model, OpenModel(t, m)
  PROVE  OpenModelChange(t, m)
<1>1. /\ \/ /\ pc[t] = "next" /\ m \in listed[t] /\ handle[t][m] = NONE
            /\ listed' = listed
         \/ /\ pc[t] = "idle" /\ KindOf[t] = "delete"
            /\ listed' = [listed EXCEPT ![t] = {m}]
      /\ at' = [at EXCEPT ![t] = m]
      /\ UNCHANGED <<juju, recorded, libjuju, request>>
  BY DEF OpenModel
<1>2. listed' \in [Task -> SUBSET Model]
  <2>1. {m} \in SUBSET Model
    OBVIOUS
  <2> QED
    BY <1>1, <2>1
<1>3. CASE Listed(m)
  <2>1. /\ handle' = [handle EXCEPT ![t][m] = live[m]]
        /\ pc' = [pc EXCEPT ![t] = "machines"]
    BY <1>3 DEF OpenModel, Goto
  <2>2. /\ handle' \in [Task -> [Model -> Creators \cup {NONE}]]
        /\ \A u \in Task, n \in Model :
              handle'[u][n] = IF u = t /\ n = m THEN live[m] ELSE handle[u][n]
    BY <2>1, Resolve
  <2> QED
    BY <1>1, <1>2, <1>3, <2>1, <2>2 DEF Listed, OpenModelChange
<1>4. CASE ~Listed(m)
  <2>1. handle' = handle /\ pc' = [pc EXCEPT ![t] = "failed"]
    BY <1>4 DEF OpenModel, Goto
  <2> QED
    BY <1>1, <1>2, <2>1 DEF OpenModelChange
<1> QED
  BY <1>3, <1>4

\* Every step keeps the types.
LEMMA TypeStep == TypeOK /\ [Next]_vars => TypeOK'
<1> SUFFICES ASSUME TypeOK, [Next]_vars PROVE TypeOK'
  OBVIOUS
<1> USE CallsAssumption DEF TypeOK
<1>1. CASE UNCHANGED vars
  BY <1>1 DEF vars, juju, libjuju, call
<1>2. ASSUME NEW t \in Task, Create(t) PROVE TypeOK'
  <2> USE DEF juju, libjuju, Goto, Creators, Deleters, Creating, Deleting, CreateLabel, DeleteLabel, Ended
  <2>1. CASE ModelExists(t)
    BY <2>1 DEF ModelExists
  <2>2. CASE AddModelExists(t)
    BY <2>2 DEF AddModelExists
  <2>3. CASE ReturnCached(t)
    BY <2>3 DEF ReturnCached
  <2>4. CASE StartCreation(t)
    BY <2>4 DEF StartCreation, Acquire
  <2>5. CASE ModelAdded(t)
    BY <2>5 DEF ModelAdded, Release
  <2>6. CASE AddModelFailed(t)
    BY <2>6 DEF AddModelFailed, Release
  <2>7. CASE GetModel(t)
    <3>1. GetModelChange(t)
      BY <2>7, GetModelEffect
    <3>2. t \in Creators
      BY <2>7 DEF GetModel
    <3>3. \E label \in {"add_machine", "failed"} : pc' = [pc EXCEPT ![t] = label]
      BY <3>1 DEF GetModelChange
    <3> QED
      BY <3>1, <3>2, <3>3 DEF GetModelChange
  <2>8. CASE AddMachine(t)
    <3>1. AddMachineChange(t)
      BY <2>8, AddMachineEffect
    <3> QED
      BY <3>1 DEF AddMachineChange
  <2>9. CASE ReuseMachine(t)
    BY <2>9 DEF ReuseMachine
  <2>10. CASE EnvironmentCreated(t)
    BY <2>10 DEF EnvironmentCreated
  <2> QED
    BY <1>2, <2>1, <2>2, <2>3, <2>4, <2>5, <2>6, <2>7, <2>8, <2>9, <2>10 DEF Create
<1>3. ASSUME NEW t \in Task, Delete(t) PROVE TypeOK'
  <2> USE DEF juju, libjuju, Goto, Creators, Deleters, Creating, Deleting, CreateLabel, DeleteLabel, Ended
  <2>1. CASE ListModels(t)
    BY <2>1 DEF ListModels
  <2>2. CASE DestroyMachines(t)
    BY <2>2 DEF DestroyMachines
  <2>3. CASE ForgetModel(t)
    BY <2>3 DEF ForgetModel
  <2>4. CASE ModelDestroyed(t)
    BY <2>4 DEF ModelDestroyed
  <2>5. CASE PollGone(t)
    BY <2>5 DEF PollGone, AfterModel
  <2>6. CASE PollTimeout(t)
    BY <2>6 DEF PollTimeout
  <2>7. ASSUME NEW m \in Model, OpenModel(t, m) PROVE TypeOK'
    <3>1. OpenModelChange(t, m)
      BY <2>7, OpenModelEffect
    <3> QED
      BY <3>1 DEF OpenModelChange
  <2> QED
    BY <1>3, <2>1, <2>2, <2>3, <2>4, <2>5, <2>6, <2>7 DEF Delete
<1>4. ASSUME NEW t \in Task, Abort(t) PROVE TypeOK'
  BY <1>4 DEF Abort, Release, Goto, Running, juju, libjuju, CreateLabel, DeleteLabel, Ended
<1>5. ASSUME NEW t \in Task, Serve(t) PROVE TypeOK'
  <2> USE DEF juju, libjuju, Creators, Deleters, Creating, Deleting
  <2>1. CASE JujuAddModel(t)
    BY <2>1 DEF JujuAddModel
  <2>2. CASE JujuRefuse(t)
    BY <2>2 DEF JujuRefuse
  <2>3. CASE JujuDestroyModel(t)
    BY <2>3 DEF JujuDestroyModel, uuid, Listed
  <2> QED
    BY <1>5, <2>1, <2>2, <2>3 DEF Serve
<1>6. ASSUME NEW w \in Worker, CrashWorker(w) PROVE TypeOK'
  BY <1>6 DEF CrashWorker, Running, juju, CreateLabel, DeleteLabel, Ended
<1>7. ASSUME NEW m \in Model, JujuReap(m) PROVE TypeOK'
  BY <1>7 DEF JujuReap, libjuju, call
<1> QED
  BY <1>1, <1>2, <1>3, <1>4, <1>5, <1>6, <1>7 DEF Next

\* TypeOK is an invariant: no call of libjuju.py is ever at an await of the other
\* kind, and only creating calls hold the lock or name incarnations.
THEOREM TypeCorrect == Spec => []TypeOK
<1>1. Init => TypeOK
  BY CallsAssumption DEF Init, TypeOK, CreateLabel, DeleteLabel, Ended
<1> QED
  BY <1>1, TypeStep, PTL DEF Spec
-----------------------------------------------------------------------------
(* The parts of the inductive invariant.                                   *)

\* The lock and the cache of a worker.
LockInv == LockHeldByCreator /\ CreateOnlyUncached

\* Before a creating call has sent its request, it has none; before it has
\* resolved its model, it has no handle.  A call that is not made has nothing.
Early ==
    /\ \A t \in Creators : pc[t] \in {"idle", "add_model", "blocked"}
          => request[t] = "none"
    /\ \A t \in Creators :
          pc[t] \in {"idle", "add_model", "blocked", "creating", "get_model"}
          => handle[t][Target[t]] = NONE
    /\ \A t \in Task : pc[t] = "idle" => \A m \in Model : handle[t][m] = NONE

\* An incarnation is what a served request created: it stays listed under the
\* name that was asked for until it is removed.
Incarnation(i, m) == Target[i] = m /\ request[i] = "ok"

LiveServed ==
    /\ \A m \in Model : live[m] # NONE => Incarnation(live[m], m)
    /\ \A t \in Creators : request[t] = "ok" => live[Target[t]] = t \/ t \in reaped

HandlesServed ==
    \A t \in Task, m \in Model :
        handle[t][m] # NONE => Incarnation(handle[t][m], m)

\* What is in the cache was asked for by this worker, and served.
CacheServed ==
    \A w \in Worker : \A m \in models[w] :
        \E t \in Creators : WorkerOf[t] = w /\ Incarnation(t, m)

\* A deletion that is at one model is done with the models before it.
DoneWith(t, m) == handle[t][m] = NONE \/ handle[t][m] \in reaped

DeletionAt(t) ==
    /\ pc[t] \in {"machines", "disconnect", "destroying", "polling"} =>
          /\ handle[t][at[t]] # NONE
          /\ \A m \in listed[t] : m # at[t] => DoneWith(t, m)
    /\ pc[t] = "next" => \A m \in listed[t] : DoneWith(t, m)
    /\ pc[t] = "ok" => \A m \in listed[t] : handle[t][m] \in reaped

DeletionInv == \A t \in Deleters : DeletionAt(t)

\* What the controller destroys was resolved by a deletion.
DyingResolved ==
    \A i \in dying : \E d \in Deleters : handle[d][Target[i]] = i

\* The machine of a call is there, or its model was resolved by a deletion.
Lost(t) == \E d \in Deleters : handle[d][Target[t]] = handle[t][Target[t]]

HasMachine(t) ==
    pc[t] = "wait_for" \/ t \in recorded \/ (pc[t] = "ok" /\ KindOf[t] # "reuse")

MachineAt(t) ==
    /\ pc[t] = "add_machine" => handle[t][Target[t]] # NONE
    /\ HasMachine(t) => handle[t][Target[t]] # NONE /\ (t \in machines \/ Lost(t))

MachineInv == \A t \in Creators : MachineAt(t)

\* What a step may change.  A served request, a resolved handle and a removed
\* incarnation are for ever; a name enters the cache when its request was
\* served, and an incarnation starts to die when a deletion has resolved it.
RequestsKept == \A t \in Creators : request[t] = "ok" => request'[t] = "ok"

HandlesKept ==
    \A t \in Task, m \in Model :
        \/ handle'[t][m] = handle[t][m]
        \/ handle[t][m] = NONE /\ handle'[t][m] = live[m]

RemovedKept == reaped \subseteq reaped'

CacheGrows ==
    \A w \in Worker : \A m \in models'[w] :
        \/ m \in models[w]
        \/ \E t \in Creators : WorkerOf[t] = w /\ Incarnation(t, m)

DyingGrows ==
    \A i \in dying' :
        \/ i \in dying
        \/ \E d \in Deleters : i # NONE /\ handle[d][at[d]] = i /\ live[at[d]] = i

Growth ==
    RequestsKept /\ HandlesKept /\ RemovedKept /\ CacheGrows /\ DyingGrows

IInv ==
    /\ TypeOK
    /\ LockInv
    /\ Early
    /\ LiveServed
    /\ HandlesServed
    /\ CacheServed
    /\ DeletionInv
    /\ DyingResolved
    /\ MachineInv

-----------------------------------------------------------------------------

\* Every step keeps the invariant of lock and cache.
LEMMA LockStep == TypeOK /\ LockInv /\ [Next]_vars => LockInv'
<1> SUFFICES ASSUME TypeOK, LockInv, [Next]_vars PROVE LockInv'
  OBVIOUS
<1> USE CallsAssumption, NoneAssumption DEF TypeOK, LockInv, LockHeldByCreator, CreateOnlyUncached, Ended, juju, libjuju, Goto
<1>1. CASE UNCHANGED vars
  BY <1>1 DEF vars, call
<1>2. ASSUME NEW t \in Task, Create(t) PROVE LockInv'
  <2>1. CASE ModelExists(t)
    BY <2>1 DEF ModelExists
  <2>2. CASE AddModelExists(t)
    BY <2>2 DEF AddModelExists
  <2>3. CASE ReturnCached(t)
    BY <2>3 DEF ReturnCached
  <2>4. CASE StartCreation(t)
    BY <2>4 DEF StartCreation, Acquire
  <2>5. CASE ModelAdded(t)
    BY <2>5 DEF ModelAdded, Release
  <2>6. CASE AddModelFailed(t)
    BY <2>6 DEF AddModelFailed, Release
  <2>7. CASE GetModel(t)
    <3>1. GetModelChange(t)
      BY <2>7, GetModelEffect
    <3> QED
      BY <3>1 DEF GetModelChange
  <2>8. CASE AddMachine(t)
    <3>1. AddMachineChange(t)
      BY <2>8, AddMachineEffect
    <3> QED
      BY <3>1 DEF AddMachineChange
  <2>9. CASE ReuseMachine(t)
    BY <2>9 DEF ReuseMachine
  <2>10. CASE EnvironmentCreated(t)
    BY <2>10 DEF EnvironmentCreated
  <2> QED
    BY <1>2, <2>1, <2>2, <2>3, <2>4, <2>5, <2>6, <2>7, <2>8, <2>9, <2>10 DEF Create
<1>3. ASSUME NEW t \in Task, Delete(t) PROVE LockInv'
  <2>1. CASE ListModels(t)
    BY <2>1 DEF ListModels
  <2>2. CASE DestroyMachines(t)
    BY <2>2 DEF DestroyMachines
  <2>3. CASE ForgetModel(t)
    BY <2>3 DEF ForgetModel
  <2>4. CASE ModelDestroyed(t)
    BY <2>4 DEF ModelDestroyed
  <2>5. CASE PollGone(t)
    BY <2>5 DEF PollGone, AfterModel
  <2>6. CASE PollTimeout(t)
    BY <2>6 DEF PollTimeout
  <2>7. ASSUME NEW m \in Model, OpenModel(t, m) PROVE LockInv'
    <3>1. OpenModelChange(t, m)
      BY <2>7, OpenModelEffect
    <3> QED
      BY <3>1 DEF OpenModelChange
  <2> QED
    BY <1>3, <2>1, <2>2, <2>3, <2>4, <2>5, <2>6, <2>7 DEF Delete
<1>4. ASSUME NEW t \in Task, Abort(t) PROVE LockInv'
  BY <1>4 DEF Abort, Release, Running
<1>5. ASSUME NEW t \in Task, Serve(t) PROVE LockInv'
  <2>1. CASE JujuAddModel(t)
    BY <2>1 DEF JujuAddModel
  <2>2. CASE JujuRefuse(t)
    BY <2>2 DEF JujuRefuse
  <2>3. CASE JujuDestroyModel(t)
    BY <2>3 DEF JujuDestroyModel, uuid
  <2> QED
    BY <1>5, <2>1, <2>2, <2>3 DEF Serve
<1>6. ASSUME NEW w \in Worker, CrashWorker(w) PROVE LockInv'
  BY <1>6 DEF CrashWorker, Running
<1>7. ASSUME NEW m \in Model, JujuReap(m) PROVE LockInv'
  BY <1>7 DEF JujuReap, call
<1> QED
  BY <1>1, <1>2, <1>3, <1>4, <1>5, <1>6, <1>7 DEF Next

\* Every step keeps what is known of calls that have just begun.
LEMMA EarlyStep == TypeOK /\ Early /\ [Next]_vars => Early'
<1> SUFFICES ASSUME TypeOK, Early, [Next]_vars PROVE Early'
  OBVIOUS
<1> USE CallsAssumption, NoneAssumption DEF TypeOK, Early, Creators, Deleters, Creating, Deleting, CreateLabel, DeleteLabel, Ended, juju, libjuju, Goto
<1>1. CASE UNCHANGED vars
  BY <1>1 DEF vars, call
<1>2. ASSUME NEW t \in Task, Create(t) PROVE Early'
  <2>1. CASE ModelExists(t)
    BY <2>1 DEF ModelExists
  <2>2. CASE AddModelExists(t)
    BY <2>2 DEF AddModelExists
  <2>3. CASE ReturnCached(t)
    BY <2>3 DEF ReturnCached
  <2>4. CASE StartCreation(t)
    BY <2>4 DEF StartCreation, Acquire
  <2>5. CASE ModelAdded(t)
    BY <2>5 DEF ModelAdded, Release
  <2>6. CASE AddModelFailed(t)
    BY <2>6 DEF AddModelFailed, Release
  <2>7. CASE GetModel(t)
    <3>1. GetModelChange(t)
      BY <2>7, GetModelEffect
    <3>2. \E label \in {"add_machine", "failed"} : pc' = [pc EXCEPT ![t] = label]
      BY <3>1 DEF GetModelChange
    <3>3. \A u \in Task, n \in Model : u # t => handle'[u][n] = handle[u][n]
      BY <3>1 DEF GetModelChange
    <3>4. request' = request
      BY <3>1 DEF GetModelChange
    <3> QED
      BY <3>2, <3>3, <3>4
  <2>8. CASE AddMachine(t)
    <3>1. AddMachineChange(t)
      BY <2>8, AddMachineEffect
    <3> QED
      BY <3>1 DEF AddMachineChange
  <2>9. CASE ReuseMachine(t)
    <3>1. \E label \in {"ok", "failed"} : pc' = [pc EXCEPT ![t] = label]
      BY <2>9 DEF ReuseMachine
    <3>2. UNCHANGED <<request, handle>>
      BY <2>9 DEF ReuseMachine
    <3> QED
      BY <3>1, <3>2
  <2>10. CASE EnvironmentCreated(t)
    BY <2>10 DEF EnvironmentCreated
  <2> QED
    BY <1>2, <2>1, <2>2, <2>3, <2>4, <2>5, <2>6, <2>7, <2>8, <2>9, <2>10 DEF Create
<1>3. ASSUME NEW t \in Task, Delete(t) PROVE Early'
  <2>1. CASE ListModels(t)
    BY <2>1 DEF ListModels
  <2>2. CASE DestroyMachines(t)
    BY <2>2 DEF DestroyMachines
  <2>3. CASE ForgetModel(t)
    BY <2>3 DEF ForgetModel
  <2>4. CASE ModelDestroyed(t)
    BY <2>4 DEF ModelDestroyed
  <2>5. CASE PollGone(t)
    BY <2>5 DEF PollGone, AfterModel
  <2>6. CASE PollTimeout(t)
    BY <2>6 DEF PollTimeout
  <2>7. ASSUME NEW m \in Model, OpenModel(t, m) PROVE Early'
    <3>1. OpenModelChange(t, m)
      BY <2>7, OpenModelEffect
    <3>2. \E label \in {"machines", "failed"} : pc' = [pc EXCEPT ![t] = label]
      BY <3>1 DEF OpenModelChange
    <3>3. \A u \in Task, n \in Model : u # t => handle'[u][n] = handle[u][n]
      BY <3>1 DEF OpenModelChange
    <3>4. request' = request
      BY <3>1 DEF OpenModelChange
    <3> QED
      BY <3>2, <3>3, <3>4
  <2> QED
    BY <1>3, <2>1, <2>2, <2>3, <2>4, <2>5, <2>6, <2>7 DEF Delete
<1>4. ASSUME NEW t \in Task, Abort(t) PROVE Early'
  BY <1>4 DEF Abort, Release, Running
<1>5. ASSUME NEW t \in Task, Serve(t) PROVE Early'
  <2>1. CASE JujuAddModel(t)
    BY <2>1 DEF JujuAddModel
  <2>2. CASE JujuRefuse(t)
    BY <2>2 DEF JujuRefuse
  <2>3. CASE JujuDestroyModel(t)
    BY <2>3 DEF JujuDestroyModel, uuid
  <2> QED
    BY <1>5, <2>1, <2>2, <2>3 DEF Serve
<1>6. ASSUME NEW w \in Worker, CrashWorker(w) PROVE Early'
  BY <1>6 DEF CrashWorker, Running
<1>7. ASSUME NEW m \in Model, JujuReap(m) PROVE Early'
  BY <1>7 DEF JujuReap, call
<1> QED
  BY <1>1, <1>2, <1>3, <1>4, <1>5, <1>6, <1>7 DEF Next

\* What is unchanged grows.
LEMMA Frame ==
  /\ request' = request => RequestsKept
  /\ handle' = handle => HandlesKept
  /\ reaped' = reaped => RemovedKept
  /\ models' = models => CacheGrows
  /\ dying' = dying => DyingGrows
BY DEF RequestsKept, HandlesKept, RemovedKept, CacheGrows, DyingGrows

\* Every step is one of growth.
LEMMA GrowthStep == TypeOK /\ Early /\ [Next]_vars => Growth
<1> SUFFICES ASSUME TypeOK, Early, [Next]_vars PROVE Growth
  OBVIOUS
<1> USE Frame DEF Growth, juju, libjuju
<1>1. CASE UNCHANGED vars
  BY <1>1 DEF vars, call
<1>2. ASSUME NEW t \in Task, Create(t) PROVE Growth
  <2>1. CASE ModelExists(t)
    BY <2>1 DEF ModelExists
  <2>2. CASE AddModelExists(t)
    BY <2>2 DEF AddModelExists
  <2>3. CASE ReturnCached(t)
    BY <2>3 DEF ReturnCached
  <2>4. CASE StartCreation(t)
    <3>1. RequestsKept
      BY <2>4 DEF StartCreation, TypeOK, Early, CreateLabel, RequestsKept
    <3> QED
      BY <2>4, <3>1 DEF StartCreation
  <2>5. CASE ModelAdded(t)
    <3>1. t \in Creators /\ Incarnation(t, Target[t])
      BY <2>5 DEF ModelAdded, TypeOK, CreateLabel, Incarnation
    <3>2. CacheGrows
      BY <2>5, <3>1 DEF ModelAdded, TypeOK, CacheGrows
    <3> QED
      BY <2>5, <3>2 DEF ModelAdded
  <2>6. CASE AddModelFailed(t)
    BY <2>6 DEF AddModelFailed, Release
  <2>7. CASE GetModel(t)
    <3>1. GetModelChange(t)
      BY <2>7, GetModelEffect DEF TypeOK
    <3>2. handle[t][Target[t]] = NONE
      BY <2>7 DEF GetModel, TypeOK, CreateLabel, Early
    <3>3. HandlesKept
      BY <3>1, <3>2 DEF GetModelChange, HandlesKept
    <3> QED
      BY <3>1, <3>3 DEF GetModelChange
  <2>8. CASE AddMachine(t)
    <3>1. AddMachineChange(t)
      BY <2>8, AddMachineEffect
    <3> QED
      BY <3>1 DEF AddMachineChange
  <2>9. CASE ReuseMachine(t)
    BY <2>9 DEF ReuseMachine
  <2>10. CASE EnvironmentCreated(t)
    BY <2>10 DEF EnvironmentCreated
  <2> QED
    BY <1>2, <2>1, <2>2, <2>3, <2>4, <2>5, <2>6, <2>7, <2>8, <2>9, <2>10 DEF Create
<1>3. ASSUME NEW t \in Task, Delete(t) PROVE Growth
  <2>1. CASE ListModels(t)
    BY <2>1 DEF ListModels
  <2>2. CASE DestroyMachines(t)
    BY <2>2 DEF DestroyMachines
  <2>3. CASE ForgetModel(t)
    <3>1. t \notin Creators
      BY <2>3 DEF ForgetModel, TypeOK, DeleteLabel, Deleters, Creators, Deleting, Creating
    <3>2. RequestsKept
      BY <2>3, <3>1 DEF ForgetModel, TypeOK, Creators, RequestsKept
    <3>3. CacheGrows
      BY <2>3 DEF ForgetModel, TypeOK, CacheGrows
    <3> QED
      BY <2>3, <3>2, <3>3 DEF ForgetModel
  <2>4. CASE ModelDestroyed(t)
    BY <2>4 DEF ModelDestroyed
  <2>5. CASE PollGone(t)
    BY <2>5 DEF PollGone, AfterModel
  <2>6. CASE PollTimeout(t)
    BY <2>6 DEF PollTimeout
  <2>7. ASSUME NEW m \in Model, OpenModel(t, m) PROVE Growth
    <3>1. OpenModelChange(t, m)
      BY <2>7, OpenModelEffect DEF TypeOK
    <3>2. handle[t][m] = NONE
      BY <3>1 DEF OpenModelChange, Early
    <3>3. HandlesKept
      BY <3>1, <3>2 DEF OpenModelChange, HandlesKept
    <3> QED
      BY <3>1, <3>3 DEF OpenModelChange
  <2> QED
    BY <1>3, <2>1, <2>2, <2>3, <2>4, <2>5, <2>6, <2>7 DEF Delete
<1>4. ASSUME NEW t \in Task, Abort(t) PROVE Growth
  BY <1>4 DEF Abort, Release, Running
<1>5. ASSUME NEW t \in Task, Serve(t) PROVE Growth
  <2>1. CASE JujuAddModel(t)
    <3>1. RequestsKept
      BY <2>1 DEF JujuAddModel, TypeOK, Creators, RequestsKept
    <3> QED
      BY <2>1, <3>1 DEF JujuAddModel
  <2>2. CASE JujuRefuse(t)
    <3>1. RequestsKept
      BY <2>2 DEF JujuRefuse, TypeOK, Creators, RequestsKept
    <3> QED
      BY <2>2, <3>1 DEF JujuRefuse
  <2>3. CASE JujuDestroyModel(t)
    <3>1. RequestsKept
      BY <2>3 DEF JujuDestroyModel, uuid, TypeOK, Creators, RequestsKept
    <3>2. DyingGrows
      BY <2>3 DEF JujuDestroyModel, uuid, Listed, DyingGrows
    <3> QED
      BY <2>3, <3>1, <3>2 DEF JujuDestroyModel, uuid
  <2> QED
    BY <1>5, <2>1, <2>2, <2>3 DEF Serve
<1>6. ASSUME NEW w \in Worker, CrashWorker(w) PROVE Growth
  <2>1. CacheGrows
    BY <1>6 DEF CrashWorker, TypeOK, CacheGrows
  <2> QED
    BY <1>6, <2>1 DEF CrashWorker
<1>7. ASSUME NEW m \in Model, JujuReap(m) PROVE Growth
  <2>1. RemovedKept
    BY <1>7 DEF JujuReap, RemovedKept
  <2> QED
    BY <1>7, <2>1 DEF JujuReap, call
<1> QED
  BY <1>1, <1>2, <1>3, <1>4, <1>5, <1>6, <1>7 DEF Next

\* Every step keeps listed incarnations and served requests together.
LEMMA LiveServedStep == TypeOK /\ Early /\ LiveServed /\ [Next]_vars => LiveServed'
<1> SUFFICES ASSUME TypeOK, Early, LiveServed, [Next]_vars PROVE LiveServed'
  OBVIOUS
<1> USE CallsAssumption, NoneAssumption DEF TypeOK, Early, LiveServed, Incarnation, Creators, Deleters, Creating, Deleting, CreateLabel, DeleteLabel, Ended, juju, libjuju, Goto
<1>1. CASE UNCHANGED vars
  BY <1>1 DEF vars, call
<1>2. ASSUME NEW t \in Task, Create(t) PROVE LiveServed'
  <2>1. CASE ModelExists(t)
    BY <2>1 DEF ModelExists
  <2>2. CASE AddModelExists(t)
    BY <2>2 DEF AddModelExists
  <2>3. CASE ReturnCached(t)
    BY <2>3 DEF ReturnCached
  <2>4. CASE StartCreation(t)
    BY <2>4 DEF StartCreation, Acquire
  <2>5. CASE ModelAdded(t)
    BY <2>5 DEF ModelAdded, Release
  <2>6. CASE AddModelFailed(t)
    BY <2>6 DEF AddModelFailed, Release
  <2>7. CASE GetModel(t)
    <3>1. GetModelChange(t)
      BY <2>7, GetModelEffect
    <3> QED
      BY <3>1 DEF GetModelChange
  <2>8. CASE AddMachine(t)
    <3>1. AddMachineChange(t)
      BY <2>8, AddMachineEffect
    <3> QED
      BY <3>1 DEF AddMachineChange
  <2>9. CASE ReuseMachine(t)
    BY <2>9 DEF ReuseMachine
  <2>10. CASE EnvironmentCreated(t)
    BY <2>10 DEF EnvironmentCreated
  <2> QED
    BY <1>2, <2>1, <2>2, <2>3, <2>4, <2>5, <2>6, <2>7, <2>8, <2>9, <2>10 DEF Create
<1>3. ASSUME NEW t \in Task, Delete(t) PROVE LiveServed'
  <2>1. CASE ListModels(t)
    BY <2>1 DEF ListModels
  <2>2. CASE DestroyMachines(t)
    BY <2>2 DEF DestroyMachines
  <2>3. CASE ForgetModel(t)
    <3>1. t \notin Creators
      BY <2>3 DEF ForgetModel
    <3>2. /\ UNCHANGED <<live, reaped>>
          /\ \A u \in Creators : request'[u] = request[u]
      BY <2>3, <3>1 DEF ForgetModel
    <3> QED
      BY <3>2
  <2>4. CASE ModelDestroyed(t)
    BY <2>4 DEF ModelDestroyed
  <2>5. CASE PollGone(t)
    BY <2>5 DEF PollGone, AfterModel
  <2>6. CASE PollTimeout(t)
    BY <2>6 DEF PollTimeout
  <2>7. ASSUME NEW m \in Model, OpenModel(t, m) PROVE LiveServed'
    <3>1. OpenModelChange(t, m)
      BY <2>7, OpenModelEffect
    <3> QED
      BY <3>1 DEF OpenModelChange
  <2> QED
    BY <1>3, <2>1, <2>2, <2>3, <2>4, <2>5, <2>6, <2>7 DEF Delete
<1>4. ASSUME NEW t \in Task, Abort(t) PROVE LiveServed'
  BY <1>4 DEF Abort, Release, Running
<1>5. ASSUME NEW t \in Task, Serve(t) PROVE LiveServed'
  <2>1. CASE JujuAddModel(t)
    <3>1. /\ live[Target[t]] = NONE
          /\ live' = [live EXCEPT ![Target[t]] = t]
          /\ request' = [request EXCEPT ![t] = "ok"]
          /\ reaped' = reaped
      BY <2>1 DEF JujuAddModel, Listed
    <3>2. \A m \in Model : live'[m] # NONE => Incarnation(live[m], m)'
      BY <3>1
    <3>3. \A u \in Creators : request'[u] = "ok" => live'[Target[u]] = u \/ u \in reaped'
      BY <3>1
    <3> QED
      BY <3>2, <3>3
  <2>2. CASE JujuRefuse(t)
    BY <2>2 DEF JujuRefuse
  <2>3. CASE JujuDestroyModel(t)
    BY <2>3 DEF JujuDestroyModel, uuid
  <2> QED
    BY <1>5, <2>1, <2>2, <2>3 DEF Serve
<1>6. ASSUME NEW w \in Worker, CrashWorker(w) PROVE LiveServed'
  BY <1>6 DEF CrashWorker, Running
<1>7. ASSUME NEW m \in Model, JujuReap(m) PROVE LiveServed'
  BY <1>7 DEF JujuReap, call
<1> QED
  BY <1>1, <1>2, <1>3, <1>4, <1>5, <1>6, <1>7 DEF Next

\* A handle names a served incarnation after a step, too.
LEMMA HandlesServedStep ==
  TypeOK /\ LiveServed /\ HandlesServed /\ Growth => HandlesServed'
<1> SUFFICES ASSUME TypeOK, LiveServed, HandlesServed, Growth,
                    NEW t \in Task, NEW m \in Model, handle'[t][m] # NONE
             PROVE  Incarnation(handle[t][m], m)'
  BY DEF HandlesServed
<1> DEFINE i == handle'[t][m]
<1>1. i = handle[t][m] \/ i = live[m]
  BY DEF Growth, HandlesKept
<1>2. Incarnation(i, m)
  BY <1>1 DEF HandlesServed, LiveServed
<1>3. i \in Creators
  BY <1>1 DEF TypeOK
<1> QED
  BY <1>2, <1>3 DEF Growth, RequestsKept, Incarnation

\* So does an entry of the cache.
LEMMA CacheServedStep ==
  TypeOK /\ CacheServed /\ Growth => CacheServed'
<1> SUFFICES ASSUME TypeOK, CacheServed, Growth,
                    NEW w \in Worker, NEW m \in models'[w]
             PROVE  \E t \in Creators : WorkerOf[t] = w /\ Incarnation(t, m)'
  BY DEF CacheServed
<1>1. PICK t \in Creators : WorkerOf[t] = w /\ Incarnation(t, m)
  BY DEF Growth, CacheGrows, CacheServed
<1>2. Incarnation(t, m)'
  BY <1>1 DEF Growth, RequestsKept, Incarnation
<1> QED
  BY <1>1, <1>2

\* A resolved handle stays.
LEMMA HandleStays ==
  ASSUME Growth, NEW t \in Task, NEW m \in Model, handle[t][m] # NONE
  PROVE  handle'[t][m] = handle[t][m]
BY DEF Growth, HandlesKept

\* What is dying after a step was resolved by a deletion.
LEMMA DyingResolvedStep ==
  TypeOK /\ LiveServed /\ DyingResolved /\ Growth => DyingResolved'
<1> SUFFICES ASSUME TypeOK, LiveServed, DyingResolved, Growth, NEW i \in dying'
             PROVE  \E d \in Deleters : handle'[d][Target[i]] = i
  BY DEF DyingResolved
<1>1. PICK d \in Deleters : handle[d][Target[i]] = i /\ i \in Creators
  <2>1. CASE i \in dying
    BY <2>1 DEF DyingResolved, TypeOK
  <2>2. CASE i \notin dying
    <3>1. PICK d \in Deleters : handle[d][at[d]] = i /\ live[at[d]] = i /\ i # NONE
      BY <2>2 DEF Growth, DyingGrows
    <3>2. Target[i] = at[d] /\ i \in Creators
      BY <3>1 DEF LiveServed, Incarnation, TypeOK, Deleters
    <3> QED
      BY <3>1, <3>2
  <2> QED
    BY <2>1, <2>2
<1>2. d \in Task /\ Target[i] \in Model /\ i # NONE
  BY <1>1, CallsAssumption, NoneAssumption DEF Creators, Deleters
<1>3. handle'[d][Target[i]] = i
  BY <1>1, <1>2, HandleStays
<1> QED
  BY <1>3

\* A deletion that does not move, or that fails, stays as it is.
LEMMA DeletionKept ==
  ASSUME TypeOK, RemovedKept, NEW u \in Task, DeletionAt(u),
         pc'[u] \in {pc[u], "failed", "crashed"},
         listed'[u] = listed[u], at'[u] = at[u],
         \A n \in Model : handle'[u][n] = handle[u][n]
  PROVE  DeletionAt(u)'
BY DEF TypeOK, RemovedKept, DeletionAt, DoneWith

\* A creating call touches only its own program counter and handle.
LEMMA CreateFrame ==
  ASSUME TypeOK, NEW t \in Task, Create(t)
  PROVE  /\ t \notin Deleters
         /\ UNCHANGED <<listed, at>>
         /\ \A u \in Task : u # t => pc'[u] = pc[u]
         /\ \A u \in Task, n \in Model : u # t => handle'[u][n] = handle[u][n]
<1>1. t \notin Deleters
  BY DEF Create, TypeOK, CreateLabel, Creators, Deleters, Creating, Deleting,
         ModelExists, AddModelExists, ReturnCached, StartCreation, ModelAdded,
         AddModelFailed, GetModel, AddMachine, ReuseMachine, EnvironmentCreated
<1>2. CASE GetModel(t)
  <2>1. GetModelChange(t)
    BY <1>2, GetModelEffect DEF TypeOK
  <2> QED
    BY <1>1, <2>1 DEF GetModelChange, TypeOK
<1>3. CASE AddMachine(t)
  <2>1. AddMachineChange(t)
    BY <1>3, AddMachineEffect
  <2> QED
    BY <1>1, <2>1 DEF AddMachineChange, TypeOK
<1>4. CASE ~GetModel(t) /\ ~AddMachine(t)
  BY <1>1, <1>4 DEF Create, TypeOK, Goto,
         ModelExists, AddModelExists, ReturnCached, StartCreation, ModelAdded,
         AddModelFailed, ReuseMachine, EnvironmentCreated
<1> QED
  BY <1>2, <1>3, <1>4

\* So does a deletion, with its list.
LEMMA DeleteFrame ==
  ASSUME TypeOK, NEW t \in Task, Delete(t)
  PROVE  /\ t \notin Creators
         /\ \A u \in Task : u # t => /\ pc'[u] = pc[u]
                                    /\ listed'[u] = listed[u]
                                    /\ at'[u] = at[u]
         /\ \A u \in Task, n \in Model : u # t => handle'[u][n] = handle[u][n]
<1>1. t \notin Creators
  BY DEF Delete, TypeOK, DeleteLabel, Creators, Deleters, Creating, Deleting,
         ListModels, DestroyMachines, ForgetModel, ModelDestroyed, PollGone,
         PollTimeout, OpenModel
<1>2. ASSUME NEW m \in Model, OpenModel(t, m)
      PROVE  /\ \A u \in Task : u # t => /\ pc'[u] = pc[u]
                                        /\ listed'[u] = listed[u]
                                        /\ at'[u] = at[u]
             /\ \A u \in Task, n \in Model : u # t => handle'[u][n] = handle[u][n]
  <2>1. OpenModelChange(t, m)
    BY <1>2, OpenModelEffect DEF TypeOK
  <2> QED
    BY <2>1 DEF OpenModelChange, TypeOK
<1>3. CASE ~\E m \in Model : OpenModel(t, m)
  BY <1>1, <1>3 DEF Delete, TypeOK, Goto,
         ListModels, DestroyMachines, ForgetModel, ModelDestroyed, PollGone,
         PollTimeout
<1> QED
  BY <1>1, <1>2, <1>3

\* Every step keeps the progress of deletions.
LEMMA DeletionStep ==
  TypeOK /\ Early /\ LiveServed /\ HandlesServed /\ DeletionInv /\ Growth /\ [Next]_vars
    => DeletionInv'
<1> SUFFICES ASSUME TypeOK, Early, LiveServed, HandlesServed, DeletionInv, Growth,
                    [Next]_vars, NEW u \in Deleters
             PROVE  DeletionAt(u)'
  BY DEF DeletionInv
<1>0. u \in Task /\ DeletionAt(u) /\ RemovedKept /\ KindOf[u] \in Deleting
  BY DEF Deleters, DeletionInv, Growth
<1>1. CASE UNCHANGED vars
  BY <1>0, <1>1, DeletionKept DEF vars, call
<1>2. ASSUME NEW t \in Task, Create(t) PROVE DeletionAt(u)'
  BY <1>0, <1>2, CreateFrame, DeletionKept
<1>3. ASSUME NEW t \in Task, Delete(t) PROVE DeletionAt(u)'
  <2>1. CASE u # t
    BY <1>0, <1>3, <2>1, DeleteFrame, DeletionKept
  <2>2. CASE u = t
    <3> USE <1>0, <2>2 DEF TypeOK, Goto, DeletionAt, DoneWith
    <3>1. CASE ListModels(t)
      <4>1. \A m \in Model : handle'[u][m] = NONE
        BY <3>1 DEF ListModels, Early
      <4>2. listed'[u] \subseteq Model
        BY <3>1, CallsAssumption DEF ListModels
      <4>3. pc'[u] = (IF listed'[u] = {} THEN "ok" ELSE "next")
        BY <3>1 DEF ListModels
      <4> QED
        BY <4>1, <4>2, <4>3
    <3>2. CASE DestroyMachines(t)
      BY <3>2 DEF DestroyMachines
    <3>3. CASE ForgetModel(t)
      BY <3>3 DEF ForgetModel, juju
    <3>4. CASE ModelDestroyed(t)
      BY <3>4 DEF ModelDestroyed, juju
    <3>5. CASE PollGone(t)
      <4>1. handle[u][at[u]] \in reaped
        <5> DEFINE i == handle[u][at[u]]
        <5>1. i # NONE /\ i \in Creators /\ live[at[u]] = NONE
          BY <3>5 DEF PollGone, Listed
        <5>2. Target[i] = at[u] /\ request[i] = "ok"
          BY <5>1 DEF HandlesServed, Incarnation
        <5>3. i # live[at[u]]
          BY <5>1
        <5> QED
          BY <5>1, <5>2, <5>3 DEF LiveServed
      <4>2. /\ UNCHANGED <<listed, at, handle, reaped>>
            /\ pc[u] = "polling"
            /\ pc'[u] = AfterModel(u)
        BY <3>5 DEF PollGone, juju
      <4>3. \A m \in listed[u] : DoneWith(u, m)
        BY <4>1, <4>2
      <4>4. CASE \E m \in listed[u] : handle[u][m] = NONE
        BY <4>2, <4>3, <4>4 DEF AfterModel
      <4>5. CASE ~\E m \in listed[u] : handle[u][m] = NONE
        BY <4>2, <4>3, <4>5 DEF AfterModel
      <4> QED
        BY <4>4, <4>5
    <3>6. CASE PollTimeout(t)
      BY <3>6 DEF PollTimeout
    <3>7. ASSUME NEW m \in Model, OpenModel(t, m) PROVE DeletionAt(u)'
      <4>1. OpenModelChange(t, m)
        BY <3>7, OpenModelEffect
      <4>2. CASE pc'[t] = "failed"
        BY <4>2
      <4>3. CASE pc'[t] = "machines"
        <5>1. handle'[u][at'[u]] # NONE /\ at'[u] = m
          BY <4>1, <4>3 DEF OpenModelChange
        <5>2. \A n \in listed'[u] : n # m => DoneWith(u, n)'
          BY <4>1, <1>0 DEF OpenModelChange, RemovedKept
        <5> QED
          BY <4>3, <5>1, <5>2
      <4> QED
        BY <4>1, <4>2, <4>3 DEF OpenModelChange
    <3> QED
      BY <1>3, <3>1, <3>2, <3>3, <3>4, <3>5, <3>6, <3>7 DEF Delete
  <2> QED
    BY <2>1, <2>2
<1>4. ASSUME NEW t \in Task, Abort(t) PROVE DeletionAt(u)'
  <2>1. pc'[u] \in {pc[u], "failed"} /\ UNCHANGED <<listed, at, handle>>
    BY <1>0, <1>4 DEF Abort, Goto, TypeOK
  <2> QED
    BY <1>0, <2>1, DeletionKept
<1>5. ASSUME NEW t \in Task, Serve(t) PROVE DeletionAt(u)'
  <2>1. UNCHANGED <<pc, listed, at, handle>>
    BY <1>5 DEF Serve, JujuAddModel, JujuRefuse, JujuDestroyModel, uuid
  <2> QED
    BY <1>0, <2>1, DeletionKept
<1>6. ASSUME NEW w \in Worker, CrashWorker(w) PROVE DeletionAt(u)'
  <2>1. pc'[u] \in {pc[u], "crashed"} /\ UNCHANGED <<listed, at, handle>>
    BY <1>0, <1>6 DEF CrashWorker, TypeOK
  <2> QED
    BY <1>0, <2>1, DeletionKept
<1>7. ASSUME NEW m \in Model, JujuReap(m) PROVE DeletionAt(u)'
  BY <1>0, <1>7, DeletionKept DEF JujuReap, call
<1> QED
  BY <1>1, <1>2, <1>3, <1>4, <1>5, <1>6, <1>7 DEF Next

\* A machine that is not touched, or lost to a deletion, stays accounted for.
LEMMA MachineKept ==
  ASSUME Growth, NEW u \in Creators, MachineAt(u),
         pc'[u] \in {pc[u], "failed", "crashed"},
         u \in recorded' => u \in recorded,
         u \in machines => u \in machines' \/ Lost(u)'
  PROVE  MachineAt(u)'
<1>1. u \in Task /\ Target[u] \in Model
  BY CallsAssumption DEF Creators
<1>2. handle[u][Target[u]] # NONE => handle'[u][Target[u]] = handle[u][Target[u]]
  BY <1>1, HandleStays
<1>3. handle[u][Target[u]] # NONE /\ Lost(u) => Lost(u)'
  <2>1. SUFFICES ASSUME NEW d \in Deleters, handle[u][Target[u]] # NONE,
                        handle[d][Target[u]] = handle[u][Target[u]]
                 PROVE  handle'[d][Target[u]] = handle'[u][Target[u]]
    BY DEF Lost
  <2>2. d \in Task
    BY DEF Deleters
  <2> QED
    BY <1>1, <1>2, <2>1, <2>2, HandleStays
<1>4. HasMachine(u)' => HasMachine(u)
  BY DEF HasMachine
<1> QED
  BY <1>2, <1>3, <1>4 DEF MachineAt

\* Every step keeps machines accounted for.
LEMMA MachineStep ==
  TypeOK /\ Early /\ LiveServed /\ DyingResolved /\ MachineInv /\ Growth /\ [Next]_vars
    => MachineInv'
<1> SUFFICES ASSUME TypeOK, Early, LiveServed, DyingResolved, MachineInv, Growth,
                    [Next]_vars, NEW u \in Creators
             PROVE  MachineAt(u)'
  BY DEF MachineInv
<1>0. u \in Task /\ MachineAt(u) /\ Target[u] \in Model
  BY CallsAssumption DEF Creators, MachineInv
<1>1. CASE UNCHANGED vars
  BY <1>0, <1>1, MachineKept DEF vars, call, juju
<1>2. ASSUME NEW t \in Task, Create(t) PROVE MachineAt(u)'
  <2>1. CASE GetModel(t)
    <3>1. GetModelChange(t)
      BY <2>1, GetModelEffect DEF TypeOK
    <3>2. CASE u = t /\ pc'[t] = "add_machine"
      <4>1. handle'[u][Target[u]] # NONE /\ UNCHANGED recorded
        BY <3>1, <3>2 DEF GetModelChange, TypeOK
      <4>2. u \notin recorded
        BY <1>0, <3>1, <3>2 DEF GetModelChange, Early, MachineAt, HasMachine
      <4> QED
        BY <3>2, <4>1, <4>2 DEF MachineAt, HasMachine
    <3>3. CASE ~(u = t /\ pc'[t] = "add_machine")
      <4>1. pc'[u] \in {pc[u], "failed"} /\ UNCHANGED <<recorded, machines>>
        BY <1>0, <3>1, <3>3 DEF GetModelChange, TypeOK, juju
      <4> QED
        BY <1>0, <4>1, MachineKept
    <3> QED
      BY <3>2, <3>3
  <2>2. CASE AddMachine(t)
    <3>1. AddMachineChange(t)
      BY <2>2, AddMachineEffect
    <3>2. CASE u = t /\ pc'[t] = "wait_for"
      <4>1. /\ pc[u] = "add_machine" /\ UNCHANGED handle
            /\ u \in machines'
        BY <1>0, <3>1, <3>2 DEF AddMachineChange, TypeOK
      <4> QED
        BY <1>0, <3>2, <4>1 DEF MachineAt
    <3>3. CASE ~(u = t /\ pc'[t] = "wait_for")
      <4>1. /\ pc'[u] \in {pc[u], "failed"} /\ UNCHANGED recorded
            /\ machines \subseteq machines'
        BY <1>0, <3>1, <3>3 DEF AddMachineChange, TypeOK
      <4> QED
        BY <1>0, <4>1, MachineKept
    <3> QED
      BY <3>2, <3>3
  <2>3. CASE EnvironmentCreated(t)
    <3>1. UNCHANGED <<machines, handle>>
      BY <2>3 DEF EnvironmentCreated, juju
    <3>2. CASE u = t
      <4>1. pc[u] = "wait_for" /\ pc'[u] = "ok"
        BY <1>0, <2>3, <3>2 DEF EnvironmentCreated, Goto, TypeOK
      <4> QED
        BY <1>0, <3>1, <4>1 DEF MachineAt, HasMachine, Lost
    <3>3. CASE u # t
      <4>1. pc'[u] = pc[u] /\ (u \in recorded' => u \in recorded)
        BY <1>0, <2>3, <3>3 DEF EnvironmentCreated, Goto, TypeOK
      <4> QED
        BY <1>0, <3>1, <4>1, MachineKept
    <3> QED
      BY <3>2, <3>3
  <2>4. CASE ReuseMachine(t)
    <3>1. UNCHANGED <<machines, handle, recorded>>
      BY <2>4 DEF ReuseMachine, juju
    <3>2. CASE u = t
      <4>1. pc'[u] \in {"ok", "failed"} /\ KindOf[u] = "reuse"
        BY <1>0, <2>4, <3>2 DEF ReuseMachine, Goto, TypeOK
      <4> QED
        BY <1>0, <3>1, <4>1 DEF MachineAt, HasMachine, Lost
    <3>3. CASE u # t
      <4>1. pc'[u] = pc[u]
        BY <1>0, <2>4, <3>3 DEF ReuseMachine, Goto, TypeOK
      <4> QED
        BY <1>0, <3>1, <4>1, MachineKept
    <3> QED
      BY <3>2, <3>3
  <2>5. CASE ~GetModel(t) /\ ~AddMachine(t) /\ ~EnvironmentCreated(t)
             /\ ~ReuseMachine(t)
    <3>1. /\ UNCHANGED <<machines, handle, recorded>>
          /\ \/ pc'[u] = pc[u]
             \/ pc'[u] \in {"add_model", "blocked", "creating", "get_model", "failed"}
      BY <1>0, <1>2, <2>5 DEF Create, Goto, TypeOK, juju, ModelExists,
         AddModelExists, ReturnCached, StartCreation, ModelAdded, AddModelFailed
    <3> QED
      BY <1>0, <3>1 DEF MachineAt, HasMachine, Lost
  <2> QED
    BY <2>1, <2>2, <2>3, <2>4, <2>5
<1>3. ASSUME NEW t \in Task, Delete(t) PROVE MachineAt(u)'
  <2>1. pc'[u] = pc[u]
    BY <1>0, <1>3, DeleteFrame
  <2>2. CASE DestroyMachines(t)
    <3>1. UNCHANGED <<recorded, handle>> /\ t \in Deleters
      BY <2>2 DEF DestroyMachines, TypeOK, DeleteLabel
    <3>2. u \in machines => u \in machines' \/ Lost(u)
      BY <2>2, <3>1 DEF DestroyMachines, MachinesIn, Lost
    <3>3. Lost(u)' <=> Lost(u)
      BY <3>1 DEF Lost
    <3> QED
      BY <2>1, <3>1, <3>2, <3>3, <1>0, MachineKept
  <2>3. CASE ~DestroyMachines(t)
    <3>1. ASSUME NEW m \in Model, OpenModel(t, m)
          PROVE  UNCHANGED <<recorded, machines>>
      <4>1. OpenModelChange(t, m)
        BY <3>1, OpenModelEffect DEF TypeOK
      <4> QED
        BY <4>1 DEF OpenModelChange, juju
    <3>2. UNCHANGED <<recorded, machines>>
      BY <1>3, <2>3, <3>1 DEF Delete, juju, ListModels, ForgetModel,
         ModelDestroyed, PollGone, PollTimeout
    <3> QED
      BY <1>0, <2>1, <3>2, MachineKept
  <2> QED
    BY <2>2, <2>3
<1>4. ASSUME NEW t \in Task, Abort(t) PROVE MachineAt(u)'
  <2>1. pc'[u] \in {pc[u], "failed"} /\ UNCHANGED <<recorded, machines>>
    BY <1>0, <1>4 DEF Abort, Goto, TypeOK, juju
  <2> QED
    BY <1>0, <2>1, MachineKept
<1>5. ASSUME NEW t \in Task, Serve(t) PROVE MachineAt(u)'
  <2>1. UNCHANGED <<pc, recorded, machines>>
    BY <1>5 DEF Serve, JujuAddModel, JujuRefuse, JujuDestroyModel, uuid, juju
  <2> QED
    BY <1>0, <2>1, MachineKept
<1>6. ASSUME NEW w \in Worker, CrashWorker(w) PROVE MachineAt(u)'
  <2>1. pc'[u] \in {pc[u], "crashed"} /\ UNCHANGED <<recorded, machines>>
    BY <1>0, <1>6 DEF CrashWorker, TypeOK, juju
  <2> QED
    BY <1>0, <2>1, MachineKept
<1>7. ASSUME NEW m \in Model, JujuReap(m) PROVE MachineAt(u)'
  <2>1. UNCHANGED <<pc, recorded, handle>>
    BY <1>7 DEF JujuReap, call
  <2>2. u \in machines => u \in machines' \/ Lost(u)
    <3>1. SUFFICES ASSUME u \in MachinesIn(m, live[m]) PROVE Lost(u)
      BY <1>7 DEF JujuReap
    <3>2. Target[u] = m /\ handle[u][m] = live[m] /\ live[m] \in dying
      BY <1>7, <3>1 DEF JujuReap, MachinesIn
    <3>3. Target[live[m]] = m
      BY <3>2, NoneAssumption DEF LiveServed, Incarnation, TypeOK, Creators
    <3> QED
      BY <3>2, <3>3 DEF DyingResolved, Lost
  <2>3. Lost(u)' <=> Lost(u)
    BY <2>1 DEF Lost
  <2> QED
    BY <1>0, <2>1, <2>2, <2>3, MachineKept
<1> QED
  BY <1>1, <1>2, <1>3, <1>4, <1>5, <1>6, <1>7 DEF Next

-----------------------------------------------------------------------------

\* The inductive invariant holds in every behaviour.
LEMMA InductiveInvariant == Spec => []IInv
<1>1. Init => IInv
  BY CallsAssumption, NoneAssumption
     DEF Init, IInv, TypeOK, CreateLabel, DeleteLabel, Ended, LockInv,
         LockHeldByCreator, CreateOnlyUncached, Early, LiveServed,
         HandlesServed, CacheServed, DeletionInv, DeletionAt, DoneWith,
         DyingResolved, MachineInv, MachineAt, HasMachine, Creators, Deleters
<1>2. IInv /\ [Next]_vars => IInv'
  BY TypeStep, LockStep, EarlyStep, GrowthStep, LiveServedStep,
     HandlesServedStep, CacheServedStep, DeletionStep, DyingResolvedStep,
     MachineStep DEF IInv
<1> QED
  BY <1>1, <1>2, PTL DEF Spec

\* One creation at a time and per worker: the lock is held by exactly the call
\* that is inside "async with self.creating_model" (libjuju.py:181).
THEOREM LockCorrect == Spec => []LockHeldByCreator
<1>1. IInv => LockHeldByCreator
  BY DEF IInv, LockInv
<1> QED
  BY <1>1, InductiveInvariant, PTL

\* No worker asks for a model it has in its cache (libjuju.py:177).
THEOREM CacheIsChecked == Spec => []CreateOnlyUncached
<1>1. IInv => CreateOnlyUncached
  BY DEF IInv, LockInv
<1> QED
  BY <1>1, InductiveInvariant, PTL

\* The cache holds nothing this worker has not created (libjuju.py:189).
THEOREM CacheCorrect == Spec => []CacheHoldsOwnCreations
<1>1. IInv => CacheHoldsOwnCreations
  BY DEF IInv, CacheServed, LiveServed, Incarnation, CacheHoldsOwnCreations
<1> QED
  BY <1>1, InductiveInvariant, PTL

\* delete_execution_environment and delete_namespace return only when every
\* incarnation they resolved is gone (libjuju.py:771-778).
THEOREM DeletionCorrect == Spec => []DeleteReturnsGone
<1>1. IInv => DeleteReturnsGone
  BY DEF IInv, DeletionInv, DeletionAt, DeleteReturnsGone
<1> QED
  BY <1>1, InductiveInvariant, PTL

\* An execution environment that was returned or recorded loses its machine only
\* to a deletion that resolved its model (libjuju.py:741-762).
THEOREM MachinesCorrect == Spec => []LostOnlyByDeletion
<1>1. IInv => LostOnlyByDeletion
  BY DEF IInv, MachineInv, MachineAt, HasMachine, Lost, LostOnlyByDeletion
<1> QED
  BY <1>1, InductiveInvariant, PTL

\* The controller destroys what a deletion resolved, never a later incarnation
\* under the same name (libjuju.py:741, 762).
THEOREM DestructionCorrect == Spec => DestroyResolvedOnly
<1>1. IInv /\ [Next]_vars
        => [\A i \in dying' \ dying :
               \E d \in Deleters : handle[d][Target[i]] = i]_dying
  <2> SUFFICES ASSUME IInv, [Next]_vars, NEW i \in dying', i \notin dying
               PROVE  \E d \in Deleters : handle[d][Target[i]] = i
    OBVIOUS
  <2>1. Growth
    BY GrowthStep DEF IInv
  <2>2. PICK d \in Deleters : i # NONE /\ handle[d][at[d]] = i /\ live[at[d]] = i
    BY <2>1 DEF Growth, DyingGrows
  <2>3. Target[i] = at[d]
    BY <2>2 DEF IInv, LiveServed, Incarnation, TypeOK, Deleters
  <2> QED
    BY <2>2, <2>3
<1> QED
  BY <1>1, InductiveInvariant, PTL DEF Spec, DestroyResolvedOnly

-----------------------------------------------------------------------------
(* Each step of LibjujuModels is a step of ModelLife, or none.             *)

\* A removed incarnation was created, and is not listed any more.
Removed == \A i \in reaped : request[i] = "ok" /\ live[Target[i]] # i

\* A deletion resolves only models of its list.
ResolvedListed ==
    \A d \in Deleters, m \in Model : handle[d][m] # NONE => m \in listed[d]

RInv == IInv /\ Removed /\ ResolvedListed

-----------------------------------------------------------------------------

\* What the controller has removed stays removed.
LEMMA RemovedStep ==
  TypeOK /\ Early /\ LiveServed /\ Removed /\ [Next]_vars => Removed'
<1> SUFFICES ASSUME TypeOK, Early, LiveServed, Removed, [Next]_vars PROVE Removed'
  OBVIOUS
<1>0. /\ RequestsKept
      /\ Target \in [Task -> Model] /\ NONE \notin Creators
      /\ \A i \in Creators : i \in Task
  BY GrowthStep, CallsAssumption, NoneAssumption DEF Growth, Creators
<1>1. CASE UNCHANGED <<live, reaped>>
  BY <1>0, <1>1 DEF Removed, RequestsKept, TypeOK
<1>2. ASSUME NEW t \in Task, JujuAddModel(t) PROVE Removed'
  <2>1. /\ t \in Creators /\ request[t] = "sent"
        /\ live' = [live EXCEPT ![Target[t]] = t]
        /\ reaped' = reaped
    BY <1>2 DEF JujuAddModel
  <2>2. t \notin reaped
    BY <2>1 DEF Removed
  <2>3. \A i \in reaped : live'[Target[i]] # i
    BY <1>0, <2>1, <2>2 DEF Removed, TypeOK
  <2> QED
    BY <1>0, <2>1, <2>3 DEF Removed, RequestsKept, TypeOK
<1>3. ASSUME NEW m \in Model, JujuReap(m) PROVE Removed'
  <2>1. /\ live[m] \in dying
        /\ live' = [live EXCEPT ![m] = NONE]
        /\ reaped' = reaped \cup {live[m]}
        /\ request' = request
    BY <1>3 DEF JujuReap, call
  <2>2. live[m] \in Creators /\ Target[live[m]] = m /\ request[live[m]] = "ok"
    BY <1>0, <2>1 DEF TypeOK, LiveServed, Incarnation
  <2> QED
    BY <1>0, <2>1, <2>2 DEF Removed, TypeOK
<1> QED
  <2>1. ASSUME NEW t \in Task, Create(t) PROVE UNCHANGED <<live, reaped>>
    BY <2>1 DEF Create, juju, ModelExists, AddModelExists, ReturnCached,
         StartCreation, ModelAdded, AddModelFailed, GetModel, AddMachine,
         ReuseMachine, EnvironmentCreated
  <2>2. ASSUME NEW t \in Task, Delete(t) PROVE UNCHANGED <<live, reaped>>
    BY <2>2 DEF Delete, juju, ListModels, OpenModel, DestroyMachines, ForgetModel,
         ModelDestroyed, PollGone, PollTimeout
  <2>3. ASSUME NEW t \in Task, Abort(t) \/ JujuRefuse(t) \/ JujuDestroyModel(t)
        PROVE  UNCHANGED <<live, reaped>>
    BY <2>3 DEF Abort, JujuRefuse, JujuDestroyModel, juju
  <2>4. ASSUME NEW w \in Worker, CrashWorker(w) PROVE UNCHANGED <<live, reaped>>
    BY <2>4 DEF CrashWorker, juju
  <2>5. UNCHANGED vars => UNCHANGED <<live, reaped>>
    BY DEF vars, juju
  <2> QED
    BY <1>1, <1>2, <1>3, <2>1, <2>2, <2>3, <2>4, <2>5 DEF Next, Serve

\* A deletion that resolves a name has it in its list.
LEMMA ResolvedListedStep ==
  TypeOK /\ Early /\ ResolvedListed /\ [Next]_vars => ResolvedListed'
<1> SUFFICES ASSUME TypeOK, Early, ResolvedListed, [Next]_vars,
                    NEW d \in Deleters, NEW n \in Model, handle'[d][n] # NONE
             PROVE  n \in listed'[d]
  BY DEF ResolvedListed
<1>0. d \in Task
  BY DEF Deleters
<1>1. CASE handle'[d][n] = handle[d][n] /\ listed'[d] = listed[d]
  BY <1>1 DEF ResolvedListed
<1>2. ASSUME NEW t \in Task, Create(t) PROVE n \in listed'[d]
  BY <1>0, <1>1, <1>2, CreateFrame
<1>3. ASSUME NEW t \in Task, Delete(t) PROVE n \in listed'[d]
  <2>1. CASE d # t
    BY <1>0, <1>1, <1>3, <2>1, DeleteFrame
  <2>2. CASE d = t
    <3>1. CASE ListModels(t)
      BY <1>0, <2>2, <3>1 DEF ListModels, Early
    <3>2. ASSUME NEW m \in Model, OpenModel(t, m) PROVE n \in listed'[d]
      <4>1. OpenModelChange(t, m)
        BY <3>2, OpenModelEffect DEF TypeOK
      <4>2. m \in listed'[t]
        BY <4>1 DEF OpenModelChange, TypeOK
      <4>3. CASE n # m
        BY <1>0, <2>2, <4>1, <4>3 DEF OpenModelChange, ResolvedListed, Early
      <4> QED
        BY <2>2, <4>2, <4>3
    <3>3. CASE DestroyMachines(t) \/ ForgetModel(t) \/ ModelDestroyed(t)
                   \/ PollGone(t) \/ PollTimeout(t)
      BY <1>1, <3>3 DEF DestroyMachines, ForgetModel, ModelDestroyed, PollGone,
                        PollTimeout
    <3> QED
      BY <1>3, <3>1, <3>2, <3>3 DEF Delete
  <2> QED
    BY <2>1, <2>2
<1> QED
  <2>1. ASSUME NEW t \in Task, Abort(t) \/ Serve(t)
        PROVE  UNCHANGED <<handle, listed>>
    BY <2>1 DEF Abort, Serve, JujuAddModel, JujuRefuse, JujuDestroyModel
  <2>2. ASSUME NEW w \in Worker, CrashWorker(w) PROVE UNCHANGED <<handle, listed>>
    BY <2>2 DEF CrashWorker
  <2>3. ASSUME NEW m \in Model, JujuReap(m) PROVE UNCHANGED <<handle, listed>>
    BY <2>3 DEF JujuReap, call
  <2>4. UNCHANGED vars => UNCHANGED <<handle, listed>>
    BY DEF vars, call
  <2> QED
    BY <1>1, <1>2, <1>3, <2>1, <2>2, <2>3, <2>4 DEF Next

\* The strengthened invariant holds in every behaviour.
LEMMA RefinementInvariant == Spec => []RInv
<1>1. Init => Removed /\ ResolvedListed
  BY DEF Init, Removed, ResolvedListed, Deleters
<1>2. IInv /\ Removed /\ ResolvedListed /\ [Next]_vars => (Removed /\ ResolvedListed)'
  BY RemovedStep, ResolvedListedStep DEF IInv
<1> QED
  BY <1>1, <1>2, InductiveInvariant, PTL DEF Spec, RInv

-----------------------------------------------------------------------------
(* The steps, as ModelLife sees them.                                      *)

\* What leaves the controller's models alone leaves the phases alone; and
\* likewise for handles and for the ends of deletions.
LEMMA Unseen ==
  /\ UNCHANGED <<live, dying, reaped>> => phase' = phase
  /\ (\A d \in Deleters, m \in Model : handle'[d][m] = handle[d][m]) => asked' = asked
  /\ (\A d \in Deleters : pc'[d] = "ok" <=> pc[d] = "ok") => confirmed' = confirmed
<1>1. UNCHANGED <<live, dying, reaped>> => phase' = phase
  BY DEF phase, Phase
<1>2. ASSUME \A d \in Deleters, m \in Model : handle'[d][m] = handle[d][m]
      PROVE  asked' = asked
  BY <1>2 DEF asked
<1>3. ASSUME \A d \in Deleters : pc'[d] = "ok" <=> pc[d] = "ok"
      PROVE  confirmed' = confirmed
  BY <1>3 DEF confirmed
<1> QED
  BY <1>1, <1>2, <1>3

\* A listed incarnation is present or leaving.
LEMMA ListedTakes ==
  ASSUME RInv, NEW m \in Model, Listed(m)
  PROVE  /\ live[m] \in Creators /\ Target[live[m]] = m /\ live[m] \notin reaped
         /\ Life!Takes(live[m])
<1>1. live[m] \in Creators /\ Target[live[m]] = m
  BY DEF RInv, IInv, TypeOK, LiveServed, Incarnation, Listed
<1>2. live[m] \notin reaped
  BY <1>1 DEF RInv, Removed
<1> QED
  BY <1>1, <1>2 DEF Life!Takes, phase, Phase

\* A deletion whose resolved models are all gone may report success.
LEMMA ConfirmStep ==
  ASSUME RInv, NEW d \in Deleters, pc[d] # "ok", pc' = [pc EXCEPT ![d] = "ok"],
         UNCHANGED <<live, dying, reaped, handle>>,
         \A m \in Model : handle[d][m] = NONE \/ handle[d][m] \in reaped
  PROVE  Life!Confirm(d)
<1>1. d \in Task /\ NONE \notin Creators
  BY NoneAssumption DEF Deleters, Creators
<1>2. phase' = phase /\ asked' = asked
  BY Unseen
<1>3. d \notin confirmed /\ confirmed' = confirmed \cup {d}
  BY <1>1 DEF RInv, IInv, TypeOK, confirmed, Deleters
<1>4. \A i \in asked[d] : phase[i] = "gone"
  BY <1>1 DEF asked, phase, Phase
<1> QED
  BY <1>2, <1>3, <1>4 DEF Life!Confirm

\* Resolving a listed name is asking for its incarnation.
LEMMA AskStep ==
  ASSUME RInv, NEW t \in Task, NEW m \in Model, OpenModel(t, m)
  PROVE  \/ Life!Ask(t, live[m]) /\ t \in Deleters /\ live[m] \in Creators
         \/ UNCHANGED Life!vars
<1>1. OpenModelChange(t, m) /\ UNCHANGED <<live, dying, reaped>>
  BY OpenModelEffect DEF RInv, IInv, TypeOK, OpenModel, juju
<1>2. t \in Deleters /\ NONE \notin Creators
  BY <1>1, NoneAssumption DEF OpenModelChange, RInv, IInv, TypeOK, DeleteLabel,
     Deleters, Creators, Deleting
<1>3. phase' = phase
  BY <1>1, Unseen
<1>4. confirmed' = confirmed /\ t \notin confirmed
  <2>1. \A d \in Deleters : pc'[d] = "ok" <=> pc[d] = "ok"
    BY <1>1 DEF OpenModelChange, RInv, IInv, TypeOK, Deleters
  <2> QED
    BY <1>1, <2>1, Unseen DEF OpenModelChange, confirmed
<1>5. CASE handle' = handle
  BY <1>3, <1>4, <1>5, Unseen DEF Life!vars
<1>6. CASE live[m] # NONE /\ handle'[t][m] = live[m]
  <2>1. Life!Takes(live[m]) /\ live[m] \in Creators
    BY <1>6, ListedTakes DEF Listed
  <2>2. handle[t][m] = NONE
    BY <1>1 DEF OpenModelChange, RInv, IInv, Early
  <2>3. \A d \in Deleters, n \in Model :
           handle'[d][n] = IF d = t /\ n = m THEN live[m] ELSE handle[d][n]
    BY <1>1, <1>6 DEF OpenModelChange, Deleters
  <2>4. asked' = [asked EXCEPT ![t] = @ \cup {live[m]}]
    <3>1. ASSUME NEW d \in Deleters, d # t PROVE asked'[d] = asked[d]
      BY <2>3, <3>1 DEF asked
    <3>2. asked'[t] = asked[t] \cup {live[m]}
      BY <1>2, <2>1, <2>2, <2>3 DEF asked
    <3>3. asked' = [d \in Deleters |-> asked'[d]] /\ asked = [d \in Deleters |-> asked[d]]
      BY DEF asked
    <3> HIDE DEF asked
    <3> QED
      BY <1>2, <3>1, <3>2, <3>3
  <2> QED
    BY <1>2, <1>3, <1>4, <2>1, <2>4 DEF Life!Ask
<1> QED
  BY <1>1, <1>5, <1>6 DEF OpenModelChange

\* A step of a creating call is not seen.
LEMMA CreateUnseen ==
  ASSUME RInv, NEW t \in Task, Create(t)
  PROVE  UNCHANGED Life!vars
<1>1. UNCHANGED <<live, dying, reaped>>
  BY DEF Create, juju, ModelExists, AddModelExists, ReturnCached, StartCreation,
     ModelAdded, AddModelFailed, GetModel, AddMachine, ReuseMachine,
     EnvironmentCreated
<1>2. \A d \in Deleters : pc'[d] = pc[d] /\ \A m \in Model : handle'[d][m] = handle[d][m]
  BY CreateFrame DEF RInv, IInv, Deleters
<1> QED
  BY <1>1, <1>2, Unseen DEF Life!vars

\* A step of a deletion asks, confirms, or is not seen.
LEMMA DeleteSeen ==
  ASSUME RInv, RInv', NEW t \in Task, Delete(t)
  PROVE  [Life!Next]_Life!vars
<1>0. TypeOK /\ Early /\ DeletionInv /\ ResolvedListed
  BY DEF RInv, IInv
<1>1. CASE ListModels(t)
  <2>1. /\ t \in Deleters /\ pc[t] = "idle" /\ UNCHANGED <<live, dying, reaped, handle>>
        /\ pc' = [pc EXCEPT ![t] = "ok"] \/ pc' = [pc EXCEPT ![t] = "next"]
    BY <1>1 DEF ListModels, Goto, juju, Deleters, Deleting
  <2>2. CASE pc' = [pc EXCEPT ![t] = "ok"]
    <3>1. Life!Confirm(t)
      BY <1>0, <2>1, <2>2, ConfirmStep DEF Early
    <3> QED
      BY <2>1, <3>1 DEF Life!Next
  <2>3. CASE pc' = [pc EXCEPT ![t] = "next"]
    BY <1>0, <2>1, <2>3, Unseen DEF Life!vars, TypeOK, Deleters
  <2> QED
    BY <2>1, <2>2, <2>3
<1>2. ASSUME NEW m \in Model, OpenModel(t, m) PROVE [Life!Next]_Life!vars
  BY <1>2, AskStep DEF Life!Next
<1>3. CASE PollGone(t)
  <2>1. /\ t \in Deleters /\ pc[t] = "polling"
        /\ UNCHANGED <<live, dying, reaped, handle, listed>>
        /\ pc' = [pc EXCEPT ![t] = "ok"] \/ pc' = [pc EXCEPT ![t] = "next"]
    BY <1>0, <1>3 DEF PollGone, AfterModel, Goto, juju, TypeOK, DeleteLabel
  <2>2. CASE pc' = [pc EXCEPT ![t] = "ok"]
    <3>1. pc'[t] = "ok"
      BY <1>0, <2>2 DEF TypeOK
    <3>2. \A m \in listed[t] : handle[t][m] \in reaped
      BY <2>1, <3>1 DEF RInv, IInv, DeletionInv, DeletionAt
    <3>3. \A m \in Model : handle[t][m] = NONE \/ handle[t][m] \in reaped
      BY <1>0, <2>1, <3>2 DEF ResolvedListed
    <3>4. Life!Confirm(t)
      BY <2>1, <2>2, <3>3, ConfirmStep
    <3> QED
      BY <2>1, <3>4 DEF Life!Next
  <2>3. CASE pc' = [pc EXCEPT ![t] = "next"]
    BY <1>0, <2>1, <2>3, Unseen DEF Life!vars, TypeOK, Deleters
  <2> QED
    BY <2>1, <2>2, <2>3
<1>4. CASE DestroyMachines(t) \/ ForgetModel(t) \/ ModelDestroyed(t) \/ PollTimeout(t)
  <2>1. /\ UNCHANGED <<live, dying, reaped, handle>>
        /\ pc[t] # "ok"
        /\ \E label \in {"disconnect", "destroying", "polling", "failed"} :
              pc' = [pc EXCEPT ![t] = label]
    BY <1>4 DEF DestroyMachines, ForgetModel, ModelDestroyed, PollTimeout, Goto, juju
  <2> QED
    BY <1>0, <2>1, Unseen DEF Life!vars, TypeOK, Deleters
<1> QED
  BY <1>1, <1>2, <1>3, <1>4 DEF Delete

\* The controller makes incarnations appear, leave and go.
LEMMA ServeSeen ==
  ASSUME RInv, NEW t \in Task, Serve(t)
  PROVE  [Life!Next]_Life!vars
<1>0. TypeOK /\ Removed /\ Target \in [Task -> Model] /\ NONE \notin Creators
  BY CallsAssumption, NoneAssumption DEF RInv, IInv, Creators
<1>1. asked' = asked /\ confirmed' = confirmed
  BY Unseen DEF Serve, JujuAddModel, JujuRefuse, JujuDestroyModel
<1>2. CASE JujuAddModel(t)
  <2>1. /\ t \in Creators /\ request[t] = "sent" /\ live[Target[t]] = NONE
        /\ live' = [live EXCEPT ![Target[t]] = t]
        /\ UNCHANGED <<dying, reaped>>
    BY <1>2 DEF JujuAddModel, Listed
  <2>2. t \notin reaped
    BY <2>1, <1>0 DEF Removed
  <2>3. t \notin dying
    BY <1>0, <2>1 DEF RInv, IInv, DyingResolved, HandlesServed, Incarnation, Deleters, Creators
  <2>4. phase[t] = "absent"
    BY <1>0, <2>1, <2>2 DEF phase, Phase
  <2>5. \A j \in Creators : Target[j] = Target[t] => ~Life!Takes(j)
    BY <1>0, <2>1 DEF Life!Takes, phase, Phase
  <2>6. phase' = [phase EXCEPT ![t] = "present"]
    <3>1. \A i \in Creators : Phase(i)' = IF i = t THEN "present" ELSE Phase(i)
      BY <1>0, <2>1, <2>2, <2>3 DEF Phase, TypeOK, Creators
    <3> QED
      BY <2>1, <3>1 DEF phase
  <2> QED
    BY <1>1, <2>1, <2>4, <2>5, <2>6 DEF Life!Next, Life!Appear
<1>3. CASE JujuRefuse(t)
  BY <1>1, <1>3, Unseen DEF JujuRefuse, juju, Life!vars
<1>4. CASE JujuDestroyModel(t)
  <2> DEFINE i == live[at[t]]
  <2>1. /\ t \in Deleters /\ Listed(at[t]) /\ handle[t][at[t]] = i
        /\ dying' = dying \cup {i}
        /\ UNCHANGED <<live, reaped>>
    BY <1>4 DEF JujuDestroyModel, uuid
  <2>2. at[t] \in Model
    BY <1>0 DEF TypeOK
  <2>3. i \in Creators /\ Target[i] = at[t] /\ i \notin reaped
    BY <2>1, <2>2, ListedTakes
  <2>4. CASE i \in dying
    <3>1. dying' = dying
      BY <2>1, <2>4
    <3> QED
      BY <1>1, <2>1, <3>1, Unseen DEF Life!vars
  <2>5. CASE i \notin dying
    <3>1. phase[i] = "present"
      BY <2>3, <2>5 DEF phase, Phase
    <3>2. i \in asked[t]
      BY <2>1, <2>2, <2>3 DEF asked
    <3>3. \A j \in Creators : Phase(j)' = IF j = i THEN "leaving" ELSE Phase(j)
      BY <2>1, <2>3 DEF Phase
    <3>4. phase' = [phase EXCEPT ![i] = "leaving"]
      BY <2>3, <3>3 DEF phase
    <3>5. Life!Condemn(i)
      BY <1>1, <2>1, <3>1, <3>2, <3>4 DEF Life!Condemn
    <3> QED
      BY <2>3, <3>5 DEF Life!Next
  <2> QED
    BY <2>4, <2>5
<1> QED
  BY <1>2, <1>3, <1>4 DEF Serve

\* Removing a dying model is the end of its incarnation.
LEMMA ReapSeen ==
  ASSUME RInv, NEW m \in Model, JujuReap(m)
  PROVE  Life!Remove(live[m]) /\ live[m] \in Creators
<1> DEFINE i == live[m]
<1>1. /\ i \in dying
      /\ live' = [live EXCEPT ![m] = NONE]
      /\ reaped' = reaped \cup {i}
      /\ UNCHANGED <<dying, pc, handle>>
  BY DEF JujuReap, call
<1>2. TypeOK /\ NONE \notin Creators /\ Listed(m) /\ Target \in [Task -> Model]
  BY <1>1, NoneAssumption, CallsAssumption DEF RInv, IInv, TypeOK, Creators, Listed
<1>3. i \in Creators /\ Target[i] = m /\ i \notin reaped
  BY <1>2, ListedTakes
<1>4. phase[i] = "leaving"
  BY <1>1, <1>3 DEF phase, Phase
<1>5. \A j \in Creators : Phase(j)' = IF j = i THEN "gone" ELSE Phase(j)
  BY <1>1, <1>2, <1>3 DEF Phase, TypeOK, Creators
<1>6. phase' = [phase EXCEPT ![i] = "gone"]
  BY <1>3, <1>5 DEF phase
<1>7. asked' = asked /\ confirmed' = confirmed
  BY <1>1, Unseen
<1> QED
  BY <1>3, <1>4, <1>6, <1>7 DEF Life!Remove

\* Failures and crashes end no deletion well, and so are not seen.
LEMMA FailureUnseen ==
  ASSUME RInv,
         (\E t \in Task : Abort(t)) \/ (\E w \in Worker : CrashWorker(w))
  PROVE  UNCHANGED Life!vars
<1>1. TypeOK
  BY DEF RInv, IInv
<1>2. UNCHANGED <<live, dying, reaped, handle>>
  BY DEF Abort, CrashWorker, juju
<1>3. \A d \in Deleters : pc'[d] = "ok" <=> pc[d] = "ok"
  BY <1>1 DEF Abort, CrashWorker, Running, Ended, Goto, TypeOK, Deleters
<1> QED
  BY <1>2, <1>3, Unseen DEF Life!vars

\* The model life cycle of libjuju.py (154-206, 729-790), with its lock, caches and
\* poll by name, implements ModelLife: deletions take away what they resolved and
\* nothing else, and report success only when it is gone for good.
THEOREM ModelLifeImplemented == Spec => ImplementsModelLife
<1>1. Init => Life!Init
  BY NoneAssumption, CallsAssumption
     DEF Init, Life!Init, phase, Phase, asked, confirmed, Creators, Deleters
<1>2. RInv /\ RInv' /\ [Next]_vars => [Life!Next]_Life!vars
  <2> SUFFICES ASSUME RInv, RInv', [Next]_vars PROVE [Life!Next]_Life!vars
    OBVIOUS
  <2>1. CASE UNCHANGED vars
    BY <2>1, Unseen DEF vars, juju, call, Life!vars
  <2>2. ASSUME NEW t \in Task, Create(t) PROVE [Life!Next]_Life!vars
    BY <2>2, CreateUnseen
  <2>3. ASSUME NEW t \in Task, Delete(t) PROVE [Life!Next]_Life!vars
    BY <2>3, DeleteSeen
  <2>4. ASSUME NEW t \in Task, Serve(t) PROVE [Life!Next]_Life!vars
    BY <2>4, ServeSeen
  <2>5. ASSUME NEW m \in Model, JujuReap(m) PROVE [Life!Next]_Life!vars
    BY <2>5, ReapSeen DEF Life!Next
  <2>6. CASE (\E t \in Task : Abort(t)) \/ (\E w \in Worker : CrashWorker(w))
    BY <2>6, FailureUnseen
  <2> QED
    BY <2>1, <2>2, <2>3, <2>4, <2>5, <2>6 DEF Next
<1> QED
  BY <1>1, <1>2, RefinementInvariant, PTL DEF Spec, ImplementsModelLife, Life!Spec

=============================================================================
