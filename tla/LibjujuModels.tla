---------------------------- MODULE LibjujuModels ----------------------------
(***************************************************************************)
(* The life of Juju models under several N2VC workers: Libjuju.add_model,  *)
(* get_model and destroy_model (src/n2vc/libjuju.py) as they are driven by *)
(* the connector calls of src/n2vc/n2vc_juju_conn.py.                      *)
(*                                                                         *)
(* A worker is a process with one Libjuju object: its cache of the models  *)
(* it created (models), its lock (creating_model) and the calls it runs as *)
(* asyncio coroutines, so a step of a worker reaches from one await to the *)
(* next.  The Juju controller is shared.  A model name is created and      *)
(* destroyed many times: an incarnation (its uuid) is named after the call *)
(* whose add_model request created it, each call sending at most one.      *)
(***************************************************************************)
EXTENDS Naturals, FiniteSets

CONSTANTS
    Worker,     \* N2VC processes
    Task,       \* calls to the connector
    Model,      \* Juju model names
    WorkerOf,   \* the worker that runs a call
    KindOf,     \* which connector call it is
    Target,     \* the model name a call computes from its namespace or ee_id
    Matched,    \* the model names that contain the ns_id of a delete_namespace
    NONE        \* no incarnation, no lock owner

Creating == {"create", "reuse", "register", "proxy"}
Deleting == {"delete", "purge"}

ASSUME CallsAssumption ==
    /\ WorkerOf \in [Task -> Worker]
    /\ KindOf \in [Task -> Creating \cup Deleting]
    /\ Target \in [Task -> Model]
    /\ Matched \in [Task -> SUBSET Model]

ASSUME NoneAssumption == NONE \notin Task

VARIABLES
    live,           \* the incarnation the controller lists under a name
    dying,          \* incarnations whose destruction the controller accepted
    reaped,         \* incarnations the controller has removed
    machines,       \* calls whose machine (or application) exists in Juju
    recorded,       \* calls whose ee_id is in the database
    models,         \* Libjuju.models of each worker
    creating_model, \* owner of Libjuju.creating_model of each worker
    pc,             \* the await a call is at, or how it ended
    request,        \* the last add_model or destroy_model request of a call
    listed,         \* the models a deletion goes through
    at,             \* the model a call is working on
    handle          \* per call and name, the incarnation get_model resolved

juju == <<live, dying, reaped, machines>>
libjuju == <<models, creating_model>>
call == <<pc, request, listed, at, handle>>
vars == <<juju, recorded, libjuju, call>>

Creators == {t \in Task : KindOf[t] \in Creating}
Deleters == {t \in Task : KindOf[t] \in Deleting}
Ended == {"ok", "failed", "crashed"}
Running(t) == pc[t] \notin Ended \cup {"idle"}
Listed(m) == live[m] # NONE

Goto(t, label) == pc' = [pc EXCEPT ![t] = label]
Acquire(t) == creating_model' = [creating_model EXCEPT ![WorkerOf[t]] = t]
\* The lock after the coroutine of t has left "async with self.creating_model".
Release(t) ==
    creating_model' = [w \in Worker |-> IF creating_model[w] = t THEN NONE
                                        ELSE creating_model[w]]

Init ==
    /\ live = [m \in Model |-> NONE]
    /\ dying = {}
    /\ reaped = {}
    /\ machines = {}
    /\ recorded = {}
    /\ models = [w \in Worker |-> {}]
    /\ creating_model = [w \in Worker |-> NONE]
    /\ pc = [t \in Task |-> "idle"]
    /\ request = [t \in Task |-> "none"]
    /\ listed = [t \in Task |-> {}]
    /\ at = Target
    /\ handle = [t \in Task |-> [m \in Model |-> NONE]]

\* The machines the calls have put in an incarnation of m.
MachinesIn(m, h) == {u \in machines : Target[u] = m /\ handle[u][m] = h}

\* What delete_namespace does after a model: the next one, or return.
AfterModel(t) ==
    IF \E m \in listed[t] : handle[t][m] = NONE THEN "next" ELSE "ok"

-----------------------------------------------------------------------------
(* Variants of the actions below, each with a plausible mistake.           *)

\* The cache is not looked at under the lock.
StartCreationUnchecked(t) ==
    /\ pc[t] = "blocked"
    /\ creating_model[WorkerOf[t]] = NONE
    /\ Acquire(t)
    /\ request' = [request EXCEPT ![t] = "sent"]
    /\ Goto(t, "creating")
    /\ UNCHANGED <<juju, recorded, models, listed, at, handle>>

\* The name is remembered before the model is there.
StartCreationCachingFirst(t) ==
    /\ pc[t] = "blocked"
    /\ creating_model[WorkerOf[t]] = NONE
    /\ Target[t] \notin models[WorkerOf[t]]
    /\ Acquire(t)
    /\ models' = [models EXCEPT ![WorkerOf[t]] = @ \cup {Target[t]}]
    /\ request' = [request EXCEPT ![t] = "sent"]
    /\ Goto(t, "creating")
    /\ UNCHANGED <<juju, recorded, listed, at, handle>>

\* The lock is not left when add_model raises.
AddModelFailedKeepingLock(t) ==
    /\ pc[t] = "creating"
    /\ request[t] = "error"
    /\ Goto(t, "failed")
    /\ UNCHANGED <<juju, recorded, libjuju, request, listed, at, handle>>

\* Nor when the call is cancelled.
AbortKeepingLock(t) ==
    /\ Running(t)
    /\ Goto(t, "failed")
    /\ UNCHANGED <<juju, recorded, libjuju, request, listed, at, handle>>

\* The machines of whatever is listed now are destroyed.
DestroyMachinesByName(t) ==
    /\ pc[t] = "machines"
    /\ \E kept \in SUBSET MachinesIn(at[t], live[at[t]]) :
          machines' = machines \ (MachinesIn(at[t], live[at[t]]) \ kept)
    /\ Goto(t, "disconnect")
    /\ UNCHANGED <<live, dying, reaped, recorded, libjuju,
                   request, listed, at, handle>>

\* A deletion takes the lock and keeps it.
ForgetModelLocking(t) ==
    /\ pc[t] = "disconnect"
    /\ creating_model[WorkerOf[t]] = NONE
    /\ Acquire(t)
    /\ models' = [models EXCEPT ![WorkerOf[t]] = @ \ {at[t]}]
    /\ request' = [request EXCEPT ![t] = "sent"]
    /\ Goto(t, "destroying")
    /\ UNCHANGED <<juju, recorded, listed, at, handle>>

\* The list of models is not looked at.
PollGoneUnchecked(t) ==
    /\ pc[t] = "polling"
    /\ Goto(t, AfterModel(t))
    /\ UNCHANGED <<juju, recorded, libjuju, request, listed, at, handle>>

\* The destruction is asked for and not waited for.
ModelDestroyedUnpolled(t) ==
    /\ pc[t] = "destroying"
    /\ request[t] \in {"ok", "error"}
    /\ Goto(t, IF request[t] = "ok" THEN AfterModel(t) ELSE "failed")
    /\ UNCHANGED <<juju, recorded, libjuju, request, listed, at, handle>>

-----------------------------------------------------------------------------
(* The creating calls.                                                     *)

\* create_execution_environment and register_execution_environment first ask
\* the controller for its models; only a missing one goes through add_model.
ModelExists(t) ==
    /\ pc[t] = "idle"
    /\ KindOf[t] \in {"create", "reuse", "register"}
    /\ Goto(t, IF Listed(Target[t]) THEN "get_model" ELSE "add_model")
    /\ UNCHANGED <<juju, recorded, libjuju, request, listed, at, handle>>

\* add_model asks the controller again and refuses a model that is listed.
\* install_k8s_proxy_charm calls it without the first test.
AddModelExists(t) ==
    /\ \/ pc[t] = "add_model"
       \/ pc[t] = "idle" /\ KindOf[t] = "proxy"
    /\ Goto(t, IF Listed(Target[t]) THEN "failed" ELSE "blocked")
    /\ UNCHANGED <<juju, recorded, libjuju, request, listed, at, handle>>

\* The lock is free and another coroutine of this worker has put the model in
\* the cache meanwhile: add_model returns.
ReturnCached(t) ==
    /\ pc[t] = "blocked"
    /\ creating_model[WorkerOf[t]] = NONE
    /\ Target[t] \in models[WorkerOf[t]]
    /\ Goto(t, "get_model")
    /\ UNCHANGED <<juju, recorded, libjuju, request, listed, at, handle>>

\* The lock is free and the cache does not have the model.  Nothing awaits
\* between the test of the lock and its acquisition.
StartCreation(t) ==
    /\ pc[t] = "blocked"
    /\ creating_model[WorkerOf[t]] = NONE
    /\ Target[t] \notin models[WorkerOf[t]]
    /\ Acquire(t)
    /\ request' = [request EXCEPT ![t] = "sent"]
    /\ Goto(t, "creating")
    /\ UNCHANGED <<juju, recorded, models, listed, at, handle>>

\* controller.add_model returned: remember the model, leave the lock.
ModelAdded(t) ==
    /\ pc[t] = "creating"
    /\ request[t] = "ok"
    /\ models' = [models EXCEPT ![WorkerOf[t]] = @ \cup {Target[t]}]
    /\ Release(t)
    /\ Goto(t, "get_model")
    /\ UNCHANGED <<juju, recorded, request, listed, at, handle>>

\* controller.add_model raised: leave the lock, nothing is remembered.
AddModelFailed(t) ==
    /\ pc[t] = "creating"
    /\ request[t] = "error"
    /\ Release(t)
    /\ Goto(t, "failed")
    /\ UNCHANGED <<juju, recorded, models, request, listed, at, handle>>

\* create_machine, provision_machine and deploy_charm resolve the name.
GetModel(t) ==
    /\ pc[t] = "get_model"
    /\ IF Listed(Target[t])
       THEN /\ handle' = [handle EXCEPT ![t][Target[t]] = live[Target[t]]]
            /\ Goto(t, "add_machine")
       ELSE /\ Goto(t, "failed")
            /\ UNCHANGED handle
    /\ UNCHANGED <<juju, recorded, libjuju, request, listed, at>>

\* ... and add a machine or an application, which Juju refuses in a model that
\* is dying or gone.
AddMachine(t) ==
    /\ pc[t] = "add_machine"
    /\ KindOf[t] # "reuse"
    /\ LET m == Target[t]
           h == handle[t][m]
       IN  IF live[m] = h /\ h \notin dying
           THEN machines' = machines \cup {t} /\ Goto(t, "wait_for")
           ELSE Goto(t, "failed") /\ UNCHANGED machines
    /\ UNCHANGED <<live, dying, reaped, recorded, libjuju,
                   request, listed, at, handle>>

\* create_execution_environment with reuse_ee_id looks for the machine of that
\* id, one in the model or one that is not; there is nothing to wait for and
\* nothing to record.
ReuseMachine(t) ==
    /\ pc[t] = "add_machine"
    /\ KindOf[t] = "reuse"
    /\ \/ MachinesIn(Target[t], handle[t][Target[t]]) # {} /\ Goto(t, "ok")
       \/ Goto(t, "failed")
    /\ UNCHANGED <<juju, recorded, libjuju, request, listed, at, handle>>

\* JujuModelWatcher.wait_for returned (it does so on the final state, on its
\* timeouts and on a closed connection alike).  The ee_id is written by two of
\* the calls, and an error of that write is swallowed.
EnvironmentCreated(t) ==
    /\ pc[t] = "wait_for"
    /\ \/ recorded' = recorded \cup {t} /\ KindOf[t] \in {"create", "proxy"}
       \/ UNCHANGED recorded
    /\ Goto(t, "ok")
    /\ UNCHANGED <<juju, libjuju, request, listed, at, handle>>

-----------------------------------------------------------------------------
(* The deleting calls.                                                     *)

\* What destroy_model will have the controller destroy.
uuid(t) == handle[t][at[t]]

\* delete_namespace lists the models whose name contains the ns_id.
ListModels(t) ==
    /\ pc[t] = "idle"
    /\ KindOf[t] = "purge"
    /\ listed' = [listed EXCEPT ![t] = {m \in Matched[t] : Listed(m)}]
    /\ Goto(t, IF listed'[t] = {} THEN "ok" ELSE "next")
    /\ UNCHANGED <<juju, recorded, libjuju, request, at, handle>>

\* destroy_model resolves the name: the one of delete_execution_environment,
\* or each one in the list of delete_namespace.  A missing model is an error.
OpenModel(t, m) ==
    /\ \/ pc[t] = "next" /\ m \in listed[t] /\ handle[t][m] = NONE
          /\ UNCHANGED listed
       \/ pc[t] = "idle" /\ KindOf[t] = "delete" /\ m = Target[t]
          /\ listed' = [listed EXCEPT ![t] = {m}]
    /\ at' = [at EXCEPT ![t] = m]
    /\ IF Listed(m)
       THEN /\ handle' = [handle EXCEPT ![t][m] = live[m]]
            /\ Goto(t, "machines")
       ELSE /\ Goto(t, "failed")
            /\ UNCHANGED handle
    /\ UNCHANGED <<juju, recorded, libjuju, request>>

\* Each machine of the resolved model is destroyed; errors are ignored, so any
\* of them may stay.
DestroyMachines(t) ==
    /\ pc[t] = "machines"
    /\ \E kept \in SUBSET MachinesIn(at[t], handle[t][at[t]]) :
          machines' = machines \ (MachinesIn(at[t], handle[t][at[t]]) \ kept)
    /\ Goto(t, "disconnect")
    /\ UNCHANGED <<live, dying, reaped, recorded, libjuju,
                   request, listed, at, handle>>

\* The model connection is closed: forget the model and ask the controller to
\* destroy the incarnation that was resolved.
ForgetModel(t) ==
    /\ pc[t] = "disconnect"
    /\ models' = [models EXCEPT ![WorkerOf[t]] = @ \ {at[t]}]
    /\ request' = [request EXCEPT ![t] = "sent"]
    /\ Goto(t, "destroying")
    /\ UNCHANGED <<juju, recorded, creating_model, listed, at, handle>>

\* controller.destroy_model returned or raised.
ModelDestroyed(t) ==
    /\ pc[t] = "destroying"
    /\ request[t] \in {"ok", "error"}
    /\ Goto(t, IF request[t] = "ok" THEN "polling" ELSE "failed")
    /\ UNCHANGED <<juju, recorded, libjuju, request, listed, at, handle>>

\* The poll (by name) no longer sees the model.
PollGone(t) ==
    /\ pc[t] = "polling"
    /\ ~Listed(at[t])
    /\ Goto(t, AfterModel(t))
    /\ UNCHANGED <<juju, recorded, libjuju, request, listed, at, handle>>

\* total_timeout has passed.
PollTimeout(t) ==
    /\ pc[t] = "polling"
    /\ Goto(t, "failed")
    /\ UNCHANGED <<juju, recorded, libjuju, request, listed, at, handle>>

-----------------------------------------------------------------------------
(* Failures of a call and of a worker.                                     *)

\* A call is cancelled, or the request it awaits fails on the connection: the
\* exception leaves through the finally clauses.  A request already sent stays
\* with the controller.
Abort(t) ==
    /\ Running(t)
    /\ Release(t)
    /\ Goto(t, "failed")
    /\ UNCHANGED <<juju, recorded, models, request, listed, at, handle>>

\* A worker process dies and is started again: a new Libjuju, its calls gone.
CrashWorker(w) ==
    /\ models[w] # {} \/ \E t \in Task : WorkerOf[t] = w /\ Running(t)
    /\ models' = [models EXCEPT ![w] = {}]
    /\ creating_model' = [creating_model EXCEPT ![w] = NONE]
    /\ pc' = [t \in Task |-> IF WorkerOf[t] = w /\ Running(t) THEN "crashed"
                             ELSE pc[t]]
    /\ UNCHANGED <<juju, recorded, request, listed, at, handle>>

-----------------------------------------------------------------------------
(* The Juju controller (external).                                         *)

\* It serves an add_model request, whether or not the caller still waits.
JujuAddModel(t) ==
    /\ t \in Creators
    /\ request[t] = "sent"
    /\ ~Listed(Target[t])
    /\ live' = [live EXCEPT ![Target[t]] = t]
    /\ request' = [request EXCEPT ![t] = "ok"]
    /\ UNCHANGED <<dying, reaped, machines, recorded, libjuju,
                   pc, listed, at, handle>>

\* It refuses a request: the name is taken, the model is gone, or any reason
\* of its own (credentials, quota).
JujuRefuse(t) ==
    /\ request[t] = "sent"
    /\ request' = [request EXCEPT ![t] = "error"]
    /\ UNCHANGED <<juju, recorded, libjuju, pc, listed, at, handle>>

\* It starts to destroy the incarnation named by uuid.
JujuDestroyModel(t) ==
    /\ t \in Deleters
    /\ request[t] = "sent"
    /\ Listed(at[t])
    /\ live[at[t]] = uuid(t)
    /\ dying' = dying \cup {uuid(t)}
    /\ request' = [request EXCEPT ![t] = "ok"]
    /\ UNCHANGED <<live, reaped, machines, recorded, libjuju,
                   pc, listed, at, handle>>

\* It removes a dying model with all that is in it.
JujuReap(m) ==
    /\ live[m] \in dying
    /\ live' = [live EXCEPT ![m] = NONE]
    /\ reaped' = reaped \cup {live[m]}
    /\ machines' = machines \ MachinesIn(m, live[m])
    /\ UNCHANGED <<dying, recorded, libjuju, call>>

-----------------------------------------------------------------------------

Create(t) ==
    \/ ModelExists(t) \/ AddModelExists(t) \/ ReturnCached(t)
    \/ StartCreation(t) \/ ModelAdded(t) \/ AddModelFailed(t)
    \/ GetModel(t) \/ AddMachine(t) \/ ReuseMachine(t) \/ EnvironmentCreated(t)

Delete(t) ==
    \/ ListModels(t) \/ DestroyMachines(t) \/ ForgetModel(t)
    \/ ModelDestroyed(t) \/ PollGone(t) \/ PollTimeout(t)
    \/ \E m \in Model : OpenModel(t, m)

Serve(t) == JujuAddModel(t) \/ JujuRefuse(t) \/ JujuDestroyModel(t)

Next ==
    \/ \E t \in Task : Create(t) \/ Delete(t) \/ Abort(t) \/ Serve(t)
    \/ \E w \in Worker : CrashWorker(w)
    \/ \E m \in Model : JujuReap(m)

\* A coroutine that can go on goes on, the controller answers what it is
\* asked, and the timers of polling and of wait_for run out.  Nothing says that
\* a call is ever made, that a dying model is ever removed, or that a worker
\* crashes.
Fairness ==
    \A t \in Task : /\ WF_vars(pc[t] # "idle" /\ (Create(t) \/ Delete(t)))
                    /\ WF_vars(Serve(t))

Spec == Init /\ [][Next]_vars
FairSpec == Spec /\ Fairness

-----------------------------------------------------------------------------
(* Properties.                                                             *)

CreateLabel == {"add_model", "blocked", "creating", "get_model", "add_machine",
                "wait_for"}
DeleteLabel == {"next", "machines", "disconnect", "destroying", "polling"}

\* Every variable has its type; a call is at an await of its own kind.
TypeOK ==
    /\ live \in [Model -> Creators \cup {NONE}]
    /\ dying \subseteq Creators
    /\ reaped \subseteq Creators
    /\ machines \subseteq Creators
    /\ recorded \subseteq Creators
    /\ models \in [Worker -> SUBSET Model]
    /\ creating_model \in [Worker -> Creators \cup {NONE}]
    /\ pc \in [Task -> {"idle"} \cup CreateLabel \cup DeleteLabel \cup Ended]
    /\ \A t \in Task : pc[t] \in CreateLabel => t \in Creators
    /\ \A t \in Task : pc[t] \in DeleteLabel => t \in Deleters
    /\ request \in [Task -> {"none", "sent", "ok", "error"}]
    /\ listed \in [Task -> SUBSET Model]
    /\ at \in [Task -> Model]
    /\ handle \in [Task -> [Model -> Creators \cup {NONE}]]

\* A worker's creating_model is held by exactly the call of that worker that is
\* inside "async with": no failure, cancellation or crash leaves it held, and
\* one worker never has two creations under way.
LockHeldByCreator ==
    \A t \in Task : pc[t] = "creating" <=> creating_model[WorkerOf[t]] = t

\* While a worker creates a model, that model is not in its cache: a coroutine
\* that waited for the lock sees what the one before it has created.
CreateOnlyUncached ==
    \A t \in Task : pc[t] = "creating" => Target[t] \notin models[WorkerOf[t]]

\* A cached name stands for an incarnation this very worker created: it is
\* still the listed one, or somebody destroyed it.
CacheHoldsOwnCreations ==
    \A w \in Worker : \A m \in models[w] :
        \E t \in Creators : /\ WorkerOf[t] = w
                            /\ Target[t] = m
                            /\ live[m] = t \/ t \in reaped

\* A deletion that returns has seen each model it set out to destroy resolved,
\* and the incarnation it resolved is removed from the controller.
DeleteReturnsGone ==
    \A t \in Deleters : pc[t] = "ok" =>
        \A m \in listed[t] : handle[t][m] \in reaped

\* A recorded or returned execution environment has its machine, unless a
\* deletion has resolved the very incarnation that machine was added to.
LostOnlyByDeletion ==
    \A t \in Creators : t \in recorded \/ (pc[t] = "ok" /\ KindOf[t] # "reuse") =>
        \/ t \in machines
        \/ \E d \in Deleters : handle[d][Target[t]] = handle[t][Target[t]]

\* The controller destroys only incarnations that a deletion has resolved: one
\* created under the same name since then is left alone.
DestroyResolvedOnly ==
    [][\A i \in dying' \ dying :
          \E d \in Deleters : handle[d][Target[i]] = i]_dying

\* Every call ends: none waits for ever for the lock, an answer or a poll.
EveryCallReturns == \A t \in Task : pc[t] # "idle" ~> pc[t] \in Ended

\* "If the model exists, return it from the controller": a return from the
\* cache finds the model in the controller.
CachedModelExists ==
    [][\A t \in Task : pc[t] = "blocked" /\ pc'[t] = "get_model"
          => Listed(Target[t])]_pc
=============================================================================
