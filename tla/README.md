# N2VC in TLA+

N2VC is the library through which the OSM life cycle manager (LCM) drives Juju
and Kubernetes: it creates execution environments (Juju models, machines and
applications), installs and configures charms, deploys Helm charts and Juju
bundles, and reports status into the OSM database. It is Python with asyncio:
inside one process, coroutines interleave at every `await`; several processes
(N2VC workers) share one Juju controller and one database.

This directory holds TLA+ modules of that program, TLC instances that
model-check them, and TLAPS proofs about them. `PROJECT.json` lists the
components, runs, mutants, findings, hazards and theorems, and maps each
definition to the source lines it models. Paths below are relative to
`src/n2vc/`, unless they begin with src/.

    tlc -workers 2 -config MCLibjujuModels_worker.cfg MCLibjujuModels.tla
    tlapm LibjujuModels_proofs.tla

## 1. Inventory

| component | state | operations | interacts with | hard behaviour | what makes it correct |
|---|---|---|---|---|---|
| **Model life cycle** `libjuju.py` add_model, get_model, model_exists, destroy_model | cache `models`, lock `creating_model` | create, resolve, destroy and poll | Juju controller (shared by all workers), connector calls | coroutines polling for a lock, cache per process, names that are re-created, requests that outlive their caller | one creation at a time, no lock left behind, destruction hits only what was resolved, a successful deletion means gone |
| **Execution environments** `n2vc_juju_conn.py` | `ee_id` in the database | create, register, install charm, exec primitive, delete EE, delete namespace | Libjuju, database | partial failure between Juju and database, retries of verify-ssh-credentials | a recorded EE exists; a deleted namespace is empty |
| **JujuModelWatcher** `juju_watcher.py` | two tasks, two timers | wait_for, model_watcher | Juju's AllWatcher, database writer | two views of one entity, timers, callbacks that hang or raise, cancellation | ends, for a reason; status written in order and not after the end |
| **Status to database** `n2vc_conn.py`, `utils.py` | status tables | osm_status, write_app_status_to_db | watcher, observer, database, on_update_db callback | exceptions in the callback | the two tables agree |
| **Connections, endpoints record, health check** `libjuju.py` | `endpoints`, connections, health task | get_controller, _update_api_endpoints_db, health_check | controller, database | workers racing for the record, exceptions in `finally` | one record; the check survives failures; no connection leaks |
| **Applications, actions, relations** `libjuju.py` | - | deploy_charm, execute_action, configure_application, add_relation | Juju, watcher | timeouts of actions | results belong to the action |
| **JujuModelObserver** `juju_observer.py` | registries of entities, an event each | register, unregister, wait_for_*, on_change | Juju callbacks, database | registry read before and after an await, timeouts per event | no lost wake-up |
| **K8sHelmConnector, KDUs** `k8s_helm_conn.py` | helm releases, temporary files | install, upgrade, rollback, uninstall, status | helm subprocesses, database | status task beside the helm task, name chosen before use | last status written is the final one; no task left |
| **K8sHelmConnector, clusters** | cluster directories, repositories | init_env, reset, synchronize_repos | helm, kubectl, database | deletions that fail, repositories sharing a name | lists returned match what is installed |
| **K8sJujuConnector** `k8s_juju_conn.py` | login flag, controller, models | login, logout, init_env, reset, install, uninstall, exec_primitive | Juju | shared login state | no use of a closed connection |
| **Provisioner** `provisioner.py` | - | _init_ubuntu_user, install_agent | ssh | retries, background task | bounded attempts |
| **Names** | - | namespace components, application names, ee_id | all | collisions | distinct things get distinct names |
| **Legacy connector** `vnf.py` and `_juju_*` | login flag, model cache, monitors | login, get_model, deploy, destroy | Juju, callbacks | no lock around the model cache, polled flags | a model is opened once and observed |
| exceptions, loggable, setup, tests, charms | no state | | | | |

The hazards these behaviours expose the code to are listed, each at its line and
with the properties that cover it, in `PROJECT.json`.

## 2. Plan

Done:

1. `LibjujuModels`, `MCLibjujuModels`, `LibjujuModels_proofs`: the core, since
   every other operation goes through a model.
2. `JujuStatus`, `ModelWatcher`, `MCModelWatcher`, `ModelWatcher_proofs`; the
   abstract `StatusReport`, and `WatcherRefinement` to it.
3. `ApiEndpoints`, `MCApiEndpoints`, `ApiEndpoints_proofs`.
4. `ModelLife`, the abstract life of Juju models, and `LibjujuRefinement`, which
   shows that `LibjujuModels` implements it; proved in `LibjujuModels_proofs`.
5. `HelmKdu` and `HelmClusters` over it, `MCHelm`, `HelmClusters_proofs`
   (section 6); the abstract `KduLife`, and `KduRefinement` to it.
6. `MachineProvisioning` and `CharmActions` over it, `CharmActions_proofs`
   (section 7); the abstract `EnvironmentLife`, and `EnvironmentRefinement` to it.
7. `K8sJuju`, `K8sJuju_proofs` (section 8); the abstract `BundleLife`, and
   `BundleRefinement` to it.
8. `JujuObserver` and `JujuSession`, `JujuMethods_proofs` (section 9).
9. `LegacyN2VC` (section 10), also proved in `JujuMethods_proofs`.
10. `MCJujuClients`, one instance of 6 to 9, and `JujuClients_proofs`.

Left: the names (pure computations on strings), the deliveries of VCAMonitor and the
status tables of the observer.

Each module takes its parameters as CONSTANTS with a named assumption, has one
action per stretch of code between two awaits, and uses no RECURSIVE operator, so
that it can be proved about. A run costs minutes each time anything changes, so
modules that need no instance of their own share one: `MCJujuClients` joins five
modules that have no variable in common, and an initial state gives calls to one
of them only. Its states are the sum of theirs and not the product, and every
property is checked on the scenarios of its own module. `JujuClients_proofs` proves
that the joint specification implements that of each of the five
(`ClientsImplement`): one component's step leaves the others alone, and its scenarios
are initial states of each. So the theorems about a module hold of the run as well.

## 3. LibjujuModels

A **worker** is a process with one `Libjuju` object; a **task** is one call to
the connector. `WorkerOf`, `KindOf` and `Target` say which worker runs a call,
which call it is, and the model name it computes from its arguments:

| kind | call | source |
|---|---|---|
| create, reuse | create_execution_environment without, with reuse_ee_id | n2vc_juju_conn.py:252 |
| register | register_execution_environment | :332 |
| proxy | install_k8s_proxy_charm (model `<ns_id>-k8s`) | :498 |
| delete | delete_execution_environment | :769 |
| purge | delete_namespace (all models that contain the ns_id: `Matched`) | :737 |

`models` and `creating_model` are the fields of that name, one per worker. `pc`
is the await a call is at. Each action is the code from one await to the next:

| action | code |
|---|---|
| ModelExists | the connector's own test, n2vc_juju_conn.py:293, 384 |
| AddModelExists | add_model's test, libjuju.py:167; exits with JujuModelAlreadyExists |
| ReturnCached, StartCreation | the end of the busy wait at :173: the cache test at :177 and, with no await in between, the lock at :181 and the request at :183 |
| ModelAdded, AddModelFailed | :189 and the exits from the lock |
| GetModel, AddMachine, ReuseMachine, EnvironmentCreated | create_machine :284-331, likewise provision_machine and deploy_charm; the ee_id written at n2vc_juju_conn.py:312, 582 |
| ListModels, OpenModel | delete_namespace's list; destroy_model's get_model and uuid, libjuju.py:738-741 |
| DestroyMachines, ForgetModel | :744-753 (errors swallowed), :756-762 |
| ModelDestroyed, PollGone, PollTimeout | :762-788 |
| Abort | a cancellation or a failing request at any await; `finally` and `async with` are left |
| CrashWorker | the process dies and starts again with a new Libjuju |

The controller is external. `live` gives the incarnation listed under a name; an
incarnation is named after the call whose request created it (a call sends one
such request). Requests have a life of their own: the controller may serve one
whose caller was cancelled. A destroyed model is first dying, still listed, and
is reaped later, with its machines, or never.

Left out: the connection objects themselves, the content of machines and
charms, wording and logging. A machine and a Kubernetes application count as the
same thing, what the call put into the model, and a reuse_ee_id may name one that is not
there (`ReuseMachine`). JujuModelWatcher.wait_for appears
as one await here; section 4 opens it.

### Properties

- `TypeOK`: types, and a call is at an await of its own kind.
- `LockHeldByCreator`: the lock's owner is the call inside `async with`, both
  ways, whatever fails.
- `CreateOnlyUncached`: what is being created is not in the cache, so a waiter
  sees what the one before it created.
- `CacheHoldsOwnCreations`: a cached name stands for an incarnation of this
  worker that is listed or was destroyed.
- `DeleteReturnsGone`: after a deletion that returned, every incarnation it
  resolved is gone, although the poll goes by name.
- `LostOnlyByDeletion`: a recorded environment has its machine unless a deletion
  resolved that very incarnation.
- `DestroyResolvedOnly` (action property): an incarnation starts to die only
  if a deletion had resolved it. `ImplementsModelLife` contains it, so that no run
  repeats it; it is proved.
- `EveryCallReturns` (liveness): a call that has begun ends.
- `ImplementsModelLife` (refinement): see below.
- `CachedModelExists`: what the comment at libjuju.py:176 says. It is violated.

### Runs

| run | instance | shows |
|---|---|---|
| models_worker | one worker, two models of a namespace; create and reuse compete for one, proxy creates the other, delete_namespace removes both | the lock, the cache, and a namespace deletion that is half done (970 000 states) |
| models_recreate | two workers, one name, two creating and two deleting calls | a name is created, deleted and created again while another call holds the old incarnation; every step is one of `ModelLife` (506 000 states) |
| models_return | three calls on one worker, with fairness | liveness (10 500 states) |
| models_stale | two creates on one worker, a delete on another | **violation**: the first create fills the cache, the delete empties the controller, the second create is told that all is well and then fails in get_model |

The bounds are the numbers of calls, and each call is made once. Two competing
creations and one that only competes for the lock give every order at the lock;
two creations and two deletions of a name give two incarnations with a stale
holder on each side. A third incarnation adds nothing to what a holder of the
first can do, and the proofs need no bound. Deadlock is not checked in these
runs: when every call has ended, the system rests.

### Fairness

`FairSpec` assumes, per call, that the event loop resumes a coroutine that can
go on, once the call has been made, and that the controller answers a request.
The timers of the destruction poll (`total_timeout`) and of wait_for are part of
the call's own steps and so run out. Nothing says that a call is made, that a
dying model is ever removed, that a call is cancelled or that a worker crashes.
The busy wait for the lock retries every 0.1 s; weak fairness is enough, since
in the instance each of the other calls holds the lock once.

### Proofs

`LibjujuModels_proofs` proves each safety property above for any workers, calls
and models, from `CallsAssumption` (the types of the constants) and
`NoneAssumption`. None of them but the first is inductive. `IInv` adds:

- `LockInv`: the owner of a lock is a call of that worker in `creating`;
- `Early`: before its first step a call has sent and resolved nothing;
- `LiveServed`, `HandlesServed`: an incarnation that is listed or resolved is a
  call whose request for that name was served;
- `CacheServed`: so is a cached name, by a call of that worker;
- `DyingResolved`: what dies was resolved by a deletion;
- `DeletionInv`: what a deletion knows at each of its awaits, e.g. that
  polling means that the resolved incarnation is dying or reaped;
- `MachineInv`: an environment past `add_machine` has its machine, or a
  deletion resolved its incarnation.

The argument turns on what never shrinks. `GrowthStep` proves once that served
requests, resolved handles, dying and removed incarnations are only added
to; each part of `IInv` that speaks of the past then survives the steps that
do not concern it. TLC has checked `IInv` on the instances as well.

### ModelLife

`ModelLife` says what the caller of a deletion may rely on, with none of the
machinery: an incarnation is absent, present, leaving or gone, in this order; a
name has one that is present or leaving; deleters ask for incarnations; only
what was asked for starts to leave; a deleter that reports success finds all that
it asked for gone. `LibjujuRefinement` gives the mapping: `phase` reads live,
dying and reaped, `asked` the handles of the deletions, `confirmed` their ends.
Caches, locks, polls, requests without a caller, aborts and crashes are stutters.
TLC checks it in models_recreate; `LibjujuModels_proofs` proves
`Spec => ImplementsModelLife` from `IInv` and two more facts: a removed
incarnation was served and is not listed (`Removed`, so that a name never goes
back to it), and a deletion resolves only names of its list (`ResolvedListed`,
so that nothing it resolved is missing when it reports success).

## 4. JujuStatus and ModelWatcher

`JujuStatus` holds the tables of utils.py and `osm_status`. `ModelWatcher` is one
`wait_for`: the waiter (`wait_for(model.block_until(...), total_timeout)`), the
watcher (`model_watcher`) and the wait that races them.

The waiter looks at the Model object (`seen`), the watcher at its own AllWatcher
(`delivered`); both lag behind Juju (`history`). An AllWatcher returns each
changed entity once, with its present status, as Juju's does. Timers are choices:
`TotalTimeout` and `ProgressTime` may happen at any moment.

| action | code (juju_watcher.py) |
|---|---|
| FinalState, TotalTimeout, WaiterClosed | the ends of wait_for_entity, :65-73 |
| NextChange, EndOfChange | :135 and :174 |
| SkipDelta, WriteDelta | a turn of the loop :136-172; a DbException is swallowed, n2vc_conn.py:485 |
| CallbackReturns | on_update_db, n2vc_conn.py:476-483 |
| WatcherClosed | :176 |
| Return, Cancel | :91 and the `finally` at :94 |

Left out: wait_for without a db_dict or n2vc, where the watcher writes nothing;
the text of status messages; of a machine, the instance-status, which
juju_watcher.py:193-197 joins to the agent-status for the field VCA-status: no
property is about that field. The status of an entity is the agent-status of a
machine and the status of the others. The legacy observer is in section 9.

Properties: `TypeOK` (also that the database holds only names of
N2VCDeploymentStatus), `WatcherIsCaughtUp`, `ReturnsOnFinalState`,
`CompletedIsFinal`, the refinement `ImplementsStatusReport` and, under fairness,
`WaitEnds`. `WritesInOrder` and `NoWriteAfterEnd` are parts of what the refinement
says; they are proved and have no run. Two
more state what the documentation says and are violated: `TimeoutIsRaised` and
`FinalStateIsWritten`. The docstring at :44 ("Maximum time between two updates in
the model") is not what the code does either: `EndOfChange` shows that the
progress timer is looked at only after a change, which has set it back.

| run | instance | shows |
|---|---|---|
| watcher_wait | an application with a unit, beside another application, two statuses each | all the safety properties, every step is one of `StatusReport`, and every wait ends (249 000 states) |
| watcher_timeout | a machine beside another one | **violation**: wait_for returns when the total timeout has passed |
| watcher_final | an action on a unit | **violation**: the wait ends before the watcher has written the final status |

`MaxChanges` bounds the statuses of an entity. Two give a status that passes
unseen between two deliveries, a final status that is left again, and a write
that is overtaken; the proofs need no bound.

Fairness: the total timer runs out, and `asyncio.wait` returns once a task is
done. Nothing is assumed of Juju, of the connection or of the callback, which may
hang for ever.

`ModelWatcher_proofs` proves every safety property. `WInv` says that a delta still
to be looked at is the newest one sent and was not handled (`DeltasFresh`), that
nothing sent is lost (`NothingLost`), that tasks end with the wait and not before
(`TasksEnd`), why a waiter or a wait has ended (`WaiterSaw`, `ReturnedOnDone`), and
that the database holds what `osm_status` makes of a status Juju gave (`DbTold`),
from which `CompletedIsFinal` follows by the two tables. The assumption is
`EntityAssumption`; it makes Juju report only the statuses listed for a type.

### StatusReport

`StatusReport` says what the caller of wait_for may rely on, without tasks, deltas,
timers or a connection: entities go through statuses; while the wait lasts, a
status of an entity may be reported, never one that is older than the last; the
document is left as it is or says exactly what was reported; the wait returns when
the awaited entity has had a final status or when watching it was given up, and
nothing is reported after that. `WatcherRefinement` gives the mapping: `reported`
reads `handled`, `outcome` the wait, and `gaveUp` is true of a task that ended
otherwise than by a final status and was not cancelled by the end of the wait. The
AllWatcher, the Model object and both timers are stutters. What the documentation
promises beyond that, a timeout that is raised and a final status that is written, is
not in it: the code does neither. TLC checks the refinement in watcher_wait;
`ModelWatcher_proofs` proves it (`StatusReportImplemented`) from `WInv`:
`DeltasFresh` makes a write a report of a newer status, `TasksEnd` puts it
before the end, `WaiterSaw` and `ReturnedOnDone` give the reason for the return.

## 5. ApiEndpoints

The list of the controller's API endpoints lives in three places: the controller
(`published`), the memory of each worker (`endpoints`) and one database record
(`record`) that every worker reads when it starts and writes when it learns of a
change. The database is called without `await`, so an update stops its whole
process (`Free`) while other workers go on between its calls. A list is a number;
0 is the one in the configuration.

| action | code (libjuju.py) |
|---|---|
| Start | the constructor, :71-97, with _get_api_endpoints_db :862-876 |
| DbGet, DbCreate, DbCreateRaced, DbRecheck, DbSet | _update_api_endpoints_db, :886-910, a database call each |
| DbFault, DbRaised | DbException at any of them; it leaves the constructor, or is caught at :124 |
| Connect, Resume, ConnectionFails, GiveUp | get_controller, :99-130 |
| Begin, GetModel, GetModelFails, DisconnectModel, DisconnectController, DisconnectFails, Cancel | an operation, add_relation :684-727 standing for the others of its shape |
| HealthChecked, HealthFailed, HealthAgain | health_check, :916-930 |
| Crash | the process dies between two calls |
| Publish, Answer | the controller, external |

`fault` records that the database itself has failed in the present update; it lets
`RaceIsTolerated` tell such a failure from a lost race. Left out: which connection
a late health check disconnects a second time, passwords and certificates, and
what an operation does between its connections.

Properties:

- `TypeOK`: types, and an update belongs to the constructor or to the coroutine
  that waits for it.
- `RunningMeansRecorded`: a worker that has started found or left a list in the
  record, also after a crash of any worker between create and set_one.
- `RaceIsTolerated`: the worker that loses the race to create the record goes on.
- `NothingLeftOpen`: an exit leaves no connection open, except where get_model or
  a disconnect raised, or the call was cancelled outside its `try`: there the code
  does leak (a model whose disconnection raises leaves the controller open as well,
  :725-727), which the property names as an exception.
- `RecordFollows` (liveness): if the database never fails and the workers stay up
  and connected from some moment on (`Calm`), the record comes to hold the
  controller's list, though an answer with an old list may overwrite a newer one
  for a while, and whatever crashed or lost its connection before.
- `HealthCheckLives`: what the docstring at :918 promises. It is violated.

| run | instance | shows |
|---|---|---|
| endpoints_record | two workers with their health checks and one operation, two lists, every fault | the safety properties and RecordFollows (141 000 states) |
| endpoints_health | two health checks, connection failures | **violation**: the first check that cannot connect ends its task |

Two workers make every race of the record; two lists besides the configured one
make an old answer that arrives after a newer one. Fairness: workers are started,
database and controller answer, the event loop resumes what can go on, and a
sleeping health check wakes up. `Calm` is needed: get_controller assigns
self.endpoints before it saves, so a save that failed is not tried again until the
list changes; and a worker whose health check has ended learns nothing more.
Weak fairness is enough: an update disables the coroutines of its worker only for
a few database calls, and once the list is stable there are no more updates.

`ApiEndpoints_proofs` proves the four safety properties for any workers, calls,
faults and lists, from `CallsAssumption` and `NamesAssumption`. `EInv` adds
that the record has a list as soon as a worker is past its constructor, also while
one of its coroutines updates it (`Recorded`), that a recheck that follows no fault
finds the record (`Raced`), and which connections are open at each await
(`Closing`); `RecordStays` shows once that nothing ever takes the list away.

## 6. HelmKdu and HelmClusters

`HelmKdu` is a call of install, upgrade, rollback or uninstall: a coroutine, the
helm process it waits for (`exec`) and the status task beside it (`st`), which
reads the status of the release and writes it to the database every ten seconds
until it is cancelled. Helm and the cluster are external: `releases` is what helm
knows, with the install that made a release and the call that worked on it last.
A helm process goes on when its caller is cancelled. The caller of the connector
appears in one place: it keeps the name an install returned (`instance`) and
passes it to later calls.

| action | code (k8s_helm_conn.py) |
|---|---|
| StartInstall, DrawName, NameTaken, NameAccepted | install :391-440: the values file, a random name, helm status; any failure of helm status means that the name is free |
| StartOperation | the same part of upgrade, rollback, uninstall |
| Launch | exec_task and, when atomic, status_task, :442-477 |
| HelmInstalls ... HelmFails | helm, external; `Undone` is `--atomic` |
| StatusRead, StatusUnread, StatusWritten, StatusLost | _store_status as a task, :1129-1165 |
| Executed, Uninstalled | the end of the wait, `status_task.cancel()`, the values file, :479-495 |
| FinalRead, FinalWritten, FinalNotified, FinalLost | _store_status with run_once, :497-505, which writes and then awaits on_update_db (k8s_conn.py:391-407); whatever fails in it, a cancellation included, is swallowed |
| Informed | get_instance_info after upgrade and rollback |
| Cancel | a cancellation at an await outside _store_status |

`_get_paths` creates the directory of the cluster wherever a call asks for it
(`Created`): a call after a reset finds a directory without credentials ("bare").

`HelmClusters` adds init_env, reset and synchronize_repos. Two repositories may
share a name, since helm goes by names and the database by `_id`; the operator
changes the lists in the database meanwhile (`ChangeLists`, bounded by `Operator`).

Properties: `NothingLeftBehind`, `FinalStatusStands`, `SyncedAsWanted`,
`InitializedIsReady`, `ResetTakesAllListed` (a reset that returned has deleted what it
listed, or failed to), the refinement `ImplementsKduLife`, which contains
`ReturnedIsInstalled` (proved on its own, without a run), and under fairness
`KduCallEnds`: a call whose helm has started ends, also when its release or the
directory go away; what is assumed is that helm comes to an end, that the final
status is read and on_update_db returns, which the code awaits without a timeout,
and that the event loop resumes the coroutine. Nothing is assumed of the status task.

Run helm_calls (184 000 states): each initial state is one of eight combinations
that compete for something: two installs for a name, an install and an upgrade or
rollback for a record, two installs and an uninstall, an install beside init_env
and reset, a reset alone, a synchronisation beside a reset, three synchronisations
one after another. Two names suffice for a taken and a free one; three repositories,
two of them of one name, for a replacement in either order.

`HelmClusters_proofs` proves the types and the six safety properties. `KduInv` says what
the place of a call tells of its process, its task and its file (`OrderOf`), whose
release a name is (`OwnedInv`: helm refuses an install on a name in use, so that two
installs that accepted one name do not both succeed), that an instance is a release
of a finished install of its KDU (`InstanceInv`), and, for a call that is alone on
its KDU, what the release and the record say (`FinalInv`, `RecordInv`). `AdminInv`
adds what a reset has tried (`ResetInv`), what init_env has done at each place
(`ReadyInv`) and, for a synchronisation that has met no error, that the client has
`added` without what was deleted and with what was added (`SyncInv`), where
names are unique in every list an operator may choose.

### KduLife

`KduLife` says what the calls on KDUs promise to each other, without helm, its
processes, status tasks, files or directories: a name has the release of one
install at a time, an install has one release at most; a release goes because
somebody asked for it (`Purge`: an uninstall, a reset), or while its install has not
reported back (`Withdraw`: `--atomic`); a call reports success only with its work
done, or undone on request; a KDU keeps the name its install reported; and a call
that has reported back writes no status any more. `KduRefinement` gives the mapping:
`owner` reads the releases, `speaker` the record, `over` and `succeeded` the ends of
calls. A cancelled call is not over: its helm process and its status task go on.

TLC checks it in helm_calls; `HelmClusters_proofs` proves it (`KduLifeImplemented`).
`KduInv` is not enough: that an install claims nothing when it has a release already,
and that an uninstall which reports success has purged its name, need `MakerInv`. It says
that a release is under the name its install works on and was made by a helm that had
started, and that the helm of an uninstall purged the name when it succeeded.
`MakerBefore` and `MakerHelm` show once that the steps before helm and the steps of helm
keep it. `WorkDone` is the heart of the refinement: what a call has done when it
reports success follows from `OwnedInv` for an install, from `MakerInv` for an
uninstall, from `InstanceInv` for the others.

What the code does that a reader may not expect, visible in the actions: the final
status of an atomic install that failed is not written, because the release is gone
when it is read; synchronize_repos raises when a repository is not in the database
any more, though the comment at :962 says that it ignores it; after a reset
`helm_charts_added` names repositories the client has not.

## 7. MachineProvisioning and CharmActions

`MachineProvisioning` is register_execution_environment down to the machine:
provision_machine with AsyncSSHProvisioner. The call opens its model, logs in with
up to `Retries` + 1 attempts, prepares the ubuntu user, adds the machine, starts
install_agent as a task nobody waits for (libjuju.py:404), looks for the machine in
the model up to `MaxPolls` times and waits for it. The task gets its script through
the connection of the call and then works on the host alone.

`CharmActions` is what is done in such an environment: install_configuration_sw,
exec_primitive with `config`, which verifies credentials up to `Verify` times,
get_ee_ssh_public__key and add_relation. Each wait is JujuModelWatcher.wait_for,
which returns normally also when its time is over (section 4); so each wait here
has two ends, and `late` and `overdue` remember the second. For an application the
wait is over when it is active or blocked (utils.py:73-75), and blocked is what a
proxy charm usually says before somebody has configured it (`FinalApplication`).
Juju deploys, sets the status of the application back and forth, elects leaders,
finishes or fails actions, and loses the model to another call. get_action_status may
answer without the action of the call, which then counts as failed
(libjuju.py:631-633): `unlisted` remembers the calls that this happened to.

| action | code |
|---|---|
| OpenModel, ModelConnects, ConnectFails | libjuju.py:369-373, _init_ubuntu_user with its attempts, provisioner.py:149-173 |
| HostScript, ScriptFails, AddMachines | provisioner.py:175-255, AddMachines libjuju.py:389-411 |
| MachineFound, MachineNotFound, MachineReady, MachineOverdue | libjuju.py:413-439 |
| GetScript, RuleWorks, RuleFails, Configure | install_agent, provisioner.py:257-345 |
| StartInstall, Deploy, AddUnit, JujuFails, AppReady, AppOverdue | deploy_charm, libjuju.py:452-546 |
| ConfigureApplication, GetActions, Verified | config, n2vc_juju_conn.py:852-914 |
| RunAction, NoAction, ActionDone, ActionOverdue, ReadStatus | execute_action, libjuju.py:559-646 |
| PrimitiveDone, SshKeyDone, AddRelation | n2vc_juju_conn.py:915-939, 637-670, 672-727 |

Properties: `AgentKeepsConnection`, `VerifyOneAtATime`, the refinement
`ImplementsEnvironmentLife`, which contains `PrimitiveIsCompleted` and
`InstalledComplete`, so that no run repeats these two though both are proved on
their own, and `CharmCallEnds`.

`VerifyOneAtATime` says that config makes at most `Verify` attempts, and that each of
them follows on one that has failed, so that no two run at once. For a call in
`unlisted` the second part does not hold: it starts another attempt beside one that
still runs, or after one that has completed. `InstalledComplete` promises the units
and not the status, since an installation returns for a blocked application as for an
active one, and the charm may change it in the next moment.

Fairness: `TimedProv` and `TimedOp` are the steps that end a wait with a timeout, or
that need nobody; they are taken when they stay possible. Nothing is assumed of the
awaits without a timeout: the ssh commands (communicate(), provisioner.py:137-140),
model.deploy, run_action, get_action_output (libjuju.py:629). So `CharmCallEnds` does
not say that every call ends, which the code does not give. It says that a wait for an
application and a search for a machine end, and that a call which starts actions ends,
or stays in run_action or in get_action_output for ever: it cannot go round its
attempts without an end.

The code tells its caller CONFIG OK also when every attempt to verify failed,
although n2vc_conn.py:389 says that an execution that does not complete raises
(`Verified`); get_ee_ssh_public__key returns what the action said, failed or not
(`SshKeyDone`).

`CharmActions_proofs` proves the safety properties and the types. `ProvOrder` ties a
connection and a task to the place of their call and bounds the counters; `OpInv`
says what a call has learned at each place: a status that was told, unless the action
was not listed, is that of the call's last action once it does not run any more, and
only a failed action, or one that was not listed, is followed by another one.

### EnvironmentLife

`EnvironmentLife` says what the calls in an execution environment promise, without
connections, machines, leaders or waits: the application is of the installation that
deployed it, which alone gives it units, one by one and only before it is over, until
it goes with its model; its status is free; a call starts an action only before it is over and only if it
may (`MayStart`: one for a primitive, two for a key, the next verification after a
failed one or one that Juju did not list, up to `Verify`); an action ends once, with or
without its call; and a primitive, or an installation that returned in time, has done
its work when it says so (`Achieve`): the action has completed, or every unit is
there and the application is active or blocked. An installation whose wait ran out of time returns as well, and promises
nothing: the caller cannot tell the two apart, and neither do config, a key or a relation
promise anything by returning. `EnvironmentRefinement` gives the mapping: `over` reads
the ends of calls, `achieved` those that promise something.

TLC checks it in juju_clients; `CharmActions_proofs` proves it
(`EnvironmentLifeImplemented`). `OpInv` lacks three facts that `LifeOrder` adds: which
kinds of calls come to an action at all, that a call for a key has started nothing
before it was told anything and one action at most before it starts again, and that
only an installation that is over has run out of time.

## 8. K8sJuju

Several tasks call one connector, with one controller object, one flag
`authenticated` and no lock. A call reads `self.controller` when it sends a request
(`Send`), and other calls log in and out until the answer. Controller objects are
numbered, `link` says which cluster each is connected to, `Logins` bounds their
number. The Juju command line (bootstrap, destroy-controller) works on a cluster
without any connection. Errors of the commands and of Juju are free.

| action | code (k8s_juju_conn.py) |
|---|---|
| StartCall, Enter, LoginWorks, LoginFails | `if not self.authenticated: login`, :201, 254, 309, 540; login :948-988, whose errors are swallowed |
| Logout, Disconnected | :990-1005 |
| Bootstrap, Bootstrapped | init_env :127-203 |
| AddModel, DeployBundle, Settled, DeployFails, TimesOut | install :309-400 |
| Checked, NotReset, DestroyController, RemoveCloud | reset :242-279 |
| DestroyModel, Read | uninstall :505-524; exec_primitive, status_kdu, upgrade |

Properties: `OneConnection`, `WorkdirIsRestored` and the refinement
`ImplementsBundleLife`, which contains `InstalledIsThere`, so that no run repeats it
though it is proved on its own. The first
holds as long as no login or logout meets another one or a reset (`crossed`), the
second as long as installations do not overlap and do not raise (`astray`): without
these conditions TLC shows a controller that is lost, a flag that is set for a
controller that is gone, and a process that stays in the directory of a bundle.
`InstalledWhereAsked` is what a docstring says, and is violated (section 11).

install waits until all units of an application are active (:374-381). Of no units
that is true: an uninstall or a reset beside the wait ends it, and install returns an
instance that is gone. `Settled` has no condition for this reason, and the promise of
`InstalledIsThere` and of `BundleLife` is that the instance was there with its bundle,
and if it is not any more, then by another call.

Other divergences the model shows: init_env with reuse_cluster_uuid returns though
the login failed; reset returns True having done nothing; status_kdu and
upgrade read the model of the namespace and not that of the instance.

`K8sJuju_proofs`: `KindInv` says which calls come to which place; `SessionInv` says
that, while nothing has crossed, one call at a time is about the session, with the
controller of the connector, and at most that one is connected; `WorkdirInv` that
the directory is that of the one installation that deploys.

### BundleLife

`BundleLife` says what these calls promise to each other, without controllers,
logins, cloud files and directories: an installation adds one model, and only where
its instance has none; it confirms the instance only when the bundle is in that model,
or was and has been taken away since;
a model goes by an uninstall of its instance (`Remove`), or with all others of a
cluster (`Clear`) by a reset of that cluster or by an installation to it that
deployed its bundle and then gave up; and a call that is over does nothing.
`BundleRefinement` gives the mapping: the calls that are over and the installations
that are confirmed are read from `kpc`, the rest are variables of `K8sJuju`.

`Add` and `Remove` leave the cluster open: the code acts where the controller happens
to be connected, which is the violation of section 11. `Clear` does not, since
destroy-controller goes by the cluster the call was given. That a timed-out
installation takes the models of every other instance in its cluster with it is what
install does (:385-390), and the promise is no stronger.

TLC checks it in juju_clients; `K8sJuju_proofs` proves it (`BundleLifeImplemented`).
`BundleInv` is what `K8sInv` lacks: an installation has no model before it adds one,
and one that waits for its applications, or gave up, deployed its bundle. `InstalledInv`
says that the model of an installation that waits or has returned has its bundle or is
gone.

## 9. JujuObserver and JujuSession

The `_juju_` methods of N2VCJujuConnector and the observer they wait with are
still in the source and tested, though the connector goes through Libjuju now and
calls none of them.

`JujuObserver`: a call registers its entity, which gives it a record with an event,
and waits until the entity is final; on_change runs in a task per change, awaits
the database write and then looks the record up again. A second call for an
application replaces the record of the first; a destruction removes it. A change
of a unit wakes and writes for its application. Timers are choices.

| action | code (juju_observer.py) |
|---|---|
| Register, Look, Wake, Timeout | :53-106, _wait_for_entity :176-225 |
| Report | Juju, external |
| OnChange, DeadUnit, SetEvent, LookupFails | on_change, :227-310; KeyError when the record is gone |
| WriteSwallowed, WriteRaises | write_app_status_to_db, n2vc_conn.py:455-493: a DbException is swallowed, the document stays old and on_change goes on; whatever else set_one or the callback raises ends on_change before its event |
| Destroy | _juju_destroy_application, _juju_destroy_machine |

Two histories remember what a failed write did: `stale` the waiters whose document the
last write did not reach, `unset` those whose last on_change raised before the event.

Properties: `NoLostWakeup`: a call whose entity is final will be woken, unless its
record was taken away or it is in `unset`; such a call sleeps until its timeout, and a
unit test of on_change with a callback that works does not see it. `ShownIsCurrent`: a
document that is not in `stale` shows the present status when all changes were handled
(the tasks read the status when they run, so that their order does not matter; an
application is excluded, because its document is also written with the status of its
units). `TimeoutIsHonest`, a corollary of the first, is proved without a run.

`JujuSession`: _juju_login, _juju_get_model and _juju_logout share a connection; two
flags are polled every 0.1 s. A logout closes one model after the other, then awaits
the disconnection of the controller (`LeaveController`, `LoggedOut`), and clears the
flag after that; others go on meanwhile. `ModelOpenedOnce` holds for however many calls wake up
together, and rests on `OneAtATime`, the exclusion that the flags give (proved).

`JujuMethods_proofs` proves these five and the types. `RecordsInv` says that the record of a
waiting call stands unless it was taken away, and that no task exists but for a
change that was reported; `SessInv` says that a flag is up exactly when one call is
in the section it guards.

## 10. LegacyN2VC

The first connector, vnf.py: login, get_model without a lock, the model monitor, one
for each name; DeployCharms with its initial primitives, RemoveCharms,
CreateNetworkService, DestroyNetworkService. `raced` remembers that two calls were
opening or closing one model at once. Otherwise `OpenIsObserved` holds: the count is
that of the connections that get_model opened and nobody closed, and a cached model is
one of them and has the monitor of its name. It is not the count of all connections:
DestroyNetworkService opens one more by controller.get_model (vnf.py:1021, `Attach`),
which is not counted, not observed and never closed; `attached` keeps it. After that it
calls self.get_model only if the model has applications (vnf.py:1023-1026). A
disconnection that raises is swallowed and changes nothing (`Disconnect`).

| action | code (vnf.py) |
|---|---|
| Login, LoginEnds | login, :1339-1379 |
| GetModel, ListModels, OpenService, AlreadyExists | get_model and create_model_monitor, :1298-1337 |
| CheckCharm, DeployOne | DeployCharms, :494-644 |
| ReadPrimitive, RunPrimitive, PrimitivesDone | ExecuteInitialPrimitives, ExecutePrimitive, :801-935 |
| RemoveCharm, CharmRemoved | RemoveCharms, :937-979 |
| ListServices, Attach, CloseModel, Disconnect, DestroyModels | Create- and DestroyNetworkService, :981-1072, disconnect_model :1405-1413 |
| LegacyFails | an error of Juju at any of these |

CreateNetworkService finds None in the cache after a destruction and returns True
without a model (vnf.py:995), which `ListServices` and `GetModel` show.
`PrimitivesInOrder`: the loop that reads the primitives runs all it has read after
each one (vnf.py:839), so the earlier ones run again; the last pass is by seq and runs
every primitive that the charm has (`Known`). One that it has not is passed over
(:853-857), as src/tests/integration/test_non_existent_primitive.py expects, and when the
application is gone no action is started and nothing is raised (:913-927): `missed`
remembers that, and the property excludes such a deployment. A seq is a number here;
the code sorts the values of the descriptor, which for text puts "10" before "2". The
primitive "config", which ExecuteInitialPrimitives skips, is left out.

`JujuMethods_proofs` proves both, and the types, for any calls, networks and
declarations, from `LegacyAssumption`. What a pass has run is the end of what was
run altogether, in order, and what is left to run comes after it (`PassInv`); each
step takes the least that is left, which `NextSeqIsLeast` shows from the
well-foundedness of the numbers, and a deployment that returned has nothing left
(`KindsInv`). Lemmas on `EndsWith` say what appending does to the end of a
sequence. For the connections, `OpenedInv` says that the opener of a
connection is past that place and a model is cached under its own name, and
`AloneInv` that, while nothing has raced, one call at a time opens or closes a model,
that it opens none that is cached and closes one that is. `OpenIsObserved` is
inductive together with these two.

The runs of sections 7 to 10:

| run | instance | shows |
|---|---|---|
| juju_clients | 7: a registration, with one of seven combinations of calls in its environment. 8: nine combinations of up to three calls over two clusters. 9: three waiters, two changes; two logins for one model, one for another, a logout. 10: two calls in six combinations | every property above (133 000 states) |
| juju_cluster | the same | **violation** of InstalledWhereAsked |

Three primitives are declared, out of order, and the charm has two of them.
`Retries` = 1, `MaxPolls` = 2 and `Verify` = 3 stand for 10, 10 and 20: enough for an
attempt that is neither the first nor the last, or for one that is both. Two changes
give two tasks of on_change in either order. Four logins let every call of a
combination log in, fail and log in again. Deadlock is not checked: calls end.

## 11. Findings

1. libjuju.py:177: the cache of one worker is not told of another's deletion;
   add_model then returns without a model (models_stale).
2. juju_watcher.py:91: a timeout is not raised, though the docstring says so
   (watcher_timeout).
3. juju_watcher.py:91: the final status may never be written (watcher_final).
4. libjuju.py:929: a health check that fails in its first round never runs again
   (endpoints_health).
5. k8s_juju_conn.py:309: a KDU is installed in the cluster of the last login
   (juju_cluster).

## 12. What is checked by TLC only, and what is not modelled

Liveness (`EveryCallReturns`, `WaitEnds`, `RecordFollows`, `KduCallEnds`,
`CharmCallEnds`) is model-checked: TLAPS proves no liveness under fairness. Each is
relative to the fairness its section states. The five violations are counterexamples
that TLC found. Every other property of a run is also a theorem, for any values of the
constants that meet the named assumptions.

Not modelled:

- **Names** of models, applications, execution environments and helm releases:
  computations on strings, character by character, without states to explore.
- What only reads: repo_list, inspect_kdu, values_kdu, help_kdu, get_services,
  get_service, get_metrics, and helm's exec_primitive, which always raises.
- In `HelmClusters`: the 300 s timeout of the repository commands, two
  synchronisations of one cluster at a time.
- In `ModelWatcher`: the instance-status of a machine, which goes into VCA-status.
- In `CharmActions`: what makes get_action_status leave an action out; it is a choice.
- In `K8sJuju`: cancellation, disconnections that raise, the charms that upgrade
  switches, the files of the clouds.
- SSHProvisioner, the synchronous variant that nothing uses, and what the scripts do
  beyond the rule they append.
- In the observer: how its two timeouts are computed (the total timeout starts again
  with each event, juju_observer.py:213) and the table that maps statuses.
- In vnf.py: logout, the primitive config, the callbacks of VCAMonitor, metrics. That
  the connection of vnf.py:1021 is never closed is modelled, but no property forbids it.
- Exceptions, logging, packaging, the charms and the tests have no state to model.
