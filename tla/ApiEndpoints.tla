---------------------------- MODULE ApiEndpoints -----------------------------
(***************************************************************************)
(* The connections of Libjuju (src/n2vc/libjuju.py): get_controller, the   *)
(* record of the controller's API endpoints that all workers share,        *)
(* health_check, and an operation that opens a model.                      *)
(*                                                                         *)
(* The database is called without await: while a worker updates the record *)
(* none of its coroutines moves, but other workers do, between any two of  *)
(* the database calls.  A list of endpoints is a number: the one in the    *)
(* configuration is 0, and the controller publishes 1, 2, ...              *)
(***************************************************************************)
EXTENDS Naturals

CONSTANTS
    Worker,     \* N2VC processes
    Call,       \* coroutines that call get_controller
    WorkerOf,   \* the worker of a coroutine
    KindOf,     \* the health check of its worker, or an operation
    Faults,     \* what may go wrong
    MaxVersion, \* bound: lists the controller publishes
    CTOR,       \* the constructor, as the one who updates the record
    NONE        \* nothing, nobody

ASSUME CallsAssumption ==
    /\ WorkerOf \in [Call -> Worker]
    /\ KindOf \in [Call -> {"health", "operation"}]
    /\ Faults \subseteq {"database", "connection", "cancellation", "crash"}

ASSUME NamesAssumption ==
    /\ CTOR \notin Call /\ NONE \notin Call /\ CTOR # NONE
    /\ MaxVersion \in Nat \ {0}
    /\ NONE \notin 0..MaxVersion

VARIABLES
    published,  \* the list the controller gives now
    record,     \* the database record: does it exist, and its api_endpoints
    endpoints,  \* Libjuju.endpoints of each worker, NONE when it is down
    runner,     \* who is in _update_api_endpoints_db
    db_step,    \* the database call it makes next
    fault,      \* the database has failed in this update
    pc,         \* where a coroutine is
    told,       \* the list the controller answered
    conn,       \* the connections a coroutine has open
    bound       \* health_check has had a controller before

db == <<record, runner, db_step, fault>>
calls == <<pc, told, conn, bound>>
vars == <<published, endpoints, db, calls>>

Configured == 0
Versions == 0..MaxVersion

Down(w) == endpoints[w] = NONE
\* The event loop of w turns.
Free(w) == ~Down(w) /\ runner[w] = NONE

Goto(c, label) == pc' = [pc EXCEPT ![c] = label]
DbStep(w, step) == db_step' = [db_step EXCEPT ![w] = step]

\* The last statement of the constructor.
HealthStarted(w) ==
    [c \in Call |-> IF WorkerOf[c] = w /\ KindOf[c] = "health" THEN "connect" ELSE pc[c]]

Init ==
    /\ published = 1
    /\ record = [exists |-> FALSE, api_endpoints |-> NONE]
    /\ endpoints = [w \in Worker |-> NONE]
    /\ runner = [w \in Worker |-> NONE]
    /\ db_step = [w \in Worker |-> "none"]
    /\ fault = [w \in Worker |-> FALSE]
    /\ pc = [c \in Call |-> "idle"]
    /\ told = [c \in Call |-> NONE]
    /\ conn = [c \in Call |-> {}]
    /\ bound = [c \in Call |-> FALSE]

-----------------------------------------------------------------------------
(* Variants of the actions below, each with a plausible mistake.           *)

\* The constructor looks for the record and not for the list in it.
StartIfRecordExists(w) ==
    /\ Down(w)
    /\ endpoints' = [endpoints EXCEPT ![w] =
          IF record.api_endpoints # NONE THEN record.api_endpoints ELSE Configured]
    /\ IF record.exists
       THEN pc' = HealthStarted(w) /\ UNCHANGED <<runner, db_step>>
       ELSE /\ runner' = [runner EXCEPT ![w] = CTOR]
            /\ DbStep(w, "get")
            /\ UNCHANGED pc
    /\ UNCHANGED <<published, record, fault, told, conn, bound>>

\* A record that exists already is an error.
DbCreateLost(w) ==
    /\ db_step[w] = "create"
    /\ record.exists
    /\ DbStep(w, "raised")
    /\ UNCHANGED <<published, endpoints, record, runner, fault, calls>>

\* The new list is remembered and not saved.
ResumeWithoutSaving(c) ==
    LET w == WorkerOf[c] IN
    /\ Free(w)
    /\ pc[c] = "ask"
    /\ told[c] # NONE
    /\ told' = [told EXCEPT ![c] = NONE]
    /\ endpoints' = [endpoints EXCEPT ![w] = told[c]]
    /\ Goto(c, "connected")
    /\ UNCHANGED <<published, db, conn, bound>>

\* get_controller raises with its connection open.
GiveUpConnected(c) ==
    /\ Free(WorkerOf[c])
    /\ pc[c] = "giving_up"
    /\ Goto(c, "no_controller")
    /\ UNCHANGED <<published, endpoints, db, told, conn, bound>>

\* The list is saved behind the back of the coroutine.
ResumeWhileSaving(c) ==
    LET w == WorkerOf[c] IN
    /\ Free(w)
    /\ pc[c] = "ask"
    /\ told[c] # NONE
    /\ told' = [told EXCEPT ![c] = NONE]
    /\ Goto(c, "connected")
    /\ IF told[c] = endpoints[w]
       THEN UNCHANGED <<endpoints, runner, db_step>>
       ELSE /\ endpoints' = [endpoints EXCEPT ![w] = told[c]]
            /\ runner' = [runner EXCEPT ![w] = c]
            /\ DbStep(w, "get")
    /\ UNCHANGED <<published, record, fault, conn, bound>>

-----------------------------------------------------------------------------
(* The constructor.                                                        *)

\* It takes the endpoints from the database, or else from its arguments; only
\* in the second case it goes on to save them.
Start(w) ==
    /\ Down(w)
    /\ endpoints' = [endpoints EXCEPT ![w] =
          IF record.api_endpoints # NONE THEN record.api_endpoints ELSE Configured]
    /\ IF record.api_endpoints # NONE
       THEN pc' = HealthStarted(w) /\ UNCHANGED <<runner, db_step>>
       ELSE /\ runner' = [runner EXCEPT ![w] = CTOR]
            /\ DbStep(w, "get")
            /\ UNCHANGED pc
    /\ UNCHANGED <<published, record, fault, told, conn, bound>>

-----------------------------------------------------------------------------
(* _update_api_endpoints_db.                                               *)

DbGet(w) ==
    /\ db_step[w] = "get"
    /\ DbStep(w, IF record.exists THEN "set" ELSE "create")
    /\ UNCHANGED <<published, endpoints, record, runner, fault, calls>>

DbCreate(w) ==
    /\ db_step[w] = "create"
    /\ ~record.exists
    /\ record' = [record EXCEPT !.exists = TRUE]
    /\ DbStep(w, "set")
    /\ UNCHANGED <<published, endpoints, runner, fault, calls>>

\* Another worker was first: the database refuses, and we look again.
DbCreateRaced(w) ==
    /\ db_step[w] = "create"
    /\ record.exists
    /\ DbStep(w, "recheck")
    /\ UNCHANGED <<published, endpoints, record, runner, fault, calls>>

DbRecheck(w) ==
    /\ db_step[w] = "recheck"
    /\ DbStep(w, IF record.exists THEN "set" ELSE "raised")
    /\ UNCHANGED <<published, endpoints, record, runner, fault, calls>>

\* The list is saved; the constructor starts the health check and returns,
\* get_controller returns the controller.
DbSet(w) ==
    /\ db_step[w] = "set"
    /\ record' = [record EXCEPT !.api_endpoints = endpoints[w]]
    /\ DbStep(w, "none")
    /\ fault' = [fault EXCEPT ![w] = FALSE]
    /\ runner' = [runner EXCEPT ![w] = NONE]
    /\ IF runner[w] = CTOR THEN pc' = HealthStarted(w) ELSE Goto(runner[w], "connected")
    /\ UNCHANGED <<published, endpoints, told, conn, bound>>

\* The database raises DbException on its own account.
DbFault(w) ==
    /\ "database" \in Faults
    /\ db_step[w] \in {"get", "create", "recheck", "set"}
    /\ fault' = [fault EXCEPT ![w] = TRUE]
    /\ DbStep(w, IF db_step[w] = "create" THEN "recheck" ELSE "raised")
    /\ UNCHANGED <<published, endpoints, record, runner, calls>>

\* The exception leaves the constructor, or is caught in get_controller: there
\* self.endpoints keeps the new list, which will not be saved again.
DbRaised(w) ==
    /\ db_step[w] = "raised"
    /\ DbStep(w, "none")
    /\ fault' = [fault EXCEPT ![w] = FALSE]
    /\ runner' = [runner EXCEPT ![w] = NONE]
    /\ IF runner[w] = CTOR
       THEN endpoints' = [endpoints EXCEPT ![w] = NONE] /\ UNCHANGED pc
       ELSE Goto(runner[w], "giving_up") /\ UNCHANGED endpoints
    /\ UNCHANGED <<published, record, told, conn, bound>>

-----------------------------------------------------------------------------
(* get_controller.                                                         *)

Begin(c) ==
    /\ Free(WorkerOf[c])
    /\ pc[c] = "idle"
    /\ KindOf[c] = "operation"
    /\ Goto(c, "connect")
    /\ UNCHANGED <<published, endpoints, db, told, conn, bound>>

Connect(c) ==
    /\ Free(WorkerOf[c])
    /\ pc[c] = "connect"
    /\ conn' = [conn EXCEPT ![c] = {"controller"}]
    /\ Goto(c, "ask")
    /\ UNCHANGED <<published, endpoints, db, told, bound>>

\* The await of api_endpoints is over: a list that is not the one in memory
\* replaces it, and is saved before anything else happens in this worker.
Resume(c) ==
    LET w == WorkerOf[c] IN
    /\ Free(w)
    /\ pc[c] = "ask"
    /\ told[c] # NONE
    /\ told' = [told EXCEPT ![c] = NONE]
    /\ IF told[c] = endpoints[w]
       THEN Goto(c, "connected") /\ UNCHANGED <<endpoints, runner, db_step>>
       ELSE /\ endpoints' = [endpoints EXCEPT ![w] = told[c]]
            /\ runner' = [runner EXCEPT ![w] = c]
            /\ DbStep(w, "get")
            /\ Goto(c, "update")
    /\ UNCHANGED <<published, record, fault, conn, bound>>

\* No connection within the timeout, or it is lost: any exception but a
\* cancellation is caught.
ConnectionFails(c) ==
    /\ "connection" \in Faults
    /\ Free(WorkerOf[c])
    /\ pc[c] \in {"connect", "ask"}
    /\ told' = [told EXCEPT ![c] = NONE]
    /\ Goto(c, "giving_up")
    /\ UNCHANGED <<published, endpoints, db, conn, bound>>

\* The controller is disconnected; JujuControllerFailedConnecting is raised.
GiveUp(c) ==
    /\ Free(WorkerOf[c])
    /\ pc[c] = "giving_up"
    /\ conn' = [conn EXCEPT ![c] = {}]
    /\ Goto(c, "no_controller")
    /\ UNCHANGED <<published, endpoints, db, told, bound>>

-----------------------------------------------------------------------------
(* An operation on a model.                                                *)

\* get_model stands before the try: if it raises, nothing is disconnected.
GetModel(c) ==
    /\ Free(WorkerOf[c])
    /\ pc[c] = "connected"
    /\ KindOf[c] = "operation"
    /\ conn' = [conn EXCEPT ![c] = @ \cup {"model"}]
    /\ Goto(c, "body")
    /\ UNCHANGED <<published, endpoints, db, told, bound>>

GetModelFails(c) ==
    /\ Free(WorkerOf[c])
    /\ pc[c] = "connected"
    /\ KindOf[c] = "operation"
    /\ "connection" \in Faults
    /\ Goto(c, "no_model")
    /\ UNCHANGED <<published, endpoints, db, told, conn, bound>>

\* The body of the try returns or raises; finally the model and the controller
\* are disconnected.
DisconnectModel(c) ==
    /\ Free(WorkerOf[c])
    /\ pc[c] = "body"
    /\ conn' = [conn EXCEPT ![c] = @ \ {"model"}]
    /\ Goto(c, "finally")
    /\ UNCHANGED <<published, endpoints, db, told, bound>>

DisconnectController(c) ==
    /\ Free(WorkerOf[c])
    /\ pc[c] = "finally"
    /\ conn' = [conn EXCEPT ![c] = @ \ {"controller"}]
    /\ Goto(c, "done")
    /\ UNCHANGED <<published, endpoints, db, told, bound>>

\* A disconnect that raises leaves the finally clause: with the model, the
\* controller stays open.
DisconnectFails(c) ==
    /\ Free(WorkerOf[c])
    /\ pc[c] \in {"body", "finally"}
    /\ "connection" \in Faults
    /\ Goto(c, "not_closed")
    /\ UNCHANGED <<published, endpoints, db, told, conn, bound>>

\* The caller is cancelled at an await that no finally clause follows: in
\* get_controller, in get_model, or in a finally clause itself.
Cancel(c) ==
    /\ "cancellation" \in Faults
    /\ Free(WorkerOf[c])
    /\ KindOf[c] = "operation"
    /\ pc[c] \in {"connect", "ask", "giving_up", "connected", "finally"}
    /\ told' = [told EXCEPT ![c] = NONE]
    /\ Goto(c, "cancelled")
    /\ UNCHANGED <<published, endpoints, db, conn, bound>>

-----------------------------------------------------------------------------
(* health_check.                                                           *)

\* The controller is disconnected in the finally clause.
HealthChecked(c) ==
    /\ Free(WorkerOf[c])
    /\ pc[c] = "connected"
    /\ KindOf[c] = "health"
    /\ bound' = [bound EXCEPT ![c] = TRUE]
    /\ conn' = [conn EXCEPT ![c] = {}]
    /\ Goto(c, "sleep")
    /\ UNCHANGED <<published, endpoints, db, told>>

\* get_controller has raised: the finally clause disconnects the controller of
\* an earlier round, or fails on a local variable that was never assigned.
HealthFailed(c) ==
    /\ Free(WorkerOf[c])
    /\ pc[c] = "no_controller"
    /\ KindOf[c] = "health"
    /\ Goto(c, IF bound[c] THEN "sleep" ELSE "dead")
    /\ UNCHANGED <<published, endpoints, db, told, conn, bound>>

HealthAgain(c) ==
    /\ Free(WorkerOf[c])
    /\ pc[c] = "sleep"
    /\ Goto(c, "connect")
    /\ UNCHANGED <<published, endpoints, db, told, conn, bound>>

-----------------------------------------------------------------------------
(* The controller (external) and the workers' processes.                   *)

Publish ==
    /\ published < MaxVersion
    /\ published' = published + 1
    /\ UNCHANGED <<endpoints, db, calls>>

\* It answers with the list of this moment; the coroutine resumes later.
Answer(c) ==
    /\ pc[c] = "ask"
    /\ told[c] = NONE
    /\ told' = [told EXCEPT ![c] = published]
    /\ UNCHANGED <<published, endpoints, db, pc, conn, bound>>

\* A process dies, between any two calls of the database or of the controller.
Crash(w) ==
    LET here(c) == WorkerOf[c] = w IN
    /\ "crash" \in Faults
    /\ ~Down(w)
    /\ endpoints' = [endpoints EXCEPT ![w] = NONE]
    /\ runner' = [runner EXCEPT ![w] = NONE]
    /\ DbStep(w, "none")
    /\ fault' = [fault EXCEPT ![w] = FALSE]
    /\ pc' = [c \in Call |-> IF here(c) THEN "idle" ELSE pc[c]]
    /\ told' = [c \in Call |-> IF here(c) THEN NONE ELSE told[c]]
    /\ conn' = [c \in Call |-> IF here(c) THEN {} ELSE conn[c]]
    /\ bound' = [c \in Call |-> IF here(c) THEN FALSE ELSE bound[c]]
    /\ UNCHANGED <<published, record>>

-----------------------------------------------------------------------------

UpdateDb(w) == DbGet(w) \/ DbCreate(w) \/ DbCreateRaced(w) \/ DbRecheck(w)
                   \/ DbSet(w) \/ DbRaised(w)
GetController(c) == Connect(c) \/ Resume(c) \/ GiveUp(c)
Operation(c) == Begin(c) \/ GetModel(c) \/ GetModelFails(c) \/ Cancel(c)
                    \/ DisconnectModel(c) \/ DisconnectController(c) \/ DisconnectFails(c)
HealthCheck(c) == HealthChecked(c) \/ HealthFailed(c) \/ HealthAgain(c)

Next ==
    \/ \E w \in Worker : Start(w) \/ UpdateDb(w) \/ DbFault(w) \/ Crash(w)
    \/ \E c \in Call : \/ GetController(c) \/ ConnectionFails(c) \/ Answer(c)
                       \/ Operation(c) \/ HealthCheck(c)
    \/ Publish

\* Workers are started, the database and the controller answer, the event loop
\* resumes what can go on, and health_check wakes up from its sleep.
Fairness ==
    /\ \A w \in Worker : WF_vars(Start(w)) /\ WF_vars(UpdateDb(w))
    /\ \A c \in Call : /\ WF_vars(GetController(c)) /\ WF_vars(Answer(c))
                       /\ WF_vars(HealthCheck(c))

Spec == Init /\ [][Next]_vars
FairSpec == Spec /\ Fairness

-----------------------------------------------------------------------------
(* Properties.                                                             *)

\* Every variable has its type; an update is run by the constructor or by a
\* coroutine of the worker that waits for it.
TypeOK ==
    /\ published \in Versions
    /\ record \in [exists : BOOLEAN, api_endpoints : Versions \cup {NONE}]
    /\ endpoints \in [Worker -> Versions \cup {NONE}]
    /\ runner \in [Worker -> Call \cup {CTOR, NONE}]
    /\ \A w \in Worker : runner[w] \in Call => WorkerOf[runner[w]] = w
    /\ db_step \in [Worker -> {"none", "get", "create", "recheck", "set", "raised"}]
    /\ fault \in [Worker -> BOOLEAN]
    /\ pc \in [Call -> {"idle", "connect", "ask", "update", "connected", "giving_up",
                        "no_controller", "body", "finally", "done", "no_model",
                        "not_closed", "cancelled", "sleep", "dead"}]
    /\ told \in [Call -> Versions \cup {NONE}]
    /\ conn \in [Call -> SUBSET {"controller", "model"}]
    /\ bound \in [Call -> BOOLEAN]
    /\ \A w \in Worker : /\ runner[w] = NONE <=> db_step[w] = "none"
                         /\ runner[w] # NONE => ~Down(w)
    /\ \A c \in Call : pc[c] = "update" <=> runner[WorkerOf[c]] = c

\* A worker that has started found or left a list in the database, also after
\* a crash in the middle of creating the record.
RunningMeansRecorded ==
    \A w \in Worker : Free(w) => record.api_endpoints # NONE

\* Workers that create the record at the same time do not fail each other: an
\* update raises only if the database itself has failed.
RaceIsTolerated ==
    \A w \in Worker : db_step[w] = "raised" => fault[w]

\* A coroutine leaves no connection open, however it ended, unless get_model
\* or a disconnect has raised or the call was cancelled outside of its try.
NothingLeftOpen ==
    \A c \in Call : pc[c] \in {"no_controller", "sleep", "dead", "done"} => conn[c] = {}

\* The database has never failed, and from some moment on every worker stays up
\* and none of its health checks fails to connect.
Calm ==
    /\ [](\A w \in Worker : ~fault[w])
    /\ <>[](\A w \in Worker : ~Down(w))
    /\ <>[](\A c \in Call : pc[c] \notin {"giving_up", "no_controller", "dead"})

\* Once the controller's list stops changing and things are calm, the record
\* comes to hold that list, for the next worker to start with: the health checks
\* see to it, whatever crashes and lost connections there were before.
RecordFollows == Calm => <>[](record.api_endpoints = published)

\* "Health check to make sure controller and controller_model connections are
\* OK": the task is there as long as its worker is.
HealthCheckLives == \A c \in Call : pc[c] # "dead"
=============================================================================
