------------------------- MODULE ApiEndpoints_proofs -------------------------
(***************************************************************************)
(* Proofs about ApiEndpoints, for any workers, coroutines, faults and      *)
(* number of lists.                                                        *)
(***************************************************************************)
EXTENDS ApiEndpoints, TLAPS

\* The steps, as they concern one worker or one coroutine.
WorkerStep(w) == Start(w) \/ UpdateDb(w) \/ DbFault(w) \/ Crash(w)
CallStep(c) == GetController(c) \/ ConnectionFails(c) \/ Answer(c)
                  \/ Operation(c) \/ HealthCheck(c)

LEMMA TypeInit == Init => TypeOK
  BY CallsAssumption, NamesAssumption DEF Init, TypeOK, Versions, Down

LEMMA TypeWorkerStep ==
  ASSUME TypeOK, NEW w \in Worker, WorkerStep(w)
  PROVE  TypeOK'
<1> USE CallsAssumption, NamesAssumption DEF TypeOK, Down, DbStep, Goto, calls
<1>1. CASE Start(w)
  <2>1. CASE record.api_endpoints # NONE
    BY <1>1, <2>1 DEF Start, HealthStarted
  <2>2. CASE record.api_endpoints = NONE
    <3>1. Configured \in Versions /\ Configured # NONE
      BY DEF Configured, Versions
    <3> QED
      BY <1>1, <2>2, <3>1 DEF Start
  <2> QED
    BY <2>1, <2>2
<1>2. CASE DbGet(w) \/ DbCreateRaced(w) \/ DbRecheck(w)
  BY <1>2 DEF DbGet, DbCreateRaced, DbRecheck
<1>3. CASE DbCreate(w)
  <2>1. record' \in [exists : BOOLEAN, api_endpoints : Versions \cup {NONE}]
    BY <1>3 DEF DbCreate
  <2>2. runner[w] # NONE
    BY <1>3 DEF DbCreate
  <2> QED
    BY <1>3, <2>1, <2>2 DEF DbCreate
<1>4. CASE DbSet(w)
  <2>1. CASE runner[w] = CTOR
    BY <1>4, <2>1 DEF DbSet, HealthStarted
  <2>2. CASE runner[w] # CTOR
    BY <1>4, <2>2 DEF DbSet
  <2> QED
    BY <2>1, <2>2
<1>5. CASE DbRaised(w)
  <2>1. CASE runner[w] = CTOR
    BY <1>5, <2>1 DEF DbRaised
  <2>2. CASE runner[w] # CTOR
    BY <1>5, <2>2 DEF DbRaised
  <2> QED
    BY <2>1, <2>2
<1>6. CASE DbFault(w)
  BY <1>6 DEF DbFault
<1>7. CASE Crash(w)
  <2>1. /\ endpoints' = [endpoints EXCEPT ![w] = NONE]
        /\ runner' = [runner EXCEPT ![w] = NONE]
        /\ db_step' = [db_step EXCEPT ![w] = "none"]
        /\ fault' = [fault EXCEPT ![w] = FALSE]
        /\ UNCHANGED <<published, record>>
    BY <1>7 DEF Crash
  <2>2. /\ pc' = [c \in Call |-> IF WorkerOf[c] = w THEN "idle" ELSE pc[c]]
        /\ told' = [c \in Call |-> IF WorkerOf[c] = w THEN NONE ELSE told[c]]
        /\ conn' = [c \in Call |-> IF WorkerOf[c] = w THEN {} ELSE conn[c]]
        /\ bound' = [c \in Call |-> IF WorkerOf[c] = w THEN FALSE ELSE bound[c]]
    BY <1>7 DEF Crash
  <2>3. \A c \in Call : pc'[c] = "update" <=> runner'[WorkerOf[c]] = c
    BY <2>1, <2>2
  <2>4. \A x \in Worker : /\ runner'[x] = NONE <=> db_step'[x] = "none"
                          /\ runner'[x] # NONE => endpoints'[x] # NONE
                          /\ runner'[x] \in Call => WorkerOf[runner'[x]] = x
    BY <2>1
  <2>5. /\ told' \in [Call -> Versions \cup {NONE}]
        /\ conn' \in [Call -> SUBSET {"controller", "model"}]
        /\ bound' \in [Call -> BOOLEAN]
    BY <2>2
  <2>6. /\ endpoints' \in [Worker -> Versions \cup {NONE}]
        /\ runner' \in [Worker -> Call \cup {CTOR, NONE}]
        /\ fault' \in [Worker -> BOOLEAN]
        /\ db_step' \in [Worker -> {"none", "get", "create", "recheck", "set", "raised"}]
    BY <2>1
  <2>7. pc' \in [Call -> {"idle", "connect", "ask", "update", "connected", "giving_up",
                         "no_controller", "body", "finally", "done", "no_model",
                         "not_closed", "cancelled", "sleep", "dead"}]
    BY <2>2
  <2> QED
    BY <2>1, <2>3, <2>4, <2>5, <2>6, <2>7
<1> QED
  BY <1>1, <1>2, <1>3, <1>4, <1>5, <1>6, <1>7 DEF WorkerStep, UpdateDb

LEMMA TypeCallStep ==
  ASSUME TypeOK, NEW c \in Call, CallStep(c)
  PROVE  TypeOK'
<1> USE CallsAssumption, NamesAssumption DEF TypeOK, Down, Free, Goto, db
<1>1. CASE Connect(c) \/ GiveUp(c)
  BY <1>1 DEF Connect, GiveUp
<1>2. CASE Resume(c)
  <2>1. CASE told[c] = endpoints[WorkerOf[c]]
    BY <1>2, <2>1 DEF Resume
  <2>2. CASE told[c] # endpoints[WorkerOf[c]]
    BY <1>2, <2>2 DEF Resume, DbStep
  <2> QED
    BY <2>1, <2>2
<1>3. CASE ConnectionFails(c)
  BY <1>3 DEF ConnectionFails
<1>4. CASE Answer(c)
  BY <1>4 DEF Answer
<1>5. CASE Begin(c) \/ GetModel(c) \/ GetModelFails(c) \/ Cancel(c)
  BY <1>5 DEF Begin, GetModel, GetModelFails, Cancel
<1>6. CASE DisconnectModel(c) \/ DisconnectController(c) \/ DisconnectFails(c)
  BY <1>6 DEF DisconnectModel, DisconnectController, DisconnectFails
<1>7. CASE HealthCheck(c)
  <2>1. CASE HealthChecked(c)
    BY <2>1 DEF HealthChecked
  <2>2. CASE HealthFailed(c)
    BY <2>2 DEF HealthFailed
  <2>3. CASE HealthAgain(c)
    BY <2>3 DEF HealthAgain
  <2> QED
    BY <1>7, <2>1, <2>2, <2>3 DEF HealthCheck
<1> QED
  BY <1>1, <1>2, <1>3, <1>4, <1>5, <1>6, <1>7 DEF CallStep, GetController, Operation

LEMMA TypeStep == TypeOK /\ [Next]_vars => TypeOK'
<1> SUFFICES ASSUME TypeOK, [Next]_vars PROVE TypeOK'
  OBVIOUS
<1>1. CASE Publish
  BY <1>1, NamesAssumption DEF Publish, TypeOK, Versions, db, calls, Down
<1>2. CASE UNCHANGED vars
  BY <1>2 DEF vars, db, calls, TypeOK, Down
<1> QED
  BY <1>1, <1>2, TypeWorkerStep, TypeCallStep DEF Next, WorkerStep, CallStep

-----------------------------------------------------------------------------
(* The inductive invariant.                                                *)

\* A worker that is up and past its constructor has a list in the database.
Recorded ==
    \A w \in Worker :
        ~Down(w) /\ runner[w] # CTOR => record.api_endpoints # NONE

\* Without a failure of its own, a refused creation means that the record is
\* there.
Raced ==
    \A w \in Worker : /\ db_step[w] = "recheck" => fault[w] \/ record.exists
                      /\ db_step[w] = "raised" => fault[w]

\* Only the controller's connection is left when the model's is closed.
Closing ==
    \A c \in Call : /\ pc[c] = "finally" => conn[c] \subseteq {"controller"}
                    /\ pc[c] \in {"no_controller", "sleep", "dead", "done"} => conn[c] = {}

EInv == TypeOK /\ Recorded /\ Raced /\ Closing

LEMMA EInvInit == Init => EInv
  BY TypeInit DEF Init, EInv, Recorded, Raced, Closing, Down

\* The record and the list in it are never taken away.
LEMMA RecordStays ==
  ASSUME TypeOK, [Next]_vars
  PROVE  /\ record.exists => record'.exists
         /\ record.api_endpoints # NONE => record'.api_endpoints # NONE
<1> USE DEF TypeOK
<1>1. CASE UNCHANGED record
  BY <1>1
<1>2. ASSUME NEW w \in Worker, DbCreate(w)
      PROVE  record'.exists /\ record'.api_endpoints = record.api_endpoints
  BY <1>2 DEF DbCreate
<1>3. ASSUME NEW w \in Worker, DbSet(w)
      PROVE  record'.exists = record.exists /\ record'.api_endpoints # NONE
  BY <1>3 DEF DbSet, Down
<1> QED
  BY <1>1, <1>2, <1>3
     DEF Next, vars, db, UpdateDb, Start, DbGet, DbCreateRaced, DbRecheck, DbRaised,
         DbFault, Crash, GetController, Connect, Resume, GiveUp, ConnectionFails,
         Answer, Operation, Begin, GetModel, GetModelFails, Cancel, DisconnectModel,
         DisconnectController, DisconnectFails, HealthCheck, HealthChecked, HealthFailed,
         HealthAgain,
         Publish

\* Recorded and Raced under the steps of a worker.
LEMMA DatabaseWorkerStep ==
  ASSUME TypeOK, TypeOK', Recorded, Raced, NEW w \in Worker, WorkerStep(w)
  PROVE  Recorded' /\ Raced'
<1>0. /\ record.exists => record'.exists
      /\ record.api_endpoints # NONE => record'.api_endpoints # NONE
  BY RecordStays DEF Next, WorkerStep
<1> USE CallsAssumption, NamesAssumption DEF TypeOK, Recorded, Raced, Down, DbStep, calls
<1>1. CASE Start(w)
  BY <1>0, <1>1 DEF Start
<1>2. CASE DbGet(w) \/ DbCreateRaced(w) \/ DbRecheck(w)
  BY <1>0, <1>2 DEF DbGet, DbCreateRaced, DbRecheck
<1>3. CASE DbCreate(w)
  BY <1>0, <1>3 DEF DbCreate
<1>4. CASE DbSet(w)
  <2>1. record'.api_endpoints # NONE
    BY <1>4 DEF DbSet
  <2> QED
    BY <1>0, <1>4, <2>1 DEF DbSet
<1>5. CASE DbRaised(w)
  BY <1>0, <1>5 DEF DbRaised
<1>6. CASE DbFault(w)
  BY <1>0, <1>6 DEF DbFault
<1>7. CASE Crash(w)
  BY <1>0, <1>7 DEF Crash
<1> QED
  BY <1>1, <1>2, <1>3, <1>4, <1>5, <1>6, <1>7 DEF WorkerStep, UpdateDb

\* A coroutine touches the record's state only when it starts an update.
LEMMA DatabaseCallStep ==
  ASSUME TypeOK, Recorded, Raced, NEW c \in Call, CallStep(c)
  PROVE  Recorded' /\ Raced'
<1> USE CallsAssumption, NamesAssumption DEF TypeOK, Recorded, Raced, Down, Free, db
<1>1. CASE Resume(c)
  BY <1>1 DEF Resume, DbStep
<1>2. ASSUME UNCHANGED <<endpoints, db>> PROVE Recorded' /\ Raced'
  BY <1>2
<1> QED
  BY <1>1, <1>2
     DEF CallStep, GetController, Connect, GiveUp, ConnectionFails, Answer, Operation,
         Begin, GetModel, GetModelFails, Cancel, DisconnectModel,
         DisconnectController, DisconnectFails, HealthCheck, HealthChecked, HealthFailed,
         HealthAgain

LEMMA ClosingWorkerStep ==
  ASSUME TypeOK, Closing, NEW w \in Worker, WorkerStep(w)
  PROVE  Closing'
<1> USE CallsAssumption, NamesAssumption DEF TypeOK, Closing, Goto, HealthStarted, calls
<1>1. CASE Start(w)
  BY <1>1 DEF Start
<1>2. CASE DbSet(w)
  BY <1>2 DEF DbSet
<1>3. CASE DbRaised(w)
  BY <1>3 DEF DbRaised
<1>4. CASE DbGet(w) \/ DbCreate(w) \/ DbCreateRaced(w) \/ DbRecheck(w) \/ DbFault(w)
  BY <1>4 DEF DbGet, DbCreate, DbCreateRaced, DbRecheck, DbFault
<1>5. CASE Crash(w)
  BY <1>5 DEF Crash
<1> QED
  BY <1>1, <1>2, <1>3, <1>4, <1>5 DEF WorkerStep, UpdateDb

LEMMA ClosingCallStep ==
  ASSUME TypeOK, Closing, NEW c \in Call, CallStep(c)
  PROVE  Closing'
<1> USE DEF TypeOK, Closing, Goto
<1>1. CASE Connect(c) \/ GiveUp(c)
  BY <1>1 DEF Connect, GiveUp
<1>2. CASE Resume(c)
  BY <1>2 DEF Resume
<1>3. CASE ConnectionFails(c) \/ Answer(c)
  BY <1>3 DEF ConnectionFails, Answer
<1>4. CASE Begin(c) \/ GetModel(c) \/ GetModelFails(c) \/ Cancel(c)
  BY <1>4 DEF Begin, GetModel, GetModelFails, Cancel
<1>5. CASE DisconnectModel(c)
  BY <1>5 DEF DisconnectModel
<1>6. CASE DisconnectController(c) \/ DisconnectFails(c)
  BY <1>6 DEF DisconnectController, DisconnectFails
<1>7. CASE HealthChecked(c)
  BY <1>7 DEF HealthChecked
<1>8. CASE HealthFailed(c) \/ HealthAgain(c)
  BY <1>8 DEF HealthFailed, HealthAgain
<1> QED
  BY <1>1, <1>2, <1>3, <1>4, <1>5, <1>6, <1>7, <1>8
     DEF CallStep, GetController, Operation, HealthCheck

LEMMA InductiveInvariant == Spec => []EInv
<1>1. EInv /\ [Next]_vars => EInv'
  <2> SUFFICES ASSUME EInv, [Next]_vars PROVE EInv'
    OBVIOUS
  <2>1. TypeOK'
    BY TypeStep DEF EInv
  <2>2. CASE Publish
    BY <2>1, <2>2 DEF Publish, EInv, Recorded, Raced, Closing, Down, db, calls
  <2>3. CASE UNCHANGED vars
    BY <2>1, <2>3 DEF vars, EInv, Recorded, Raced, Closing, Down, db, calls
  <2>4. ASSUME NEW w \in Worker, WorkerStep(w) PROVE EInv'
    BY <2>1, <2>4, DatabaseWorkerStep, ClosingWorkerStep DEF EInv
  <2>5. ASSUME NEW c \in Call, CallStep(c) PROVE EInv'
    BY <2>1, <2>5, DatabaseCallStep, ClosingCallStep DEF EInv
  <2> QED
    BY <2>2, <2>3, <2>4, <2>5 DEF Next, WorkerStep, CallStep
<1> QED
  BY EInvInit, <1>1, PTL DEF Spec

-----------------------------------------------------------------------------

\* Every variable has its type, whatever fails.
THEOREM TypeCorrect == Spec => []TypeOK
<1>1. EInv => TypeOK
  BY DEF EInv
<1> QED
  BY InductiveInvariant, <1>1, PTL

\* A worker that has started has a list in the database, whatever crashed.
THEOREM RecordCorrect == Spec => []RunningMeansRecorded
<1>1. EInv => RunningMeansRecorded
  BY NamesAssumption DEF EInv, Recorded, RunningMeansRecorded, Free
<1> QED
  BY InductiveInvariant, <1>1, PTL

\* Any number of workers may create the record at the same time.
THEOREM RaceCorrect == Spec => []RaceIsTolerated
<1>1. EInv => RaceIsTolerated
  BY DEF EInv, Raced, RaceIsTolerated
<1> QED
  BY InductiveInvariant, <1>1, PTL

\* No connection stays open but by get_model or a disconnect that raises, or by
\* a cancellation.
THEOREM ConnectionsCorrect == Spec => []NothingLeftOpen
<1>1. EInv => NothingLeftOpen
  BY DEF EInv, Closing, NothingLeftOpen
<1> QED
  BY InductiveInvariant, <1>1, PTL
=============================================================================
