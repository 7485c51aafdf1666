------------------------- MODULE ModelWatcher_proofs -------------------------
(***************************************************************************)
(* Proofs about ModelWatcher, for any entities, statuses and number of     *)
(* changes: its properties, and that it implements StatusReport.           *)
(***************************************************************************)
EXTENDS WatcherRefinement, TLAPS

\* Every status Juju may report has a name in the database.
LEMMA StatusType ==
  ASSUME NEW type \in EntityType, NEW s \in JujuStatus[type]
  PROVE  osm_status(type, s) \in OsmStatus
<1> USE DEF osm_status, JujuStatusToOSM, Workload, JujuStatus, OsmStatus, EntityType
<1>1. CASE type = "machine"
  BY <1>1
<1>2. CASE type = "application"
  BY <1>2
<1>3. CASE type = "action"
  BY <1>3
<1>4. CASE type = "unit"
  BY <1>4
<1> QED
  BY <1>1, <1>2, <1>3, <1>4

\* A change of status lengthens one history and leaves what it holds.
LEMMA HistoryGrows ==
  ASSUME TypeOK, NEW e \in Entity, JujuChange(e)
  PROVE  /\ history' \in [Entity -> Seq(AnyReported)]
         /\ \A f \in Entity :
               /\ Len(history'[f]) \in 1..MaxChanges
               /\ Len(history'[f]) >= Len(history[f])
               /\ \A v \in 1..Len(history[f]) : history'[f][v] = history[f][v]
               /\ \A v \in 1..Len(history'[f]) : history'[f][v] \in Reported[f]
<1> USE EntityAssumption
<1>1. PICK s \in Reported[e] : history' = [history EXCEPT ![e] = Append(@, s)]
  BY DEF JujuChange
<1>2. s \in AnyReported
  BY DEF AnyReported
<1>3. history \in [Entity -> Seq(AnyReported)]
  BY DEF TypeOK
<1>4. history' \in [Entity -> Seq(AnyReported)]
  BY <1>1, <1>2, <1>3
<1>5. ASSUME NEW f \in Entity
      PROVE  /\ Len(history[f]) \in 1..MaxChanges
             /\ \A v \in 1..Len(history[f]) : history[f][v] \in Reported[f]
  BY DEF TypeOK
<1>6. /\ Len(history'[e]) = Len(history[e]) + 1
      /\ \A v \in 1..Len(history[e]) : history'[e][v] = history[e][v]
      /\ history'[e][Len(history[e]) + 1] = s
  <2>1. history'[e] = Append(history[e], s)
    BY <1>1, <1>3
  <2> QED
    BY <2>1, <1>2, <1>3
<1>7. Len(history[e]) < MaxChanges
  BY DEF JujuChange
<1>8. ASSUME NEW v \in 1..Len(history'[e]) PROVE history'[e][v] \in Reported[e]
  <2>1. Len(history[e]) \in Nat
    BY <1>5
  <2>2. v \in 1..Len(history[e]) \/ v = Len(history[e]) + 1
    BY <1>6, <2>1
  <2> QED
    BY <1>1, <1>5, <1>6, <2>2
<1>9. ASSUME NEW f \in Entity, f # e PROVE history'[f] = history[f]
  BY <1>1, <1>3, <1>9
<1>10. Len(history'[e]) \in 1..MaxChanges /\ Len(history'[e]) >= Len(history[e])
  BY <1>5, <1>6, <1>7
<1>11. ASSUME NEW f \in Entity
       PROVE  /\ Len(history'[f]) \in 1..MaxChanges
              /\ Len(history'[f]) >= Len(history[f])
              /\ \A v \in 1..Len(history[f]) : history'[f][v] = history[f][v]
              /\ \A v \in 1..Len(history'[f]) : history'[f][v] \in Reported[f]
  <2>1. CASE f = e
    BY <1>6, <1>8, <1>10, <2>1
  <2>2. CASE f # e
    BY <1>5, <1>9, <2>2
  <2> QED
    BY <2>1, <2>2
<1> QED
  BY <1>4, <1>11

LEMMA TypeStep == TypeOK /\ [Next]_vars => TypeOK'
<1> SUFFICES ASSUME TypeOK, [Next]_vars PROVE TypeOK'
  OBVIOUS
<1> USE EntityAssumption DEF world, tasks
<1>1. CASE UNCHANGED vars
  BY <1>1 DEF vars, TypeOK
<1>2. ASSUME NEW e \in Entity, JujuChange(e) PROVE TypeOK'
  <2>1. UNCHANGED <<open, seen, delivered, tasks, handled, db, wait>>
    BY <1>2 DEF JujuChange
  <2>2. seen' \in 1..Len(history'[awaited])
    <3>1. /\ seen \in 1..Len(history[awaited])
          /\ Len(history[awaited]) \in 1..MaxChanges
      BY DEF TypeOK
    <3>2. /\ Len(history'[awaited]) >= Len(history[awaited])
          /\ Len(history'[awaited]) \in 1..MaxChanges
      BY <1>2, HistoryGrows
    <3> QED
      BY <2>1, <3>1, <3>2
  <2>3. \A f \in Entity : delivered'[f] <= Len(history'[f])
    <3>1. ASSUME NEW f \in Entity
          PROVE  /\ delivered[f] \in Nat /\ delivered[f] <= Len(history[f])
                 /\ Len(history[f]) \in 1..MaxChanges
      BY DEF TypeOK
    <3>2. ASSUME NEW f \in Entity
          PROVE  /\ Len(history'[f]) \in 1..MaxChanges
                 /\ Len(history'[f]) >= Len(history[f])
      BY <1>2, HistoryGrows
    <3> QED
      BY <2>1, <3>1, <3>2
  <2> HIDE DEF tasks
  <2>4. /\ history' \in [Entity -> Seq(AnyReported)]
        /\ \A f \in Entity :
              /\ Len(history'[f]) \in 1..MaxChanges
              /\ \A v \in 1..Len(history'[f]) : history'[f][v] \in Reported[f]
    BY <1>2, HistoryGrows
  <2> QED
    BY <2>1, <2>2, <2>3, <2>4 DEF TypeOK, tasks
<1>3. CASE RefreshModel
  BY <1>3 DEF RefreshModel, TypeOK
<1>4. CASE CloseConnection
  BY <1>4 DEF CloseConnection, TypeOK
<1>5. CASE FinalState \/ TotalTimeout \/ WaiterClosed
  BY <1>5 DEF FinalState, TotalTimeout, WaiterClosed, EndWaiter, TypeOK
<1>6. CASE NextChange
  <2>1. \A e \in Entity : Len(history[e]) \in 1..MaxChanges /\ handled[e] \in Nat
                          /\ delivered[e] \in Nat /\ handled[e] <= delivered[e]
                          /\ delivered[e] <= Len(history[e])
    BY DEF TypeOK
  <2>2. delivered' \in [Entity -> Nat] /\ \A e \in Entity : delivered'[e] = Len(history[e])
    BY <1>6, <2>1 DEF NextChange
  <2>3. /\ deltas' \subseteq [entity : Entity, version : Nat \ {0}]
        /\ \A d \in deltas' : d.version <= delivered'[d.entity]
    BY <1>6, <2>1, <2>2 DEF NextChange, Pending
  <2>4. \A e \in Entity : handled[e] <= delivered'[e] /\ delivered'[e] <= Len(history[e])
    BY <2>1, <2>2
  <2> QED
    BY <1>6, <2>2, <2>3, <2>4 DEF NextChange, TypeOK
<1>7. CASE CallbackReturns \/ EndOfChange \/ WatcherClosed
  BY <1>7 DEF CallbackReturns, EndOfChange, WatcherClosed, TypeOK
<1>8. ASSUME NEW d \in deltas, SkipDelta(d) PROVE TypeOK'
  BY <1>8 DEF SkipDelta, TypeOK
<1>9. ASSUME NEW d \in deltas, WriteDelta(d) PROVE TypeOK'
  <2>1. /\ d.entity \in Entity /\ d.version \in Nat \ {0}
        /\ d.version <= delivered[d.entity]
        /\ delivered[d.entity] \in Nat /\ delivered[d.entity] <= Len(history[d.entity])
        /\ Len(history[d.entity]) \in 1..MaxChanges
    BY DEF TypeOK
  <2>2. d.version \in 1..Len(history[d.entity])
    BY <2>1
  <2>3. db' \in {NONE} \cup [entity : Entity, vca_status : AnyReported, status : OsmStatus]
    <3> DEFINE s == history[d.entity][d.version]
    <3>1. s \in Reported[d.entity] /\ s \in AnyReported
      BY <2>1, <2>2 DEF AnyReported, TypeOK
    <3>2. osm_status(TypeOf[d.entity], s) \in OsmStatus
      BY <2>1, <3>1, StatusType
    <3>3. \/ db' = [entity |-> d.entity, vca_status |-> s,
                    status |-> osm_status(TypeOf[d.entity], s)]
          \/ db' = db
      BY <1>9 DEF WriteDelta
    <3> QED
      BY <2>1, <3>1, <3>2, <3>3 DEF TypeOK
  <2>4. handled' \in [Entity -> Nat] /\ \A e \in Entity : handled'[e] <= delivered[e]
    BY <1>9, <2>1 DEF WriteDelta, TypeOK
  <2> QED
    BY <1>9, <2>3, <2>4 DEF WriteDelta, TypeOK
<1>10. CASE ProgressTime
  BY <1>10 DEF ProgressTime, TypeOK
<1>11. CASE Return \/ Cancel
  BY <1>11 DEF Return, Cancel, EndWait, TypeOK
<1> QED
  BY <1>1, <1>2, <1>3, <1>4, <1>5, <1>6, <1>7, <1>8, <1>9, <1>10, <1>11
     DEF Next, Watcher

LEMMA TypeInit == Init => TypeOK
<1> SUFFICES ASSUME Init PROVE TypeOK
  OBVIOUS
<1>1. PICK first \in [Entity -> AnyReported] :
         /\ \A e \in Entity : first[e] \in Reported[e]
         /\ history = [e \in Entity |-> <<first[e]>>]
  BY DEF Init
<1>2. \A e \in Entity : /\ history[e] = <<first[e]>>
                        /\ Len(history[e]) = 1
                        /\ history[e][1] \in Reported[e]
  BY <1>1
<1>3. history \in [Entity -> Seq(AnyReported)]
  BY <1>1
<1>4. \A e \in Entity : /\ Len(history[e]) \in 1..MaxChanges
                        /\ \A v \in 1..Len(history[e]) : history[e][v] \in Reported[e]
  <2> SUFFICES ASSUME NEW e \in Entity
               PROVE  /\ Len(history[e]) \in 1..MaxChanges
                      /\ \A v \in 1..Len(history[e]) : history[e][v] \in Reported[e]
    OBVIOUS
  <2>1. Len(history[e]) = 1 /\ history[e][1] \in Reported[e]
    BY <1>2
  <2>2. 1 \in 1..MaxChanges
    BY EntityAssumption
  <2>3. \A v \in 1..1 : v = 1
    OBVIOUS
  <2> QED
    BY <2>1, <2>2, <2>3
<1>5. awaited \in Entity
  BY EntityAssumption
<1>6. Len(history[awaited]) = 1
  BY <1>2, <1>5
<1>7. /\ delivered \in [Entity -> Nat] /\ handled \in [Entity -> Nat]
      /\ \A e \in Entity : delivered[e] = 0 /\ handled[e] = 0
  BY DEF Init
<1>8. /\ \A e \in Entity : delivered[e] <= Len(history[e]) /\ handled[e] <= delivered[e]
      /\ seen \in 1..Len(history[awaited])
  <2>1. \A e \in Entity : Len(history[e]) = 1
    BY <1>2
  <2>2. seen = 1
    BY DEF Init
  <2> QED
    BY <1>6, <1>7, <2>1, <2>2
<1>9. /\ open \in BOOLEAN /\ waiter = "running" /\ watcher = "next" /\ deltas = {}
      /\ late \in BOOLEAN /\ db = NONE /\ wait = "waiting"
  BY DEF Init
<1> QED
  BY <1>3, <1>4, <1>7, <1>8, <1>9 DEF TypeOK

-----------------------------------------------------------------------------
(* The inductive invariant.                                                *)

\* A delta still to be looked at is the newest one sent, and was not handled.
DeltasFresh ==
    \A d \in deltas : /\ d.version = delivered[d.entity]
                      /\ handled[d.entity] < d.version

\* While the watcher runs, what is sent and not handled is still in deltas; it
\* asks for the next change only with none left.
NothingLost ==
    WatcherRuns =>
        /\ watcher = "next" => deltas = {}
        /\ \A e \in Entity : Writes(e) /\ handled[e] # delivered[e] =>
              \E d \in deltas : d.entity = e

\* A task is cancelled by the end of the wait and by nothing else, and no task
\* outlives it.
TasksEnd ==
    /\ wait # "waiting" => waiter # "running" /\ ~WatcherRuns
    /\ wait = "waiting" => waiter # "cancelled" /\ watcher # "cancelled"

\* A waiter that saw a final state saw one that was there; a wait that returned
\* had a task that was done before it was cancelled.
WaiterSaw ==
    waiter = "final" =>
        \E v \in 1..Len(history[awaited]) : history[awaited][v] \in final_states
ReturnedOnDone ==
    wait = "returned" =>
        \/ waiter \in {"final", "timeout", "closed"}
        \/ watcher \in {"timeout", "closed", "error"}


\* What the database says is what osm_status makes of a status the entity had.
DbTold ==
    db # NONE => /\ db.vca_status \in Reported[db.entity]
                 /\ db.status = osm_status(TypeOf[db.entity], db.vca_status)

WInv == /\ TypeOK /\ DeltasFresh /\ NothingLost /\ TasksEnd /\ WaiterSaw
        /\ ReturnedOnDone /\ DbTold

LEMMA WInvInit == Init => WInv
<1> SUFFICES ASSUME Init PROVE WInv
  OBVIOUS
<1>1. TypeOK
  BY TypeInit
<1>2. \A e \in Entity : delivered[e] = 0 /\ handled[e] = 0
  BY DEF Init
<1>3. /\ deltas = {} /\ watcher = "next" /\ waiter = "running" /\ wait = "waiting"
      /\ db = NONE
  BY DEF Init
<1> QED
  BY <1>1, <1>2, <1>3
     DEF WInv, DeltasFresh, NothingLost, TasksEnd, WaiterSaw, ReturnedOnDone, DbTold,
         WatcherRuns

\* What the deltas and the watcher do to each other.
LEMMA DeltasStep ==
  ASSUME TypeOK, TypeOK', DeltasFresh, NothingLost, TasksEnd, [Next]_vars
  PROVE  DeltasFresh' /\ NothingLost'
<1> USE EntityAssumption DEF DeltasFresh, NothingLost, WatcherRuns, Writes, Watched, tasks, world
<1>1. ASSUME UNCHANGED <<delivered, deltas, handled, watcher>>
      PROVE  DeltasFresh' /\ NothingLost'
  BY <1>1
<1>2. CASE NextChange
  <2>1. \A e \in Entity : /\ delivered[e] \in Nat /\ handled[e] \in Nat
                          /\ handled[e] <= delivered[e] /\ delivered[e] <= Len(history[e])
                          /\ Len(history[e]) \in 1..MaxChanges
    BY DEF TypeOK
  <2>2. /\ deltas' = {[entity |-> e, version |-> Len(history[e])] : e \in Pending}
        /\ \A e \in Entity : delivered'[e] = Len(history[e])
        /\ watcher = "next" /\ watcher' = "batch" /\ handled' = handled
    BY <1>2 DEF NextChange
  <2>3. DeltasFresh'
    BY <2>1, <2>2 DEF Pending
  <2>4. ASSUME NEW e \in Entity, Writes(e), handled[e] # delivered'[e]
        PROVE  \E d \in deltas' : d.entity = e
    <3>1. handled[e] = delivered[e]
      BY <2>2, <2>4
    <3>2. e \in Pending
      BY <2>1, <2>2, <2>4, <3>1 DEF Pending
    <3>3. [entity |-> e, version |-> Len(history[e])] \in deltas'
      BY <2>2, <3>2
    <3> QED
      BY <3>3
  <2> QED
    BY <2>2, <2>3, <2>4
<1>3. ASSUME NEW d \in deltas, SkipDelta(d) PROVE DeltasFresh' /\ NothingLost'
  BY <1>3 DEF SkipDelta
<1>4. ASSUME NEW d \in deltas, WriteDelta(d) PROVE DeltasFresh' /\ NothingLost'
  <2>1. /\ d.entity \in Entity /\ d.version \in Nat /\ d.version = delivered[d.entity]
        /\ deltas \subseteq [entity : Entity, version : Nat \ {0}]
        /\ handled \in [Entity -> Nat]
    BY DEF TypeOK
  <2>2. /\ deltas' = deltas \ {d} /\ watcher = "batch" /\ watcher' # "next"
        /\ handled' = [handled EXCEPT ![d.entity] = d.version]
        /\ delivered' = delivered
    BY <1>4 DEF WriteDelta
  <2>3. ASSUME NEW x \in deltas', x.entity = d.entity PROVE FALSE
    <3>1. /\ x \in [entity : Entity, version : Nat \ {0}]
          /\ d \in [entity : Entity, version : Nat \ {0}]
          /\ x.version = d.version
      BY <2>1, <2>2, <2>3
    <3>2. x = d
      BY <2>3, <3>1
    <3> QED
      BY <2>2, <3>2
  <2>4. DeltasFresh'
    BY <2>1, <2>2, <2>3
  <2>5. ASSUME NEW e \in Entity, Writes(e), handled'[e] # delivered[e]
        PROVE  \E x \in deltas' : x.entity = e
    <3>1. e # d.entity /\ handled'[e] = handled[e]
      BY <2>1, <2>2, <2>5
    <3> QED
      BY <2>2, <2>5, <3>1
  <2> QED
    BY <2>2, <2>4, <2>5
<1>5. CASE CallbackReturns \/ EndOfChange \/ WatcherClosed
  BY <1>5 DEF CallbackReturns, EndOfChange, WatcherClosed
<1>6. CASE Return \/ Cancel
  BY <1>6 DEF Return, Cancel, EndWait
<1> QED
  BY <1>1, <1>2, <1>3, <1>4, <1>5, <1>6
     DEF Next, Watcher, vars, JujuChange, RefreshModel, CloseConnection, FinalState,
         TotalTimeout, WaiterClosed, EndWaiter, ProgressTime

\* What the tasks and the wait do to each other.
LEMMA TasksStep ==
  ASSUME TypeOK, TasksEnd, WaiterSaw, ReturnedOnDone, [Next]_vars
  PROVE  TasksEnd' /\ WaiterSaw' /\ ReturnedOnDone'
<1> USE EntityAssumption
    DEF TasksEnd, WaiterSaw, ReturnedOnDone, WatcherRuns, final_states, tasks, world
<1>1. ASSUME UNCHANGED <<history, waiter, watcher, wait>>
      PROVE  TasksEnd' /\ WaiterSaw' /\ ReturnedOnDone'
  BY <1>1
<1>2. ASSUME NEW e \in Entity, JujuChange(e)
      PROVE  TasksEnd' /\ WaiterSaw' /\ ReturnedOnDone'
  <2>1. \A v \in 1..Len(history[awaited]) :
           v \in 1..Len(history'[awaited]) /\ history'[awaited][v] = history[awaited][v]
    <3>1. Len(history[awaited]) \in 1..MaxChanges
      BY DEF TypeOK
    <3>2. /\ Len(history'[awaited]) \in 1..MaxChanges
          /\ Len(history'[awaited]) >= Len(history[awaited])
          /\ \A v \in 1..Len(history[awaited]) : history'[awaited][v] = history[awaited][v]
      BY <1>2, HistoryGrows
    <3> QED
      BY <3>1, <3>2
  <2>2. UNCHANGED <<waiter, watcher, wait>>
    BY <1>2 DEF JujuChange
  <2> QED
    BY <2>1, <2>2
<1>3. CASE FinalState
  BY <1>3 DEF FinalState, EndWaiter, TypeOK
<1>4. CASE TotalTimeout \/ WaiterClosed
  BY <1>4 DEF TotalTimeout, WaiterClosed, EndWaiter
<1>5. CASE NextChange \/ CallbackReturns \/ EndOfChange \/ WatcherClosed
  BY <1>5 DEF NextChange, CallbackReturns, EndOfChange, WatcherClosed
<1>6. ASSUME NEW d \in deltas, SkipDelta(d) \/ WriteDelta(d)
      PROVE  TasksEnd' /\ WaiterSaw' /\ ReturnedOnDone'
  BY <1>6 DEF SkipDelta, WriteDelta
<1>7. CASE Return
  BY <1>7 DEF Return, EndWait, OneTaskDone, TypeOK
<1>8. CASE Cancel
  BY <1>8 DEF Cancel, EndWait
<1> QED
  BY <1>1, <1>2, <1>3, <1>4, <1>5, <1>6, <1>7, <1>8
     DEF Next, Watcher, vars, RefreshModel, CloseConnection, ProgressTime

\* Only a write changes the database.
LEMMA DbStep ==
  ASSUME TypeOK, DbTold, [Next]_vars
  PROVE  DbTold'
<1>1. CASE db' = db
  BY <1>1 DEF DbTold
<1>2. ASSUME NEW d \in deltas, WriteDelta(d) PROVE DbTold'
  <2> DEFINE s == history[d.entity][d.version]
  <2>1. /\ d.entity \in Entity /\ d.version \in Nat \ {0}
        /\ d.version <= delivered[d.entity]
        /\ delivered[d.entity] \in Nat /\ delivered[d.entity] <= Len(history[d.entity])
        /\ Len(history[d.entity]) \in 1..MaxChanges
    BY DEF TypeOK
  <2>2. d.version \in 1..Len(history[d.entity])
    BY <2>1, EntityAssumption
  <2>3. s \in Reported[d.entity]
    BY <2>1, <2>2 DEF TypeOK
  <2>4. \/ db' = [entity |-> d.entity, vca_status |-> s,
                  status |-> osm_status(TypeOf[d.entity], s)]
        \/ db' = db
    BY <1>2 DEF WriteDelta
  <2>5. CASE db' = db
    BY <2>5 DEF DbTold
  <2>6. CASE db' # db
    <3>1. /\ db'.entity = d.entity /\ db'.vca_status = s
          /\ db'.status = osm_status(TypeOf[d.entity], s)
      BY <2>4, <2>6
    <3> QED
      BY <2>3, <3>1 DEF DbTold
  <2> QED
    BY <2>5, <2>6
<1> QED
  BY <1>1, <1>2
     DEF Next, Watcher, vars, tasks, JujuChange, RefreshModel, CloseConnection,
         FinalState, TotalTimeout, WaiterClosed, EndWaiter, NextChange, SkipDelta,
         CallbackReturns, EndOfChange, WatcherClosed, ProgressTime, Return, Cancel,
         EndWait

\* The tables agree: of the types one waits for, no status but a final one is
\* COMPLETED.
LEMMA CompletedMeansFinal ==
  ASSUME NEW type \in DOMAIN FinalStatus, NEW s \in JujuStatus[type],
         osm_status(type, s) = "COMPLETED"
  PROVE  s \in FinalStatus[type]
<1> USE DEF osm_status, JujuStatusToOSM, Workload, JujuStatus, FinalStatus
<1>1. CASE type = "machine"
  BY <1>1
<1>2. CASE type = "application"
  BY <1>2
<1>3. CASE type = "action"
  BY <1>3
<1> QED
  BY <1>1, <1>2, <1>3

LEMMA InductiveInvariant == Spec => []WInv
<1>1. WInv /\ [Next]_vars => WInv'
  BY TypeStep, DeltasStep, TasksStep, DbStep DEF WInv
<1> QED
  BY WInvInit, <1>1, PTL DEF Spec

-----------------------------------------------------------------------------

\* Every variable has its type, whatever Juju reports and whichever task ends
\* first.
THEOREM TypeCorrect == Spec => []TypeOK
<1>1. WInv => TypeOK
  BY DEF WInv
<1> QED
  BY InductiveInvariant, <1>1, PTL

\* A watcher that asks for the next change has put every status it was sent of
\* the awaited entity and its units through the database write.
THEOREM CaughtUpCorrect == Spec => []WatcherIsCaughtUp
<1>1. WInv => WatcherIsCaughtUp
  BY DEF WInv, NothingLost, WatcherIsCaughtUp, WatcherRuns
<1> QED
  BY InductiveInvariant, <1>1, PTL

\* A wait that returned saw a final state, or lost a task to a timeout, the
\* connection or an exception.
THEOREM ReturnCorrect == Spec => []ReturnsOnFinalState
<1>1. WInv => ReturnsOnFinalState
  BY DEF WInv, ReturnedOnDone, WaiterSaw, ReturnsOnFinalState
<1> QED
  BY InductiveInvariant, <1>1, PTL

\* The writes of an entity's statuses follow the order of the statuses.
THEOREM OrderCorrect == Spec => WritesInOrder
<1>1. WInv /\ [Next]_vars => [\A e \in Entity : handled'[e] >= handled[e]]_handled
  <2> SUFFICES ASSUME WInv, Next, handled' # handled
               PROVE  \A e \in Entity : handled'[e] >= handled[e]
    BY DEF vars
  <2>1. PICK d \in deltas : WriteDelta(d)
    BY DEF Next, Watcher, JujuChange, RefreshModel, CloseConnection, FinalState,
           TotalTimeout, WaiterClosed, EndWaiter, NextChange, SkipDelta,
           CallbackReturns, EndOfChange, WatcherClosed, ProgressTime, Return, Cancel,
           EndWait
  <2>2. /\ handled \in [Entity -> Nat] /\ d.entity \in Entity /\ d.version \in Nat
        /\ handled[d.entity] < d.version
    BY DEF WInv, TypeOK, DeltasFresh
  <2>3. handled' = [handled EXCEPT ![d.entity] = d.version]
    BY <2>1 DEF WriteDelta
  <2> QED
    BY <2>2, <2>3
<1> QED
  BY InductiveInvariant, <1>1, PTL DEF Spec, WritesInOrder

\* Nothing is written to the database once the wait has ended.
THEOREM QuietAfterEnd == Spec => NoWriteAfterEnd
<1>1. WInv /\ [Next]_vars => [wait = "waiting"]_<<db, handled>>
  <2> SUFFICES ASSUME WInv, Next, <<db, handled>>' # <<db, handled>>
               PROVE  wait = "waiting"
    BY DEF vars
  <2>1. PICK d \in deltas : WriteDelta(d)
    BY DEF Next, Watcher, JujuChange, RefreshModel, CloseConnection, FinalState,
           TotalTimeout, WaiterClosed, EndWaiter, NextChange, SkipDelta,
           CallbackReturns, EndOfChange, WatcherClosed, ProgressTime, Return, Cancel,
           EndWait
  <2> QED
    BY <2>1 DEF WriteDelta, WInv, TasksEnd, WatcherRuns
<1> QED
  BY InductiveInvariant, <1>1, PTL DEF Spec, NoWriteAfterEnd

\* A database that calls the awaited entity COMPLETED was told so by a final
\* status.
THEOREM CompletedCorrect == Spec => []CompletedIsFinal
<1>1. WInv => CompletedIsFinal
  <2> SUFFICES ASSUME WInv, db # NONE, db.entity = awaited, db.status = "COMPLETED"
               PROVE  db.vca_status \in final_states
    BY DEF CompletedIsFinal
  <2>1. /\ TypeOf[awaited] \in DOMAIN FinalStatus
        /\ Reported[awaited] \subseteq JujuStatus[TypeOf[awaited]]
    BY EntityAssumption
  <2>2. /\ db.vca_status \in Reported[awaited]
        /\ osm_status(TypeOf[awaited], db.vca_status) = "COMPLETED"
    BY DEF WInv, DbTold
  <2> QED
    BY <2>1, <2>2, CompletedMeansFinal DEF final_states
<1> QED
  BY InductiveInvariant, <1>1, PTL

-----------------------------------------------------------------------------
(* The refinement.                                                         *)

\* The same tables, and the same database record, on both levels.
LEMMA SameStatus ==
  ASSUME NEW type, NEW s
  PROVE  Promise!osm_status(type, s) = osm_status(type, s)
BY DEF Promise!osm_status, osm_status, Promise!JujuStatusToOSM, JujuStatusToOSM,
       Promise!Workload, Workload

LEMMA PromiseInit == Init => Promise!Init
<1> SUFFICES ASSUME Init PROVE Promise!Init
  OBVIOUS
<1>1. gaveUp = FALSE
  BY DEF Init, gaveUp
<1> QED
  BY <1>1 DEF Init, Promise!Init, AnyReported

\* A write is a report of a status the entity went through, newer than the last.
LEMMA WriteReports ==
  ASSUME WInv, NEW d \in deltas, WriteDelta(d)
  PROVE  \E e \in writers : \E v \in DOMAIN history[e] : Promise!Report(e, v)
<1> DEFINE e == d.entity
           v == d.version
<1>1. /\ e \in Entity /\ v \in Nat \ {0} /\ v = delivered[e]
      /\ delivered[e] <= Len(history[e]) /\ handled[e] \in Nat /\ handled[e] < v
      /\ history[e] \in Seq(AnyReported)
  BY DEF WInv, TypeOK, DeltasFresh
<1>2. v \in DOMAIN history[e]
  BY <1>1
<1>3. e \in writers
  BY <1>1 DEF WriteDelta, writers
<1>4. /\ watcher = "batch" /\ waiter' = waiter /\ watcher' \in {"batch", "callback", "error"}
  BY DEF WriteDelta
<1>5. wait = "waiting"
  BY <1>4 DEF WInv, TasksEnd, WatcherRuns
<1>6. gaveUp' \in {gaveUp, TRUE}
  BY <1>4 DEF gaveUp
<1>7. \/ db' = [entity |-> e, vca_status |-> history[e][v],
               status |-> Promise!osm_status(TypeOf[e], history[e][v])]
      \/ db' = db
  BY SameStatus DEF WriteDelta
<1>8. /\ handled' = [handled EXCEPT ![e] = v]
      /\ UNCHANGED <<history, wait>>
  BY DEF WriteDelta, world
<1>9. Promise!Report(e, v)
  BY <1>1, <1>5, <1>6, <1>7, <1>8 DEF Promise!Report
<1> QED
  BY <1>2, <1>3, <1>9

\* The end of a task is giving up, or changes nothing the promise speaks of.
LEMMA TaskEnds ==
  ASSUME WInv, UNCHANGED <<history, handled, db, wait>>,
         \/ waiter = "running" /\ watcher' = watcher
            /\ waiter' \in {"final", "timeout", "closed"}
         \/ WatcherRuns /\ waiter' = waiter
            /\ watcher' \in {"next", "batch", "callback", "timeout", "closed", "error"}
  PROVE  Promise!GiveUp \/ UNCHANGED Promise!vars
<1>1. wait = "waiting"
  BY DEF WInv, TasksEnd
<1>2. gaveUp \in BOOLEAN /\ gaveUp' \in BOOLEAN
  BY DEF gaveUp
<1>3. gaveUp => gaveUp'
  BY DEF gaveUp, WatcherRuns
<1>4. CASE gaveUp'
  BY <1>1, <1>2, <1>4 DEF Promise!GiveUp
<1>5. CASE ~gaveUp'
  <2>1. gaveUp' = gaveUp
    BY <1>2, <1>3, <1>5
  <2> QED
    BY <2>1 DEF Promise!vars
<1> QED
  BY <1>2, <1>4, <1>5

\* A wait that ends leaves what was given up as it is, and returns only on it or
\* on a final state.
LEMMA WaitReturns ==
  ASSUME WInv, Return \/ Cancel
  PROVE  Promise!Return \/ Promise!Cancel
<1>1. /\ wait = "waiting"
      /\ waiter' = IF waiter = "running" THEN "cancelled" ELSE waiter
      /\ watcher' = IF WatcherRuns THEN "cancelled" ELSE watcher
      /\ UNCHANGED <<history, handled, db>>
  BY DEF Return, Cancel, EndWait, world
<1>2. gaveUp' = gaveUp
  BY <1>1 DEF gaveUp, WatcherRuns
<1>3. CASE Return
  <2>1. wait' = "returned" /\ OneTaskDone
    BY <1>3 DEF Return, EndWait
  <2>2. waiter \in {"final", "timeout", "closed"} \/ watcher \in {"timeout", "closed", "error"}
    BY <1>1, <2>1 DEF WInv, TypeOK, TasksEnd, OneTaskDone, WatcherRuns
  <2>3. gaveUp \/ Promise!HadFinal
    <3>1. CASE waiter = "final"
      <4>1. PICK v \in 1..Len(history[awaited]) : history[awaited][v] \in final_states
        BY <3>1 DEF WInv, WaiterSaw
      <4>2. history[awaited] \in Seq(AnyReported)
        BY EntityAssumption DEF WInv, TypeOK
      <4>3. v \in DOMAIN history[awaited]
        BY <4>2
      <4> QED
        BY <4>1, <4>3 DEF Promise!HadFinal
    <3>2. CASE waiter # "final"
      BY <2>2, <3>2 DEF gaveUp
    <3> QED
      BY <3>1, <3>2
  <2> QED
    BY <1>1, <1>2, <2>1, <2>3 DEF Promise!Return
<1>4. CASE Cancel
  BY <1>1, <1>2, <1>4 DEF Cancel, EndWait, Promise!Cancel
<1> QED
  BY <1>3, <1>4

LEMMA PromiseStep ==
  ASSUME WInv, [Next]_vars
  PROVE  [Promise!Next]_(Promise!vars)
<1> USE DEF world, tasks
<1>1. ASSUME UNCHANGED <<history, handled, db, waiter, watcher, wait>>
      PROVE  UNCHANGED Promise!vars
  BY <1>1 DEF Promise!vars, gaveUp
<1>2. ASSUME NEW e \in Entity, JujuChange(e) PROVE Promise!Happen(e)
  BY <1>2 DEF JujuChange, Promise!Happen, gaveUp
<1>3. CASE RefreshModel \/ CloseConnection \/ ProgressTime \/ UNCHANGED vars
  BY <1>1, <1>3 DEF RefreshModel, CloseConnection, ProgressTime, vars
<1>4. CASE FinalState \/ TotalTimeout \/ WaiterClosed
  <2>1. /\ waiter = "running" /\ watcher' = watcher
        /\ waiter' \in {"final", "timeout", "closed"}
        /\ UNCHANGED <<history, handled, db, wait>>
    BY <1>4 DEF FinalState, TotalTimeout, WaiterClosed, EndWaiter
  <2> QED
    BY <2>1, TaskEnds DEF Promise!Next
<1>5. CASE NextChange \/ CallbackReturns \/ EndOfChange \/ WatcherClosed
  <2>1. /\ WatcherRuns /\ waiter' = waiter
        /\ watcher' \in {"next", "batch", "callback", "timeout", "closed", "error"}
        /\ UNCHANGED <<history, handled, db, wait>>
    BY <1>5 DEF NextChange, CallbackReturns, EndOfChange, WatcherClosed, WatcherRuns
  <2> QED
    BY <2>1, TaskEnds DEF Promise!Next
<1>6. ASSUME NEW d \in deltas, SkipDelta(d) PROVE UNCHANGED Promise!vars
  BY <1>1, <1>6 DEF SkipDelta
<1>7. ASSUME NEW d \in deltas, WriteDelta(d) PROVE Promise!Next
  BY <1>7, WriteReports DEF Promise!Next
<1>8. CASE Return \/ Cancel
  BY <1>8, WaitReturns DEF Promise!Next
<1> QED
  BY <1>2, <1>3, <1>4, <1>5, <1>6, <1>7, <1>8 DEF Next, Watcher, Promise!Next

\* wait_for keeps the promise of a status report, for any entities, histories
\* and interleaving of its tasks: the statuses written are ones the entity had,
\* in their order and while the wait lasts, and it returns on a final state or
\* on giving up.
THEOREM StatusReportImplemented == Spec => ImplementsStatusReport
<1>1. WInv /\ [Next]_vars => [Promise!Next]_(Promise!vars)
  BY PromiseStep
<1> QED
  BY InductiveInvariant, PromiseInit, <1>1, PTL
     DEF Spec, ImplementsStatusReport, Promise!Spec
=============================================================================
