---------------------------- MODULE ModelWatcher -----------------------------
(***************************************************************************)
(* JujuModelWatcher (src/n2vc/juju_watcher.py): one wait_for on a machine, *)
(* an application or an action, with the two coroutines it races and the   *)
(* database the watcher writes to.                                         *)
(*                                                                         *)
(* The two coroutines learn of a change in different ways: the waiter      *)
(* polls the Model object, which has its own AllWatcher and lags behind    *)
(* Juju, and the watcher asks an AllWatcher of its own for the next deltas.*)
(* An AllWatcher first delivers every entity and then the ones that have   *)
(* changed, each once, with its present status.  Time is a choice: a timer *)
(* may run out at any moment.                                              *)
(***************************************************************************)
EXTENDS Naturals, Sequences, JujuStatus

CONSTANTS
    Entity,     \* the entities of the model
    TypeOf,     \* their types
    AppOf,      \* the application a unit belongs to
    Reported,   \* the statuses Juju may report of an entity
    awaited,    \* the entity wait_for is called with
    MaxChanges, \* bound: statuses an entity goes through
    NONE        \* nothing written

ASSUME EntityAssumption ==
    /\ TypeOf \in [Entity -> EntityType]
    /\ AppOf \in [Entity -> Entity \cup {NONE}]
    /\ \A e \in Entity : Reported[e] \subseteq JujuStatus[TypeOf[e]]
    /\ awaited \in Entity /\ TypeOf[awaited] \in DOMAIN FinalStatus
    /\ NONE \notin Entity
    /\ MaxChanges \in Nat \ {0}

VARIABLES
    history,    \* the statuses an entity has had, the last one the present
    open,       \* the connection of the model
    seen,       \* how much of awaited's history the Model object knows
    delivered,  \* how much of each history the watcher's AllWatcher has sent
    waiter,     \* wait_for_entity: running, or how it ended
    watcher,    \* the watcher task: where it is, or how it ended
    deltas,     \* the deltas of the last change still to be looked at
    handled,    \* the last delta of each entity that led to a database write
    late,       \* time.time() > timeout_end
    db,         \* the status document: the last write that succeeded
    wait        \* wait_for itself: waiting, returned or cancelled

world == <<history, open>>
tasks == <<waiter, watcher, deltas, late>>
vars == <<world, seen, delivered, tasks, handled, db, wait>>

entity_types ==
    {TypeOf[awaited]} \cup (IF TypeOf[awaited] = "application" THEN {"unit"} ELSE {})
final_states == FinalStatus[TypeOf[awaited]]

AnyReported == UNION {Reported[e] : e \in Entity}
Watched(e) == TypeOf[e] \in entity_types
\* The delta carries the id that was asked for; a unit carries its application's.
Writes(e) == e = awaited \/ (Watched(e) /\ TypeOf[e] = "unit" /\ AppOf[e] = awaited)
Pending == {e \in Entity : delivered[e] < Len(history[e])}

WatcherRuns == watcher \in {"next", "batch", "callback"}

Init ==
    /\ \E first \in [Entity -> AnyReported] :
          /\ \A e \in Entity : first[e] \in Reported[e]
          /\ history = [e \in Entity |-> <<first[e]>>]
    /\ open = TRUE
    /\ seen = 1
    /\ delivered = [e \in Entity |-> 0]
    /\ waiter = "running"
    /\ watcher = "next"
    /\ deltas = {}
    /\ handled = [e \in Entity |-> 0]
    /\ late = FALSE
    /\ db = NONE
    /\ wait = "waiting"

-----------------------------------------------------------------------------
(* Juju and the connection (external).                                     *)

JujuChange(e) ==
    /\ Len(history[e]) < MaxChanges
    /\ \E s \in Reported[e] \ {history[e][Len(history[e])]} :
          history' = [history EXCEPT ![e] = Append(@, s)]
    /\ UNCHANGED <<open, seen, delivered, tasks, handled, db, wait>>

\* The Model object catches up.
RefreshModel ==
    /\ open
    /\ seen < Len(history[awaited])
    /\ seen' = Len(history[awaited])
    /\ UNCHANGED <<world, delivered, tasks, handled, db, wait>>

CloseConnection ==
    /\ open
    /\ open' = FALSE
    /\ UNCHANGED <<history, seen, delivered, tasks, handled, db, wait>>

-----------------------------------------------------------------------------
(* The waiter: wait_for(model.block_until(...), timeout=total_timeout).    *)

EndWaiter(how) ==
    /\ waiter = "running"
    /\ waiter' = how
    /\ UNCHANGED <<world, seen, delivered, watcher, deltas, late, handled, db, wait>>

\* Variants of the actions below, each with a plausible mistake: the predicate
\* tests any status at all, no total timeout is set, only the awaited entity is
\* written, the watcher is not cancelled.
FinalStateUntested == EndWaiter("final")

NoTotalTimeout == FALSE /\ EndWaiter("timeout")

SkipUnitDelta(d) ==
    /\ watcher = "batch" /\ d \in deltas /\ d.entity # awaited
    /\ deltas' = deltas \ {d}
    /\ late' = (late /\ ~Watched(d.entity))
    /\ UNCHANGED <<world, seen, delivered, waiter, watcher, handled, db, wait>>

EndWaitLeavingWatcher(how) ==
    /\ wait = "waiting"
    /\ wait' = how
    /\ waiter' = IF waiter = "running" THEN "cancelled" ELSE waiter
    /\ UNCHANGED <<world, seen, delivered, watcher, deltas, late, handled, db>>

FinalState ==
    /\ history[awaited][seen] \in final_states
    /\ EndWaiter("final")

TotalTimeout == EndWaiter("timeout")

WaiterClosed == ~open /\ EndWaiter("closed")

-----------------------------------------------------------------------------
(* The watcher.                                                            *)

\* allwatcher.Next() returns.
NextChange ==
    /\ watcher = "next" /\ open /\ Pending # {}
    /\ deltas' = {[entity |-> e, version |-> Len(history[e])] : e \in Pending}
    /\ delivered' = [e \in Entity |-> Len(history[e])]
    /\ watcher' = "batch"
    /\ UNCHANGED <<world, seen, waiter, late, handled, db, wait>>

\* A delta of an entity whose status is not written: one of a watched type
\* moves the progress timer on.
SkipDelta(d) ==
    /\ watcher = "batch" /\ d \in deltas /\ ~Writes(d.entity)
    /\ deltas' = deltas \ {d}
    /\ late' = (late /\ ~Watched(d.entity))
    /\ UNCHANGED <<world, seen, delivered, waiter, watcher, handled, db, wait>>

\* A delta of the awaited entity or of its units: the status is translated and
\* written, and the callback of write_app_status_to_db is awaited.  A DbException
\* is swallowed there, and the callback left out; any other ends the task.  Of a
\* machine the agent-status decides, which goes into the status; the
\* instance-status beside it, which goes into vca_status, is left out.
WriteDelta(d) ==
    /\ watcher = "batch" /\ d \in deltas /\ Writes(d.entity)
    /\ deltas' = deltas \ {d}
    /\ late' = FALSE
    /\ LET e == d.entity
           s == history[e][d.version]
       IN  \/ /\ db' = [entity |-> e, vca_status |-> s,
                       status |-> osm_status(TypeOf[e], s)]
              /\ watcher' = "callback"
           \/ UNCHANGED db /\ watcher' \in {"batch", "error"}
    /\ handled' = [handled EXCEPT ![d.entity] = d.version]
    /\ UNCHANGED <<world, seen, delivered, waiter, wait>>

\* on_update_db returns, or raises what is not a DbException.
CallbackReturns ==
    /\ watcher = "callback"
    /\ watcher' \in {"batch", "error"}
    /\ UNCHANGED <<world, seen, delivered, waiter, deltas, late, handled, db, wait>>

\* All deltas are done: the progress timer is looked at, here and nowhere else.
EndOfChange ==
    /\ watcher = "batch" /\ deltas = {}
    /\ watcher' = IF late THEN "timeout" ELSE "next"
    /\ UNCHANGED <<world, seen, delivered, waiter, deltas, late, handled, db, wait>>

\* ConnectionClosed is swallowed: the task ends as if all were well.
WatcherClosed ==
    /\ watcher = "next" /\ ~open
    /\ watcher' = "closed"
    /\ UNCHANGED <<world, seen, delivered, waiter, deltas, late, handled, db, wait>>

\* progress_timeout passes since timeout_end was set.
ProgressTime ==
    /\ WatcherRuns /\ ~late
    /\ late' = TRUE
    /\ UNCHANGED <<world, seen, delivered, waiter, watcher, deltas, handled, db, wait>>

-----------------------------------------------------------------------------
(* wait_for.                                                               *)

OneTaskDone == waiter # "running" \/ ~WatcherRuns

\* However it ends, both tasks are cancelled in the finally clause.
EndWait(how) ==
    /\ wait = "waiting"
    /\ wait' = how
    /\ waiter' = IF waiter = "running" THEN "cancelled" ELSE waiter
    /\ watcher' = IF WatcherRuns THEN "cancelled" ELSE watcher
    /\ UNCHANGED <<world, seen, delivered, deltas, late, handled, db>>

\* asyncio.wait returns when the first task is done, and does not raise what
\* that task raised.
Return == OneTaskDone /\ EndWait("returned")

\* The caller of wait_for is cancelled.
Cancel == EndWait("cancelled")

-----------------------------------------------------------------------------

Watcher ==
    \/ NextChange \/ CallbackReturns \/ EndOfChange \/ WatcherClosed
    \/ \E d \in deltas : SkipDelta(d) \/ WriteDelta(d)

Next ==
    \/ \E e \in Entity : JujuChange(e)
    \/ RefreshModel \/ CloseConnection
    \/ FinalState \/ TotalTimeout \/ WaiterClosed
    \/ Watcher \/ ProgressTime
    \/ Return \/ Cancel

\* The total timer runs out, and a wait that can end does.  Nothing is assumed
\* of Juju, of the connection, or of the callback.
Fairness == WF_vars(TotalTimeout) /\ WF_vars(Return)

Spec == Init /\ [][Next]_vars
FairSpec == Spec /\ Fairness

-----------------------------------------------------------------------------
(* Properties.                                                             *)

\* Every variable has its type; what was handled was sent and what was sent has
\* happened; the database holds the names of N2VCDeploymentStatus.
TypeOK ==
    /\ history \in [Entity -> Seq(AnyReported)]
    /\ \A e \in Entity : /\ Len(history[e]) \in 1..MaxChanges
                         /\ \A v \in 1..Len(history[e]) : history[e][v] \in Reported[e]
    /\ open \in BOOLEAN
    /\ seen \in 1..Len(history[awaited])
    /\ delivered \in [Entity -> Nat]
    /\ \A e \in Entity : delivered[e] <= Len(history[e])
    /\ waiter \in {"running", "final", "timeout", "closed", "cancelled"}
    /\ watcher \in {"next", "batch", "callback", "timeout", "closed", "error",
                    "cancelled"}
    /\ deltas \subseteq [entity : Entity, version : Nat \ {0}]
    /\ \A d \in deltas : d.version <= delivered[d.entity]
    /\ handled \in [Entity -> Nat]
    /\ \A e \in Entity : handled[e] <= delivered[e]
    /\ late \in BOOLEAN
    /\ db \in {NONE} \cup [entity : Entity, vca_status : AnyReported, status : OsmStatus]
    /\ wait \in {"waiting", "returned", "cancelled"}

\* When the watcher waits for the next change, every delta it was sent of the
\* awaited entity and of its units has gone through the database write.
WatcherIsCaughtUp ==
    watcher = "next" =>
        \A e \in Entity : Writes(e) => handled[e] = delivered[e]

\* An entity's statuses are written in the order Juju went through them: a write
\* never takes the database back to an earlier status of the same entity.
WritesInOrder ==
    [][\A e \in Entity : handled'[e] >= handled[e]]_handled

\* Once wait_for has ended, its watcher writes nothing any more: the next
\* operation on the same path of the database is not disturbed by it.
NoWriteAfterEnd == [][wait = "waiting"]_<<db, handled>>

\* wait_for returns because the awaited entity was in a final state, unless a
\* timeout, the loss of the connection or an exception ended one of the tasks.
ReturnsOnFinalState ==
    wait = "returned" =>
        \/ \E v \in 1..Len(history[awaited]) : history[awaited][v] \in final_states
        \/ waiter \in {"timeout", "closed"}
        \/ watcher \in {"timeout", "closed", "error"}

\* A database that calls the awaited entity COMPLETED was told so by a status
\* that ends the wait: the two tables of utils.py agree.
CompletedIsFinal ==
    db # NONE /\ db.entity = awaited /\ db.status = "COMPLETED"
        => db.vca_status \in final_states

\* wait_for ends, whatever Juju, the connection and the callback do.
WaitEnds == <>(wait # "waiting")

\* ":raises: asyncio.TimeoutError when timeout reaches": a wait whose total
\* timer ran out does not return as if the entity were ready.
TimeoutIsRaised == waiter = "timeout" => wait # "returned"

\* "where to write to database when the status changes": the final state that
\* ended a wait has gone through the database write.
FinalStateIsWritten ==
    wait = "returned" /\ waiter = "final" /\ watcher = "cancelled" =>
        \E v \in 1..handled[awaited] : history[awaited][v] \in final_states
=============================================================================
