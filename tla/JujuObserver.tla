----------------------------- MODULE JujuObserver -----------------------------
(***************************************************************************)
(* JujuModelObserver (src/n2vc/juju_observer.py) and the calls that wait   *)
(* with it (src/n2vc/n2vc_juju_conn.py, _juju_create_machine,              *)
(* _juju_deploy_charm, _juju_execute_action, _juju_destroy_application).   *)
(* A call registers its entity, which gives it a record with an event, and *)
(* waits for the event until the status is final.  Juju reports a change   *)
(* by running on_change in a task of its own; on_change awaits the         *)
(* callback of the database write.                                         *)
(***************************************************************************)
EXTENDS Naturals

CONSTANTS
    Waiter,    \* calls that register an entity and wait
    Watched,   \* machines, applications, actions
    WatchedBy, \* the entity of a waiter
    Applications, \* those of them that have units
    Destroyed, \* the entities that some call destroys
    Changes,   \* bound: changes Juju reports
    NOONE

ASSUME ObserverAssumption ==
    /\ WatchedBy \in [Waiter -> Watched]
    /\ Applications \subseteq Watched /\ Destroyed \subseteq Watched
    /\ Changes \in Nat /\ NOONE \notin Waiter

VARIABLES
    wpc,        \* where a waiter is
    registry,   \* the waiter whose record stands for an entity
    events,     \* the waiters whose event is set
    final,      \* the entities in a final status
    changed,    \* changes reported
    about,      \* the entity of each change, whether it is one of a unit of it,
                \* and whether the entity became final
    handler,    \* where on_change of each change is
    shown,      \* the last status written for a waiter
    dropped,    \* history: waiters whose record was replaced or removed
    stale,      \* history: those whose last write did not reach their document
    unset       \* history: those whose last change ended without setting the event

obsVars == <<wpc, registry, events, final, changed, about, handler, shown, dropped,
             stale, unset>>
mishaps == <<stale, unset>>

Change == 1..Changes
WaitEnded == {"returned", "timeout"}
WaitGoto(w, label) == wpc' = [wpc EXCEPT ![w] = label]
HandlerGoto(i, label) == handler' = [handler EXCEPT ![i] = label]

ObsInit(waiters) ==
    /\ wpc = [w \in Waiter |-> IF w \in waiters THEN "idle" ELSE "absent"]
    /\ registry = [e \in Watched |-> NOONE]
    /\ events = {} /\ final = {} /\ dropped = {}
    /\ stale = {} /\ unset = {}
    /\ changed = 0
    /\ about = [i \in Change |-> [entity |-> NOONE, unit |-> FALSE, final |-> FALSE]]
    /\ handler = [i \in Change |-> "none"]
    /\ shown = [w \in Waiter |-> "none"]

-----------------------------------------------------------------------------
(* Variants with a plausible mistake.                                      *)

\* The status that was reported, whatever came after.
StatusReported(i) == about[i].final

\* The status the observer has seen, in place of that of the object.
SeenFinal(w) == shown[w] = "final"

-----------------------------------------------------------------------------
(* Juju.                                                                   *)

\* The status changes, or something else of the entity, or one of its units.
Report(e) ==
    /\ changed < Changes
    /\ \E w \in Waiter : WatchedBy[w] = e /\ wpc[w] \in {"idle", "waiting"}
    /\ changed' = changed + 1
    /\ \E unit \in IF e \in Applications THEN BOOLEAN ELSE {FALSE} :
          /\ final' \in IF unit THEN {final} ELSE {final, final \cup {e}, final \ {e}}
          /\ about' = [about EXCEPT ![changed'] =
                          [entity |-> e, unit |-> unit, final |-> e \in final']]
    /\ HandlerGoto(changed', "new")
    /\ UNCHANGED <<wpc, registry, events, shown, dropped, mishaps>>

-----------------------------------------------------------------------------
(* on_change.                                                              *)

\* The attributes of the entity as they are now.
Status(i) == about[i].entity \in final

\* What is written: the status of the entity, or that of its unit.
Written(i) ==
    IF about[i].unit THEN {"busy", "final"} ELSE {IF Status(i) THEN "final" ELSE "busy"}

\* The record of the entity.
Recorded(i) == registry[about[i].entity]

\* The write to its document, and the callback that is awaited after it.
OnChange(i) ==
    /\ handler[i] = "new"
    /\ LET w == Recorded(i) IN
          IF w = NOONE
          THEN HandlerGoto(i, "done") /\ UNCHANGED <<shown, stale>>
          ELSE /\ \E status \in Written(i) : shown' = [shown EXCEPT ![w] = status]
               /\ stale' = stale \ {w}
               /\ HandlerGoto(i, "writing")
    /\ UNCHANGED <<wpc, registry, events, final, changed, about, dropped, unset>>

SetEventOf(w) ==
    /\ events' = events \cup {w}
    /\ unset' = unset \ {w}

\* A unit that is dead is not written, and nothing is awaited.
DeadUnit(i) ==
    /\ handler[i] = "new" /\ about[i].unit /\ Recorded(i) # NOONE
    /\ SetEventOf(Recorded(i))
    /\ HandlerGoto(i, "done")
    /\ UNCHANGED <<wpc, registry, final, changed, about, shown, dropped, stale>>

\* set_one raises a DbException, which is swallowed: the document stays as it
\* is, the callback is skipped and on_change goes on.
WriteSwallowed(i) ==
    /\ handler[i] = "new" /\ Recorded(i) # NOONE
    /\ stale' = stale \cup {Recorded(i)}
    /\ SetEventOf(Recorded(i))
    /\ HandlerGoto(i, "done")
    /\ UNCHANGED <<wpc, registry, final, changed, about, shown, dropped>>

\* set_one raises anything else, or the callback does after the write: on_change
\* ends, in a task that nobody looks at, before the event.
WriteRaises(i) ==
    /\ \/ handler[i] = "new" /\ Recorded(i) # NOONE /\ stale' = stale \cup {Recorded(i)}
       \/ handler[i] = "writing" /\ UNCHANGED stale
    /\ unset' = unset \cup ({Recorded(i)} \ {NOONE})
    /\ HandlerGoto(i, "lost")
    /\ UNCHANGED <<wpc, registry, events, final, changed, about, shown, dropped>>

\* The record is looked up again after the await.
SetEvent(i) ==
    /\ handler[i] = "writing" /\ Recorded(i) # NOONE
    /\ SetEventOf(Recorded(i))
    /\ HandlerGoto(i, "done")
    /\ UNCHANGED <<wpc, registry, final, changed, about, shown, dropped, stale>>

\* KeyError, in the same task.
LookupFails(i) ==
    /\ handler[i] = "writing" /\ Recorded(i) = NOONE
    /\ HandlerGoto(i, "lost")
    /\ UNCHANGED <<wpc, registry, events, final, changed, about, shown, dropped, mishaps>>

-----------------------------------------------------------------------------
(* The calls.                                                              *)

IsFinal(w) == WatchedBy[w] \in final
Look(w) == WaitGoto(w, IF IsFinal(w) THEN "returned" ELSE "waiting")

\* The record of another call for the same application is replaced.
Register(w) ==
    /\ wpc[w] = "idle"
    /\ registry' = [registry EXCEPT ![WatchedBy[w]] = w]
    /\ dropped' = dropped \cup ({registry[WatchedBy[w]]} \ {NOONE})
    /\ Look(w)
    /\ UNCHANGED <<events, final, changed, about, handler, shown, mishaps>>

Wake(w) ==
    /\ wpc[w] = "waiting" /\ w \in events
    /\ events' = events \ {w}
    /\ Look(w)
    /\ UNCHANGED <<registry, final, changed, about, handler, shown, dropped, mishaps>>

\* wait_for is over; the event may have been set in the same moment.
TimedOut(w) == w \notin events

Timeout(w) ==
    /\ wpc[w] = "waiting" /\ TimedOut(w)
    /\ WaitGoto(w, "timeout")
    /\ UNCHANGED <<registry, events, final, changed, about, handler, shown, dropped, mishaps>>

\* unregister_..., then destroy.
Destroy(e) ==
    /\ e \in Destroyed /\ registry[e] # NOONE
    /\ dropped' = dropped \cup {registry[e]}
    /\ registry' = [registry EXCEPT ![e] = NOONE]
    /\ UNCHANGED <<wpc, events, final, changed, about, handler, shown, mishaps>>

-----------------------------------------------------------------------------
OnChangeStep(i) ==
    \/ OnChange(i) \/ DeadUnit(i) \/ WriteSwallowed(i) \/ WriteRaises(i)
    \/ SetEvent(i) \/ LookupFails(i)
WaitForEntity(w) == Wake(w) \/ Timeout(w)

ObsNext ==
    \/ \E e \in Watched : Report(e) \/ Destroy(e)
    \/ \E i \in Change : OnChangeStep(i)
    \/ \E w \in Waiter : Register(w) \/ WaitForEntity(w)

ObsSpec ==
    /\ \E waiters \in SUBSET Waiter : ObsInit(waiters)
    /\ [][ObsNext]_obsVars

-----------------------------------------------------------------------------
ObsTypeOK ==
    /\ wpc \in [Waiter -> {"absent", "idle", "waiting"} \cup WaitEnded]
    /\ registry \in [Watched -> Waiter \cup {NOONE}]
    /\ events \subseteq Waiter /\ dropped \subseteq Waiter
    /\ stale \subseteq Waiter /\ unset \subseteq Waiter
    /\ final \subseteq Watched
    /\ changed \in 0..Changes
    /\ about \in [Change -> [entity : Watched \cup {NOONE}, unit : BOOLEAN, final : BOOLEAN]]
    /\ handler \in [Change -> {"none", "new", "writing", "done", "lost"}]
    /\ shown \in [Waiter -> {"none", "busy", "final"}]

Pending(e, labels) == \E i \in Change : about[i].entity = e /\ handler[i] \in labels

\* No wakeup is lost: a call that waits although its entity is in a final
\* status will be woken, unless its record was replaced or removed, or the last
\* on_change for it raised before the event: then it sleeps until its timeout
\* (juju_observer.py:213-225, 243-310, n2vc_conn.py:455-493).
NoLostWakeup ==
    \A w \in Waiter : wpc[w] = "waiting" /\ WatchedBy[w] \in final /\ w \notin dropped \cup unset =>
        w \in events \/ Pending(WatchedBy[w], {"new", "writing"})

\* When every change was handled, the document of a machine or an action shows
\* the status it has, in whatever order the tasks ran, if the last write reached
\* it; that of an application is also written for its units
\* (juju_observer.py:236-310, n2vc_conn.py:455-493).
ShownIsCurrent ==
    \A w \in Waiter :
        /\ WatchedBy[w] \notin Applications /\ w \notin stale
        /\ registry[WatchedBy[w]] = w /\ shown[w] # "none" /\ ~Pending(WatchedBy[w], {"new"})
        => (shown[w] = "final") = (WatchedBy[w] \in final)

\* A call times out with its entity in a final status only when the change is
\* still being handled, its on_change raised, or the record was replaced or
\* removed (juju_observer.py:213-222, 243-310, n2vc_conn.py:476-493).
TimeoutIsHonest ==
    [][\A w \in Waiter : wpc[w] = "waiting" /\ wpc'[w] = "timeout" =>
          \/ WatchedBy[w] \notin final \/ w \in dropped \cup unset
          \/ Pending(WatchedBy[w], {"new", "writing"})]_obsVars
===============================================================================
