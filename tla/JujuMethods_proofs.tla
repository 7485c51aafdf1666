-------------------------- MODULE JujuMethods_proofs --------------------------
(***************************************************************************)
(* Proofs about JujuObserver and JujuSession, which the _juju_ methods of  *)
(* N2VCJujuConnector use together, and about LegacyN2VC: for any waiters,  *)
(* entities and number of changes, for any calls, models and primitives.   *)
(***************************************************************************)
EXTENDS JujuObserver, JujuSession, LegacyN2VC, FiniteSetTheorems, SequenceTheorems,
        WellFoundedInduction, TLAPS

\* A record belongs to a call that has registered, a waiting call whose record
\* was not taken away has it, what was shown was shown to a registered call,
\* and no task exists but for a change of an entity that was reported.
RecordsInv ==
    /\ \A w \in Waiter : wpc[w] = "waiting" /\ w \notin dropped => registry[WatchedBy[w]] = w
    /\ \A e \in Watched : registry[e] # NOONE =>
          wpc[registry[e]] \notin {"absent", "idle"} /\ WatchedBy[registry[e]] = e
    /\ \A w \in Waiter : shown[w] # "none" => wpc[w] \notin {"absent", "idle"}
    /\ \A i \in Change : i > changed => handler[i] = "none"
    /\ \A i \in Change : handler[i] # "none" => about[i].entity \in Watched
    /\ \A i \in Change : about[i].unit => about[i].entity \in Applications

ObsInv == ObsTypeOK /\ RecordsInv /\ NoLostWakeup /\ ShownIsCurrent

LEMMA ObsInitially == ASSUME NEW waiters \in SUBSET Waiter, ObsInit(waiters) PROVE ObsInv
<1> USE ObserverAssumption DEF ObsInit, WaitEnded
<1>1. ObsTypeOK
  BY DEF ObsTypeOK, Change
<1>2. RecordsInv
  BY DEF RecordsInv, Change
<1>3. NoLostWakeup
  BY DEF NoLostWakeup
<1>4. ShownIsCurrent
  BY DEF ShownIsCurrent
<1> QED
  BY <1>1, <1>2, <1>3, <1>4 DEF ObsInv

LEMMA ReportStep == ASSUME ObsInv, NEW e \in Watched, Report(e) PROVE ObsInv'
<1> USE ObserverAssumption DEF ObsInv, HandlerGoto
<1>1. /\ changed' \in Change /\ changed' = changed + 1 /\ changed \in Nat
      /\ handler[changed'] = "none"
  BY DEF Report, ObsTypeOK, Change, RecordsInv
<1>0. PICK unit \in IF e \in Applications THEN BOOLEAN ELSE {FALSE} :
          /\ final' \in IF unit THEN {final} ELSE {final, final \cup {e}, final \ {e}}
          /\ about' = [about EXCEPT ![changed'] =
                          [entity |-> e, unit |-> unit, final |-> e \in final']]
  BY DEF Report
<1>2. /\ about' = [about EXCEPT ![changed'] =
                      [entity |-> e, unit |-> unit, final |-> e \in final']]
      /\ unit \in BOOLEAN /\ (unit => e \in Applications)
      /\ handler' = [handler EXCEPT ![changed'] = "new"]
      /\ \A f \in Watched \ {e} : f \in final' <=> f \in final
      /\ UNCHANGED <<wpc, registry, events, shown, dropped, stale, unset>>
  BY <1>0 DEF Report, mishaps
<1>3. ObsTypeOK'
  <2>1. final' \subseteq Watched
    BY <1>0 DEF ObsTypeOK
  <2>2. changed' \in 0..Changes
    BY <1>1 DEF Change
  <2>3. /\ about' \in [Change -> [entity : Watched \cup {NOONE}, unit : BOOLEAN, final : BOOLEAN]]
        /\ handler' \in [Change -> {"none", "new", "writing", "done", "lost"}]
    BY <1>1, <1>2 DEF ObsTypeOK
  <2> QED
    BY <1>2, <2>1, <2>2, <2>3 DEF ObsTypeOK
<1>4. RecordsInv'
  BY <1>1, <1>2 DEF RecordsInv, ObsTypeOK, Change
<1>5. about'[changed'].entity = e /\ handler'[changed'] = "new"
  BY <1>1, <1>2 DEF ObsTypeOK
<1>6. ASSUME NEW i \in Change, handler[i] # "none"
      PROVE  about'[i] = about[i] /\ handler'[i] = handler[i]
  BY <1>1, <1>2, <1>6 DEF ObsTypeOK
<1>7. NoLostWakeup'
  <2> SUFFICES ASSUME NEW w \in Waiter, wpc'[w] = "waiting", WatchedBy[w] \in final', w \notin dropped' \cup unset'
               PROVE  w \in events' \/ Pending(WatchedBy[w], {"new", "writing"})'
    BY DEF NoLostWakeup
  <2>1. CASE WatchedBy[w] = e
    BY <2>1, <1>1, <1>5 DEF Pending
  <2>2. CASE WatchedBy[w] # e
    <3>1. w \in events \/ Pending(WatchedBy[w], {"new", "writing"})
      BY <2>2, <1>2 DEF NoLostWakeup
    <3> QED
      BY <3>1, <1>2, <1>6 DEF Pending
  <2> QED
    BY <2>1, <2>2
<1>8. ShownIsCurrent'
  <2> SUFFICES ASSUME NEW w \in Waiter, WatchedBy[w] \notin Applications, registry'[WatchedBy[w]] = w,
                      shown'[w] # "none", w \notin stale',
                      ~Pending(WatchedBy[w], {"new"})'
               PROVE  (shown'[w] = "final") = (WatchedBy[w] \in final')
    BY DEF ShownIsCurrent
  <2>1. WatchedBy[w] # e
    BY <1>1, <1>5 DEF Pending
  <2>2. ~Pending(WatchedBy[w], {"new"})
    BY <1>6 DEF Pending
  <2> QED
    BY <2>1, <2>2, <1>2 DEF ShownIsCurrent
<1> QED
  BY <1>3, <1>4, <1>7, <1>8

LEMMA OnChangeInv == ASSUME ObsInv, NEW i \in Change, OnChangeStep(i) PROVE ObsInv'
<1> USE ObserverAssumption DEF ObsInv, HandlerGoto
<1>1. UNCHANGED <<wpc, registry, final, changed, about, dropped>>
  BY DEF OnChangeStep, OnChange, DeadUnit, WriteSwallowed, WriteRaises, SetEvent, LookupFails
<1>2. ASSUME NEW w \in Waiter, wpc[w] = "waiting", w \notin dropped
      PROVE  registry[WatchedBy[w]] = w /\ w # NOONE
  BY <1>2 DEF RecordsInv
<1>3. CASE OnChange(i)
  <2> DEFINE e == about[i].entity
             v == registry[e]
  <2>1. CASE v = NOONE
    <3>1. UNCHANGED <<events, shown, stale, unset>> /\ handler[i] = "new" /\ handler' = [handler EXCEPT ![i] = "done"]
      BY <1>3, <2>1 DEF OnChange, Recorded
    <3>2. ObsTypeOK' /\ RecordsInv'
      BY <1>1, <3>1 DEF ObsTypeOK, RecordsInv
    <3>3. NoLostWakeup'
      <4> SUFFICES ASSUME NEW w \in Waiter, wpc[w] = "waiting", WatchedBy[w] \in final,
                          w \notin dropped \cup unset
                   PROVE  w \in events \/ Pending(WatchedBy[w], {"new", "writing"})'
        BY <1>1, <3>1 DEF NoLostWakeup
      <4>1. WatchedBy[w] # e
        BY <1>2, <2>1
      <4>2. w \in events \/ Pending(WatchedBy[w], {"new", "writing"})
        BY DEF NoLostWakeup
      <4> QED
        BY <4>1, <4>2, <3>1, <1>1 DEF Pending, ObsTypeOK
    <3>4. ShownIsCurrent'
      <4> SUFFICES ASSUME NEW w \in Waiter, WatchedBy[w] \notin Applications, registry[WatchedBy[w]] = w,
                          shown[w] # "none", w \notin stale,
                          ~Pending(WatchedBy[w], {"new"})'
                   PROVE  (shown[w] = "final") = (WatchedBy[w] \in final)
        BY <1>1, <3>1 DEF ShownIsCurrent
      <4>1. WatchedBy[w] # e
        BY <2>1
      <4>2. ~Pending(WatchedBy[w], {"new"})
        BY <4>1, <3>1, <1>1 DEF Pending, ObsTypeOK
      <4> QED
        BY <4>2 DEF ShownIsCurrent
    <3> QED
      BY <3>2, <3>3, <3>4
  <2>2. CASE v # NOONE
    <3>0. PICK status \in Written(i) : shown' = [shown EXCEPT ![v] = status]
      BY <1>3, <2>2 DEF OnChange, Recorded
    <3>1. /\ handler[i] = "new" /\ handler' = [handler EXCEPT ![i] = "writing"]
          /\ status \in {"busy", "final"}
          /\ e \notin Applications => status = IF e \in final THEN "final" ELSE "busy"
          /\ shown' = [shown EXCEPT ![v] = status]
          /\ stale' = stale \ {v} /\ UNCHANGED <<events, unset>>
      BY <1>3, <2>2, <3>0 DEF OnChange, Recorded, Written, Status, RecordsInv
    <3>2. i <= changed
      BY <3>1 DEF RecordsInv, ObsTypeOK, Change
    <3>3. e \in Watched /\ v \in Waiter
      BY <2>2, <3>1 DEF ObsTypeOK, RecordsInv
    <3>4. ObsTypeOK' /\ RecordsInv'
      <4>1. /\ shown' \in [Waiter -> {"none", "busy", "final"}]
            /\ handler' \in [Change -> {"none", "new", "writing", "done", "lost"}]
        BY <3>1, <3>3 DEF ObsTypeOK
      <4>2. ObsTypeOK'
        BY <1>1, <3>1, <4>1 DEF ObsTypeOK
      <4>3. \A w \in Waiter : shown'[w] # "none" => wpc[w] \notin {"absent", "idle"}
        <5> SUFFICES ASSUME NEW w \in Waiter, shown'[w] # "none"
                     PROVE  wpc[w] \notin {"absent", "idle"}
          OBVIOUS
        <5>1. CASE w # v
          BY <5>1, <3>1 DEF RecordsInv, ObsTypeOK
        <5>2. CASE w = v
          BY <5>2, <2>2, <3>3 DEF RecordsInv
        <5> QED
          BY <5>1, <5>2
      <4>4. RecordsInv'
        BY <1>1, <3>1, <4>3 DEF RecordsInv, ObsTypeOK, Change
      <4> QED
        BY <4>2, <4>4
    <3>5. NoLostWakeup'
      BY <1>1, <3>1 DEF NoLostWakeup, Pending, ObsTypeOK
    <3>6. ShownIsCurrent'
      <4> SUFFICES ASSUME NEW w \in Waiter, WatchedBy[w] \notin Applications, registry[WatchedBy[w]] = w,
                          shown'[w] # "none", w \notin stale',
                          ~Pending(WatchedBy[w], {"new"})'
                   PROVE  (shown'[w] = "final") = (WatchedBy[w] \in final)
        BY <1>1 DEF ShownIsCurrent
      <4>1. CASE WatchedBy[w] = e
        BY <4>1, <3>1 DEF ObsTypeOK
      <4>2. CASE WatchedBy[w] # e
        <5>1. ~Pending(WatchedBy[w], {"new"})
          BY <4>2, <3>1, <1>1 DEF Pending, ObsTypeOK
        <5>2. CASE w # v
          BY <5>1, <5>2, <3>1 DEF ShownIsCurrent, ObsTypeOK
        <5>3. CASE w = v
          BY <4>2, <5>3, <3>3, <2>2 DEF RecordsInv
        <5> QED
          BY <5>2, <5>3
      <4> QED
        BY <4>1, <4>2
    <3> QED
      BY <3>4, <3>5, <3>6
  <2> QED
    BY <2>1, <2>2
<1>4. CASE SetEvent(i) \/ DeadUnit(i) \/ WriteSwallowed(i)
  <2> DEFINE v == registry[about[i].entity]
  <2>1. /\ handler[i] \in {"writing", "new"} /\ handler' = [handler EXCEPT ![i] = "done"]
        /\ v # NOONE /\ events' = events \cup {v} /\ unset' = unset \ {v} /\ UNCHANGED shown
    BY <1>4 DEF SetEvent, DeadUnit, WriteSwallowed, SetEventOf, Recorded
  <2>2. i <= changed /\ v \in Waiter
    BY <2>1 DEF RecordsInv, ObsTypeOK, Change
  <2>3. stale' \in {stale, stale \cup {v}}
    BY <1>4 DEF SetEvent, DeadUnit, WriteSwallowed, Recorded
  <2>4. ObsTypeOK'
    <3>1. handler' \in [Change -> {"none", "new", "writing", "done", "lost"}]
      BY <2>1 DEF ObsTypeOK
    <3> QED
      BY <1>1, <2>1, <2>2, <2>3, <3>1 DEF ObsTypeOK
  <2>5. RecordsInv'
    BY <1>1, <2>1, <2>2 DEF RecordsInv, ObsTypeOK, Change
  <2>6. NoLostWakeup'
    BY <1>1, <1>2, <2>1 DEF NoLostWakeup, Pending, ObsTypeOK
  <2>7. ShownIsCurrent'
    <3> SUFFICES ASSUME NEW w \in Waiter, WatchedBy[w] \notin Applications, w \notin stale',
                        registry[WatchedBy[w]] = w, shown[w] # "none",
                        ~Pending(WatchedBy[w], {"new"})'
                 PROVE  (shown[w] = "final") = (WatchedBy[w] \in final)
      BY <1>1, <2>1 DEF ShownIsCurrent
    <3>1. handler[i] = "new" => about[i].entity # WatchedBy[w]
      <4>1. ASSUME handler[i] = "new", about[i].entity = WatchedBy[w] PROVE WriteSwallowed(i)
        BY <1>4, <4>1 DEF SetEvent, DeadUnit, RecordsInv
      <4> QED
        BY <4>1 DEF WriteSwallowed, Recorded
    <3>2. ~Pending(WatchedBy[w], {"new"})
      BY <3>1, <2>1, <1>1 DEF Pending, ObsTypeOK
    <3> QED
      BY <2>3, <3>2 DEF ShownIsCurrent
  <2> QED
    BY <2>4, <2>5, <2>6, <2>7
<1>5. CASE LookupFails(i) \/ WriteRaises(i)
  <2> DEFINE v == registry[about[i].entity]
  <2>1. /\ handler[i] \in {"writing", "new"} /\ handler' = [handler EXCEPT ![i] = "lost"]
        /\ handler[i] = "new" => v # NOONE /\ stale' = stale \cup {v}
        /\ handler[i] = "writing" => stale' = stale
        /\ unset' = unset \cup ({v} \ {NOONE}) /\ UNCHANGED <<events, shown>>
    BY <1>5 DEF LookupFails, WriteRaises, Recorded, mishaps
  <2>2. i <= changed /\ v \in Waiter \cup {NOONE}
    BY <2>1 DEF RecordsInv, ObsTypeOK, Change
  <2>3. ObsTypeOK'
    <3>1. handler' \in [Change -> {"none", "new", "writing", "done", "lost"}]
      BY <2>1 DEF ObsTypeOK
    <3>2. stale' \subseteq Waiter /\ unset' \subseteq Waiter
      BY <2>1, <2>2 DEF ObsTypeOK
    <3> QED
      BY <1>1, <2>1, <3>1, <3>2 DEF ObsTypeOK
  <2>4. RecordsInv'
    BY <1>1, <2>1, <2>2 DEF RecordsInv, ObsTypeOK, Change
  <2>5. NoLostWakeup'
    <3> SUFFICES ASSUME NEW w \in Waiter, wpc[w] = "waiting", WatchedBy[w] \in final,
                        w \notin dropped \cup unset'
                 PROVE  w \in events \/ Pending(WatchedBy[w], {"new", "writing"})'
      BY <1>1, <2>1 DEF NoLostWakeup
    <3>1. w \notin unset /\ about[i].entity # WatchedBy[w]
      BY <1>2, <2>1
    <3>2. w \in events \/ Pending(WatchedBy[w], {"new", "writing"})
      BY <3>1 DEF NoLostWakeup
    <3> QED
      BY <1>1, <2>1, <3>1, <3>2 DEF Pending, ObsTypeOK
  <2>6. ShownIsCurrent'
    <3> SUFFICES ASSUME NEW w \in Waiter, WatchedBy[w] \notin Applications, w \notin stale',
                        registry[WatchedBy[w]] = w, shown[w] # "none",
                        ~Pending(WatchedBy[w], {"new"})'
                 PROVE  (shown[w] = "final") = (WatchedBy[w] \in final)
      BY <1>1, <2>1 DEF ShownIsCurrent
    <3>1. handler[i] = "new" => about[i].entity # WatchedBy[w]
      BY <2>1
    <3>2. ~Pending(WatchedBy[w], {"new"}) /\ w \notin stale
      BY <3>1, <2>1, <1>1 DEF Pending, ObsTypeOK
    <3> QED
      BY <3>2 DEF ShownIsCurrent
  <2> QED
    BY <2>3, <2>4, <2>5, <2>6
<1> QED
  BY <1>3, <1>4, <1>5 DEF OnChangeStep

LEMMA RegisterStep == ASSUME ObsInv, NEW w \in Waiter, Register(w) PROVE ObsInv'
<1> USE ObserverAssumption DEF ObsInv, WaitGoto, IsFinal
<1>1. /\ wpc[w] = "idle"
      /\ registry' = [registry EXCEPT ![WatchedBy[w]] = w]
      /\ dropped' = dropped \cup ({registry[WatchedBy[w]]} \ {NOONE})
      /\ wpc' = [wpc EXCEPT ![w] = IF WatchedBy[w] \in final THEN "returned" ELSE "waiting"]
      /\ UNCHANGED <<events, final, changed, about, handler, shown, stale, unset>>
  BY DEF Register, Look, mishaps
<1>2. shown[w] = "none"
  BY <1>1 DEF RecordsInv
<1>3. ObsTypeOK'
  <2>1. wpc' \in [Waiter -> {"absent", "idle", "waiting"} \cup WaitEnded]
    BY <1>1 DEF ObsTypeOK, WaitEnded
  <2>2. registry' \in [Watched -> Waiter \cup {NOONE}] /\ dropped' \subseteq Waiter
    BY <1>1 DEF ObsTypeOK
  <2> QED
    BY <1>1, <2>1, <2>2 DEF ObsTypeOK
<1>4. RecordsInv'
  <2>1. ASSUME NEW v \in Waiter, wpc'[v] = "waiting", v \notin dropped'
        PROVE  registry'[WatchedBy[v]] = v
    BY <1>1, <2>1 DEF RecordsInv, ObsTypeOK
  <2>2. ASSUME NEW e \in Watched, registry'[e] # NOONE
        PROVE  wpc'[registry'[e]] \notin {"absent", "idle"} /\ WatchedBy[registry'[e]] = e
    BY <1>1, <2>2 DEF RecordsInv, ObsTypeOK
  <2>3. ASSUME NEW v \in Waiter, shown'[v] # "none" PROVE wpc'[v] \notin {"absent", "idle"}
    BY <1>1, <2>3 DEF RecordsInv, ObsTypeOK
  <2> QED
    BY <1>1, <2>1, <2>2, <2>3 DEF RecordsInv
<1>5. NoLostWakeup'
  BY <1>1 DEF NoLostWakeup, Pending, ObsTypeOK
<1>6. ShownIsCurrent'
  BY <1>1, <1>2 DEF ShownIsCurrent, Pending, ObsTypeOK
<1> QED
  BY <1>3, <1>4, <1>5, <1>6

LEMMA WaitStep == ASSUME ObsInv, NEW w \in Waiter, WaitForEntity(w) PROVE ObsInv'
<1> USE ObserverAssumption DEF ObsInv, WaitGoto, IsFinal
<1>1. /\ wpc[w] = "waiting"
      /\ \/ /\ events' = events \ {w}
            /\ wpc' = [wpc EXCEPT ![w] = IF WatchedBy[w] \in final THEN "returned" ELSE "waiting"]
         \/ events' = events /\ wpc' = [wpc EXCEPT ![w] = "timeout"]
      /\ UNCHANGED <<registry, final, changed, about, handler, shown, dropped, stale, unset>>
  BY DEF WaitForEntity, Wake, Timeout, Look, mishaps
<1>2. ObsTypeOK'
  <2>1. wpc' \in [Waiter -> {"absent", "idle", "waiting"} \cup WaitEnded]
    BY <1>1 DEF ObsTypeOK, WaitEnded
  <2>2. events' \subseteq Waiter
    BY <1>1 DEF ObsTypeOK
  <2> QED
    BY <1>1, <2>1, <2>2 DEF ObsTypeOK
<1>3. RecordsInv'
  BY <1>1 DEF RecordsInv, ObsTypeOK
<1>4. NoLostWakeup'
  <2> SUFFICES ASSUME NEW v \in Waiter, wpc'[v] = "waiting", WatchedBy[v] \in final,
                      v \notin dropped \cup unset
               PROVE  v \in events' \/ Pending(WatchedBy[v], {"new", "writing"})
    BY <1>1 DEF NoLostWakeup, Pending
  <2>1. v # w
    BY <1>1 DEF ObsTypeOK
  <2>2. wpc[v] = "waiting"
    BY <2>1, <1>1 DEF ObsTypeOK
  <2> QED
    BY <1>1, <2>1, <2>2 DEF NoLostWakeup
<1>5. ShownIsCurrent'
  BY <1>1 DEF ShownIsCurrent, Pending
<1> QED
  BY <1>2, <1>3, <1>4, <1>5

LEMMA DestroyStep == ASSUME ObsInv, NEW e \in Watched, Destroy(e) PROVE ObsInv'
<1> USE ObserverAssumption DEF ObsInv
<1>1. /\ dropped' = dropped \cup {registry[e]} /\ registry[e] # NOONE
      /\ registry' = [registry EXCEPT ![e] = NOONE]
      /\ UNCHANGED <<wpc, events, final, changed, about, handler, shown, stale, unset>>
  BY DEF Destroy, mishaps
<1>2. ObsTypeOK'
  BY <1>1 DEF ObsTypeOK
<1>3. RecordsInv'
  BY <1>1 DEF RecordsInv, ObsTypeOK
<1>4. NoLostWakeup'
  BY <1>1 DEF NoLostWakeup, Pending
<1>5. ShownIsCurrent'
  BY <1>1 DEF ShownIsCurrent, Pending, ObsTypeOK
<1> QED
  BY <1>2, <1>3, <1>4, <1>5

LEMMA ObsStep == ObsInv /\ [ObsNext]_obsVars => ObsInv'
<1> SUFFICES ASSUME ObsInv, [ObsNext]_obsVars PROVE ObsInv'
  OBVIOUS
<1>1. CASE UNCHANGED obsVars
  BY <1>1 DEF obsVars, ObsInv, ObsTypeOK, RecordsInv, NoLostWakeup, ShownIsCurrent, Pending
<1>2. CASE ObsNext
  BY <1>2, ReportStep, DestroyStep, OnChangeInv, RegisterStep, WaitStep DEF ObsNext
<1> QED
  BY <1>1, <1>2

THEOREM ObsInvariant == ObsSpec => []ObsInv
<1>1. (\E waiters \in SUBSET Waiter : ObsInit(waiters)) => ObsInv
  BY ObsInitially
<1> QED
  BY <1>1, ObsStep, PTL DEF ObsSpec

\* Type correctness of juju_observer.py's registry and of the waiting calls.
THEOREM ObsTypes == ObsSpec => []ObsTypeOK
<1>1. ObsInv => ObsTypeOK
  BY DEF ObsInv
<1> QED
  BY <1>1, ObsInvariant, PTL

\* No wakeup is lost between the look at the status and the event but one whose
\* on_change raised, for any number of calls and changes
\* (juju_observer.py:213-225, 243-310, n2vc_conn.py:455-493).
THEOREM WakeupsKept == ObsSpec => []NoLostWakeup
<1>1. ObsInv => NoLostWakeup
  BY DEF ObsInv
<1> QED
  BY <1>1, ObsInvariant, PTL

\* The document of a machine or an action shows the status it has if the last
\* write reached it, in whatever order the tasks of on_change run
\* (juju_observer.py:236-310, n2vc_conn.py:455-493).
THEOREM ShownCurrent == ObsSpec => []ShownIsCurrent
<1>1. ObsInv => ShownIsCurrent
  BY DEF ObsInv
<1> QED
  BY <1>1, ObsInvariant, PTL

\* A call times out with its entity in a final status only when the change is
\* still being handled, its on_change raised, or its record is gone
\* (juju_observer.py:213-222, 243-310, n2vc_conn.py:476-493).
THEOREM TimeoutsHonest == ObsSpec => TimeoutIsHonest
<1>1. ObsInv /\ [ObsNext]_obsVars =>
        [\A w \in Waiter : wpc[w] = "waiting" /\ wpc'[w] = "timeout" =>
          \/ WatchedBy[w] \notin final \/ w \in dropped \cup unset
          \/ Pending(WatchedBy[w], {"new", "writing"})]_obsVars
  <2> SUFFICES ASSUME ObsInv, ObsNext, NEW w \in Waiter, wpc[w] = "waiting", wpc'[w] = "timeout"
               PROVE  \/ WatchedBy[w] \notin final \/ w \in dropped \cup unset
                      \/ Pending(WatchedBy[w], {"new", "writing"})
    OBVIOUS
  <2>1. w \notin events
    <3>1. ASSUME NEW e \in Watched, Report(e) \/ Destroy(e) PROVE FALSE
      BY <3>1 DEF Report, Destroy
    <3>2. ASSUME NEW i \in Change, OnChangeStep(i) PROVE FALSE
      BY <3>2 DEF OnChangeStep, OnChange, DeadUnit, WriteSwallowed, WriteRaises, SetEvent, LookupFails
    <3>3. ASSUME NEW v \in Waiter, Register(v) \/ Wake(v) PROVE FALSE
      BY <3>3 DEF Register, Wake, Look, WaitGoto, ObsInv, ObsTypeOK
    <3>4. PICK v \in Waiter : Timeout(v)
      BY <3>1, <3>2, <3>3 DEF ObsNext, WaitForEntity
    <3> QED
      BY <3>4 DEF Timeout, TimedOut, WaitGoto, ObsInv, ObsTypeOK
  <2> QED
    BY <2>1 DEF ObsInv, NoLostWakeup
<1> QED
  BY <1>1, ObsInvariant, PTL DEF ObsSpec, TimeoutIsHonest

-----------------------------------------------------------------------------
(* JujuSession.                                                            *)

\* A flag is up exactly when one call is in the section it guards.
Guarded(flag, label) ==
    /\ flag => \E c \in SCall : At(label) = {c}
    /\ ~flag => At(label) = {}

\* A model that is being created is not in the cache yet.
CreatingAbsent == \A c \in SCall : spc[c] = "creating" => juju_models[NameOf[c]] = "absent"

SessInv ==
    /\ SessTypeOK
    /\ Guarded(connecting, "connecting") /\ Guarded(creating, "creating")
    /\ CreatingAbsent
    /\ ModelOpenedOnce

LEMMA GuardedCounts ==
  ASSUME NEW flag \in BOOLEAN, NEW label, Guarded(flag, label)
  PROVE  Cardinality(At(label)) = IF flag THEN 1 ELSE 0
<1>1. CASE flag
  BY <1>1, FS_Singleton DEF Guarded
<1>2. CASE ~flag
  BY <1>2, FS_EmptySet DEF Guarded
<1> QED
  BY <1>1, <1>2

\* A call that changes its place outside a section leaves the section alone.
LEMMA SectionKept ==
  ASSUME SessTypeOK, NEW c \in SCall, NEW label, NEW there,
         spc' = [spc EXCEPT ![c] = there], spc[c] # label, there # label
  PROVE  At(label)' = At(label)
BY DEF At, SessTypeOK

\* A call enters a section whose flag was down, and raises it.
LEMMA SectionEntered ==
  ASSUME SessTypeOK, NEW c \in SCall, NEW label, spc' = [spc EXCEPT ![c] = label],
         At(label) = {}
  PROVE  At(label)' = {c}
BY DEF At, SessTypeOK

\* The one call leaves its section, and lowers the flag.
LEMMA SectionLeft ==
  ASSUME SessTypeOK, NEW c \in SCall, NEW label, NEW there, spc' = [spc EXCEPT ![c] = there],
         spc[c] = label, there # label, NEW flag, flag, Guarded(flag, label)
  PROVE  At(label)' = {}
<1>1. At(label) = {c}
  BY DEF At, Guarded
<1> QED
  BY <1>1 DEF At, SessTypeOK

LEMMA SessInitially == ASSUME NEW calls \in SUBSET SCall, SessInit(calls) PROVE SessInv
<1> USE SessionAssumption DEF SessInit
<1>1. SessTypeOK
  BY DEF SessTypeOK, SEnded
<1>2. Guarded(connecting, "connecting") /\ Guarded(creating, "creating")
  BY DEF Guarded, At
<1>3. CreatingAbsent /\ ModelOpenedOnce
  BY DEF CreatingAbsent, ModelOpenedOnce
<1> QED
  BY <1>1, <1>2, <1>3 DEF SessInv

LEMMA LoginStep == ASSUME SessInv, NEW c \in SCall, JujuLogin(c) PROVE SessInv'
<1> USE SessionAssumption DEF SessInv, SGoto
<1>1. UNCHANGED <<creating, juju_models, closed, existing, opened>>
  BY DEF JujuLogin, LoginFirst, LoginPoll, Connect
<1>2. CASE \E label \in {"getting", "login wait"} :
              /\ spc[c] \in {"idle", "login wait"} /\ spc' = [spc EXCEPT ![c] = label]
              /\ UNCHANGED <<connecting, loggedIn>>
  <2>1. SessTypeOK'
    BY <1>1, <1>2 DEF SessTypeOK
  <2>2. Guarded(connecting, "connecting")' /\ Guarded(creating, "creating")'
    <3>1. At("connecting")' = At("connecting") /\ At("creating")' = At("creating")
      BY <1>2, SectionKept
    <3>2. UNCHANGED <<connecting, creating>>
      BY <1>1, <1>2
    <3> QED
      BY <3>1, <3>2 DEF Guarded
  <2>3. CreatingAbsent' /\ ModelOpenedOnce'
    BY <1>1, <1>2 DEF CreatingAbsent, ModelOpenedOnce, SessTypeOK
  <2> QED
    BY <2>1, <2>2, <2>3
<1>3. CASE /\ spc[c] \in {"idle", "login wait"} /\ spc' = [spc EXCEPT ![c] = "connecting"]
           /\ ~connecting /\ connecting' = TRUE /\ UNCHANGED loggedIn
  <2>1. SessTypeOK'
    BY <1>1, <1>3 DEF SessTypeOK
  <2>2. At("connecting")' = {c}
    BY <1>3, SectionEntered DEF Guarded
  <2>3. Guarded(connecting, "connecting")' /\ Guarded(creating, "creating")'
    BY <1>1, <1>3, <2>2, SectionKept DEF Guarded
  <2>4. CreatingAbsent' /\ ModelOpenedOnce'
    BY <1>1, <1>3 DEF CreatingAbsent, ModelOpenedOnce, SessTypeOK
  <2> QED
    BY <2>1, <2>3, <2>4
<1>4. CASE Connect(c)
  <2>1. /\ spc[c] = "connecting" /\ connecting' = FALSE /\ loggedIn' \in BOOLEAN
        /\ \E label \in {"getting", "raised"} : spc' = [spc EXCEPT ![c] = label]
    BY <1>4 DEF Connect, SessTypeOK
  <2>2. SessTypeOK'
    BY <1>1, <2>1 DEF SessTypeOK, SEnded
  <2>3. connecting
    BY <2>1 DEF Guarded, At, SessTypeOK
  <2>4. At("connecting")' = {}
    BY <2>1, <2>3, SectionLeft
  <2>5. Guarded(connecting, "connecting")' /\ Guarded(creating, "creating")'
    BY <1>1, <2>1, <2>4, SectionKept DEF Guarded
  <2>6. CreatingAbsent' /\ ModelOpenedOnce'
    BY <1>1, <2>1 DEF CreatingAbsent, ModelOpenedOnce, SessTypeOK
  <2> QED
    BY <2>2, <2>5, <2>6
<1>5. CASE LoginFirst(c)
  BY <1>2, <1>3, <1>5 DEF LoginFirst
<1>6. CASE LoginPoll(c)
  BY <1>2, <1>3, <1>6 DEF LoginPoll
<1> QED
  BY <1>4, <1>5, <1>6 DEF JujuLogin

LEMMA GetModelStep == ASSUME SessInv, NEW c \in SCall, JujuGetModel(c) PROVE SessInv'
<1> USE SessionAssumption DEF SessInv, SGoto, Cached, Free
<1>1. UNCHANGED <<loggedIn, connecting, closed>>
  BY DEF JujuGetModel, GetModelFirst, GetModelPoll, CreateModel
<1>2. CASE /\ \E label \in {"returned", "model wait"} :
                 spc[c] \in {"getting", "model wait"} /\ spc' = [spc EXCEPT ![c] = label]
           /\ UNCHANGED <<creating, juju_models, existing, opened>>
  <2>1. SessTypeOK'
    BY <1>1, <1>2 DEF SessTypeOK, SEnded
  <2>2. Guarded(connecting, "connecting")' /\ Guarded(creating, "creating")'
    <3>1. At("connecting")' = At("connecting") /\ At("creating")' = At("creating")
      BY <1>2, SectionKept
    <3>2. UNCHANGED <<connecting, creating>>
      BY <1>1, <1>2
    <3> QED
      BY <3>1, <3>2 DEF Guarded
  <2>3. CreatingAbsent' /\ ModelOpenedOnce'
    BY <1>1, <1>2 DEF CreatingAbsent, ModelOpenedOnce, SessTypeOK
  <2> QED
    BY <2>1, <2>2, <2>3
<1>3. CASE /\ spc[c] \in {"getting", "model wait"} /\ spc' = [spc EXCEPT ![c] = "creating"]
           /\ juju_models[NameOf[c]] = "absent" /\ ~creating /\ creating' = TRUE
           /\ UNCHANGED <<juju_models, existing, opened>>
  <2>1. SessTypeOK'
    BY <1>1, <1>3 DEF SessTypeOK
  <2>2. At("creating")' = {c}
    BY <1>3, SectionEntered DEF Guarded
  <2>3. Guarded(connecting, "connecting")' /\ Guarded(creating, "creating")'
    BY <1>1, <1>3, <2>2, SectionKept DEF Guarded
  <2>4. CreatingAbsent' /\ ModelOpenedOnce'
    BY <1>1, <1>3 DEF CreatingAbsent, ModelOpenedOnce, SessTypeOK
  <2> QED
    BY <2>1, <2>3, <2>4
<1>4. CASE CreateModel(c)
  <2>1. /\ spc[c] = "creating" /\ creating' = FALSE /\ existing' \subseteq ModelName
        /\ \/ /\ juju_models' = [juju_models EXCEPT ![NameOf[c]] = "open"]
              /\ opened' = [opened EXCEPT ![NameOf[c]] = @ + 1]
              /\ spc' = [spc EXCEPT ![c] = "returned"]
           \/ spc' = [spc EXCEPT ![c] = "raised"] /\ UNCHANGED <<juju_models, opened>>
    BY <1>4 DEF CreateModel, SessTypeOK
  <2>2. SessTypeOK'
    <3>1. opened' \in [ModelName -> Nat] /\ juju_models' \in [ModelName -> {"absent", "open", "none"}]
      <4>1. NameOf[c] \in ModelName /\ opened[NameOf[c]] + 1 \in Nat
        <5>1. NameOf[c] \in ModelName
          OBVIOUS
        <5>2. opened[NameOf[c]] \in Nat
          BY <5>1 DEF SessTypeOK
        <5> QED
          BY <5>1, <5>2
      <4>2. opened' = opened \/ opened' = [opened EXCEPT ![NameOf[c]] = opened[NameOf[c]] + 1]
        BY <2>1
      <4>3. opened' \in [ModelName -> Nat]
        BY <4>1, <4>2 DEF SessTypeOK
      <4> QED
        BY <2>1, <4>3 DEF SessTypeOK
    <3>2. spc'[c] \in {"returned", "raised"} /\ spc' = [spc EXCEPT ![c] = spc'[c]]
      BY <2>1 DEF SessTypeOK
    <3> QED
      BY <1>1, <2>1, <3>1, <3>2 DEF SessTypeOK, SEnded
  <2>3. creating
    BY <2>1 DEF Guarded, At, SessTypeOK
  <2>4. At("creating")' = {}
    BY <2>1, <2>3, SectionLeft
  <2>5. Guarded(connecting, "connecting")' /\ Guarded(creating, "creating")'
    <3>1. At("connecting")' = At("connecting")
      BY <2>1, SectionKept
    <3> QED
      BY <1>1, <2>1, <2>4, <3>1 DEF Guarded
  <2>6. CreatingAbsent'
    BY <2>4 DEF CreatingAbsent, At
  <2>7. ModelOpenedOnce'
    <3>1. NameOf[c] \in ModelName /\ juju_models[NameOf[c]] = "absent" /\ opened[NameOf[c]] = 0
      BY <2>1 DEF CreatingAbsent, ModelOpenedOnce
    <3>2. CASE UNCHANGED <<juju_models, opened>>
      BY <3>2 DEF ModelOpenedOnce
    <3>3. CASE /\ juju_models' = [juju_models EXCEPT ![NameOf[c]] = "open"]
               /\ opened' = [opened EXCEPT ![NameOf[c]] = opened[NameOf[c]] + 1]
      <4> SUFFICES ASSUME NEW n \in ModelName
                   PROVE  opened'[n] = IF juju_models'[n] = "absent" THEN 0 ELSE 1
        BY DEF ModelOpenedOnce
      <4>1. CASE n = NameOf[c]
        <5>1. opened'[n] = opened[n] + 1
          BY <4>1, <3>3 DEF SessTypeOK
        <5>2. juju_models'[n] = "open"
          BY <4>1, <3>3 DEF SessTypeOK
        <5>3. opened[n] = 0
          BY <4>1, <3>1
        <5> QED
          BY <5>1, <5>2, <5>3
      <4>2. CASE n # NameOf[c]
        BY <4>2, <3>3 DEF ModelOpenedOnce, SessTypeOK
      <4> QED
        BY <4>1, <4>2
    <3> QED
      BY <2>1, <3>2, <3>3
  <2> QED
    BY <2>2, <2>5, <2>6, <2>7
<1>5. CASE GetModelFirst(c)
  BY <1>2, <1>3, <1>5 DEF GetModelFirst
<1>6. CASE GetModelPoll(c)
  BY <1>2, <1>3, <1>6 DEF GetModelPoll
<1> QED
  BY <1>4, <1>5, <1>6 DEF JujuGetModel

LEMMA SessLogoutStep == ASSUME SessInv, NEW c \in SCall, JujuLogout(c) PROVE SessInv'
<1> USE SessionAssumption DEF SessInv, SGoto
<1>1. UNCHANGED <<connecting, creating, existing, opened>>
  BY DEF JujuLogout, LogoutFirst, LogoutFails, LeaveController, LoggedOut, DisconnectModel
<1>2. CASE LogoutFirst(c) \/ LogoutFails(c) \/ LeaveController(c) \/ LoggedOut(c)
  <2>1. /\ spc[c] \in {"idle", "closing", "leaving"} /\ loggedIn' \in BOOLEAN
        /\ \E label \in {"closing", "leaving", "raised", "returned"} : spc' = [spc EXCEPT ![c] = label]
        /\ UNCHANGED <<juju_models, closed>>
    BY <1>2 DEF LogoutFirst, LogoutFails, LeaveController, LoggedOut, SessTypeOK
  <2>2. SessTypeOK'
    BY <1>1, <2>1 DEF SessTypeOK, SEnded
  <2>3. Guarded(connecting, "connecting")' /\ Guarded(creating, "creating")'
    <3>1. At("connecting")' = At("connecting") /\ At("creating")' = At("creating")
      BY <2>1, SectionKept
    <3> QED
      BY <1>1, <3>1 DEF Guarded
  <2>4. CreatingAbsent' /\ ModelOpenedOnce'
    BY <1>1, <2>1 DEF CreatingAbsent, ModelOpenedOnce, SessTypeOK
  <2> QED
    BY <2>2, <2>3, <2>4
<1>3. ASSUME NEW n \in ModelName, DisconnectModel(c, n) PROVE SessInv'
  <2>1. /\ UNCHANGED <<spc, loggedIn>> /\ juju_models[n] # "absent"
        /\ closed' = [closed EXCEPT ![c] = @ \cup {n}]
        /\ juju_models' \in {juju_models, [juju_models EXCEPT ![n] = "none"]}
    BY <1>3 DEF DisconnectModel
  <2>2. SessTypeOK'
    BY <1>1, <2>1 DEF SessTypeOK
  <2>3. Guarded(connecting, "connecting")' /\ Guarded(creating, "creating")'
    BY <1>1, <2>1 DEF Guarded, At
  <2>4. CreatingAbsent' /\ ModelOpenedOnce'
    BY <1>1, <2>1 DEF CreatingAbsent, ModelOpenedOnce, SessTypeOK
  <2> QED
    BY <2>2, <2>3, <2>4
<1> QED
  BY <1>2, <1>3 DEF JujuLogout

LEMMA SessStep == SessInv /\ [SessNext]_sessVars => SessInv'
<1> SUFFICES ASSUME SessInv, [SessNext]_sessVars PROVE SessInv'
  OBVIOUS
<1>1. CASE UNCHANGED sessVars
  BY <1>1 DEF sessVars, SessInv, SessTypeOK, Guarded, At, CreatingAbsent, ModelOpenedOnce
<1>2. CASE SessNext
  BY <1>2, LoginStep, GetModelStep, SessLogoutStep DEF SessNext
<1> QED
  BY <1>1, <1>2

THEOREM SessInvariant == SessSpec => []SessInv
<1>1. (\E calls \in SUBSET SCall : SessInit(calls)) => SessInv
  BY SessInitially
<1> QED
  BY <1>1, SessStep, PTL DEF SessSpec

\* Every variable of JujuSession keeps its type (n2vc_juju_conn.py:1440-1700).
THEOREM SessTypes == SessSpec => []SessTypeOK
<1>1. SessInv => SessTypeOK
  BY DEF SessInv
<1> QED
  BY <1>1, SessInvariant, PTL

\* One call at a time connects and one creates a model, however many wake up
\* together (n2vc_juju_conn.py:1452-1465, 1673-1687).
THEOREM SectionsExclusive == SessSpec => []OneAtATime
<1>1. SessInv => OneAtATime
  BY GuardedCounts DEF SessInv, SessTypeOK, OneAtATime
<1> QED
  BY <1>1, SessInvariant, PTL

\* A model of the cache was connected once (n2vc_juju_conn.py:1452-1509).
THEOREM ModelsOpenedOnce == SessSpec => []ModelOpenedOnce
<1>1. SessInv => ModelOpenedOnce
  BY DEF SessInv
<1> QED
  BY <1>1, SessInvariant, PTL

-----------------------------------------------------------------------------
(* LegacyN2VC: the primitives of a deployment.                             *)

\* S, in increasing order, is what s ends with.
EndsWith(s, S) ==
    /\ Len(s) >= Cardinality(S)
    /\ {s[i] : i \in Len(s) - Cardinality(S) + 1 .. Len(s)} = S
    /\ \A i, j \in Len(s) - Cardinality(S) + 1 .. Len(s) : i < j => s[i] < s[j]

LEMMA EndsWithNothing == ASSUME NEW s \in Seq(Nat) PROVE EndsWith(s, {})
<1>1. Cardinality({}) = 0
  BY FS_EmptySet
<1> QED
  BY <1>1 DEF EndsWith

\* What is larger than all of S goes behind it.
LEMMA EndsWithOneMore ==
  ASSUME NEW s \in Seq(Nat), NEW S \in SUBSET Nat, IsFiniteSet(S), EndsWith(s, S),
         NEW q \in Nat, \A r \in S : r < q
  PROVE  EndsWith(Append(s, q), S \cup {q})
<1> DEFINE t == Append(s, q)
           m == Len(s) - Cardinality(S)
<1>1. Cardinality(S) \in Nat /\ Cardinality(S \cup {q}) = Cardinality(S) + 1
  BY FS_CardinalityType, FS_AddElement
<1>2. /\ Len(s) \in Nat /\ Len(t) = Len(s) + 1
      /\ \A i \in 1 .. Len(s) : t[i] = s[i]
      /\ t[Len(s) + 1] = q
  OBVIOUS
<1>3. m \in Nat /\ m = Len(t) - Cardinality(S \cup {q})
  BY <1>1, <1>2 DEF EndsWith
<1>4. /\ {s[i] : i \in m + 1 .. Len(s)} = S
      /\ \A i, j \in m + 1 .. Len(s) : i < j => s[i] < s[j]
  BY DEF EndsWith
<1> HIDE DEF t, m
<1>5. {t[i] : i \in m + 1 .. Len(t)} = S \cup {q}
  <2>1. m + 1 .. Len(t) = (m + 1 .. Len(s)) \cup {Len(s) + 1}
    BY <1>2, <1>3, <1>1
  <2>2. \A i \in m + 1 .. Len(s) : t[i] = s[i]
    BY <1>2, <1>3
  <2> QED
    BY <1>2, <1>4, <2>1, <2>2
<1>6. ASSUME NEW i \in m + 1 .. Len(t), NEW j \in m + 1 .. Len(t), i < j
      PROVE  t[i] < t[j]
  <2>1. i \in m + 1 .. Len(s) /\ t[i] = s[i]
    BY <1>2, <1>3, <1>6
  <2>2. CASE j = Len(s) + 1
    BY <1>2, <1>4, <2>1, <2>2
  <2>3. CASE j # Len(s) + 1
    <3>1. j \in m + 1 .. Len(s) /\ t[j] = s[j]
      BY <1>2, <1>3, <2>3
    <3> QED
      BY <1>4, <1>6, <2>1, <3>1
  <2> QED
    BY <2>2, <2>3
<1>7. Len(t) >= Cardinality(S \cup {q})
  BY <1>1, <1>2, <1>3
<1> QED
  BY <1>3, <1>5, <1>6, <1>7 DEF EndsWith, t

LEMMA EndsWithIsLast ==
  ASSUME NEW s \in Seq(Nat), NEW S \in SUBSET Nat, IsFiniteSet(S), EndsWith(s, S)
  PROVE  LET n == Cardinality(S)
             last == SubSeq(s, Len(s) - n + 1, Len(s))
         IN  /\ Range(last) = S
             /\ \A i, j \in 1..n : i < j => last[i] < last[j]
<1> DEFINE n == Cardinality(S)
           m == Len(s) - n
           last == SubSeq(s, m + 1, Len(s))
<1>1. n \in Nat /\ m \in Nat /\ Len(s) \in Nat
  BY FS_CardinalityType DEF EndsWith
<1>2. /\ {s[i] : i \in m + 1 .. Len(s)} = S
      /\ \A i, j \in m + 1 .. Len(s) : i < j => s[i] < s[j]
  BY DEF EndsWith
<1>3. /\ last \in Seq(Nat) /\ Len(last) = n
      /\ \A i \in 1..n : last[i] = s[m + i]
  <2>1. \A i \in m + 1 .. Len(s) : s[i] \in Nat
    BY <1>1
  <2>2. m \in Int /\ m + 1 \in Int /\ m = Len(s) - n
    BY <1>1
  <2> HIDE DEF n, m
  <2>3. /\ SubSeq(s, m + 1, Len(s)) \in Seq(Nat)
        /\ Len(SubSeq(s, m + 1, Len(s))) = IF m + 1 <= Len(s) THEN Len(s) - (m + 1) + 1 ELSE 0
        /\ \A i \in 1 .. Len(s) - (m + 1) + 1 : SubSeq(s, m + 1, Len(s))[i] = s[(m + 1) + i - 1]
    BY <1>1, <2>1, <2>2, SubSeqProperties
  <2>4. Len(last) = n
    BY <1>1, <2>2, <2>3
  <2>5. ASSUME NEW i \in 1..n PROVE last[i] = s[m + i]
    <3>1. i \in 1 .. Len(s) - (m + 1) + 1 /\ (m + 1) + i - 1 = m + i
      BY <1>1, <2>2
    <3> QED
      BY <2>3, <3>1
  <2> QED
    BY <2>3, <2>4, <2>5
<1> HIDE DEF last
<1>4. Range(last) = S
  <2>1. Range(last) = {last[i] : i \in 1..n}
    <3>1. DOMAIN last = 1..n
      BY <1>3, LenProperties
    <3> QED
      BY <3>1 DEF Range
  <2>2. \A i \in 1..n : m + i \in m + 1 .. Len(s)
    BY <1>1
  <2>3. \A i \in m + 1 .. Len(s) : i - m \in 1..n /\ m + (i - m) = i
    <3> HIDE DEF n
    <3> QED
      BY <1>1
  <2> HIDE DEF n, m
  <2>4. ASSUME NEW r \in S PROVE r \in Range(last)
    <3>1. PICK i \in m + 1 .. Len(s) : r = s[i]
      BY <1>2
    <3>2. last[i - m] = r
      BY <1>3, <2>3, <3>1
    <3> QED
      BY <2>1, <2>3, <3>2
  <2>5. ASSUME NEW i \in 1..n PROVE last[i] \in S
    BY <1>2, <1>3, <2>2
  <2> QED
    BY <2>1, <2>4, <2>5
<1>5. \A i, j \in 1..n : i < j => last[i] < last[j]
  <2>1. \A i \in 1..n : m + i \in m + 1 .. Len(s)
    BY <1>1
  <2>2. \A i, j \in 1..n : i < j => m + i < m + j
    BY <1>1
  <2> HIDE DEF n, m
  <2> QED
    BY <1>2, <1>3, <2>1, <2>2
<1> QED
  BY <1>4, <1>5 DEF last

\* The primitives that were read, those of them that this pass is past, and of
\* these the ones that the charm has.
ReadSoFar(c) == {Declared[i] : i \in 1..pass[c]}
Past(c) == ReadSoFar(c) \ queue[c]
Done(c) == Past(c) \cap Known

LEMMA ReadTypes ==
  ASSUME LegacyTypeOK, NEW c \in LCall
  PROVE  /\ ReadSoFar(c) \subseteq Range(Declared) /\ Range(Declared) \subseteq Nat
         /\ IsFiniteSet(ReadSoFar(c)) /\ IsFiniteSet(Done(c)) /\ Done(c) \in SUBSET Nat
         /\ pass[c] = Len(Declared) => ReadSoFar(c) = Range(Declared)
<1> USE LegacyAssumption
<1>1. pass[c] \in 0..Len(Declared) /\ Len(Declared) \in Nat
  <2>1. Len(Declared) \in Nat
    BY LenProperties
  <2>2. pass \in [LCall -> 0..Len(Declared)]
    BY DEF LegacyTypeOK
  <2> QED
    BY <2>1, <2>2
<1>2. /\ ReadSoFar(c) \subseteq Range(Declared) /\ Range(Declared) \subseteq Nat
      /\ pass[c] = Len(Declared) => ReadSoFar(c) = Range(Declared)
  BY <1>1 DEF ReadSoFar, Range
<1>3. IsFiniteSet(ReadSoFar(c))
  <2> DEFINE f == [i \in 1..pass[c] |-> Declared[i]]
  <2>1. f \in Surjection(1..pass[c], ReadSoFar(c))
    BY DEF Surjection, ReadSoFar
  <2>2. IsFiniteSet(1..pass[c])
    BY <1>1, FS_Interval
  <2> HIDE DEF f
  <2> QED
    BY <2>1, <2>2, FS_Surjection
<1>4. IsFiniteSet(Done(c)) /\ Done(c) \in SUBSET Nat
  BY <1>2, <1>3, FS_Subset DEF Done, Past
<1> QED
  BY <1>2, <1>3, <1>4

LEMMA NextSeqIsLeast ==
  ASSUME LegacyTypeOK, NEW c \in LCall, queue[c] # {}
  PROVE  NextSeq(c) \in queue[c] /\ NextSeq(c) \in Nat /\ \A r \in queue[c] : NextSeq(c) <= r
<1>1. queue[c] \subseteq Nat
  BY ReadTypes DEF LegacyTypeOK
<1>2. PICK q \in queue[c] : \A r \in queue[c] : ~(<<r, q>> \in OpToRel(<, Nat))
  BY <1>1, WFMin, NatLessThanWellFounded
<1>3. \A r \in queue[c] : q <= r
  <2>1. \A r, t \in Nat : r < t => <<r, t>> \in OpToRel(<, Nat)
    BY DEF OpToRel
  <2>2. ASSUME NEW r \in queue[c] PROVE q <= r
    <3>1. q \in Nat /\ r \in Nat
      BY <1>1
    <3>2. ~(<<r, q>> \in OpToRel(<, Nat))
      BY <1>2
    <3>3. ~(r < q)
      BY <2>1, <3>1, <3>2
    <3> QED
      BY <3>1, <3>3
  <2> QED
    BY <2>2
<1> QED
  BY <1>1, <1>3 DEF NextSeq

\* Which calls come to which place; a deployment that returned has read all and
\* has nothing left to run.
KindsInv == \A c \in LCall :
    /\ lpc[c] = "listing" => LKind[c] \in {"create", "destroy"}
    /\ lpc[c] = "attaching" => LKind[c] = "destroy"
    /\ lpc[c] \in {"checking", "deploying", "running"} => LKind[c] = "deploy"
    /\ lpc[c] \in {"removing", "taking down"} => LKind[c] \in {"remove", "destroy"}
    /\ lpc[c] \in {"closing", "disconnecting", "destroying"} => LKind[c] = "destroy"
    /\ lpc[c] = "returned" /\ LKind[c] = "deploy" => queue[c] = {} /\ pass[c] = Len(Declared)

\* What this pass has run is the end of what was run, in order, unless it missed
\* the application, and what it has yet to run comes after it.
PassOf(c) ==
    /\ queue[c] \subseteq ReadSoFar(c)
    /\ c \notin missed => EndsWith(executed[c], Done(c))
    /\ \A q \in queue[c], r \in Past(c) : r < q
PassInv == \A c \in LCall : PassOf(c)

\* Places of a call that has not opened a model.
Early == {"absent", "idle", "login", "listing", "attaching", "getting"}

\* Who opened a connection is past that, and a model is cached under its name.
OpenedInv ==
    /\ IsFiniteSet(open)
    /\ \A c \in open : lpc[c] \notin Early \cup Opening
    /\ \A n \in Service : models[n] \in LCall => ServiceOf[models[n]] = n

\* Without a race one call at a time opens or closes a model, it opens one that
\* is not cached and creates one that is not there, and closes one that is open;
\* a model that was never cached has no monitor.
AloneInv == ~raced =>
    /\ \A c \in LCall : lpc[c] \in Opening => ~Together(c, Opening) /\ Held(c) = "absent"
    /\ \A c \in LCall : lpc[c] = "disconnecting" =>
          ~Together(c, {"disconnecting"}) /\ Held(c) \in LCall
    /\ \A c \in LCall : lpc[c] = "adding" => ServiceOf[c] \notin inJuju
    /\ \A n \in Service : models[n] = "absent" => monitors[n] = "absent"

LegacyInv ==
    LegacyTypeOK /\ KindsInv /\ PassInv /\ OpenedInv /\ AloneInv /\ OpenIsObserved

LEMMA LegacyInitially == ASSUME NEW calls \in SUBSET LCall, LegacyInit(calls) PROVE LegacyInv
<1> USE LegacyAssumption DEF LegacyInit
<1>1. LegacyTypeOK
  <2>1. Len(Declared) \in Nat /\ 0 \in 0..Len(Declared)
    BY LenProperties
  <2>2. queue \in [LCall -> SUBSET Range(Declared)] /\ executed \in [LCall -> Seq(Nat)]
    BY EmptySeq
  <2>3. pass \in [LCall -> 0..Len(Declared)]
    BY <2>1
  <2>4. models \in [Service -> LCall \cup {"absent", "none"}] /\ monitors = models
    OBVIOUS
  <2>5. lpc \in [LCall -> {"absent", "idle"}] /\ refcount \in Int
    OBVIOUS
  <2>7. open \subseteq LCall /\ attached \subseteq LCall /\ missed \subseteq LCall /\ inJuju \subseteq Service /\ signedIn \in BOOLEAN /\ raced \in BOOLEAN
    OBVIOUS
  <2>6. charms \subseteq Service \X Charm /\ subscribed \subseteq Service \X Charm
    OBVIOUS
  <2> QED
    BY <2>2, <2>3, <2>4, <2>5, <2>6, <2>7 DEF LegacyTypeOK
<1>2. KindsInv
  BY DEF KindsInv
<1>3. PassInv
  <2> SUFFICES ASSUME NEW c \in LCall PROVE PassOf(c)
    BY DEF PassInv
  <2>1. executed[c] = <<>> /\ queue[c] = {} /\ ReadSoFar(c) = {} /\ Done(c) = {}
    BY DEF ReadSoFar, Done, Past
  <2>2. executed[c] \in Seq(Nat)
    BY <2>1, EmptySeq
  <2> QED
    BY <2>1, <2>2, EndsWithNothing DEF PassOf
<1>4. OpenedInv
  BY FS_EmptySet DEF OpenedInv
<1>5. AloneInv
  BY DEF AloneInv, Opening, Held
<1>6. OpenIsObserved
  BY FS_EmptySet DEF OpenIsObserved
<1> QED
  BY <1>1, <1>2, <1>3, <1>4, <1>5, <1>6 DEF LegacyInv

LegacyStepOf(c) == GetModelSteps(c) \/ DeployCharms(c) \/ RemoveSteps(c) \/ LegacyFails(c)

LPlace == {"absent", "idle", "login", "listing", "attaching", "getting", "checking", "deploying",
           "running", "removing", "taking down", "closing", "disconnecting",
           "destroying"} \cup Opening \cup LEnded

LEMMA LegacyTypeStep ==
  ASSUME LegacyTypeOK, NEW c \in LCall, LegacyStepOf(c)
  PROVE  LegacyTypeOK'
<1> USE LegacyAssumption DEF LGoto, modelSide, callSide
<1>p. lpc \in [LCall -> LPlace]
  BY DEF LPlace, LegacyTypeOK
<1>q. ASSUME NEW label \in LPlace, lpc' = [lpc EXCEPT ![c] = label]
      PROVE  lpc' \in [LCall -> LPlace]
  BY <1>p, <1>q
<1>1. CASE Login(c) \/ LoginEnds(c) \/ GetModel(c) \/ ListModels(c)
  BY <1>1 DEF Login, LoginEnds, GetModel, ListModels, First, AfterGet, LegacyTypeOK, LEnded, Opening
<1>0. ServiceOf[c] \in Service /\ App(c) \in Service \X Charm
  BY DEF App
<1>2. CASE OpenService(c) \/ AlreadyExists(c)
  <2>1. /\ refcount' = refcount + 1
        /\ open' \subseteq open \cup {c} /\ inJuju' \subseteq inJuju \cup {ServiceOf[c]}
        /\ models' \in {models, [models EXCEPT ![ServiceOf[c]] = c]}
        /\ UNCHANGED <<signedIn, charms, attached, raced, subscribed>>
        /\ UNCHANGED <<pass, queue, executed, missed>>
    BY <1>2 DEF OpenService, AlreadyExists
  <2>2. models' \in [Service -> LCall \cup {"absent", "none"}]
    BY <2>1 DEF LegacyTypeOK
  <2>3. monitors' \in [Service -> LCall \cup {"absent", "none"}]
    <3>1. \E m \in LCall \cup {"absent", "none"} :
             monitors' = [monitors EXCEPT ![ServiceOf[c]] = m]
      BY <1>0, <1>2 DEF OpenService, AlreadyExists, Observed, Held, LegacyTypeOK
    <3> QED
      BY <3>1 DEF LegacyTypeOK
  <2>4. lpc' \in [LCall -> LPlace]
    BY <1>2, <1>q DEF OpenService, AlreadyExists, AfterGet, LPlace, LEnded
  <2>5. refcount \in Int /\ inJuju \subseteq Service
    BY DEF LegacyTypeOK
  <2>6. refcount' \in Int /\ inJuju' \subseteq Service
    BY <1>0, <2>1, <2>5
  <2> QED
    BY <2>1, <2>2, <2>3, <2>4, <2>6 DEF LegacyTypeOK, LPlace
<1>3. CASE CheckCharm(c) \/ DeployOne(c) \/ PrimitivesDone(c)
  <2>1. /\ \E label \in {"raised", "deploying", "running", "returned"} :
              lpc' = [lpc EXCEPT ![c] = label]
        /\ subscribed' \subseteq subscribed \cup {App(c)} /\ charms' \subseteq charms \cup {App(c)}
        /\ UNCHANGED <<signedIn, inJuju, models, open, attached, refcount, monitors, raced>>
        /\ UNCHANGED <<pass, queue, executed, missed>>
    BY <1>3 DEF CheckCharm, DeployOne, PrimitivesDone
  <2>2. lpc' \in [LCall -> LPlace]
    BY <1>q, <2>1 DEF LPlace, LEnded
  <2>3. subscribed' \subseteq Service \X Charm /\ charms' \subseteq Service \X Charm
    BY <1>0, <2>1 DEF LegacyTypeOK
  <2> QED
    BY <2>1, <2>2, <2>3 DEF LegacyTypeOK, LPlace
<1>4. CASE ReadPrimitive(c)
  <2>1. /\ pass' = [pass EXCEPT ![c] = @ + 1] /\ pass[c] < Len(Declared)
        /\ queue' = [queue EXCEPT ![c] = {Declared[i] : i \in 1..pass'[c]}]
        /\ UNCHANGED <<lpc, signedIn, inJuju, charms, modelSide, subscribed, executed, missed>>
    BY <1>4 DEF ReadPrimitive
  <2>2. Len(Declared) \in Nat /\ pass \in [LCall -> 0..Len(Declared)]
    BY LenProperties DEF LegacyTypeOK
  <2>3. pass' \in [LCall -> 0..Len(Declared)] /\ pass'[c] \in 0..Len(Declared)
    BY <2>1, <2>2
  <2>4. {Declared[i] : i \in 1..pass'[c]} \subseteq Range(Declared)
    BY <2>2, <2>3, LenProperties DEF Range
  <2>5. queue' \in [LCall -> SUBSET Range(Declared)]
    BY <2>1, <2>4 DEF LegacyTypeOK
  <2> QED
    BY <2>1, <2>3, <2>5 DEF LegacyTypeOK
<1>5. CASE RunPrimitive(c)
  <2>1. /\ executed' \in {executed, [executed EXCEPT ![c] = Append(@, NextSeq(c))]}
        /\ missed' \subseteq missed \cup {c}
        /\ queue' = [queue EXCEPT ![c] = @ \ {NextSeq(c)}] /\ queue[c] # {}
        /\ UNCHANGED <<lpc, signedIn, inJuju, charms, modelSide, subscribed, pass>>
    BY <1>5 DEF RunPrimitive
  <2>2. NextSeq(c) \in Nat
    BY <2>1, NextSeqIsLeast
  <2>3. executed' \in [LCall -> Seq(Nat)]
    <3>1. executed[c] \in Seq(Nat)
      BY DEF LegacyTypeOK
    <3>2. Append(executed[c], NextSeq(c)) \in Seq(Nat)
      BY <2>2, <3>1, AppendProperties
    <3>3. [executed EXCEPT ![c] = Append(@, NextSeq(c))] \in [LCall -> Seq(Nat)]
      BY <3>2 DEF LegacyTypeOK
    <3> QED
      BY <2>1, <3>3 DEF LegacyTypeOK
  <2>4. queue' \in [LCall -> SUBSET Range(Declared)]
    BY <2>1 DEF LegacyTypeOK
  <2> QED
    BY <2>1, <2>3, <2>4 DEF LegacyTypeOK
<1>6. CASE RemoveCharm(c) \/ CharmRemoved(c) \/ ListServices(c) \/ Attach(c)
  <2>1. /\ \E label \in {"returned", "closing", "taking down", "removing", "getting", "attaching"} :
              lpc' = [lpc EXCEPT ![c] = label]
        /\ subscribed' \subseteq subscribed /\ charms' \subseteq charms
        /\ attached' \subseteq attached \cup {c}
        /\ UNCHANGED <<signedIn, inJuju, models, open, refcount, monitors, raced>>
        /\ UNCHANGED <<pass, queue, executed, missed>>
    BY <1>6 DEF RemoveCharm, CharmRemoved, ListServices, Attach, AfterRemove
  <2>2. lpc' \in [LCall -> LPlace]
    BY <1>q, <2>1 DEF LPlace, LEnded
  <2> QED
    BY <2>1, <2>2 DEF LegacyTypeOK, LPlace
<1>7. CASE CloseModel(c) \/ Disconnect(c) \/ DestroyModels(c)
  <2>0. lpc' \in [LCall -> LPlace]
    BY <1>7, <1>q DEF CloseModel, Disconnect, DestroyModels, LPlace, LEnded
  <2>1. /\ open' \subseteq open /\ inJuju' \subseteq inJuju /\ charms' \subseteq charms
        /\ models' \in {models, [models EXCEPT ![ServiceOf[c]] = "none"]}
        /\ refcount' \in {refcount, refcount - 1}
        /\ UNCHANGED <<signedIn, attached, monitors, subscribed, pass, queue, executed, missed>>
    BY <1>7 DEF CloseModel, Disconnect, DestroyModels
  <2>2. raced' \in BOOLEAN
    BY <1>7 DEF CloseModel, Disconnect, DestroyModels, LegacyTypeOK
  <2>3. refcount \in Int
    BY DEF LegacyTypeOK
  <2>4. refcount' \in Int
    BY <2>1, <2>3
  <2> QED
    BY <2>0, <2>1, <2>2, <2>4 DEF LegacyTypeOK, LPlace
<1>8. CASE LegacyFails(c)
  BY <1>8 DEF LegacyFails, LegacyTypeOK, LEnded, Opening
<1> QED
  BY <1>1, <1>2, <1>3, <1>4, <1>5, <1>6, <1>7, <1>8
  DEF LegacyStepOf, GetModelSteps, DeployCharms, RemoveSteps

LEMMA KindsStep ==
  ASSUME LegacyTypeOK, KindsInv, NEW c \in LCall, LegacyStepOf(c)
  PROVE  KindsInv'
<1> USE LegacyAssumption DEF LGoto, Opening, modelSide, callSide
<1>1. ASSUME NEW label, lpc' = [lpc EXCEPT ![c] = label], UNCHANGED <<pass, queue>>,
             label = "listing" => LKind[c] \in {"create", "destroy"},
             label = "attaching" => LKind[c] = "destroy",
             label \in {"checking", "deploying", "running"} => LKind[c] = "deploy",
             label \in {"removing", "taking down"} => LKind[c] \in {"remove", "destroy"},
             label \in {"closing", "disconnecting", "destroying"} => LKind[c] = "destroy",
             label = "returned" /\ LKind[c] = "deploy" => queue[c] = {} /\ pass[c] = Len(Declared)
      PROVE  KindsInv'
  BY <1>1 DEF KindsInv, LegacyTypeOK
<1>2. CASE Login(c) \/ LoginEnds(c)
  BY <1>1, <1>2 DEF Login, LoginEnds, First, KindsInv, LegacyTypeOK
<1>3. CASE GetModel(c) \/ ListModels(c) \/ OpenService(c) \/ AlreadyExists(c)
  BY <1>1, <1>3 DEF GetModel, ListModels, OpenService, AlreadyExists, AfterGet, LegacyTypeOK
<1>4. CASE CheckCharm(c) \/ DeployOne(c) \/ PrimitivesDone(c)
  BY <1>1, <1>4 DEF CheckCharm, DeployOne, PrimitivesDone, KindsInv
<1>5. CASE ReadPrimitive(c) \/ RunPrimitive(c)
  <2>1. /\ lpc[c] = "running" /\ UNCHANGED lpc
        /\ \A d \in LCall \ {c} : pass'[d] = pass[d] /\ queue'[d] = queue[d]
    BY <1>5 DEF ReadPrimitive, RunPrimitive, LegacyTypeOK
  <2> QED
    BY <2>1 DEF KindsInv
<1>6. CASE RemoveCharm(c) \/ CharmRemoved(c) \/ ListServices(c) \/ Attach(c)
  BY <1>1, <1>6 DEF RemoveCharm, CharmRemoved, ListServices, Attach, AfterRemove, KindsInv
<1>7. CASE CloseModel(c) \/ Disconnect(c) \/ DestroyModels(c)
  BY <1>1, <1>7 DEF CloseModel, Disconnect, DestroyModels, KindsInv
<1>8. CASE LegacyFails(c)
  BY <1>1, <1>8 DEF LegacyFails
<1> QED
  BY <1>2, <1>3, <1>4, <1>5, <1>6, <1>7, <1>8
  DEF LegacyStepOf, GetModelSteps, DeployCharms, RemoveSteps

LEMMA PassStep ==
  ASSUME LegacyTypeOK, PassInv, NEW c \in LCall, LegacyStepOf(c)
  PROVE  PassInv'
<1> USE LegacyAssumption
<1>1. ASSUME NEW d \in LCall, pass'[d] = pass[d], queue'[d] = queue[d],
             executed'[d] = executed[d], d \in missed => d \in missed'
      PROVE  PassOf(d)'
  BY <1>1 DEF PassInv, PassOf, ReadSoFar, Done, Past
<1>2. CASE UNCHANGED <<pass, queue, executed, missed>>
  BY <1>1, <1>2 DEF PassInv
<1>3. CASE ReadPrimitive(c)
  <2>1. /\ pass' = [pass EXCEPT ![c] = @ + 1]
        /\ queue' = [queue EXCEPT ![c] = {Declared[i] : i \in 1..pass'[c]}]
        /\ UNCHANGED <<executed, missed>>
    BY <1>3 DEF ReadPrimitive
  <2>2. queue'[c] = ReadSoFar(c)' /\ Past(c)' = {} /\ Done(c)' = {} /\ executed'[c] \in Seq(Nat)
    BY <2>1 DEF LegacyTypeOK, ReadSoFar, Done, Past
  <2>3. PassOf(c)'
    BY <2>2, EndsWithNothing DEF PassOf
  <2>4. ASSUME NEW d \in LCall, d # c PROVE PassOf(d)'
    BY <1>1, <2>1, <2>4 DEF LegacyTypeOK
  <2> QED
    BY <2>3, <2>4 DEF PassInv
<1>4. CASE RunPrimitive(c)
  <2> DEFINE q == NextSeq(c)
  <2>1. /\ queue' = [queue EXCEPT ![c] = @ \ {q}] /\ queue[c] # {}
        /\ \/ missed' = missed \cup {c} /\ UNCHANGED executed
           \/ /\ q \in Known /\ executed' = [executed EXCEPT ![c] = Append(@, q)]
              /\ UNCHANGED missed
           \/ q \notin Known /\ UNCHANGED <<executed, missed>>
        /\ UNCHANGED pass
    BY <1>4 DEF RunPrimitive
  <2>2. q \in queue[c] /\ q \in Nat /\ \A r \in queue[c] : q <= r
    BY <2>1, NextSeqIsLeast
  <2> HIDE DEF q
  <2>3. /\ queue'[c] = queue[c] \ {q} /\ ReadSoFar(c)' = ReadSoFar(c)
        /\ \A d \in LCall \ {c} : /\ executed'[d] = executed[d] /\ queue'[d] = queue[d]
                                 /\ pass'[d] = pass[d] /\ (d \in missed => d \in missed')
    BY <2>1 DEF LegacyTypeOK, ReadSoFar
  <2>4. PassOf(c)
    BY DEF PassInv
  <2>5. Past(c)' = Past(c) \cup {q}
    BY <2>2, <2>3, <2>4 DEF PassOf, Past
  <2>6. /\ ReadSoFar(c) \subseteq Nat /\ Done(c) \in SUBSET Nat /\ IsFiniteSet(Done(c))
        /\ executed[c] \in Seq(Nat)
    BY ReadTypes DEF LegacyTypeOK
  <2>7. ASSUME c \notin missed' PROVE EndsWith(executed'[c], Done(c)')
    <3>1. c \notin missed /\ EndsWith(executed[c], Done(c))
      BY <2>1, <2>4, <2>7 DEF PassOf
    <3>2. CASE q \in Known
      <4>1. executed'[c] = Append(executed[c], q)
        BY <2>1, <2>7, <3>2 DEF LegacyTypeOK
      <4>2. Done(c)' = Done(c) \cup {q}
        BY <2>5, <3>2 DEF Done
      <4>3. \A r \in Done(c) : r < q
        BY <2>2, <2>4 DEF PassOf, Done
      <4>4. EndsWith(Append(executed[c], q), Done(c) \cup {q})
        BY <2>2, <2>6, <3>1, <4>3, EndsWithOneMore
      <4> QED
        BY <4>1, <4>2, <4>4
    <3>3. CASE q \notin Known
      <4>1. executed'[c] = executed[c] /\ Done(c)' = Done(c)
        BY <2>1, <2>5, <2>7, <3>3 DEF Done
      <4> QED
        BY <3>1, <4>1
    <3> QED
      BY <3>2, <3>3
  <2>8. ASSUME NEW p \in queue'[c], NEW r \in Past(c)' PROVE r < p
    <3>1. p \in queue[c] /\ p # q /\ p \in Nat /\ q <= p
      BY <2>2, <2>3, <2>4, <2>6 DEF PassOf
    <3>2. CASE r = q
      BY <3>1, <3>2, <2>2
    <3>3. CASE r # q
      BY <3>1, <3>3, <2>4, <2>5 DEF PassOf
    <3> QED
      BY <3>2, <3>3
  <2>9. PassOf(c)'
    BY <2>3, <2>4, <2>7, <2>8 DEF PassOf
  <2>10. ASSUME NEW d \in LCall, d # c PROVE PassOf(d)'
    BY <1>1, <2>3, <2>10
  <2> QED
    BY <2>9, <2>10 DEF PassInv
<1>5. CASE GetModelSteps(c) \/ RemoveSteps(c) \/ LegacyFails(c)
  <2>1. UNCHANGED <<pass, queue, executed, missed>>
    BY <1>5 DEF GetModelSteps, RemoveSteps, LegacyFails, Login, LoginEnds, GetModel, ListModels,
       OpenService, AlreadyExists, RemoveCharm, CharmRemoved, ListServices, Attach, CloseModel,
       Disconnect, DestroyModels, callSide
  <2> QED
    BY <1>2, <2>1
<1>6. CASE CheckCharm(c) \/ DeployOne(c) \/ PrimitivesDone(c)
  <2>1. UNCHANGED <<pass, queue, executed, missed>>
    BY <1>6 DEF CheckCharm, DeployOne, PrimitivesDone, callSide
  <2> QED
    BY <1>2, <2>1
<1> QED
  BY <1>3, <1>4, <1>5, <1>6 DEF LegacyStepOf, DeployCharms

ConnectionInv == OpenedInv /\ AloneInv /\ OpenIsObserved

\* A call that neither opens nor closes a model: it comes to no such place, and
\* not back to one before it.
LEMMA QuietStep ==
  ASSUME LegacyTypeOK, ConnectionInv, NEW c \in LCall,
         NEW label, lpc' = [lpc EXCEPT ![c] = label],
         label \notin Opening \cup {"disconnecting"}, label \in Early => lpc[c] \in Early,
         inJuju' \subseteq inJuju, UNCHANGED <<models, open, refcount, monitors, raced>>
  PROVE  ConnectionInv'
<1> USE LegacyAssumption DEF ConnectionInv
<1>1. /\ lpc'[c] = label
      /\ \A d \in LCall \ {c} : lpc'[d] = lpc[d]
  BY DEF LegacyTypeOK
<1>2. OpenedInv'
  BY <1>1 DEF OpenedInv, LegacyTypeOK
<1>3. AloneInv'
  <2>1. ASSUME NEW d \in LCall, lpc'[d] \in Opening \cup {"disconnecting"}
        PROVE  lpc'[d] = lpc[d] /\ d # c
    BY <1>1, <2>1
  <2>2. ASSUME NEW d \in LCall, NEW labels \in {Opening, {"disconnecting"}}, Together(d, labels)'
        PROVE  Together(d, labels)
    <3>1. labels \subseteq Opening \cup {"disconnecting"}
      OBVIOUS
    <3> QED
      BY <2>1, <2>2, <3>1 DEF Together
  <2>3. "adding" \in Opening
    BY DEF Opening
  <2> QED
    BY <2>1, <2>2, <2>3 DEF AloneInv, Held
<1>4. OpenIsObserved'
  BY DEF OpenIsObserved
<1> QED
  BY <1>2, <1>3, <1>4

LEMMA GetModelStarts ==
  ASSUME LegacyTypeOK, ConnectionInv, NEW c \in LCall, GetModel(c)
  PROVE  ConnectionInv'
<1> USE LegacyAssumption DEF ConnectionInv
<1>1. CASE Held(c) # "absent"
  BY <1>1, QuietStep DEF GetModel, LGoto, AfterGet, Opening, Early
<1>2. CASE Held(c) = "absent"
  <2>1. /\ lpc[c] = "getting" /\ lpc' = [lpc EXCEPT ![c] = "looking"]
        /\ raced' = (raced \/ Together(c, Opening))
        /\ UNCHANGED <<inJuju, models, open, refcount, monitors>>
    BY <1>2 DEF GetModel, LGoto
  <2>2. lpc'[c] = "looking" /\ \A d \in LCall \ {c} : lpc'[d] = lpc[d]
    BY <2>1 DEF LegacyTypeOK
  <2>3. c \notin open
    BY <2>1 DEF OpenedInv, Early
  <2>4. OpenedInv'
    BY <2>1, <2>2, <2>3 DEF OpenedInv, LegacyTypeOK
  <2>5. AloneInv'
    <3> SUFFICES ASSUME ~raced' PROVE AloneInv'
      BY DEF AloneInv
    <3>1. ~raced /\ ~Together(c, Opening)
      BY <2>1
    <3>2. ASSUME NEW d \in LCall, lpc'[d] \in Opening
          PROVE  ~Together(d, Opening)' /\ Held(d)' = "absent"
      <4>1. CASE d = c
        BY <1>2, <2>1, <2>2, <3>1, <4>1 DEF Together, Held
      <4>2. CASE d # c
        <5>1. lpc[d] \in Opening
          BY <2>2, <3>2, <4>2
        <5>2. ~Together(d, Opening) /\ Held(d) = "absent" /\ ServiceOf[d] # ServiceOf[c]
          BY <3>1, <4>2, <5>1 DEF AloneInv, Together
        <5> QED
          BY <2>1, <2>2, <5>2 DEF Together, Held
      <4> QED
        BY <4>1, <4>2
    <3>3. ASSUME NEW d \in LCall, lpc'[d] = "disconnecting"
          PROVE  ~Together(d, {"disconnecting"})' /\ Held(d)' \in LCall
      BY <2>1, <2>2, <3>1, <3>3 DEF AloneInv, Together, Held
    <3>4. ASSUME NEW d \in LCall, lpc'[d] = "adding" PROVE ServiceOf[d] \notin inJuju'
      BY <2>1, <2>2, <3>1, <3>4 DEF AloneInv
    <3> QED
      BY <2>1, <3>1, <3>2, <3>3, <3>4 DEF AloneInv
  <2>6. OpenIsObserved'
    BY <2>1 DEF OpenIsObserved
  <2> QED
    BY <2>4, <2>5, <2>6
<1> QED
  BY <1>1, <1>2

LEMMA ListModelsStep ==
  ASSUME LegacyTypeOK, ConnectionInv, NEW c \in LCall, ListModels(c)
  PROVE  ConnectionInv'
<1> USE LegacyAssumption DEF ConnectionInv
<1> DEFINE label == IF ServiceOf[c] \in inJuju THEN "opening" ELSE "adding"
<1>1. /\ lpc[c] = "looking" /\ lpc' = [lpc EXCEPT ![c] = label]
      /\ UNCHANGED <<inJuju, models, open, refcount, monitors, raced>>
  BY DEF ListModels, LGoto, modelSide
<1>2. /\ label \in {"opening", "adding"} /\ (label = "adding" => ServiceOf[c] \notin inJuju)
  OBVIOUS
<1> HIDE DEF label
<1>3. lpc'[c] = label /\ \A d \in LCall \ {c} : lpc'[d] = lpc[d]
  BY <1>1 DEF LegacyTypeOK
<1>4. \A d \in LCall : /\ lpc'[d] \in Opening <=> lpc[d] \in Opening
                       /\ lpc'[d] = "disconnecting" <=> lpc[d] = "disconnecting"
  BY <1>1, <1>2, <1>3 DEF Opening
<1>5. OpenedInv'
  <2>1. c \notin open
    BY <1>1 DEF OpenedInv, Opening
  <2> QED
    BY <1>1, <1>3, <2>1 DEF OpenedInv, LegacyTypeOK
<1>6. AloneInv'
  <2>1. \A d \in LCall : /\ Together(d, Opening)' = Together(d, Opening)
                         /\ Together(d, {"disconnecting"})' = Together(d, {"disconnecting"})
                         /\ Held(d)' = Held(d)
    BY <1>1, <1>4 DEF Together, Held
  <2>2. ~raced' => \A d \in LCall : lpc'[d] = "adding" => ServiceOf[d] \notin inJuju'
    BY <1>1, <1>2, <1>3 DEF AloneInv
  <2> QED
    BY <1>1, <1>4, <2>1, <2>2 DEF AloneInv
<1>7. OpenIsObserved'
  BY <1>1 DEF OpenIsObserved
<1> QED
  BY <1>5, <1>6, <1>7

LEMMA OpenServiceStep ==
  ASSUME LegacyTypeOK, ConnectionInv, NEW c \in LCall, OpenService(c)
  PROVE  ConnectionInv'
<1> USE LegacyAssumption DEF ConnectionInv
<1> DEFINE n == ServiceOf[c]
<1>1. /\ lpc[c] \in Opening /\ inJuju' \subseteq inJuju \cup {n}
      /\ models' = [models EXCEPT ![n] = c]
      /\ open' = open \cup {c} /\ refcount' = refcount + 1
      /\ monitors' = [monitors EXCEPT ![n] = IF @ = "absent" THEN c ELSE @]
      /\ lpc' = [lpc EXCEPT ![c] = AfterGet(c)]
      /\ UNCHANGED raced
  BY DEF OpenService, Opening, LGoto, Observed
<1>2. /\ n \in Service /\ c \notin {"absent", "none"}
      /\ models'[n] = c /\ monitors'[n] = (IF monitors[n] = "absent" THEN c ELSE monitors[n])
      /\ \A m \in Service \ {n} : models'[m] = models[m] /\ monitors'[m] = monitors[m]
  BY <1>1 DEF LegacyTypeOK
<1>3. /\ lpc'[c] \notin Early \cup Opening \cup {"disconnecting"}
      /\ \A d \in LCall \ {c} : lpc'[d] = lpc[d]
  BY <1>1 DEF LegacyTypeOK, AfterGet, Early, Opening
<1>4. c \notin open
  BY <1>1 DEF OpenedInv
<1> HIDE DEF n
<1>5. OpenedInv'
  <2>1. IsFiniteSet(open')
    BY <1>1, FS_AddElement DEF OpenedInv
  <2>2. \A d \in open' : lpc'[d] \notin Early \cup Opening
    BY <1>1, <1>3 DEF OpenedInv, LegacyTypeOK
  <2>3. \A m \in Service : models'[m] \in LCall => ServiceOf[models'[m]] = m
    BY <1>2 DEF OpenedInv, n
  <2> QED
    BY <2>1, <2>2, <2>3 DEF OpenedInv
<1>6. ASSUME ~raced'
      PROVE  /\ \A d \in LCall \ {c} : ServiceOf[d] = n => lpc[d] \notin Opening
             /\ models[n] = "absent" /\ monitors[n] = "absent"
             /\ \A d \in LCall : ServiceOf[d] = n => lpc[d] # "disconnecting"
  BY <1>1, <1>2, <1>6 DEF AloneInv, Together, Held, n
<1>7. AloneInv'
  <2> SUFFICES ASSUME ~raced' PROVE AloneInv'
    BY DEF AloneInv
  <2>1. ~raced
    BY <1>1
  <2>2. ASSUME NEW d \in LCall, lpc'[d] \in Opening \cup {"disconnecting"}
        PROVE  d # c /\ lpc[d] = lpc'[d] /\ ServiceOf[d] # n /\ ServiceOf[d] \in Service
    BY <1>3, <1>6, <2>2
  <2>3. ASSUME NEW d \in LCall, lpc'[d] \in Opening
        PROVE  ~Together(d, Opening)' /\ Held(d)' = "absent"
    <3>1. ~Together(d, Opening) /\ Held(d) = "absent"
      BY <2>1, <2>2, <2>3 DEF AloneInv
    <3> QED
      BY <1>2, <1>3, <2>2, <2>3, <3>1 DEF Together, Held
  <2>4. ASSUME NEW d \in LCall, lpc'[d] = "disconnecting"
        PROVE  ~Together(d, {"disconnecting"})' /\ Held(d)' \in LCall
    <3>1. ~Together(d, {"disconnecting"}) /\ Held(d) \in LCall
      BY <2>1, <2>2, <2>4 DEF AloneInv
    <3> QED
      BY <1>2, <1>3, <2>2, <2>4, <3>1 DEF Together, Held
  <2>5. ASSUME NEW d \in LCall, lpc'[d] = "adding" PROVE ServiceOf[d] \notin inJuju'
    BY <1>1, <2>1, <2>2, <2>5 DEF AloneInv, Opening
  <2>6. \A m \in Service : models'[m] = "absent" => monitors'[m] = "absent"
    BY <1>2, <2>1 DEF AloneInv
  <2> QED
    BY <2>3, <2>4, <2>5, <2>6 DEF AloneInv
<1>8. OpenIsObserved'
  <2> SUFFICES ASSUME ~raced' PROVE OpenIsObserved'
    BY DEF OpenIsObserved
  <2>1. refcount' = Cardinality(open')
    <3>1. refcount = Cardinality(open)
      BY <1>1 DEF OpenIsObserved
    <3> QED
      BY <1>1, <1>4, <3>1, FS_AddElement DEF OpenedInv
  <2>2. \A m \in Service : models'[m] \in LCall => models'[m] \in open' /\ monitors'[m] = models'[m]
    BY <1>1, <1>2, <1>6 DEF OpenIsObserved
  <2> QED
    BY <2>1, <2>2 DEF OpenIsObserved
<1> QED
  BY <1>5, <1>7, <1>8

LEMMA AlreadyExistsStep ==
  ASSUME LegacyTypeOK, ConnectionInv, NEW c \in LCall, AlreadyExists(c)
  PROVE  ConnectionInv'
<1> USE LegacyAssumption DEF ConnectionInv
<1>1. /\ raced /\ UNCHANGED <<models, open, raced>>
      /\ \E label \in {"raised", AfterGet(c)} : lpc' = [lpc EXCEPT ![c] = label]
  BY DEF AlreadyExists, AloneInv, LGoto
<1>2. AloneInv' /\ OpenIsObserved'
  BY <1>1 DEF AloneInv, OpenIsObserved
<1>3. lpc'[c] \notin Early \cup Opening /\ \A d \in LCall \ {c} : lpc'[d] = lpc[d]
  BY <1>1 DEF LegacyTypeOK, AfterGet, Early, Opening
<1>4. OpenedInv'
  BY <1>1, <1>3 DEF OpenedInv, LegacyTypeOK
<1> QED
  BY <1>2, <1>4

LEMMA CloseModelStep ==
  ASSUME LegacyTypeOK, ConnectionInv, NEW c \in LCall, CloseModel(c)
  PROVE  ConnectionInv'
<1> USE LegacyAssumption DEF ConnectionInv
<1> DEFINE label == IF Held(c) \in LCall THEN "disconnecting" ELSE "destroying"
<1>1. /\ lpc[c] = "closing" /\ lpc' = [lpc EXCEPT ![c] = label]
      /\ raced' = (raced \/ Together(c, {"disconnecting"} \cup Opening))
      /\ UNCHANGED <<inJuju, models, open, refcount, monitors>>
  BY DEF CloseModel, LGoto
<1>2. /\ label \in {"disconnecting", "destroying"} /\ (label = "disconnecting" => Held(c) \in LCall)
  OBVIOUS
<1> HIDE DEF label
<1>3. lpc'[c] = label /\ \A d \in LCall \ {c} : lpc'[d] = lpc[d]
  BY <1>1 DEF LegacyTypeOK
<1>4. \A d \in LCall : lpc'[d] \in Opening <=> lpc[d] \in Opening
  BY <1>1, <1>2, <1>3 DEF Opening
<1>5. OpenedInv'
  <2>1. label \notin Early \cup Opening
    BY <1>2 DEF Early, Opening
  <2> QED
    BY <1>1, <1>3, <2>1 DEF OpenedInv, LegacyTypeOK
<1>6. AloneInv'
  <2> SUFFICES ASSUME ~raced' PROVE AloneInv'
    BY DEF AloneInv
  <2>1. ~raced /\ ~Together(c, {"disconnecting"} \cup Opening)
    BY <1>1
  <2>2. ASSUME NEW d \in LCall, lpc'[d] \in Opening
        PROVE  ~Together(d, Opening)' /\ Held(d)' = "absent"
    BY <1>1, <1>4, <2>1, <2>2 DEF AloneInv, Together, Held
  <2>3. ASSUME NEW d \in LCall, lpc'[d] = "disconnecting"
        PROVE  ~Together(d, {"disconnecting"})' /\ Held(d)' \in LCall
    <3>1. CASE d = c
      BY <1>1, <1>2, <1>3, <2>1, <2>3, <3>1 DEF Together, Held
    <3>2. CASE d # c
      <4>1. lpc[d] = "disconnecting"
        BY <1>3, <2>3, <3>2
      <4>2. ServiceOf[d] # ServiceOf[c]
        BY <2>1, <3>2, <4>1 DEF Together
      <4>3. ~Together(d, {"disconnecting"}) /\ Held(d) \in LCall
        BY <2>1, <4>1 DEF AloneInv
      <4> QED
        BY <1>1, <1>3, <4>2, <4>3 DEF Together, Held
    <3> QED
      BY <3>1, <3>2
  <2>4. ASSUME NEW d \in LCall, lpc'[d] = "adding" PROVE ServiceOf[d] \notin inJuju'
    BY <1>1, <1>2, <1>3, <2>1, <2>4 DEF AloneInv
  <2> QED
    BY <1>1, <2>1, <2>2, <2>3, <2>4 DEF AloneInv
<1>7. OpenIsObserved'
  BY <1>1 DEF OpenIsObserved
<1> QED
  BY <1>5, <1>6, <1>7

LEMMA DisconnectStep ==
  ASSUME LegacyTypeOK, ConnectionInv, NEW c \in LCall, Disconnect(c),
         ~UNCHANGED <<models, open, refcount>>
  PROVE  ConnectionInv'
<1> USE LegacyAssumption DEF ConnectionInv
<1> DEFINE n == ServiceOf[c]
<1>1. /\ lpc[c] = "disconnecting" /\ lpc' = [lpc EXCEPT ![c] = "destroying"]
      /\ open' = open \ {models[n]} /\ refcount' = refcount - 1
      /\ models' = [models EXCEPT ![n] = "none"]
      /\ UNCHANGED <<inJuju, monitors, raced>>
  BY DEF Disconnect, LGoto, Held
<1>2. /\ n \in Service /\ models'[n] = "none" /\ "none" \notin LCall
      /\ \A m \in Service \ {n} : models'[m] = models[m]
      /\ \A d \in LCall : Held(d) \in LCall => ServiceOf[Held(d)] = ServiceOf[d]
  BY <1>1 DEF LegacyTypeOK, OpenedInv, Held
<1> HIDE DEF n
<1>3. lpc'[c] = "destroying" /\ \A d \in LCall \ {c} : lpc'[d] = lpc[d]
  BY <1>1 DEF LegacyTypeOK
<1>4. OpenedInv'
  <2>1. IsFiniteSet(open')
    BY <1>1, FS_RemoveElement DEF OpenedInv
  <2>2. "destroying" \notin Early \cup Opening
    BY DEF Early, Opening
  <2>3. \A d \in open' : lpc'[d] \notin Early \cup Opening
    BY <1>1, <1>3, <2>2 DEF OpenedInv, LegacyTypeOK
  <2>4. \A m \in Service : models'[m] \in LCall => ServiceOf[models'[m]] = m
    BY <1>2 DEF OpenedInv
  <2> QED
    BY <2>1, <2>3, <2>4 DEF OpenedInv
<1>5. AloneInv'
  <2> SUFFICES ASSUME ~raced' PROVE AloneInv'
    BY DEF AloneInv
  <2>1. ~raced /\ models[n] \in LCall /\ ~Together(c, {"disconnecting"})
    BY <1>1 DEF AloneInv, Held, n
  <2>2. ASSUME NEW d \in LCall, lpc'[d] \in Opening
        PROVE  ~Together(d, Opening)' /\ Held(d)' = "absent"
    <3>1. lpc[d] \in Opening
      BY <1>3, <2>2 DEF Opening
    <3>2. ~Together(d, Opening) /\ Held(d) = "absent"
      BY <2>1, <3>1 DEF AloneInv
    <3>3. ServiceOf[d] # n
      BY <2>1, <3>2 DEF Held
    <3> QED
      BY <1>2, <1>3, <3>2, <3>3 DEF Together, Held, Opening
  <2>3. ASSUME NEW d \in LCall, lpc'[d] = "disconnecting"
        PROVE  ~Together(d, {"disconnecting"})' /\ Held(d)' \in LCall
    <3>1. d # c /\ lpc[d] = "disconnecting"
      BY <1>3, <2>3
    <3>2. ServiceOf[d] # n
      BY <2>1, <3>1 DEF Together, n
    <3>3. ~Together(d, {"disconnecting"}) /\ Held(d) \in LCall
      BY <2>1, <3>1 DEF AloneInv
    <3> QED
      BY <1>2, <1>3, <3>2, <3>3 DEF Together, Held
  <2>4. ASSUME NEW d \in LCall, lpc'[d] = "adding" PROVE ServiceOf[d] \notin inJuju'
    BY <1>1, <1>3, <2>1, <2>4 DEF AloneInv
  <2>5. \A m \in Service : models'[m] = "absent" => monitors'[m] = "absent"
    BY <1>1, <1>2, <2>1 DEF AloneInv
  <2> QED
    BY <2>2, <2>3, <2>4, <2>5 DEF AloneInv
<1>6. OpenIsObserved'
  <2> SUFFICES ASSUME ~raced' PROVE OpenIsObserved'
    BY DEF OpenIsObserved
  <2>1. ~raced /\ models[n] \in LCall /\ models[n] \in open /\ refcount = Cardinality(open)
    BY <1>1, <1>2 DEF AloneInv, Held, n, OpenIsObserved
  <2>2. refcount' = Cardinality(open')
    BY <1>1, <2>1, FS_RemoveElement DEF OpenedInv
  <2>3. \A m \in Service : models'[m] \in LCall => models'[m] \in open' /\ monitors'[m] = models'[m]
    <3> SUFFICES ASSUME NEW m \in Service, models'[m] \in LCall
                 PROVE  models'[m] \in open' /\ monitors'[m] = models'[m]
      OBVIOUS
    <3>1. m # n /\ models'[m] = models[m]
      BY <1>2
    <3>2. models[m] # models[n]
      BY <1>2, <2>1, <3>1 DEF OpenedInv
    <3> QED
      BY <1>1, <2>1, <3>1, <3>2 DEF OpenIsObserved
  <2> QED
    BY <2>2, <2>3 DEF OpenIsObserved
<1> QED
  BY <1>4, <1>5, <1>6

LEMMA ConnectionStep ==
  ASSUME LegacyTypeOK, ConnectionInv, NEW c \in LCall, LegacyStepOf(c)
  PROVE  ConnectionInv'
<1> DEFINE Quiet(label) ==
              /\ lpc' = [lpc EXCEPT ![c] = label]
              /\ label \notin Opening \cup {"disconnecting"} /\ (label \in Early => lpc[c] \in Early)
              /\ inJuju' \subseteq inJuju /\ UNCHANGED <<models, open, refcount, monitors, raced>>
<1>1. ASSUME NEW label, Quiet(label) PROVE ConnectionInv'
  BY <1>1, QuietStep
<1>2. lpc = [lpc EXCEPT ![c] = lpc[c]]
  BY DEF LegacyTypeOK
<1>3. CASE Login(c) \/ LoginEnds(c)
  <2>1. \E label \in {"login", "listing", "getting", "raised"} : Quiet(label)
    BY <1>2, <1>3 DEF Login, LoginEnds, First, LGoto, modelSide, Early, Opening
  <2> QED
    BY <1>1, <2>1
<1>4. CASE DeployCharms(c)
  <2>1. \E label \in {"raised", "deploying", "running", "returned"} : Quiet(label)
    BY <1>2, <1>4 DEF DeployCharms, CheckCharm, DeployOne, ReadPrimitive, RunPrimitive,
       PrimitivesDone, LGoto, modelSide, Early, Opening
  <2> QED
    BY <1>1, <2>1
<1>5. CASE RemoveCharm(c) \/ CharmRemoved(c) \/ ListServices(c) \/ Attach(c)
  <2>1. \E label \in {"returned", "closing", "taking down", "removing", "getting", "attaching"} :
           Quiet(label)
    BY <1>5 DEF RemoveCharm, CharmRemoved, ListServices, Attach, AfterRemove, LGoto, modelSide, Early, Opening
  <2> QED
    BY <1>1, <2>1
<1>6. CASE DestroyModels(c) \/ LegacyFails(c)
  <2>1. \E label \in {"returned", "raised"} : Quiet(label)
    BY <1>6 DEF DestroyModels, LegacyFails, LGoto, modelSide, Early, Opening
  <2> QED
    BY <1>1, <2>1
<1>7. CASE Disconnect(c)
  <2>1. CASE UNCHANGED <<models, open, refcount>>
    <3>1. Quiet("destroying")
      BY <1>7, <2>1 DEF Disconnect, LGoto, Early, Opening
    <3> QED
      BY <1>1, <3>1
  <2>2. CASE ~UNCHANGED <<models, open, refcount>>
    BY <1>7, <2>2, DisconnectStep
  <2> QED
    BY <2>1, <2>2
<1> QED
  BY <1>3, <1>4, <1>5, <1>6, <1>7, GetModelStarts, ListModelsStep, OpenServiceStep, AlreadyExistsStep,
     CloseModelStep
  DEF LegacyStepOf, GetModelSteps, RemoveSteps

LEMMA LegacyStep == LegacyInv /\ [LegacyNext]_legacyVars => LegacyInv'
<1> SUFFICES ASSUME LegacyInv, [LegacyNext]_legacyVars PROVE LegacyInv'
  OBVIOUS
<1> USE DEF LegacyInv, ConnectionInv
<1>1. CASE UNCHANGED legacyVars
  <2> USE <1>1 DEF legacyVars, modelSide, callSide
  <2>1. LegacyTypeOK'
    BY DEF LegacyTypeOK
  <2>2. KindsInv' /\ PassInv'
    BY DEF KindsInv, PassInv, PassOf, ReadSoFar, Done, Past
  <2>3. OpenedInv' /\ AloneInv' /\ OpenIsObserved'
    BY DEF OpenedInv, AloneInv, Together, Held, OpenIsObserved
  <2> QED
    BY <2>1, <2>2, <2>3
<1>2. CASE LegacyNext
  <2>1. PICK c \in LCall : LegacyStepOf(c)
    BY <1>2 DEF LegacyNext, LegacyStepOf
  <2>2. LegacyTypeOK'
    BY <2>1, LegacyTypeStep
  <2> QED
    BY <2>1, <2>2, KindsStep, PassStep, ConnectionStep
<1> QED
  BY <1>1, <1>2

THEOREM LegacyInvariant == LegacySpec => []LegacyInv
<1>1. (\E calls \in SUBSET LCall : LegacyInit(calls)) => LegacyInv
  BY LegacyInitially
<1> QED
  BY <1>1, LegacyStep, PTL DEF LegacySpec

\* Every variable of LegacyN2VC keeps its type (vnf.py:801-1413).
THEOREM LegacyTypes == LegacySpec => []LegacyTypeOK
<1>1. LegacyInv => LegacyTypeOK
  BY DEF LegacyInv
<1> QED
  BY <1>1, LegacyInvariant, PTL

\* Unless two calls open or close one model together, the count is that of the
\* connections get_model opened and nobody closed, and a model cached as open is
\* observed (vnf.py:1298-1337, 1405-1413).
THEOREM OpenObserved == LegacySpec => []OpenIsObserved
<1>1. LegacyInv => OpenIsObserved
  BY DEF LegacyInv
<1> QED
  BY <1>1, LegacyInvariant, PTL

\* A deployment that returned has run every initial primitive that the charm has,
\* the last ones by their seq, whatever the order they were declared in, unless
\* its application was removed beside it (vnf.py:801-869, 913-927).
THEOREM PrimitivesOrdered == LegacySpec => []PrimitivesInOrder
<1>1. LegacyInv => PrimitivesInOrder
  <2> SUFFICES ASSUME LegacyInv, NEW c \in LCall \ missed, LKind[c] = "deploy", lpc[c] = "returned"
               PROVE  LET n == Cardinality(Runnable)
                          lastRun == SubSeq(executed[c], Len(executed[c]) - n + 1, Len(executed[c]))
                      IN /\ Range(lastRun) = Runnable
                         /\ \A i, j \in 1..n : i < j => lastRun[i] < lastRun[j]
    BY DEF PrimitivesInOrder
  <2>1. queue[c] = {} /\ pass[c] = Len(Declared)
    BY DEF LegacyInv, KindsInv
  <2>2. Done(c) = Runnable /\ Done(c) \in SUBSET Nat /\ IsFiniteSet(Done(c))
    BY <2>1, ReadTypes DEF LegacyInv, Done, Past, Runnable
  <2>3. EndsWith(executed[c], Runnable) /\ executed[c] \in Seq(Nat)
    BY <2>2 DEF LegacyInv, PassInv, PassOf, LegacyTypeOK
  <2> QED
    BY <2>2, <2>3, EndsWithIsLast
<1> QED
  BY <1>1, LegacyInvariant, PTL
===============================================================================
