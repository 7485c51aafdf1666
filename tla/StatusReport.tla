---------------------------- MODULE StatusReport -----------------------------
(***************************************************************************)
(* What a wait with a status document promises, without tasks, deltas,     *)
(* timers or connections.  Entities go through statuses; while the wait    *)
(* lasts, a later status of an entity may be reported after an earlier one *)
(* and never the other way round, the document is left alone or made to    *)
(* say exactly what was reported, and the wait returns because the awaited *)
(* entity has had a final status or because watching it was given up.      *)
(***************************************************************************)
EXTENDS Naturals, Sequences, JujuStatus

CONSTANTS
    Entity,
    TypeOf,
    Reported,   \* the statuses an entity may have
    Writers,    \* the entities whose statuses are reported
    awaited,
    Final,      \* the statuses that end the wait
    NONE

VARIABLES
    history,    \* the statuses an entity has had, the last one the present
    reported,   \* the last status of each entity that was reported
    db,         \* the document
    gaveUp,     \* watching has ended without a final status
    outcome     \* waiting, returned or cancelled

vars == <<history, reported, db, gaveUp, outcome>>

Init ==
    /\ \E first \in [Entity -> UNION {Reported[e] : e \in Entity}] :
          /\ \A e \in Entity : first[e] \in Reported[e]
          /\ history = [e \in Entity |-> <<first[e]>>]
    /\ reported = [e \in Entity |-> 0]
    /\ db = NONE
    /\ gaveUp = FALSE
    /\ outcome = "waiting"

Happen(e) ==
    /\ \E s \in Reported[e] : history' = [history EXCEPT ![e] = Append(@, s)]
    /\ UNCHANGED <<reported, db, gaveUp, outcome>>

\* A report may fail and leave the document as it was, or end the watching.
Report(e, v) ==
    /\ outcome = "waiting"
    /\ v > reported[e]
    /\ reported' = [reported EXCEPT ![e] = v]
    /\ LET s == history[e][v]
       IN  db' \in {db, [entity |-> e, vca_status |-> s,
                         status |-> osm_status(TypeOf[e], s)]}
    /\ gaveUp' \in {gaveUp, TRUE}
    /\ UNCHANGED <<history, outcome>>

GiveUp ==
    /\ outcome = "waiting"
    /\ gaveUp' = TRUE
    /\ UNCHANGED <<history, reported, db, outcome>>

HadFinal == \E v \in DOMAIN history[awaited] : history[awaited][v] \in Final

Return ==
    /\ outcome = "waiting"
    /\ gaveUp \/ HadFinal
    /\ outcome' = "returned"
    /\ UNCHANGED <<history, reported, db, gaveUp>>

Cancel ==
    /\ outcome = "waiting"
    /\ outcome' = "cancelled"
    /\ UNCHANGED <<history, reported, db, gaveUp>>

Next ==
    \/ \E e \in Entity : Happen(e)
    \/ \E e \in Writers : \E v \in DOMAIN history[e] : Report(e, v)
    \/ GiveUp \/ Return \/ Cancel

Spec == Init /\ [][Next]_vars
=============================================================================
