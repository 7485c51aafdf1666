-------------------------- MODULE WatcherRefinement --------------------------
(***************************************************************************)
(* ModelWatcher implements StatusReport.                                   *)
(***************************************************************************)
EXTENDS ModelWatcher

writers == {e \in Entity : Writes(e)}

\* A task that ends otherwise than by a final state, and before the end of the
\* wait cancels it, gives the entity up.
gaveUp ==
    \/ waiter \in {"timeout", "closed"}
    \/ watcher \in {"timeout", "closed", "error"}

Promise == INSTANCE StatusReport WITH
               Writers <- writers, Final <- final_states,
               reported <- handled, outcome <- wait

\* Whatever the two coroutines, the lagging Model object, the timers and the
\* connection do, each step of wait_for is one of a status report: only statuses
\* the entity had are written, never an older one after a newer one, none once
\* the wait has ended, and the wait returns on a final state or on giving up.
ImplementsStatusReport == Promise!Spec
=============================================================================
