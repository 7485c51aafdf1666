--------------------------- MODULE EnvironmentLife ---------------------------
(***************************************************************************)
(* What the calls in an execution environment promise, without connections,*)
(* leaders and waits.  The application is of the installation that deployed*)
(* it, which alone gives it units, until it goes with its model.  A call   *)
(* starts actions only before it is over, and no more than it should; who  *)
(* reports success in time has what it was asked for.                      *)
(***************************************************************************)
EXTENDS Naturals, Sequences

CONSTANTS Op, OpKind, Units, Verify, NOBODY

VARIABLES
    app,      \* the application: who deployed it, units, status
    acts,     \* the statuses of the actions of a call, in order
    over,     \* the calls that ended
    achieved, \* those whose end says that their work is done
    unlisted  \* those told that an action failed which Juju did not list

vars == <<app, acts, over, achieved, unlisted>>

Nothing == [by |-> NOBODY, units |-> 0, status |-> "waiting"]

Init ==
    /\ app = Nothing
    /\ acts = [o \in Op |-> <<>>]
    /\ over = {} /\ achieved = {} /\ unlisted = {}

Deploy(o) ==
    /\ OpKind[o] = "install" /\ o \notin over
    /\ app.by = NOBODY
    /\ app' = [by |-> o, units |-> 1, status |-> "waiting"]
    /\ UNCHANGED <<acts, over, achieved, unlisted>>

AddUnit(o) ==
    /\ app.by = o /\ o \notin over /\ app.units < Units
    /\ app' = [app EXCEPT !.units = @ + 1]
    /\ UNCHANGED <<acts, over, achieved, unlisted>>

Report(status) ==
    /\ app.by # NOBODY
    /\ app' = [app EXCEPT !.status = status]
    /\ UNCHANGED <<acts, over, achieved, unlisted>>

Vanish == app' = Nothing /\ UNCHANGED <<acts, over, achieved, unlisted>>

\* A primitive has one action, a key takes two, and credentials are verified
\* again only after a failure, or after Juju did not list one.
MayStart(o) ==
    \/ OpKind[o] = "primitive" /\ acts[o] = <<>>
    \/ OpKind[o] = "sshkey" /\ Len(acts[o]) < 2
    \/ /\ OpKind[o] = "config" /\ Len(acts[o]) < Verify
       /\ o \in unlisted \/ \A i \in 1..Len(acts[o]) : acts[o][i] = "failed"

Start(o) ==
    /\ o \notin over /\ MayStart(o)
    /\ acts' = [acts EXCEPT ![o] = Append(@, "running")]
    /\ UNCHANGED <<app, over, achieved, unlisted>>

\* Whether its call is over or not; and once only.
Finish(o, i, status) ==
    /\ acts[o][i] = "running"
    /\ acts' = [acts EXCEPT ![o][i] = status]
    /\ UNCHANGED <<app, over, achieved, unlisted>>

\* A call is told of a failure because Juju did not list its action.
Mislead(o) ==
    /\ o \notin over /\ acts[o] # <<>>
    /\ unlisted' = unlisted \cup {o}
    /\ UNCHANGED <<app, acts, over, achieved>>

Done(o) ==
    \/ /\ OpKind[o] = "install" /\ app.by = o
       /\ app.units = Units /\ app.status \in {"active", "blocked"}
    \/ OpKind[o] = "primitive" /\ acts[o] = <<"completed">>

Achieve(o) ==
    /\ o \notin over /\ Done(o)
    /\ over' = over \cup {o} /\ achieved' = achieved \cup {o}
    /\ UNCHANGED <<app, acts, unlisted>>

End(o) ==
    /\ o \notin over
    /\ over' = over \cup {o}
    /\ UNCHANGED <<app, acts, achieved, unlisted>>

Next ==
    \/ \E o \in Op : \/ Deploy(o) \/ AddUnit(o) \/ Start(o) \/ Mislead(o) \/ Achieve(o) \/ End(o)
                     \/ \E i \in 1..Len(acts[o]), status \in {"completed", "failed"} : Finish(o, i, status)
    \/ \E status \in {"waiting", "active", "blocked"} : Report(status)
    \/ Vanish

Spec == Init /\ [][Next]_vars
=============================================================================
