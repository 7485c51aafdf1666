------------------------------ MODULE BundleLife ------------------------------
(***************************************************************************)
(* What the calls on KDUs that are Juju bundles promise, without the       *)
(* controllers, logins, cloud files and directories that they share.  A    *)
(* model comes with the installation of its instance, and goes with an     *)
(* uninstall of its instance, a reset of its cluster, or an installation   *)
(* to its cluster that deployed its own bundle and then gave up.  An       *)
(* installation confirms an instance only once its bundle is in its model, *)
(* or was and was taken since; a call that is over does nothing any more.  *)
(***************************************************************************)
CONSTANTS
    KCall,
    KKind,
    Cluster,
    ClusterOf,
    Instance,
    InstanceOf,
    NonAtomic,
    NOWHERE

VARIABLES
    models,    \* cluster and instance
    bundled,   \* the models with their bundle
    lost,      \* those that an uninstall or a reset took
    placed,    \* the cluster an installation added its model to
    ended,    \* the calls that are over
    confirmed  \* the installations that returned their instance

vars == <<models, bundled, lost, placed, ended, confirmed>>

Model(c) == <<placed[c], InstanceOf[c]>>
Installing(c) == KKind[c] = "install" /\ c \notin ended

Init ==
    /\ models = {} /\ bundled = {} /\ lost = {}
    /\ placed = [c \in KCall |-> NOWHERE]
    /\ ended = {}
    /\ confirmed = {}

\* One model for an installation.
Add(c, k) ==
    /\ Installing(c) /\ placed[c] = NOWHERE
    /\ <<k, InstanceOf[c]>> \notin models
    /\ models' = models \cup {<<k, InstanceOf[c]>>}
    /\ placed' = [placed EXCEPT ![c] = k]
    /\ UNCHANGED <<bundled, lost, ended, confirmed>>

\* Where nobody waits for the applications, this confirms the instance.
Deploy(c) ==
    /\ Installing(c) /\ placed[c] # NOWHERE /\ Model(c) \in models
    /\ bundled' = bundled \cup {Model(c)}
    /\ IF c \in NonAtomic
       THEN ended' = ended \cup {c} /\ confirmed' = confirmed \cup {c}
       ELSE UNCHANGED <<ended, confirmed>>
    /\ UNCHANGED <<models, lost, placed>>

Confirm(c) ==
    /\ Installing(c) /\ c \notin NonAtomic /\ Model(c) \in bundled \cup lost
    /\ ended' = ended \cup {c} /\ confirmed' = confirmed \cup {c}
    /\ UNCHANGED <<models, bundled, lost, placed>>

Take(some) ==
    /\ models' = models \ some
    /\ bundled' = bundled \ some
    /\ lost' = lost \cup (some \cap models)

\* An uninstall takes one model, of its own instance.
Remove(c, k) ==
    /\ KKind[c] = "uninstall" /\ c \notin ended
    /\ Take({<<k, InstanceOf[c]>>})
    /\ ended' \in {ended, ended \cup {c}}
    /\ UNCHANGED <<placed, confirmed>>

GivesUp(c) == Installing(c) /\ c \notin NonAtomic /\ Model(c) \in bundled \cup lost

\* The models of the cluster the call was asked for, and no others.
Clear(c) ==
    /\ \/ GivesUp(c)
       \/ KKind[c] = "reset" /\ c \notin ended
    /\ Take({m \in models : m[1] = ClusterOf[c]})
    /\ UNCHANGED <<placed, ended, confirmed>>

End(c) ==
    /\ c \notin ended
    /\ ended' = ended \cup {c}
    /\ UNCHANGED <<models, bundled, lost, placed, confirmed>>

Next == \E c \in KCall :
    \/ Deploy(c) \/ Confirm(c) \/ Clear(c) \/ End(c)
    \/ \E k \in Cluster : Add(c, k) \/ Remove(c, k)

Spec == Init /\ [][Next]_vars
=============================================================================
