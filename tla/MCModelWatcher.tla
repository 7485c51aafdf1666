--------------------------- MODULE MCModelWatcher ----------------------------
(***************************************************************************)
(* Instances of ModelWatcher for TLC: a wait for each type of entity.      *)
(***************************************************************************)
EXTENDS WatcherRefinement, TLC

CONSTANTS m1, m2, a1, a2, u1, act1

\* A machine, with another one in the same model.
MachineType == (m1 :> "machine") @@ (m2 :> "machine")
MachineApp == [e \in {m1, m2} |-> NONE]
MachineReported == (m1 :> {"pending", "started", "down"}) @@ (m2 :> {"pending", "started"})

\* An application with its unit, beside another application.
ApplicationType == (a1 :> "application") @@ (a2 :> "application") @@ (u1 :> "unit")
ApplicationApp == (a1 :> NONE) @@ (a2 :> NONE) @@ (u1 :> a1)
ApplicationReported ==
    (a1 :> {"unknown", "blocked", "active"}) @@ (a2 :> {"active"})
        @@ (u1 :> {"waiting", "active"})

\* An action on a unit.
ActionType == (act1 :> "action") @@ (u1 :> "unit")
ActionApp == (act1 :> NONE) @@ (u1 :> NONE)
ActionReported ==
    (act1 :> {"pending", "running", "completed"}) @@ (u1 :> {"waiting", "active"})
=============================================================================
