-------------------------------- MODULE MCHelm --------------------------------
(***************************************************************************)
(* Instances of HelmClusters for TLC.  The calls that are made together are *)
(* chosen in the initial state, out of the combinations that compete for   *)
(* something.                                                              *)
(***************************************************************************)
EXTENDS KduRefinement, TLC, FiniteSets

CONSTANTS i1, i2, up, back, un, k1, k2, env, wipe, s1, s2, s3, ra, rb, rc, na, nb, n1, n2

MCKindOf == (i1 :> "install") @@ (i2 :> "install") @@ (up :> "upgrade")
            @@ (back :> "rollback") @@ (un :> "uninstall")
MCKduOf == (i2 :> k2) @@ [c \in {i1, up, back, un} |-> k1]
MCAdminKind == (env :> "init") @@ (wipe :> "reset") @@ [s \in {s1, s2, s3} |-> "sync"]
\* An old and a new repository share a name.
MCNameOfRepo == (ra :> na) @@ (rb :> na) @@ (rc :> nb)

Scenario == [made : SUBSET Call, administered : SUBSET Admin, prepared : BOOLEAN]
Scenarios == {
    [made |-> {i1, i2}, administered |-> {}, prepared |-> TRUE],
    [made |-> {i1, up}, administered |-> {}, prepared |-> TRUE],
    [made |-> {i2, i1, un}, administered |-> {}, prepared |-> TRUE],
    [made |-> {i1, back}, administered |-> {}, prepared |-> TRUE],
    [made |-> {i1}, administered |-> {env, wipe}, prepared |-> FALSE],
    [made |-> {i2}, administered |-> {wipe}, prepared |-> TRUE],
    [made |-> {}, administered |-> {s1, wipe}, prepared |-> TRUE],
    [made |-> {}, administered |-> {s1, s2, s3}, prepared |-> TRUE] }

MCInit == \E s \in Scenarios : Init(s.made, s.administered, s.prepared)
MCSpec == MCInit /\ [][Next]_vars /\ KduFairness
===============================================================================
