-------------------------- MODULE LibjujuRefinement --------------------------
(***************************************************************************)
(* LibjujuModels implements ModelLife.                                     *)
(***************************************************************************)
EXTENDS LibjujuModels

\* The life of an incarnation as the controller sees it.
Phase(i) ==
    IF i \in reaped THEN "gone"
    ELSE IF live[Target[i]] # i THEN "absent"
    ELSE IF i \in dying THEN "leaving"
    ELSE "present"

phase == [i \in Creators |-> Phase(i)]

\* What destroy_model has resolved is what a deletion asks for.
asked == [d \in Deleters |-> {i \in Creators : \E m \in Model : handle[d][m] = i}]

confirmed == {d \in Deleters : pc[d] = "ok"}

Life == INSTANCE ModelLife WITH
            Incarnation <- Creators, NameOf <- Target, Deleter <- Deleters

\* Whatever workers, caches, polls by name and lost answers do, each step is one
\* of a model's life: nothing is taken away that no deletion had resolved, a name
\* has one incarnation at a time that never comes back, and delete_namespace and
\* delete_execution_environment return only when all they resolved is gone.
ImplementsModelLife == Life!Spec
=============================================================================
