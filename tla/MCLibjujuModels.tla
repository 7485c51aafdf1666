--------------------------- MODULE MCLibjujuModels ---------------------------
(***************************************************************************)
(* Instances of LibjujuModels for TLC.  The calls of an instance differ in *)
(* kind, worker or target, so there is no symmetry to exploit.             *)
(***************************************************************************)
EXTENDS LibjujuRefinement, TLC

CONSTANTS w1, w2, c1, c2, c3, d1, d2, ns, ns_k8s

\* One worker creates two models of a namespace and removes the namespace: the
\* lock, the cache, the failures, a deletion that is half done.  c1 and c2 compete
\* for a model, c3 for the lock alone.
WorkerTask == {c1, c2, c3, d1}
WorkerWorkerOf == [t \in WorkerTask |-> w1]
WorkerKindOf ==
    (c1 :> "create") @@ (c2 :> "reuse") @@ (c3 :> "proxy") @@ (d1 :> "purge")
WorkerTarget == [t \in WorkerTask |-> IF t = c3 THEN ns_k8s ELSE ns]
WorkerMatched == [t \in WorkerTask |-> IF t = d1 THEN {ns, ns_k8s} ELSE {}]

\* Two workers create and delete the same name: incarnations follow each other
\* while somebody still holds an old one.
RecreateTask == {c1, c2, d1, d2}
RecreateWorkerOf == (c1 :> w1) @@ (c2 :> w2) @@ (d1 :> w1) @@ (d2 :> w2)
RecreateKindOf ==
    (c1 :> "create") @@ (c2 :> "register") @@ (d1 :> "delete") @@ (d2 :> "delete")
RecreateTarget == [t \in RecreateTask |-> ns]
RecreateMatched == [t \in RecreateTask |-> {}]

\* Two creations and a deletion on one worker, to follow each call to its end.
ReturnTask == {c1, c3, d1}
ReturnWorkerOf == [t \in ReturnTask |-> w1]
ReturnKindOf == (c1 :> "create") @@ (c3 :> "proxy") @@ (d1 :> "delete")
ReturnTarget == [t \in ReturnTask |-> IF t = c3 THEN ns_k8s ELSE ns]
ReturnMatched == [t \in ReturnTask |-> {}]

\* The shortest story in which a worker's cache goes stale: it created the
\* model, another worker deletes it, and it is asked to create it again.
StaleTask == {c1, c2, d1}
StaleWorkerOf == (c1 :> w1) @@ (c2 :> w1) @@ (d1 :> w2)
StaleKindOf == (c1 :> "create") @@ (c2 :> "create") @@ (d1 :> "delete")
StaleTarget == [t \in StaleTask |-> ns]
StaleMatched == [t \in StaleTask |-> {}]
=============================================================================
