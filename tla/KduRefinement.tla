---------------------------- MODULE KduRefinement ----------------------------
(***************************************************************************)
(* HelmClusters implements KduLife.                                        *)
(***************************************************************************)
EXTENDS HelmClusters

owner == [n \in Name |-> IF Exists(n) THEN releases[n].owner ELSE NONE]

speaker == [k \in Kdu |-> IF record[k] = NONE THEN NONE ELSE record[k].by]

over == {c \in Call : pc[c] \in {"returned", "raised"}}

succeeded == {c \in Call : pc[c] = "returned"}

Life == INSTANCE KduLife WITH subject <- name, kept <- instance

\* Whatever helm processes outlive their calls, names are drawn twice, status
\* tasks fail or resets purge, each step is one of the life of KDUs: a name has
\* one install's release at a time, which no call takes away unasked once its
\* install has reported back; a call reports success only with its work done;
\* and none writes a status after it has reported back
\* (k8s_helm_conn.py:382-760, 1129-1165).
ImplementsKduLife == Life!Spec
=============================================================================
