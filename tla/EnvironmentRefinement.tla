------------------------ MODULE EnvironmentRefinement ------------------------
(***************************************************************************)
(* CharmActions implements EnvironmentLife.                                *)
(***************************************************************************)
EXTENDS CharmActions

over == {o \in Op : opc[o] \in OpEnded}

\* A wait for the application may end without it, and says nothing of it then.
achieved == {o \in Op : /\ opc[o] = "returned"
                        /\ \/ OpKind[o] = "primitive"
                           \/ OpKind[o] = "install" /\ o \notin late}

EnvLife == INSTANCE EnvironmentLife

\* Whatever waits run out of time, calls are cancelled, actions go on without
\* their call, or models are deleted, each step is one of the life of the
\* environment: one installation at a time owns the application and completes
\* it, calls that ended start nothing, a key takes at most two actions and a
\* primitive one, and an installation in time or a primitive returns only with
\* its work done (libjuju.py:452-646, n2vc_juju_conn.py:637-670, 852-939).
ImplementsEnvironmentLife == EnvLife!Spec
=============================================================================
