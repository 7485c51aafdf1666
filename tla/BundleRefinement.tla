--------------------------- MODULE BundleRefinement ---------------------------
(***************************************************************************)
(* K8sJuju implements BundleLife.                                          *)
(***************************************************************************)
EXTENDS K8sJuju

ended == {c \in KCall : kpc[c] \in KEnded}

confirmed == {c \in KCall : KKind[c] = "install" /\ kpc[c] = "returned"}

Bundle == INSTANCE BundleLife WITH models <- kmodels, bundled <- deployed, lost <- gone

\* However logins, logouts and resets of several clusters cross on the one
\* connector, each step is one of the life of bundles: a model goes only by an
\* uninstall of its instance, a reset of its cluster, or an installation to its
\* cluster that ran out of time; an installation returns its instance only when
\* its bundle is in its model or was taken from there by one of these; and no
\* call does anything once it is over (k8s_juju_conn.py:242-400, 505-524).
ImplementsBundleLife == Bundle!Spec
=============================================================================
