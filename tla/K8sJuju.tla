------------------------------- MODULE K8sJuju -------------------------------
(***************************************************************************)
(* K8sJujuConnector (src/n2vc/k8s_juju_conn.py): the calls that several    *)
(* tasks make on one connector, which keeps one controller object and one  *)
(* flag `authenticated` for all clusters.                                  *)
(*                                                                         *)
(* A call reads self.controller where it sends a request; until the answer *)
(* another call may log out or log in again.  Errors of the commands and   *)
(* of Juju are free.  Cancellation is not modelled.                        *)
(***************************************************************************)
EXTENDS Naturals

CONSTANTS
    KCall,     \* calls
    KKind,     \* "init", "install", "uninstall", "reset", "primitive", "look"
    Cluster,
    ClusterOf, \* cluster_uuid of a call
    Instance,  \* KDU instances, each a Juju model
    InstanceOf,
    NonAtomic, \* the installations with atomic=False
    Logins,    \* bound: Controller objects made
    NOWHERE

ASSUME KAssumption ==
    /\ KKind \in [KCall -> {"init", "install", "uninstall", "reset", "primitive", "look"}]
    /\ ClusterOf \in [KCall -> Cluster]
    /\ InstanceOf \in [KCall -> Instance]
    /\ NonAtomic \subseteq KCall
    /\ Logins \in Nat /\ NOWHERE \notin Cluster \cup KCall

VARIABLES
    authenticated, \* self.authenticated
    controller,    \* self.controller: the number of the object, 0 for None
    made,          \* Controller objects made so far
    link,          \* the cluster each object is connected to
    kpc,           \* where a call is
    again,         \* the calls that look at the flag a second time
    mine,          \* the object a call connects or disconnects
    target,        \* where the request of a call goes
    resetting,     \* installations that ran out of time
    configs,       \* clusters with a configuration file
    running,       \* clusters with a Juju controller
    kmodels,       \* the models: cluster and instance
    deployed,      \* those with their bundle
    placed,        \* the cluster an installation added its model to
    workdir,       \* the working directory: an installation, NOWHERE at home
    previous,      \* previous_workdir of an installation
    crossed,       \* history: a login or logout met another, or a reset
    astray,        \* history: installations overlapped, or one raised
    gone           \* history: instances that were uninstalled or reset

session == <<authenticated, controller, made, link, crossed>>
world == <<configs, running, kmodels, deployed, gone>>
place == <<workdir, previous, astray>>
own == <<again, mine, target, resetting, placed>>
k8sVars == <<session, kpc, own, world, place>>

Object == 1..Logins
KEnded == {"returned", "false", "raised"}
KGoto(c, label) == kpc' = [kpc EXCEPT ![c] = label]

K8sInit(calls, clusters) ==
    /\ authenticated = FALSE /\ controller = 0 /\ made = 0
    /\ link = [i \in Object |-> NOWHERE]
    /\ kpc = [c \in KCall |-> IF c \in calls THEN "idle" ELSE "absent"]
    /\ again = {}
    /\ mine = [c \in KCall |-> 0]
    /\ target = [c \in KCall |-> NOWHERE]
    /\ resetting = {}
    /\ configs = clusters /\ running = clusters
    /\ kmodels = {} /\ deployed = {} /\ gone = {}
    /\ placed = [c \in KCall |-> NOWHERE]
    /\ workdir = NOWHERE
    /\ previous = [c \in KCall |-> NOWHERE]
    /\ crossed = FALSE /\ astray = FALSE

-----------------------------------------------------------------------------
(* Variants with a plausible mistake.                                      *)

\* Log in without a look at the flag.
LoggedInNever == FALSE

\* An error of deploy is swallowed, as one of add_model is.
Swallowed(c) == "returned"

\* The way out after a timeout goes to reset from where it is.
StayThere(c) == workdir' = workdir

-----------------------------------------------------------------------------
(* login and logout.                                                       *)

LoggedIn == authenticated

\* The sections that change the connection, with awaits in them.
InSession(c) == kpc[c] \in {"connecting", "disconnecting", "destroying controller"}
Crossing(c) == crossed' = (crossed \/ \E d \in KCall \ {c} : InSession(d))

\* What a call does once it is logged in, or has given up logging in.
Errand(c) == CASE c \in resetting \/ KKind[c] = "reset" -> "checking"
               [] KKind[c] = "install" /\ c \notin resetting -> "adding"
               [] KKind[c] = "uninstall" -> "uninstalling"
               [] KKind[c] = "init" -> "returned"
               [] OTHER -> "reading"

\* The request goes out through self.controller as it is now.
Send(c, label) ==
    /\ KGoto(c, label)
    /\ target' = [target EXCEPT ![c] = IF controller' = 0 THEN NOWHERE ELSE link'[controller']]

OpenController(c) ==
    /\ made < Logins
    /\ made' = made + 1 /\ controller' = made'
    /\ mine' = [mine EXCEPT ![c] = made']
    /\ KGoto(c, "connecting")
    /\ Crossing(c)
    /\ UNCHANGED <<authenticated, link, target>>

\* Log in if needed; then the errand.
Enter(c) ==
    IF LoggedIn
    THEN UNCHANGED <<session, mine>> /\ Send(c, Errand(c)')
    ELSE OpenController(c)

LoginWorks(c) ==
    /\ kpc[c] = "connecting" /\ ClusterOf[c] \in running
    /\ link' = [link EXCEPT ![mine[c]] = ClusterOf[c]]
    /\ authenticated' = TRUE
    /\ UNCHANGED <<controller, made, crossed>>
    /\ Send(c, Errand(c))
    /\ UNCHANGED <<again, mine, resetting, placed, world, place>>

\* install, in add_model, and exec_primitive, in get_model, look once more.
LooksAgain(c) == KKind[c] \in {"install", "primitive"} /\ c \notin resetting \cup again

\* Swallowed: the call goes on.
LoginFails(c) ==
    /\ kpc[c] = "connecting"
    /\ again' = again \cup {c}
    /\ UNCHANGED resetting
    /\ IF LooksAgain(c)
       THEN Enter(c)
       ELSE UNCHANGED <<session, mine>> /\ Send(c, Errand(c))
    /\ UNCHANGED <<placed, world, place>>

AfterLogout(c) == IF Errand(c) = "checking" THEN "destroying controller" ELSE "returned"

Logout(c) ==
    IF authenticated /\ controller # 0
    THEN /\ mine' = [mine EXCEPT ![c] = controller]
         /\ KGoto(c, "disconnecting")
         /\ Crossing(c)
         /\ UNCHANGED <<authenticated, controller>>
    ELSE /\ authenticated' = FALSE
         /\ KGoto(c, AfterLogout(c))
         /\ Crossing(c)
         /\ UNCHANGED <<controller, mine>>

Disconnected(c) ==
    /\ kpc[c] = "disconnecting"
    /\ link' = [link EXCEPT ![mine[c]] = NOWHERE]
    /\ controller' = 0 /\ authenticated' = FALSE
    /\ KGoto(c, AfterLogout(c))
    /\ UNCHANGED <<made, crossed, own, world, place>>

-----------------------------------------------------------------------------
(* init_env.                                                               *)

\* A new cluster: add-k8s and bootstrap, then its files.
Bootstrap(c) ==
    /\ kpc[c] = "idle" /\ KKind[c] = "init" /\ ClusterOf[c] \notin configs
    /\ KGoto(c, "bootstrapping")
    /\ UNCHANGED <<session, own, world, place>>

Bootstrapped(c) ==
    /\ kpc[c] = "bootstrapping"
    /\ running' = running \cup {ClusterOf[c]}
    /\ configs' = configs \cup {ClusterOf[c]}
    /\ UNCHANGED resetting
    /\ Enter(c)
    /\ UNCHANGED <<kmodels, deployed, gone, again, placed, place>>

\* The file of the cluster is read for a login, for reuse_cluster_uuid and for
\* the name of its namespace.
NoConfig(c) ==
    /\ ClusterOf[c] \notin configs
    /\ ~authenticated \/ KKind[c] \in {"init", "look"}

StartCall(c) ==
    /\ kpc[c] = "idle" /\ ~NoConfig(c)
    /\ UNCHANGED resetting
    /\ Enter(c)
    /\ UNCHANGED <<world, again, placed, place>>

\* reset swallows the exception and returns True.
KRaises(c) ==
    /\ \/ kpc[c] = "idle" /\ NoConfig(c) /\ KKind[c] # "init"
       \/ kpc[c] \in {"bootstrapping", "uninstalling", "reading", "adding"}
    /\ KGoto(c, IF KKind[c] = "reset" THEN "returned" ELSE "raised")
    /\ UNCHANGED <<session, own, world, place>>

-----------------------------------------------------------------------------
(* install.                                                                *)

ModelOf(c) == <<placed[c], InstanceOf[c]>>

\* add_model; the bundle is looked for in a directory of its own.
AddModel(c) ==
    /\ kpc[c] = "adding" /\ target[c] \in running
    /\ <<target[c], InstanceOf[c]>> \notin kmodels
    /\ kmodels' = kmodels \cup {<<target[c], InstanceOf[c]>>}
    /\ placed' = [placed EXCEPT ![c] = target[c]]
    /\ previous' = [previous EXCEPT ![c] = workdir]
    /\ workdir' = c
    /\ astray' = (astray \/ workdir # NOWHERE)
    /\ KGoto(c, "deploying")
    /\ UNCHANGED <<session, again, mine, target, resetting, configs, running, deployed, gone>>

GoHome(c) == workdir' = previous[c]

DeployBundle(c) ==
    /\ kpc[c] = "deploying" /\ ModelOf(c) \in kmodels
    /\ deployed' = deployed \cup {ModelOf(c)}
    /\ IF c \in NonAtomic
       THEN workdir' = previous[c] /\ KGoto(c, "returned")
       ELSE KGoto(c, "settling") /\ UNCHANGED workdir
    /\ UNCHANGED <<session, own, configs, running, kmodels, gone, previous, astray>>

\* Every application is active, or an uninstall or a reset left no unit to
\* wait for.
Settled(c) ==
    /\ kpc[c] = "settling"
    /\ workdir' = previous[c] /\ KGoto(c, "returned")
    /\ UNCHANGED <<session, own, world, previous, astray>>

AfterFailure(c) == "raised"

\* An exception of Juju leaves the working directory where it is.
DeployFails(c) ==
    /\ kpc[c] \in {"deploying", "settling"}
    /\ astray' = TRUE
    /\ KGoto(c, AfterFailure(c))
    /\ UNCHANGED <<session, own, world, workdir, previous>>

\* The working directory first, then reset.
TimesOut(c) ==
    /\ kpc[c] = "settling"
    /\ resetting' = resetting \cup {c}
    /\ GoHome(c)
    /\ IF authenticated \/ ClusterOf[c] \in configs
       THEN Enter(c)
       ELSE KGoto(c, "false") /\ UNCHANGED <<session, mine, target>>
    /\ UNCHANGED <<world, again, placed, previous, astray>>

-----------------------------------------------------------------------------
(* reset, of a cluster or of an installation that ran out of time.         *)

Resets(c) == IF c \in resetting THEN "false" ELSE "returned"

\* No controller raises, a controller that is not connected skips it all, an
\* error of list_models or destroy_model is swallowed.
NotReset(c) ==
    /\ kpc[c] \in {"checking", "destroying controller"}
    /\ KGoto(c, Resets(c))
    /\ UNCHANGED <<session, own, world, place>>

\* The model of the namespace is none of an instance.
Checked(c) ==
    /\ kpc[c] = "checking" /\ target[c] \in running /\ ClusterOf[c] \in configs
    /\ Logout(c)
    /\ UNCHANGED <<made, link, again, target, resetting, placed, world, place>>

InCluster(k) == {m \in kmodels : m[1] = k}

\* destroy-controller goes by the cluster, and takes the models with it.
DestroyController(c) ==
    /\ kpc[c] = "destroying controller"
    /\ running' = running \ {ClusterOf[c]}
    /\ kmodels' = kmodels \ InCluster(ClusterOf[c])
    /\ deployed' = deployed \ InCluster(ClusterOf[c])
    /\ gone' = gone \cup InCluster(ClusterOf[c])
    /\ link' = [i \in Object |-> IF link[i] = ClusterOf[c] THEN NOWHERE ELSE link[i]]
    /\ KGoto(c, "removing cloud")
    /\ UNCHANGED <<authenticated, controller, made, crossed, own, configs, place>>

\* Whether it works or not.
RemoveCloud(c) ==
    /\ kpc[c] = "removing cloud"
    /\ KGoto(c, Resets(c))
    /\ UNCHANGED <<session, own, world, place>>

-----------------------------------------------------------------------------
(* uninstall, and the calls that only read.                                *)

DestroyModel(c) ==
    /\ kpc[c] = "uninstalling" /\ target[c] \in running
    /\ LET m == <<target[c], InstanceOf[c]>> IN
          /\ kmodels' = kmodels \ {m}
          /\ deployed' = deployed \ {m}
          /\ gone' = gone \cup ({m} \cap kmodels)
    /\ Logout(c)
    /\ UNCHANGED <<made, link, again, target, resetting, placed, configs, running, place>>

\* exec_primitive reads the model of the instance, status_kdu and upgrade that
\* of the namespace.
Read(c) ==
    /\ kpc[c] = "reading" /\ target[c] \in running
    /\ KKind[c] = "primitive" => <<target[c], InstanceOf[c]>> \in kmodels
    /\ KGoto(c, "returned")
    /\ UNCHANGED <<session, own, world, place>>

-----------------------------------------------------------------------------
KLogin(c) == LoginWorks(c) \/ LoginFails(c) \/ Disconnected(c)
InitK8s(c) == Bootstrap(c) \/ Bootstrapped(c)
Install(c) == AddModel(c) \/ DeployBundle(c) \/ Settled(c) \/ DeployFails(c) \/ TimesOut(c)
ResetK8s(c) == NotReset(c) \/ Checked(c) \/ DestroyController(c) \/ RemoveCloud(c)

K8sNext == \E c \in KCall :
    \/ StartCall(c) \/ KRaises(c) \/ KLogin(c) \/ InitK8s(c)
    \/ Install(c) \/ ResetK8s(c) \/ DestroyModel(c) \/ Read(c)

K8sSpec ==
    /\ \E calls \in SUBSET KCall, clusters \in SUBSET Cluster : K8sInit(calls, clusters)
    /\ [][K8sNext]_k8sVars

-----------------------------------------------------------------------------
K8sTypeOK ==
    /\ authenticated \in BOOLEAN /\ crossed \in BOOLEAN /\ astray \in BOOLEAN
    /\ made \in 0..Logins /\ controller \in 0..Logins
    /\ link \in [Object -> Cluster \cup {NOWHERE}]
    /\ kpc \in [KCall -> {"absent", "idle", "bootstrapping", "connecting", "disconnecting",
                          "adding", "deploying", "settling", "checking",
                          "destroying controller", "removing cloud", "uninstalling",
                          "reading"} \cup KEnded]
    /\ again \subseteq KCall
    /\ mine \in [KCall -> 0..Logins]
    /\ target \in [KCall -> Cluster \cup {NOWHERE}]
    /\ resetting \subseteq KCall
    /\ configs \subseteq Cluster /\ running \subseteq Cluster
    /\ deployed \subseteq kmodels /\ kmodels \subseteq Cluster \X Instance
    /\ placed \in [KCall -> Cluster \cup {NOWHERE}]
    /\ workdir \in KCall \cup {NOWHERE}
    /\ previous \in [KCall -> KCall \cup {NOWHERE}]
    /\ gone \subseteq Cluster \X Instance

\* As long as no login or logout meets another one or a reset, the connector
\* has one connection when the flag is set, that of its controller, and none
\* otherwise: it neither loses a connection nor keeps a dead controller
\* (k8s_juju_conn.py:948-1005).
OneConnection ==
    ~crossed => {i \in Object : link[i] # NOWHERE} = IF authenticated THEN {controller} ELSE {}

\* An installation that returned its instance has its model with the bundle in
\* it, unless another call took it away, although errors of login and of
\* add_model are swallowed on the way (k8s_juju_conn.py:283-400).
InstalledIsThere ==
    \A c \in KCall : KKind[c] = "install" /\ kpc[c] = "returned" =>
        ModelOf(c) \in deployed \cup gone

\* Installations that do not overlap and do not raise leave the process in its
\* working directory (k8s_juju_conn.py:334-397).
WorkdirIsRestored ==
    ~astray /\ (\A c \in KCall : kpc[c] \notin {"deploying", "settling"}) => workdir = NOWHERE

\* "cluster_uuid str: The UUID of the cluster to install to"
\* (k8s_juju_conn.py:296): the instance is in the cluster that was asked for.
InstalledWhereAsked ==
    \A c \in KCall : KKind[c] = "install" /\ kpc[c] = "returned" => placed[c] = ClusterOf[c]
===============================================================================
