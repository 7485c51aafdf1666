----------------------------- MODULE HelmClusters -----------------------------
(***************************************************************************)
(* The cluster under the KDUs of HelmKdu (src/n2vc/k8s_helm_conn.py):      *)
(* init_env and reset, which make and remove its directory and tiller, and *)
(* synchronize_repos, which brings the repositories of the helm client to  *)
(* the list the operator keeps in the database.                            *)
(***************************************************************************)
EXTENDS HelmKdu

CONSTANTS
    Admin,       \* calls of init_env, reset, synchronize_repos
    AdminKind,   \* which of them: "init", "reset", "sync"
    Forced,      \* the resets with force=True
    WithSoftware,\* the resets with uninstall_sw=True
    Repo,        \* repositories, by _id
    RepoName,    \* the names repositories are registered by
    NameOfRepo,  \* the name of each
    Operator     \* bound: what the operator may still do to the lists

ASSUME AdminAssumption ==
    /\ AdminKind \in [Admin -> {"init", "reset", "sync"}]
    /\ Forced \subseteq Admin /\ WithSoftware \subseteq Admin
    /\ NameOfRepo \in [Repo -> RepoName]
    /\ NONE \notin Repo
    /\ Operator \in Nat

VARIABLES
    tiller,    \* the tiller deployment is in the cluster
    account,   \* its service account and cluster role binding
    client,    \* the helm client was initialised: repositories.yaml
    apc,       \* where an administrative call is
    listed,    \* the releases a reset has to delete
    tried,     \* those it has tried
    left,      \* history: those it failed to delete
    repos,     \* the repositories of the helm client, by name
    catalog,   \* k8srepos in the database
    wanted,    \* helm_chart_repos of the cluster in the database
    added,     \* helm_charts_added, which the caller keeps
    todo,      \* what a synchronisation has to delete and to add
    outcome,   \* its deleted_repo_list and added_repo_dict
    synced,    \* history: what the last synchronisation was asked for
    swallowed, \* history: an error was swallowed, a synchronisation raised, or
               \* a reset removed what helm_charts_added still names
    changes    \* what the operator has done

helmSide == <<tiller, account, client>>
repoSide == <<repos, catalog, wanted, added, todo, outcome, synced, swallowed, changes>>
resetSide == <<listed, tried, left>>
adminVars == <<helmSide, apc, resetSide, repoSide>>
vars == <<kduVars, adminVars>>

AdminGoto(a, label) == apc' = [apc EXCEPT ![a] = label]
AdminIs(a, kind, label) == AdminKind[a] = kind /\ apc[a] = label

\* Names are unique in what an operator registers for a cluster.
Unambiguous(R) == \A r, s \in R : NameOfRepo[r] = NameOfRepo[s] => r = s
Installed == {repos[n] : n \in RepoName} \ {NONE}

Init(made, administered, prepared) ==
    /\ KduInit(made)
    /\ dir = IF prepared THEN "config" ELSE "none"
    /\ tiller \in {prepared, TRUE} /\ account = prepared /\ client = prepared
    /\ apc = [a \in Admin |-> IF a \in administered THEN "idle" ELSE "absent"]
    /\ listed = [a \in Admin |-> {}]
    /\ tried = [a \in Admin |-> {}]
    /\ left = {}
    /\ repos = [n \in RepoName |-> NONE]
    /\ catalog = Repo
    /\ wanted = {}
    /\ added = {}
    /\ todo = [a \in Admin |-> [delete |-> {}, add |-> {}]]
    /\ outcome = [a \in Admin |-> [deleted |-> {}, added |-> {}]]
    /\ synced = NONE
    /\ swallowed = FALSE
    /\ changes = 0

-----------------------------------------------------------------------------
(* Variants with a plausible mistake.                                      *)

\* Add first, then delete.
MayAddEarly(a) == TRUE

\* init_env takes the tiller it found for a client of its own.
ClientNeededNever == FALSE

\* Removing tiller is taken for the end of its releases.
TillerTakesThem(a) == listed[a] \subseteq tried[a] \/ a \in WithSoftware

-----------------------------------------------------------------------------
(* init_env                                                                *)

InitPaths(a) ==
    /\ AdminIs(a, "init", "idle")
    /\ dir' = "config"
    /\ AdminGoto(a, "deployments")
    /\ UNCHANGED <<cluster, tasks, calls, record, instance, helmSide, resetSide, repoSide>>

ClientNeeded == ~client

FindTiller(a) ==
    /\ AdminIs(a, "init", "deployments")
    /\ AdminGoto(a, CASE ~tiller -> "account"
                      [] tiller /\ ClientNeeded -> "client"
                      [] OTHER -> "returned")
    /\ UNCHANGED <<kduVars, helmSide, resetSide, repoSide>>

\* Errors of the two commands are ignored.
CreateAccount(a) ==
    /\ AdminIs(a, "init", "account")
    /\ account' \in {account, TRUE}
    /\ AdminGoto(a, "server")
    /\ UNCHANGED <<kduVars, tiller, client, resetSide, repoSide>>

HelmInit(a) ==
    /\ AdminIs(a, "init", "server") \/ AdminIs(a, "init", "client")
    /\ tiller' = (tiller \/ apc[a] = "server")
    /\ client' = TRUE
    /\ AdminGoto(a, "returned")
    /\ UNCHANGED <<kduVars, account, resetSide, repoSide>>

-----------------------------------------------------------------------------
(* reset                                                                   *)

ResetPaths(a) ==
    /\ AdminIs(a, "reset", "idle")
    /\ AdminGoto(a, IF dir = "none" THEN "raised" ELSE "listing")
    /\ UNCHANGED <<kduVars, helmSide, resetSide, repoSide>>

ListReleases(a) ==
    /\ AdminIs(a, "reset", "listing") /\ dir = "config"
    /\ listed' = [listed EXCEPT ![a] = {n \in Name : Exists(n)}]
    /\ AdminGoto(a, IF listed'[a] # {} /\ a \notin Forced THEN "raised" ELSE "purging")
    /\ UNCHANGED <<kduVars, helmSide, tried, left, repoSide>>

PurgeRelease(a, n) ==
    /\ AdminIs(a, "reset", "purging") /\ n \in listed[a] \ tried[a]
    /\ Exists(n) /\ dir = "config"
    /\ releases' = [releases EXCEPT ![n] = NONE]
    /\ purged' = purged \cup {n}
    /\ tried' = [tried EXCEPT ![a] = @ \cup {n}]
    /\ UNCHANGED <<dir, tasks, calls, record, instance, helmSide, apc, listed, left>>
    /\ UNCHANGED repoSide

PurgeFails(a, n) ==
    /\ AdminIs(a, "reset", "purging") /\ n \in listed[a] \ tried[a]
    /\ left' = left \cup {n}
    /\ tried' = [tried EXCEPT ![a] = @ \cup {n}]
    /\ UNCHANGED <<kduVars, helmSide, apc, listed, repoSide>>

AllTried(a) == listed[a] \subseteq tried[a]

RemoveSoftware(a) ==
    /\ AdminIs(a, "reset", "purging") /\ AllTried(a)
    /\ a \in WithSoftware
    /\ tiller' = FALSE
    /\ account' \in {account, FALSE}
    /\ AdminGoto(a, "removing")
    /\ UNCHANGED <<kduVars, client, resetSide, repoSide>>

\* No software to remove, or no namespace found for it.
RemoveDirectory(a) ==
    /\ \/ AdminIs(a, "reset", "removing")
       \/ AdminIs(a, "reset", "purging") /\ AllTried(a)
    /\ dir' = "none"
    /\ client' = FALSE
    /\ repos' = [n \in RepoName |-> NONE]
    /\ swallowed' = TRUE
    /\ AdminGoto(a, "returned")
    /\ UNCHANGED <<cluster, tasks, calls, record, instance, tiller, account, resetSide>>
    /\ UNCHANGED <<catalog, wanted, added, todo, outcome, synced, changes>>

-----------------------------------------------------------------------------
(* synchronize_repos; one at a time.                                       *)

SyncBegins(a) ==
    /\ AdminIs(a, "sync", "idle")
    /\ \A b \in Admin : AdminKind[b] = "sync" => apc[b] # "syncing"
    /\ todo' = [todo EXCEPT ![a] = [delete |-> added \ wanted, add |-> wanted \ added]]
    /\ synced' = wanted
    /\ AdminGoto(a, "syncing")
    /\ UNCHANGED <<kduVars, helmSide, resetSide>>
    /\ UNCHANGED <<repos, catalog, wanted, added, outcome, swallowed, changes>>

\* repo_remove goes by name; its error is swallowed, and r counts as deleted.
DeleteRepo(a, r) ==
    /\ AdminIs(a, "sync", "syncing") /\ r \in todo[a].delete
    /\ \/ repos' = [repos EXCEPT ![NameOfRepo[r]] = NONE] /\ UNCHANGED swallowed
       \/ repos[NameOfRepo[r]] # NONE /\ swallowed' = TRUE /\ UNCHANGED repos
    /\ todo' = [todo EXCEPT ![a].delete = @ \ {r}]
    /\ outcome' = [outcome EXCEPT ![a].deleted = @ \cup {r}]
    /\ dir' = Created(dir)
    /\ UNCHANGED <<cluster, tasks, calls, record, instance, helmSide, apc, resetSide>>
    /\ UNCHANGED <<catalog, wanted, added, synced, changes>>

MayAdd(a) == todo[a].delete = {}

\* repo_add replaces what is registered under the name.
AddRepo(a, r) ==
    /\ AdminIs(a, "sync", "syncing") /\ MayAdd(a) /\ r \in todo[a].add
    /\ r \in catalog
    /\ \/ /\ client
          /\ repos' = [repos EXCEPT ![NameOfRepo[r]] = r]
          /\ outcome' = [outcome EXCEPT ![a].added = @ \cup {r}]
          /\ UNCHANGED swallowed
       \/ swallowed' = TRUE /\ UNCHANGED <<repos, outcome>>
    /\ todo' = [todo EXCEPT ![a].add = @ \ {r}]
    /\ dir' = Created(dir)
    /\ UNCHANGED <<cluster, tasks, calls, record, instance, helmSide, apc, resetSide>>
    /\ UNCHANGED <<catalog, wanted, added, synced, changes>>

\* get_one of a repository that is not in the database any more.
SyncRaises(a) ==
    /\ AdminIs(a, "sync", "syncing") /\ MayAdd(a)
    /\ todo[a].add \ catalog # {}
    /\ swallowed' = TRUE
    /\ AdminGoto(a, "raised")
    /\ UNCHANGED <<kduVars, helmSide, resetSide>>
    /\ UNCHANGED <<repos, catalog, wanted, added, todo, outcome, synced, changes>>

\* The caller writes what is returned to the database.
SyncReturns(a) ==
    /\ AdminIs(a, "sync", "syncing")
    /\ todo[a].delete = {} /\ todo[a].add = {}
    /\ added' = (added \ outcome[a].deleted) \cup outcome[a].added
    /\ AdminGoto(a, "returned")
    /\ UNCHANGED <<kduVars, helmSide, resetSide>>
    /\ UNCHANGED <<repos, catalog, wanted, todo, outcome, synced, swallowed, changes>>

\* A command that must not fail does.
AdminFails(a) ==
    /\ \/ apc[a] \in {"deployments", "server", "client", "listing"}
       \/ AdminIs(a, "reset", "purging") /\ AllTried(a) /\ a \in WithSoftware
    /\ AdminGoto(a, "raised")
    /\ UNCHANGED <<kduVars, helmSide, resetSide, repoSide>>

\* The operator changes the list of the cluster, or drops a repository, where
\* a synchronisation may see it.
ChangeLists ==
    /\ changes < Operator
    /\ \E a \in Admin : AdminKind[a] = "sync" /\ apc[a] # "absent"
    /\ changes' = changes + 1
    /\ \/ wanted' \in {R \in SUBSET catalog : Unambiguous(R)} \ {wanted} /\ UNCHANGED catalog
       \/ \E r \in catalog \ wanted : catalog' = catalog \ {r} /\ UNCHANGED wanted
    /\ UNCHANGED <<kduVars, helmSide, apc, resetSide>>
    /\ UNCHANGED <<repos, added, todo, outcome, synced, swallowed>>

-----------------------------------------------------------------------------
InitEnv(a) == InitPaths(a) \/ FindTiller(a) \/ CreateAccount(a) \/ HelmInit(a)

Reset(a) ==
    \/ ResetPaths(a) \/ ListReleases(a)
    \/ \E n \in Name : PurgeRelease(a, n) \/ PurgeFails(a, n)
    \/ RemoveSoftware(a) \/ RemoveDirectory(a)

SynchronizeRepos(a) ==
    \/ SyncBegins(a) \/ SyncRaises(a) \/ SyncReturns(a)
    \/ \E r \in Repo : DeleteRepo(a, r) \/ AddRepo(a, r)

AdminStep(a) == InitEnv(a) \/ Reset(a) \/ SynchronizeRepos(a) \/ AdminFails(a)

Next ==
    \/ KduNext /\ UNCHANGED adminVars
    \/ \E a \in Admin : AdminStep(a)
    \/ ChangeLists

\* Everything starts in a prepared cluster or in one that init_env prepares.
Spec ==
    /\ \E made \in SUBSET Call, administered \in SUBSET Admin, prepared \in BOOLEAN :
          Init(made, administered, prepared)
    /\ [][Next]_vars

-----------------------------------------------------------------------------
AdminTypeOK ==
    /\ tiller \in BOOLEAN /\ account \in BOOLEAN /\ client \in BOOLEAN
    /\ apc \in [Admin -> {"absent", "idle", "deployments", "account", "server", "client",
                          "listing", "purging", "removing", "syncing", "returned", "raised"}]
    /\ listed \in [Admin -> SUBSET Name]
    /\ tried \in [Admin -> SUBSET Name]
    /\ left \subseteq Name
    /\ repos \in [RepoName -> Repo \cup {NONE}]
    /\ catalog \subseteq Repo /\ wanted \subseteq Repo /\ added \subseteq Repo
    /\ todo \in [Admin -> [delete : SUBSET Repo, add : SUBSET Repo]]
    /\ outcome \in [Admin -> [deleted : SUBSET Repo, added : SUBSET Repo]]
    /\ synced \in (SUBSET Repo) \cup {NONE}
    /\ swallowed \in BOOLEAN
    /\ changes \in 0..Operator

TypeOK == KduTypeOK /\ AdminTypeOK

\* A synchronisation that returned leaves the repositories it was asked for
\* and no other, also when an old and a new one share a name, unless an error
\* was swallowed, one of them raised or the cluster was reset
\* (k8s_helm_conn.py:921-999).
SyncedAsWanted ==
    synced # NONE /\ ~swallowed /\ (\A a \in Admin : apc[a] # "syncing") =>
        Installed = synced

\* A reset that returned has deleted every release it listed, except those
\* whose deletion failed: no release is left behind without credentials and
\* unnoticed (k8s_helm_conn.py:292-377).
ResetTakesAllListed ==
    \A a \in Admin : AdminIs(a, "reset", "returned") => listed[a] \subseteq purged \cup left

\* init_env returns with a client that can work, unless the cluster was reset
\* (k8s_helm_conn.py:136-200).
InitializedIsReady ==
    (\E a \in Admin : AdminIs(a, "init", "returned")) =>
        \/ dir = "config" /\ client
        \/ \E a \in Admin : AdminIs(a, "reset", "returned")
=============================================================================
