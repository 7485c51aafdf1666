------------------------------- MODULE HelmKdu -------------------------------
(***************************************************************************)
(* KDUs of a Kubernetes cluster through helm (src/n2vc/k8s_helm_conn.py):  *)
(* install, upgrade, rollback and uninstall.  A call runs helm in a task   *)
(* and, beside it, a task that copies the status of the release into the   *)
(* database; then it stops that task and writes the status once more.      *)
(*                                                                         *)
(* Helm and the cluster are external.  A helm process goes on when the     *)
(* coroutine that waits for it is cancelled.                               *)
(***************************************************************************)
EXTENDS Naturals

CONSTANTS
    Call,      \* calls of install, upgrade, rollback, uninstall
    KindOf,    \* which of them
    Kdu,       \* the KDUs a caller keeps a database record of
    KduOf,     \* the KDU of a call
    Atomic,    \* the calls with atomic=True
    Name,      \* what _generate_release_name may draw
    NONE       \* nothing

ASSUME CallsAssumption ==
    /\ KindOf \in [Call -> {"install", "upgrade", "rollback", "uninstall"}]
    /\ KduOf \in [Call -> Kdu]
    /\ Atomic \subseteq Call

Status == {"pending", "deployed", "failed"}
Release == [owner : Call, by : Call, desc : Status]

ASSUME NoneAssumption ==
    /\ NONE \notin Name \cup Release \cup [by : Call, desc : Status \cup {NONE}]
    /\ \A c \in Call : NONE # c

VARIABLES
    releases,  \* helm's releases in the cluster
    purged,    \* history: names whose release was deleted on request
    dir,       \* the cluster's directory: "none", "bare", "config"
    pc,        \* where a call is
    name,      \* kdu_instance of a call
    temp,      \* the calls whose values file exists
    exec,      \* the helm process of a call
    st,        \* its status task
    seen,      \* what the status task has read
    last,      \* what the call read in the end
    stored,    \* the calls whose final status was written
    record,    \* status of each KDU in the database
    instance   \* the name an install returned, as its caller keeps it

cluster == <<releases, purged>>
tasks == <<exec, st, seen>>
calls == <<pc, name, temp, last, stored>>
kduVars == <<cluster, dir, tasks, calls, record, instance>>

Ended == {"returned", "raised", "cancelled"}

Installing(c) == KindOf[c] = "install"
HasValues(c) == KindOf[c] \in {"install", "upgrade"}
Watched(c) == KindOf[c] = "rollback" \/ (HasValues(c) /\ c \in Atomic)
Exists(n) == releases[n] # NONE
Goto(c, label) == pc' = [pc EXCEPT ![c] = label]

\* _get_paths with create_if_not_exist: a directory without a kube config.
Created(d) == IF d = "none" THEN "bare" ELSE d

\* The calls of the instance that will be made are idle, the others absent.
KduInit(made) ==
    /\ releases = [n \in Name |-> NONE]
    /\ purged = {}
    /\ pc = [c \in Call |-> IF c \in made THEN "idle" ELSE "absent"]
    /\ name = [c \in Call |-> NONE]
    /\ temp = {}
    /\ exec = [c \in Call |-> "none"]
    /\ st = [c \in Call |-> "none"]
    /\ seen = [c \in Call |-> NONE]
    /\ last = [c \in Call |-> NONE]
    /\ stored = {}
    /\ record = [k \in Kdu |-> NONE]
    /\ instance = [k \in Kdu |-> NONE]

-----------------------------------------------------------------------------
(* Variants with a plausible mistake.                                      *)

\* The status task is left running.
StatusTaskLeft(c) == UNCHANGED st

\* The return code of helm is ignored.
OutcomeUnchecked(c) == IF Installing(c) THEN "returned" ELSE "info"

\* The final status is what the status task read.
FinalStatusSeen(c) == seen[c]

\* The wait is for the status task as well.
AllTasksOver(c) == exec[c] \in {"ok", "failed"} /\ st[c] = "none"

\* An operation on a KDU that is not installed is let through.
KnownAlways(c) == TRUE

-----------------------------------------------------------------------------
(* A call, up to the start of helm.                                        *)

Launch(c) ==
    /\ exec' = [exec EXCEPT ![c] = "started"]
    /\ st' = [st EXCEPT ![c] = IF Watched(c) THEN "sleep" ELSE "none"]
    /\ Goto(c, "executing")
    /\ UNCHANGED <<seen, last>>

StartInstall(c) ==
    /\ pc[c] = "idle" /\ Installing(c)
    /\ temp' = temp \cup {c}
    /\ dir' = Created(dir)
    /\ Goto(c, "naming")
    /\ UNCHANGED <<cluster, tasks, name, last, stored, record, instance>>

Known(c) == instance[KduOf[c]] # NONE

\* Upgrade, rollback and uninstall get the name from their caller.
StartOperation(c) ==
    /\ pc[c] = "idle" /\ ~Installing(c)
    /\ Known(c)
    /\ name' = [name EXCEPT ![c] = instance[KduOf[c]]]
    /\ temp' = IF HasValues(c) THEN temp \cup {c} ELSE temp
    /\ dir' = Created(dir)
    /\ Launch(c)
    /\ UNCHANGED <<cluster, stored, record, instance>>

DrawName(c, n) ==
    /\ pc[c] = "naming"
    /\ name' = [name EXCEPT ![c] = n]
    /\ dir' = Created(dir)
    /\ Goto(c, "checking")
    /\ UNCHANGED <<cluster, tasks, temp, last, stored, record, instance>>

\* helm status knows the name: draw again.
NameTaken(c) ==
    /\ pc[c] = "checking"
    /\ Exists(name[c]) /\ dir = "config"
    /\ Goto(c, "naming")
    /\ UNCHANGED <<cluster, dir, tasks, name, temp, last, stored, record, instance>>

\* helm status failed, for whatever reason: the name is taken for free.
NameAccepted(c) ==
    /\ pc[c] = "checking"
    /\ Launch(c)
    /\ UNCHANGED <<cluster, dir, name, temp, stored, record, instance>>

-----------------------------------------------------------------------------
(* Helm.                                                                   *)

HelmStep(c, label, release) ==
    /\ exec' = [exec EXCEPT ![c] = label]
    /\ releases' = [releases EXCEPT ![name[c]] = release]
    /\ UNCHANGED <<dir, st, seen, calls, record, instance>>

HelmInstalls(c) ==
    /\ exec[c] = "started" /\ dir = "config" /\ Installing(c)
    /\ ~Exists(name[c])
    /\ HelmStep(c, "working", [owner |-> c, by |-> c, desc |-> "pending"])
    /\ UNCHANGED purged

HelmChanges(c) ==
    /\ exec[c] = "started" /\ dir = "config"
    /\ KindOf[c] \in {"upgrade", "rollback"}
    /\ Exists(name[c]) /\ releases[name[c]].desc # "pending"
    /\ HelmStep(c, "working", [releases[name[c]] EXCEPT !.by = c, !.desc = "pending"])
    /\ UNCHANGED purged

HelmDeletes(c) ==
    /\ exec[c] = "started" /\ dir = "config" /\ KindOf[c] = "uninstall"
    /\ Exists(name[c])
    /\ purged' = purged \cup {name[c]}
    /\ HelmStep(c, "ok", NONE)

HelmRefuses(c) ==
    /\ exec[c] = "started"
    /\ HelmStep(c, "failed", releases[name[c]])
    /\ UNCHANGED purged

Worked(c) == Exists(name[c]) /\ releases[name[c]].by = c

HelmEnds(c) ==
    /\ exec[c] = "working" /\ Worked(c)
    /\ HelmStep(c, "ok", [releases[name[c]] EXCEPT !.desc = "deployed"])
    /\ UNCHANGED purged

\* --atomic: a failed install is purged, a failed upgrade rolled back.
Undone(c) ==
    IF c \notin Atomic \/ KindOf[c] = "rollback"
    THEN [releases[name[c]] EXCEPT !.desc = "failed"]
    ELSE IF Installing(c) THEN NONE ELSE [releases[name[c]] EXCEPT !.desc = "deployed"]

HelmFails(c) ==
    /\ exec[c] = "working"
    /\ HelmStep(c, "failed", IF Worked(c) THEN Undone(c) ELSE releases[name[c]])
    /\ UNCHANGED purged

-----------------------------------------------------------------------------
(* _store_status as a task: sleep, helm status, write to the database.     *)

StatusRead(c) ==
    /\ st[c] = "sleep"
    /\ Exists(name[c]) /\ dir = "config"
    /\ seen' = [seen EXCEPT ![c] = releases[name[c]].desc]
    /\ st' = [st EXCEPT ![c] = "read"]
    /\ UNCHANGED <<cluster, dir, exec, calls, record, instance>>

\* helm status fails, which is ignored; its _get_paths has its effect.
StatusUnread(c) ==
    /\ st[c] = "sleep"
    /\ dir' = Created(dir)
    /\ UNCHANGED <<cluster, tasks, calls, record, instance>>

StatusWritten(c) ==
    /\ st[c] = "read"
    /\ record' = [record EXCEPT ![KduOf[c]] = [by |-> c, desc |-> seen[c]]]
    /\ st' = [st EXCEPT ![c] = "sleep"]
    /\ UNCHANGED <<cluster, dir, exec, seen, calls, instance>>

\* write_app_status_to_db returned False: "Task exiting...".
StatusLost(c) ==
    /\ st[c] = "read"
    /\ st' = [st EXCEPT ![c] = "none"]
    /\ UNCHANGED <<cluster, dir, exec, seen, calls, record, instance>>

-----------------------------------------------------------------------------
(* A call, after helm.                                                     *)

HelmOver(c) == exec[c] \in {"ok", "failed"}

StatusTaskCancelled(c) == st' = [st EXCEPT ![c] = "none"]

Outcome(c) ==
    IF exec[c] = "failed" THEN "raised" ELSE IF Installing(c) THEN "returned" ELSE "info"

\* The end of a call, with its caller keeping the name that install returns.
Conclude(c) ==
    /\ Goto(c, Outcome(c))
    /\ instance' = IF Outcome(c) = "returned"
                   THEN [instance EXCEPT ![KduOf[c]] = name[c]] ELSE instance

Executed(c) ==
    /\ pc[c] = "executing" /\ HelmOver(c)
    /\ KindOf[c] # "uninstall"
    /\ StatusTaskCancelled(c)
    /\ temp' = temp \ {c}
    /\ Goto(c, "final")
    /\ UNCHANGED <<cluster, dir, exec, seen, name, last, stored, record, instance>>

Uninstalled(c) ==
    /\ pc[c] = "executing" /\ HelmOver(c)
    /\ KindOf[c] = "uninstall"
    /\ Goto(c, IF exec[c] = "ok" THEN "returned" ELSE "raised")
    /\ UNCHANGED <<cluster, dir, tasks, name, temp, last, stored, record, instance>>

FinalRead(c) ==
    /\ pc[c] = "final"
    /\ Exists(name[c]) /\ dir = "config"
    /\ last' = [last EXCEPT ![c] = releases[name[c]].desc]
    /\ Goto(c, "storing")
    /\ UNCHANGED <<cluster, dir, tasks, name, temp, stored, record, instance>>

FinalStatus(c) == last[c]

FinalWritten(c) ==
    /\ pc[c] = "storing"
    /\ record' = [record EXCEPT ![KduOf[c]] = [by |-> c, desc |-> FinalStatus(c)]]
    /\ stored' = stored \cup {c}
    /\ Goto(c, "notifying")
    /\ UNCHANGED <<cluster, dir, tasks, name, temp, last, instance>>

\* on_update_db returned, or failed in silence.
FinalNotified(c) ==
    /\ pc[c] = "notifying"
    /\ Conclude(c)
    /\ UNCHANGED <<cluster, dir, tasks, name, temp, last, stored, record>>

\* helm status or the database failed, or the call was cancelled here:
\* _store_status returns in each case and the call goes on.
FinalLost(c) ==
    /\ pc[c] \in {"final", "storing"}
    /\ dir' = Created(dir)
    /\ Conclude(c)
    /\ UNCHANGED <<cluster, tasks, name, temp, last, stored, record>>

\* get_instance_info, for the revision number.
Informed(c) ==
    /\ pc[c] = "info"
    /\ \E label \in {"returned", "raised"} : Goto(c, label)
    /\ dir' = Created(dir)
    /\ UNCHANGED <<cluster, tasks, name, temp, last, stored, record, instance>>

\* The caller is cancelled at an await outside _store_status.
Cancel(c) ==
    /\ pc[c] \in {"checking", "executing", "info"}
    /\ Goto(c, "cancelled")
    /\ UNCHANGED <<cluster, dir, tasks, name, temp, last, stored, record, instance>>

-----------------------------------------------------------------------------
Helm(c) ==
    \/ HelmInstalls(c) \/ HelmChanges(c) \/ HelmDeletes(c) \/ HelmRefuses(c)
    \/ HelmEnds(c) \/ HelmFails(c)

StatusTask(c) == StatusRead(c) \/ StatusUnread(c) \/ StatusWritten(c) \/ StatusLost(c)

AfterHelm(c) ==
    \/ Executed(c) \/ Uninstalled(c) \/ FinalRead(c) \/ FinalWritten(c)
    \/ FinalNotified(c) \/ FinalLost(c) \/ Informed(c)

Operation(c) ==
    \/ StartInstall(c) \/ StartOperation(c)
    \/ \E n \in Name : DrawName(c, n)
    \/ NameTaken(c) \/ NameAccepted(c)
    \/ AfterHelm(c) \/ Cancel(c)

KduNext == \E c \in Call : Operation(c) \/ Helm(c) \/ StatusTask(c)

\* The event loop turns and helm comes to an end.
KduFairness == \A c \in Call : WF_kduVars(Helm(c)) /\ WF_kduVars(AfterHelm(c))

-----------------------------------------------------------------------------
\* Types; a call that runs helm has a name.
KduTypeOK ==
    /\ releases \in [Name -> Release \cup {NONE}]
    /\ purged \subseteq Name
    /\ dir \in {"none", "bare", "config"}
    /\ pc \in [Call -> {"absent", "idle", "naming", "checking", "executing", "final",
                        "storing", "notifying", "info"} \cup Ended]
    /\ name \in [Call -> Name \cup {NONE}]
    /\ \A c \in Call : pc[c] \notin {"absent", "idle", "naming"} => name[c] # NONE
    /\ temp \subseteq Call
    /\ exec \in [Call -> {"none", "started", "working", "ok", "failed"}]
    /\ st \in [Call -> {"none", "sleep", "read"}]
    /\ seen \in [Call -> Status \cup {NONE}]
    /\ last \in [Call -> Status \cup {NONE}]
    /\ stored \subseteq Call
    /\ record \in [Kdu -> [by : Call, desc : Status \cup {NONE}] \cup {NONE}]
    /\ instance \in [Kdu -> Name \cup {NONE}]

\* A call that ended and was not cancelled left no status task, no helm
\* process and no values file (k8s_helm_conn.py:479-495, 621-636, 701-707).
NothingLeftBehind ==
    \A c \in Call : pc[c] \in {"returned", "raised"} =>
        /\ st[c] = "none"
        /\ exec[c] \in {"ok", "failed"}
        /\ c \notin temp

\* The release of an install that returned is there, and is the one this
\* call made, unless someone deleted a release of that name: two installs
\* that drew one name, or took it for free because helm status failed, do not
\* both return it (k8s_helm_conn.py:426-440).
ReturnedIsInstalled ==
    \A c \in Call : Installing(c) /\ pc[c] = "returned" /\ name[c] \notin purged =>
        Exists(name[c]) /\ releases[name[c]].owner = c

\* What a call wrote in the end stays: nothing it read earlier overwrites it,
\* and after a helm that succeeded it says deployed, until another call works
\* on the KDU or the release is deleted
\* (k8s_helm_conn.py:479-505, 1129-1165).
FinalStatusStands ==
    \A c \in stored :
        \/ /\ record[KduOf[c]].by = c
           /\ exec[c] = "ok" => record[KduOf[c]].desc = "deployed"
        \/ \E d \in Call \ {c} : KduOf[d] = KduOf[c] /\ pc[d] \notin {"absent", "idle"}
        \/ name[c] \in purged

\* A call whose helm has started ends, whatever the status task meets and
\* also when its release or the directory go away (k8s_helm_conn.py:480).
KduCallEnds == \A c \in Call : pc[c] = "executing" ~> pc[c] \in Ended
=============================================================================
