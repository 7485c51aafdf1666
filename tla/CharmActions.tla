----------------------------- MODULE CharmActions -----------------------------
(***************************************************************************)
(* What N2VCJujuConnector does in an execution environment                 *)
(* (src/n2vc/n2vc_juju_conn.py) through Libjuju (src/n2vc/libjuju.py):     *)
(* install_configuration_sw, exec_primitive with its special case config,  *)
(* get_ee_ssh_public__key and add_relation.  The environment is a machine  *)
(* that MachineProvisioning registered.                                    *)
(*                                                                         *)
(* Every wait is JujuModelWatcher.wait_for, which ends with a final status *)
(* and, without an exception, also when its time is over (ModelWatcher).   *)
(***************************************************************************)
EXTENDS MachineProvisioning, Sequences

CONSTANTS
    Op,         \* calls
    OpKind,     \* "install", "config", "primitive", "sshkey", "relation"
    MachineOf,  \* the registration whose machine an installation goes to
    Units,      \* num_units of an installation
    Verifiable, \* the charm has the action verify-ssh-credentials
    Verify,     \* num_retries, 20 in the code
    NOBODY

ASSUME OpAssumption ==
    /\ OpKind \in [Op -> {"install", "config", "primitive", "sshkey", "relation"}]
    /\ MachineOf \in [Op -> Prov]
    /\ Units \in Nat \ {0} /\ Verify \in Nat \ {0}
    /\ Verifiable \in BOOLEAN /\ NOBODY \notin Op

VARIABLES
    opc,        \* where a call is
    app,        \* the application in the Juju model: who deployed it, units, status
    leader,     \* it has a unit that is leader
    key,        \* its charm has an ssh key
    config,     \* who configured it last
    acts,       \* the statuses of the actions a call has started, in order
    told,       \* the status execute_action returned last
    related,    \* the relation exists
    late,       \* history: the calls with a wait that ended for its time was over
    unlisted    \* history: those told of a failure for an answer without their action

juju == <<app, leader, key, config, related>>
history == <<late, unlisted>>
opVars == <<opc, acts, told, late, unlisted>>
charmVars == <<provVars, juju, opVars>>

OpEnded == {"returned", "raised", "cancelled"}
OpGoto(o, label) == opc' = [opc EXCEPT ![o] = label]
Deployed == app.by # NOBODY
LastAct(o) == acts[o][Len(acts[o])]

OpInit(made) ==
    /\ opc = [o \in Op |-> IF o \in made THEN "idle" ELSE "absent"]
    /\ app = [by |-> NOBODY, units |-> 0, status |-> "waiting"]
    /\ leader = FALSE /\ key = FALSE /\ related = FALSE
    /\ config = NOBODY
    /\ acts = [o \in Op |-> <<>>]
    /\ told = [o \in Op |-> "none"]
    /\ late = {} /\ unlisted = {}

-----------------------------------------------------------------------------
(* Variants with a plausible mistake.                                      *)

\* Whatever is not completed is tried again.
FailedOrUnfinished(o) == told[o] # "completed"

\* An application that exists is as good as a new one.
ReadyAnyway(o) == Deployed

\* A wait has no total timeout.
OutOfTimeNever(o) == FALSE

-----------------------------------------------------------------------------
(* install_configuration_sw and deploy_charm.                              *)

\* model.applications and model.machines are read, the deployment is asked for.
StartInstall(o) ==
    /\ opc[o] = "idle" /\ OpKind[o] = "install"
    /\ ppc[MachineOf[o]] = "returned"
    /\ OpGoto(o, IF ~Deployed /\ MachineOf[o] \in machines THEN "deploying" ELSE "raised")
    /\ UNCHANGED <<provVars, juju, acts, told, history>>

\* Juju takes one application of a name; another call may have been first.
Deploy(o) ==
    /\ opc[o] = "deploying" /\ ~Deployed
    /\ app' = [by |-> o, units |-> 1, status |-> "waiting"]
    /\ OpGoto(o, IF Units > 1 THEN "units" ELSE "settling")
    /\ UNCHANGED <<provVars, leader, key, config, related, acts, told, history>>

\* create_machine and add_unit for each unit but the first.
AddUnit(o) ==
    /\ opc[o] = "units" /\ app.by = o
    /\ app' = [app EXCEPT !.units = @ + 1]
    /\ OpGoto(o, IF app'.units < Units THEN "units" ELSE "settling")
    /\ UNCHANGED <<provVars, leader, key, config, related, acts, told, history>>

\* Raised by Juju: the name is taken, the application or the connection gone.
JujuFails(o) ==
    /\ opc[o] \in {"deploying", "units", "configuring", "listing"}
    /\ OpGoto(o, "raised")
    /\ UNCHANGED <<provVars, juju, acts, told, history>>

\* The final statuses of an application: blocked is the usual one of a proxy
\* charm that nobody has configured yet.
FinalApplication == {"active", "blocked"}

Ready(o) == Deployed /\ app.by = o /\ app.status \in FinalApplication

AppReady(o) ==
    /\ opc[o] = "settling" /\ Ready(o)
    /\ OpGoto(o, "returned")
    /\ UNCHANGED <<provVars, juju, acts, told, history>>

OutOfTime(o) == ~Ready(o)

AppOverdue(o) ==
    /\ opc[o] = "settling" /\ OutOfTime(o)
    /\ late' = late \cup {o}
    /\ OpGoto(o, "returned")
    /\ UNCHANGED <<provVars, juju, acts, told, unlisted>>

-----------------------------------------------------------------------------
(* Calls in an environment that its caller knows to be installed.          *)

Begin(o) ==
    /\ opc[o] = "idle" /\ OpKind[o] # "install"
    /\ \E i \in Op : OpKind[i] = "install" /\ opc[i] = "returned"
    /\ OpGoto(o, CASE OpKind[o] = "config" -> "configuring"
                   [] OpKind[o] = "relation" -> "relating"
                   [] OTHER -> "starting")
    /\ UNCHANGED <<provVars, juju, acts, told, history>>

\* Without parameters nothing is configured.
ConfigureApplication(o) ==
    /\ opc[o] = "configuring"
    /\ \/ Deployed /\ config' = o
       \/ UNCHANGED config
    /\ OpGoto(o, "listing")
    /\ UNCHANGED <<provVars, app, leader, key, related, acts, told, history>>

\* get_actions.
GetActions(o) ==
    /\ opc[o] = "listing"
    /\ Deployed
    /\ OpGoto(o, IF Verifiable THEN "starting" ELSE "returned")
    /\ UNCHANGED <<provVars, juju, acts, told, history>>

\* execute_action up to run_action: the application, its leader, the action.
RunAction(o) ==
    /\ opc[o] = "starting"
    /\ Deployed /\ leader
    /\ acts' = [acts EXCEPT ![o] = Append(@, "running")]
    /\ OpGoto(o, "acting")
    /\ UNCHANGED <<provVars, juju, told, history>>

\* An exception of execute_action: get_ee_ssh_public__key skips it once.
FirstOfTwo(o) == OpKind[o] = "sshkey" /\ told[o] = "none"

NoAction(o) ==
    /\ opc[o] \in {"starting", "acting", "reading"}
    /\ IF FirstOfTwo(o)
       THEN told' = [told EXCEPT ![o] = "skipped"] /\ OpGoto(o, "starting")
       ELSE OpGoto(o, "raised") /\ UNCHANGED told
    /\ UNCHANGED <<provVars, juju, acts, history>>

ActionDone(o) ==
    /\ opc[o] = "acting" /\ LastAct(o) # "running"
    /\ OpGoto(o, "reading")
    /\ UNCHANGED <<provVars, juju, acts, told, history>>

ActionOverdue(o) ==
    /\ opc[o] = "acting" /\ LastAct(o) = "running"
    /\ late' = late \cup {o}
    /\ OpGoto(o, "reading")
    /\ UNCHANGED <<provVars, juju, acts, told, unlisted>>

\* The answer of get_action_status; before it get_action_output, which waits
\* without a timeout.  An action the answer lacks counts as failed.
ReadStatus(o) ==
    /\ opc[o] = "reading"
    /\ \/ told' = [told EXCEPT ![o] = LastAct(o)] /\ UNCHANGED unlisted
       \/ told' = [told EXCEPT ![o] = "failed"] /\ unlisted' = unlisted \cup {o}
    /\ OpGoto(o, IF FirstOfTwo(o) THEN "starting" ELSE "deciding")
    /\ UNCHANGED <<provVars, juju, acts, late>>

MustRetry(o) == told[o] = "failed"
VerifyLeft(o) == Len(acts[o]) < Verify
Accepted(o) == told[o] = "completed"

\* The loop of config ends with a status other than failed, or with its
\* attempts; both return CONFIG OK.
Verified(o) ==
    /\ opc[o] = "deciding" /\ OpKind[o] = "config"
    /\ OpGoto(o, IF MustRetry(o) /\ VerifyLeft(o) THEN "starting" ELSE "returned")
    /\ UNCHANGED <<provVars, juju, acts, told, history>>

PrimitiveDone(o) ==
    /\ opc[o] = "deciding" /\ OpKind[o] = "primitive"
    /\ OpGoto(o, IF Accepted(o) THEN "returned" ELSE "raised")
    /\ UNCHANGED <<provVars, juju, acts, told, history>>

\* Whatever get-ssh-public-key returned.
SshKeyDone(o) ==
    /\ opc[o] = "deciding" /\ OpKind[o] = "sshkey"
    /\ OpGoto(o, "returned")
    /\ UNCHANGED <<provVars, juju, acts, told, history>>

\* "not found" and "already exists" are logged, another error is raised.
AddRelation(o) ==
    /\ opc[o] = "relating"
    /\ related' \in {related, Deployed}
    /\ \E label \in {"returned", "raised"} :
          (related' => label = "returned") /\ OpGoto(o, label)
    /\ UNCHANGED <<provVars, app, leader, key, config, acts, told, history>>

OpCancel(o) ==
    /\ opc[o] \notin OpEnded \cup {"absent", "idle"}
    /\ OpGoto(o, "cancelled")
    /\ UNCHANGED <<provVars, juju, acts, told, history>>

-----------------------------------------------------------------------------
(* Juju.                                                                   *)

\* The charm sets its status, for the first time when its machine has started.
SetAppStatus ==
    /\ Deployed /\ Started(MachineOf[app.by])
    /\ \E status \in {"waiting", "active", "blocked"} : app' = [app EXCEPT !.status = status]
    /\ UNCHANGED <<provVars, leader, key, config, related, opVars>>

ElectLeader ==
    /\ Deployed
    /\ leader' = ~leader
    /\ UNCHANGED <<provVars, app, key, config, related, opVars>>

\* An action of a call ends, with the call or without it; the first of
\* get_ee_ssh_public__key makes a key.
ActionEnds(o) ==
    \E i \in 1..Len(acts[o]), status \in {"completed", "failed"} :
          /\ acts[o][i] = "running"
          /\ acts' = [acts EXCEPT ![o][i] = status]
          /\ key' = (key \/ (OpKind[o] = "sshkey" /\ status = "completed"))
          /\ UNCHANGED <<provVars, app, leader, config, related, opc, told, history>>

\* The model is deleted by another call (LibjujuModels).
ModelDeleted ==
    /\ Deployed
    /\ app' = [by |-> NOBODY, units |-> 0, status |-> "waiting"]
    /\ leader' = FALSE /\ key' = FALSE /\ related' = FALSE
    /\ UNCHANGED <<provVars, config, opVars>>

-----------------------------------------------------------------------------
ExecuteAction(o) == RunAction(o) \/ NoAction(o) \/ ActionDone(o) \/ ActionOverdue(o) \/ ReadStatus(o)

DeployCharm(o) == Deploy(o) \/ AddUnit(o) \/ JujuFails(o) \/ AppReady(o) \/ AppOverdue(o)

OpStep(o) ==
    \/ DeployCharm(o) \/ ConfigureApplication(o) \/ GetActions(o) \/ ExecuteAction(o)
    \/ Verified(o) \/ PrimitiveDone(o) \/ SshKeyDone(o) \/ AddRelation(o)

CharmNext ==
    \/ ProvNext /\ UNCHANGED <<juju, opVars>>
    \/ \E o \in Op : StartInstall(o) \/ Begin(o) \/ OpStep(o) \/ OpCancel(o) \/ ActionEnds(o)
    \/ SetAppStatus \/ ElectLeader \/ ModelDeleted

CharmInit(registered, before, made) == ProvInit(registered, before) /\ OpInit(made)

CharmSpec ==
    /\ \E registered, before \in SUBSET Prov, created \in SUBSET Op :
          CharmInit(registered, before, created)
    /\ [][CharmNext]_charmVars

\* Steps that end a wait with a timeout or need nobody.  The others await an
\* answer, of ssh, model.deploy, run_action or get_action_output, that may never
\* come.
TimedProv(p) == MachineFound(p) \/ MachineNotFound(p) \/ MachineReady(p) \/ MachineOverdue(p)

TimedOp(o) ==
    \/ AppReady(o) \/ AppOverdue(o) \/ ActionDone(o) \/ ActionOverdue(o)
    \/ Verified(o) \/ PrimitiveDone(o) \/ SshKeyDone(o)

CharmFairness ==
    /\ \A p \in Prov : WF_charmVars(TimedProv(p) /\ UNCHANGED <<juju, opVars>>)
    /\ \A o \in Op : WF_charmVars(TimedOp(o))

-----------------------------------------------------------------------------
OpTypeOK ==
    /\ opc \in [Op -> {"absent", "idle", "deploying", "units", "settling", "configuring",
                       "listing", "relating", "starting", "acting", "reading", "deciding"}
                      \cup OpEnded]
    /\ app \in [by : Op \cup {NOBODY}, units : 0..Units, status : {"waiting", "active", "blocked"}]
    /\ leader \in BOOLEAN /\ key \in BOOLEAN /\ related \in BOOLEAN
    /\ config \in Op \cup {NOBODY}
    /\ acts \in [Op -> Seq({"running", "completed", "failed"})]
    /\ told \in [Op -> {"none", "skipped", "running", "completed", "failed"}]
    /\ late \subseteq Op /\ unlisted \subseteq Op

CharmTypeOK == ProvTypeOK /\ OpTypeOK

\* config starts verify-ssh-credentials again only after the one before has
\* failed, so that two of them never run at once, unless an answer of Juju
\* lacked one of them; and it gives up in the end (n2vc_juju_conn.py:868-905,
\* libjuju.py:629-633).
VerifyOneAtATime ==
    \A o \in Op : OpKind[o] = "config" =>
        /\ Len(acts[o]) <= Verify
        /\ o \notin unlisted => \A i \in 1..Len(acts[o]) - 1 : acts[o][i] = "failed"

\* The result of a primitive is that of its own action, and the action has
\* completed, although the wait may end before it (n2vc_juju_conn.py:916-939,
\* libjuju.py:613-646).
PrimitiveIsCompleted ==
    \A o \in Op : OpKind[o] = "primitive" /\ opc[o] = "returned" =>
        Len(acts[o]) = 1 /\ LastAct(o) = "completed"

\* An installation that returned has asked for every unit, also when another
\* call met the name of it half way, when units were added by one of two calls,
\* or when its wait ran out of time (libjuju.py:495-541).
InstalledComplete ==
    \A o \in Op : opc[o] = "returned" /\ app.by = o => app.units = Units

\* No call goes round for ever: a wait for an application or a machine ends,
\* whatever Juju does, and a call that starts actions or prepares a host ends
\* or stays in one await that has no timeout (libjuju.py:409-445, 528-536,
\* 604-629, provisioner.py:94-112, 137-140, n2vc_juju_conn.py:868-905).
CharmCallEnds ==
    /\ \A o \in Op : opc[o] = "settling" ~> opc[o] \in OpEnded
    /\ \A o \in Op : opc[o] = "starting" ~>
          opc[o] \in OpEnded \/ [](opc[o] = "starting") \/ [](opc[o] = "reading")
    /\ \A p \in Prov : ppc[p] = "polling" ~> ppc[p] \in ProvEnded
===============================================================================
