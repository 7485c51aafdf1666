------------------------- MODULE MachineProvisioning -------------------------
(***************************************************************************)
(* register_execution_environment down to the machine: Libjuju             *)
(* .provision_machine (src/n2vc/libjuju.py) with AsyncSSHProvisioner       *)
(* (src/n2vc/provisioner.py).  The call logs in, prepares the ubuntu user, *)
(* adds the machine to Juju and waits for it, while install_agent runs in  *)
(* a task of its own that nobody waits for.                                *)
(***************************************************************************)
EXTENDS Naturals

CONSTANTS
    Prov,       \* calls of provision_machine
    Host,       \* machines that exist before Juju knows them
    HostOf,     \* the one a call registers
    Retries,    \* retry, 10 in the code: attempts <= retry
    MaxPolls    \* looks for the machine in the model, 10 in the code

ASSUME ProvAssumption ==
    /\ HostOf \in [Prov -> Host]
    /\ Retries \in Nat /\ MaxPolls \in Nat \ {0}

VARIABLES
    ppc,        \* where a call is
    attempts,   \* of the login, then, in the task, of the rule
    polls,      \* looks for the machine
    connected,  \* the calls with their model connection open
    machines,   \* the calls whose machine is in the Juju model
    agent,      \* install_agent of a call
    rules,      \* how often the address rule was appended on a host
    overdue     \* history: the waits that ended without the machine

provVars == <<ppc, attempts, polls, connected, machines, agent, rules, overdue>>

ProvEnded == {"returned", "raised", "cancelled"}
ProvGoto(p, label) == ppc' = [ppc EXCEPT ![p] = label]
AgentGoto(p, label) == agent' = [agent EXCEPT ![p] = label]

\* Calls to be made, and calls made before, whose machines are in the model.
ProvInit(made, before) ==
    /\ ppc = [p \in Prov |-> CASE p \in before -> "returned"
                               [] p \in made \ before -> "idle"
                               [] OTHER -> "absent"]
    /\ attempts = [p \in Prov |-> 0]
    /\ polls = [p \in Prov |-> 0]
    /\ connected = {}
    /\ machines = before
    /\ agent = [p \in Prov |-> IF p \in before THEN "installed" ELSE "none"]
    /\ rules = [h \in Host |-> IF \E p \in before : HostOf[p] = h THEN 1 ELSE 0]
    /\ overdue = {}

-----------------------------------------------------------------------------
(* Variants with a plausible mistake: a machine is ready once it is in the *)
(* model, no attempt is the last.                                          *)

WaitedUntilAdded(p) == TRUE

AttemptsLeftAlways(p) == TRUE

-----------------------------------------------------------------------------
(* The call.                                                               *)

\* The exits: `finally` closes model and controller.
ProvEnd(p, label) ==
    /\ ProvGoto(p, label)
    /\ connected' = connected \ {p}

AttemptsLeft(p) == attempts[p] < Retries

OpenModel(p) ==
    /\ ppc[p] = "idle"
    /\ ProvGoto(p, "login")
    /\ connected' = connected \cup {p}
    /\ UNCHANGED <<attempts, polls, machines, agent, rules, overdue>>

ModelConnects(p) ==
    /\ ppc[p] = "login"
    /\ ProvGoto(p, "user")
    /\ UNCHANGED <<attempts, polls, connected, machines, agent, rules, overdue>>

ConnectFails(p) ==
    /\ ppc[p] = "login"
    /\ attempts' = [attempts EXCEPT ![p] = @ + 1]
    /\ IF AttemptsLeft(p) THEN UNCHANGED <<ppc, connected>> ELSE ProvEnd(p, "raised")
    /\ UNCHANGED <<polls, machines, agent, rules, overdue>>

\* The ubuntu user, then the hardware.
HostScript(p) ==
    /\ \/ ppc[p] = "user" /\ ProvGoto(p, "hardware")
       \/ ppc[p] = "hardware" /\ ProvGoto(p, "adding")
    /\ UNCHANGED <<attempts, polls, connected, machines, agent, rules, overdue>>

\* A script, the detection or AddMachines fails.
ScriptFails(p) ==
    /\ ppc[p] \in {"user", "hardware", "adding"}
    /\ ProvEnd(p, "raised")
    /\ UNCHANGED <<attempts, polls, machines, agent, rules, overdue>>

\* AddMachines, and the task.
AddMachines(p) ==
    /\ ppc[p] = "adding"
    /\ machines' = machines \cup {p}
    /\ AgentGoto(p, "script")
    /\ attempts' = [attempts EXCEPT ![p] = 0]
    /\ ProvGoto(p, "polling")
    /\ UNCHANGED <<polls, connected, rules, overdue>>

MachineFound(p) ==
    /\ ppc[p] = "polling"
    /\ ProvGoto(p, "waiting")
    /\ UNCHANGED <<attempts, polls, connected, machines, agent, rules, overdue>>

MachineNotFound(p) ==
    /\ ppc[p] = "polling"
    /\ polls' = [polls EXCEPT ![p] = @ + 1]
    /\ IF polls'[p] < MaxPolls THEN UNCHANGED <<ppc, connected>> ELSE ProvEnd(p, "raised")
    /\ UNCHANGED <<attempts, machines, agent, rules, overdue>>

\* Juju reports a machine started when its agent runs.
Started(p) == p \in machines /\ agent[p] = "installed"

WaitOver(p) == Started(p)

MachineReady(p) ==
    /\ ppc[p] = "waiting" /\ WaitOver(p)
    /\ ProvEnd(p, "returned")
    /\ UNCHANGED <<attempts, polls, machines, agent, rules, overdue>>

\* JujuModelWatcher.wait_for returns normally also when its time is over.
MachineOverdue(p) ==
    /\ ppc[p] = "waiting" /\ ~Started(p)
    /\ overdue' = overdue \cup {p}
    /\ ProvEnd(p, "returned")
    /\ UNCHANGED <<attempts, polls, machines, agent, rules>>

ProvCancel(p) ==
    /\ ppc[p] \notin ProvEnded \cup {"absent", "idle"}
    /\ ProvEnd(p, "cancelled")
    /\ UNCHANGED <<attempts, polls, machines, agent, rules, overdue>>

-----------------------------------------------------------------------------
(* install_agent.                                                          *)

\* ProvisioningScript goes through the connection of the call.
GetScript(p) ==
    /\ agent[p] = "script"
    /\ AgentGoto(p, IF p \in connected THEN "rule" ELSE "lost")
    /\ UNCHANGED <<ppc, attempts, polls, connected, machines, rules, overdue>>

RuleWorks(p) ==
    /\ agent[p] = "rule"
    /\ rules' = [rules EXCEPT ![HostOf[p]] = @ + 1]
    /\ AgentGoto(p, "configure")
    /\ UNCHANGED <<ppc, attempts, polls, connected, machines, overdue>>

\* The script may fail after it has appended the rule.
RuleFails(p) ==
    /\ agent[p] = "rule"
    /\ attempts' = [attempts EXCEPT ![p] = @ + 1]
    /\ \/ rules' = [rules EXCEPT ![HostOf[p]] = @ + 1]
       \/ UNCHANGED rules
    /\ IF AttemptsLeft(p) THEN UNCHANGED agent ELSE AgentGoto(p, "failed")
    /\ UNCHANGED <<ppc, polls, connected, machines, overdue>>

Configure(p) ==
    /\ agent[p] = "configure"
    /\ \E label \in {"installed", "failed"} : AgentGoto(p, label)
    /\ UNCHANGED <<ppc, attempts, polls, connected, machines, rules, overdue>>

ProvisionMachine(p) ==
    \/ OpenModel(p) \/ ModelConnects(p) \/ ConnectFails(p) \/ HostScript(p) \/ ScriptFails(p)
    \/ AddMachines(p) \/ MachineFound(p) \/ MachineNotFound(p)
    \/ MachineReady(p) \/ MachineOverdue(p)

InstallAgent(p) == GetScript(p) \/ RuleWorks(p) \/ RuleFails(p) \/ Configure(p)

ProvNext == \E p \in Prov : ProvisionMachine(p) \/ ProvCancel(p) \/ InstallAgent(p)

-----------------------------------------------------------------------------
ProvTypeOK ==
    /\ ppc \in [Prov -> {"absent", "idle", "login", "user", "hardware", "adding", "polling",
                         "waiting"} \cup ProvEnded]
    /\ attempts \in [Prov -> 0..Retries + 1]
    /\ polls \in [Prov -> 0..MaxPolls]
    /\ connected \subseteq Prov
    /\ machines \subseteq Prov
    /\ agent \in [Prov -> {"none", "script", "rule", "configure", "installed", "failed", "lost"}]
    /\ rules \in [Host -> Nat]
    /\ overdue \subseteq Prov

\* A registration does not close the connection install_agent still needs:
\* it has lost it only when the call raised, was cancelled or ran out of time,
\* and a call that ended has closed its own (libjuju.py:398-445).
AgentKeepsConnection ==
    \A p \in Prov :
        /\ agent[p] = "lost" => ppc[p] \in {"raised", "cancelled"} \/ p \in overdue
        /\ ppc[p] \in ProvEnded => p \notin connected
=============================================================================
