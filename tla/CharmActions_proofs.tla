-------------------------- MODULE CharmActions_proofs --------------------------
(***************************************************************************)
(* Proofs about CharmActions and MachineProvisioning, for any calls, hosts *)
(* and numbers of attempts, units and verifications.                       *)
(***************************************************************************)
EXTENDS EnvironmentRefinement, SequenceTheorems, TLAPS

Provisioning == {"login", "user", "hardware", "adding", "polling", "waiting"}
WithAgent == {"polling", "waiting"} \cup ProvEnded

\* A connection is open exactly during its call, the task is started by the
\* call and is the reason why it returns, and no counter passes its limit.
ProvOrder ==
    \A p \in Prov :
        /\ p \in connected <=> ppc[p] \in Provisioning
        /\ agent[p] # "none" => ppc[p] \in WithAgent
        /\ ppc[p] = "returned" => agent[p] = "installed" \/ p \in overdue
        /\ ppc[p] \in {"idle", "login"} \/ agent[p] \in {"script", "rule"} => attempts[p] <= Retries
        /\ ppc[p] \notin ProvEnded => polls[p] < MaxPolls

ProvInv == ProvTypeOK /\ ProvOrder /\ AgentKeepsConnection

LEMMA ProvInitially ==
  ASSUME NEW made \in SUBSET Prov, NEW before \in SUBSET Prov, ProvInit(made, before)
  PROVE  ProvInv
<1> USE ProvAssumption DEF ProvInit, ProvEnded
<1>1. ProvTypeOK
  BY DEF ProvTypeOK
<1>2. ProvOrder
  <2>1. ASSUME NEW p \in Prov
        PROVE  /\ ppc[p] \in {"absent", "idle", "returned"}
               /\ ppc[p] = "returned" => agent[p] = "installed"
               /\ agent[p] # "none" => ppc[p] = "returned"
    BY <2>1
  <2>2. ASSUME NEW p \in Prov
        PROVE  p \notin connected /\ attempts[p] <= Retries /\ polls[p] < MaxPolls
    <3>1. Retries >= 0 /\ MaxPolls > 0
      OBVIOUS
    <3> QED
      BY <2>2, <3>1
  <2> QED
    BY <2>1, <2>2 DEF ProvOrder, Provisioning, WithAgent
<1>3. AgentKeepsConnection
  BY DEF AgentKeepsConnection
<1> QED
  BY <1>1, <1>2, <1>3 DEF ProvInv

LEMMA ProvisionStep == ASSUME ProvInv, NEW p \in Prov, ProvisionMachine(p) PROVE ProvInv'
<1> USE ProvAssumption DEF ProvInv, ProvTypeOK, ProvOrder, AgentKeepsConnection, ProvEnded,
                           Provisioning, WithAgent, ProvGoto, AgentGoto, ProvEnd
<1>1. CASE OpenModel(p)
  BY <1>1 DEF OpenModel
<1>2. CASE ModelConnects(p)
  BY <1>2 DEF ModelConnects
<1>3. CASE ConnectFails(p)
  BY <1>3 DEF ConnectFails, AttemptsLeft
<1>4. CASE HostScript(p)
  BY <1>4 DEF HostScript
<1>5. CASE ScriptFails(p)
  BY <1>5 DEF ScriptFails
<1>6. CASE AddMachines(p)
  BY <1>6 DEF AddMachines
<1>7. CASE MachineFound(p)
  BY <1>7 DEF MachineFound
<1>8. CASE MachineNotFound(p)
  BY <1>8 DEF MachineNotFound
<1>9. CASE MachineReady(p)
  BY <1>9 DEF MachineReady, WaitOver, Started
<1>10. CASE MachineOverdue(p)
  BY <1>10 DEF MachineOverdue
<1> QED
  BY <1>1, <1>2, <1>3, <1>4, <1>5, <1>6, <1>7, <1>8, <1>9, <1>10 DEF ProvisionMachine

LEMMA CancelStep == ASSUME ProvInv, NEW p \in Prov, ProvCancel(p) PROVE ProvInv'
BY ProvAssumption DEF ProvInv, ProvTypeOK, ProvOrder, AgentKeepsConnection, ProvEnded,
                      Provisioning, WithAgent, ProvGoto, ProvEnd, ProvCancel

LEMMA AgentStep == ASSUME ProvInv, NEW p \in Prov, InstallAgent(p) PROVE ProvInv'
<1> USE ProvAssumption DEF ProvInv, ProvTypeOK, ProvOrder, AgentKeepsConnection, ProvEnded,
                           Provisioning, WithAgent, AgentGoto
<1>1. CASE GetScript(p)
  BY <1>1 DEF GetScript
<1>2. CASE RuleWorks(p)
  BY <1>2 DEF RuleWorks
<1>3. CASE RuleFails(p)
  BY <1>3 DEF RuleFails, AttemptsLeft
<1>4. CASE Configure(p)
  BY <1>4 DEF Configure
<1> QED
  BY <1>1, <1>2, <1>3, <1>4 DEF InstallAgent

-----------------------------------------------------------------------------
(* CharmActions.                                                           *)

Finished == {"completed", "failed"}

\* The history of the actions of a call, as far as its place tells it.
ActionsOrderOf(o) ==
    /\ opc[o] \in {"acting", "reading", "deciding"} => acts[o] # <<>>
    /\ opc[o] \in {"absent", "idle", "configuring", "listing", "relating"} => acts[o] = <<>>
    /\ opc[o] = "deciding" /\ told[o] = "completed" => LastAct(o) = "completed"
    /\ opc[o] = "deciding" /\ told[o] = "failed" => LastAct(o) = "failed" \/ o \in unlisted
    /\ OpKind[o] = "config" /\ opc[o] = "starting" =>
          /\ Len(acts[o]) < Verify
          /\ o \in unlisted \/ \A i \in 1..Len(acts[o]) : acts[o][i] = "failed"
    /\ OpKind[o] = "primitive" =>
          /\ opc[o] = "starting" => acts[o] = <<>>
          /\ opc[o] \in {"acting", "reading", "deciding"} => Len(acts[o]) = 1
          /\ opc[o] \notin {"configuring", "listing"}
    /\ opc[o] = "relating" => OpKind[o] = "relation"
    /\ opc[o] \in {"deploying", "units", "settling"} => OpKind[o] = "install"

ActionsOrder == \A o \in Op : ActionsOrderOf(o)

\* The application is of the call that deployed it; its units are counted.
UnitsOrder ==
    \A o \in Op : app.by = o =>
        /\ opc[o] \in {"units", "settling"} \cup OpEnded
        /\ opc[o] = "units" => app.units < Units
        /\ opc[o] = "settling" => app.units = Units

OpInv ==
    /\ OpTypeOK /\ ActionsOrder /\ UnitsOrder
    /\ VerifyOneAtATime /\ PrimitiveIsCompleted /\ InstalledComplete

LEMMA OpInitially == ASSUME NEW made \in SUBSET Op, OpInit(made) PROVE OpInv
<1> USE OpAssumption DEF OpInit, OpEnded
<1>1. OpTypeOK
  <2>1. <<>> \in Seq({"running", "completed", "failed"})
    OBVIOUS
  <2>2. acts \in [Op -> Seq({"running", "completed", "failed"})]
    BY <2>1
  <2>3. app \in [by : Op \cup {NOBODY}, units : 0..Units, status : {"waiting", "active", "blocked"}]
    OBVIOUS
  <2> QED
    BY <2>2, <2>3 DEF OpTypeOK
<1>2. ActionsOrder /\ UnitsOrder
  BY DEF ActionsOrder, ActionsOrderOf, UnitsOrder, Finished
<1>3. VerifyOneAtATime /\ PrimitiveIsCompleted /\ InstalledComplete
  BY DEF VerifyOneAtATime, PrimitiveIsCompleted, InstalledComplete
<1> QED
  BY <1>1, <1>2, <1>3 DEF OpInv


\* What a call does, and the outside does to it, keeps the invariant.
LEMMA OpStepInv ==
  ASSUME OpInv, NEW o \in Op, StartInstall(o) \/ Begin(o) \/ OpStep(o) \/ OpCancel(o)
  PROVE  OpInv'
<1> USE OpAssumption DEF OpInv, juju, history, OpGoto, OpEnded, Deployed, LastAct, Finished, ActionsOrderOf
<1>1. CASE StartInstall(o)
  <2>1. OpTypeOK'
    BY <1>1 DEF StartInstall, OpTypeOK
  <2>2. ActionsOrder' /\ UnitsOrder'
    BY <1>1 DEF StartInstall, OpTypeOK, ActionsOrder, UnitsOrder
  <2>3. VerifyOneAtATime'
    BY <1>1 DEF StartInstall, OpTypeOK, ActionsOrder, VerifyOneAtATime
  <2>4. PrimitiveIsCompleted' /\ InstalledComplete'
    BY <1>1 DEF StartInstall, OpTypeOK, ActionsOrder, UnitsOrder, PrimitiveIsCompleted,
           InstalledComplete
  <2> QED
    BY <2>1, <2>2, <2>3, <2>4
<1>2. CASE Begin(o)
  <2>1. OpTypeOK'
    BY <1>2 DEF Begin, OpTypeOK
  <2>2. ActionsOrder' /\ UnitsOrder'
    BY <1>2 DEF Begin, OpTypeOK, ActionsOrder, UnitsOrder
  <2>3. VerifyOneAtATime'
    BY <1>2 DEF Begin, OpTypeOK, ActionsOrder, VerifyOneAtATime
  <2>4. PrimitiveIsCompleted' /\ InstalledComplete'
    BY <1>2 DEF Begin, OpTypeOK, ActionsOrder, UnitsOrder, PrimitiveIsCompleted,
           InstalledComplete
  <2> QED
    BY <2>1, <2>2, <2>3, <2>4
<1>3. CASE JujuFails(o)
  <2>1. OpTypeOK'
    BY <1>3 DEF JujuFails, OpTypeOK
  <2>2. ActionsOrder' /\ UnitsOrder'
    BY <1>3 DEF JujuFails, OpTypeOK, ActionsOrder, UnitsOrder
  <2>3. VerifyOneAtATime'
    BY <1>3 DEF JujuFails, OpTypeOK, ActionsOrder, VerifyOneAtATime
  <2>4. PrimitiveIsCompleted' /\ InstalledComplete'
    BY <1>3 DEF JujuFails, OpTypeOK, ActionsOrder, UnitsOrder, PrimitiveIsCompleted,
           InstalledComplete
  <2> QED
    BY <2>1, <2>2, <2>3, <2>4
<1>4. CASE AppReady(o)
  <2>1. OpTypeOK'
    BY <1>4 DEF AppReady, Ready, FinalApplication, OpTypeOK
  <2>2. ActionsOrder' /\ UnitsOrder'
    BY <1>4 DEF AppReady, Ready, OpTypeOK, ActionsOrder, UnitsOrder
  <2>3. VerifyOneAtATime'
    BY <1>4 DEF AppReady, Ready, OpTypeOK, ActionsOrder, VerifyOneAtATime
  <2>4. PrimitiveIsCompleted' /\ InstalledComplete'
    BY <1>4 DEF AppReady, Ready, OpTypeOK, ActionsOrder, UnitsOrder, PrimitiveIsCompleted,
           InstalledComplete
  <2> QED
    BY <2>1, <2>2, <2>3, <2>4
<1>5. CASE AppOverdue(o)
  <2>1. OpTypeOK'
    BY <1>5 DEF AppOverdue, OutOfTime, Ready, OpTypeOK
  <2>2. ActionsOrder' /\ UnitsOrder'
    BY <1>5 DEF AppOverdue, OutOfTime, Ready, OpTypeOK, ActionsOrder, UnitsOrder
  <2>3. VerifyOneAtATime'
    BY <1>5 DEF AppOverdue, OutOfTime, Ready, OpTypeOK, ActionsOrder, VerifyOneAtATime
  <2>4. PrimitiveIsCompleted' /\ InstalledComplete'
    BY <1>5 DEF AppOverdue, OutOfTime, Ready, OpTypeOK, ActionsOrder, UnitsOrder,
           PrimitiveIsCompleted,
           InstalledComplete
  <2> QED
    BY <2>1, <2>2, <2>3, <2>4
<1>6. CASE ConfigureApplication(o)
  <2>1. OpTypeOK'
    BY <1>6 DEF ConfigureApplication, OpTypeOK
  <2>2. ActionsOrder' /\ UnitsOrder'
    BY <1>6 DEF ConfigureApplication, OpTypeOK, ActionsOrder, UnitsOrder
  <2>3. VerifyOneAtATime'
    BY <1>6 DEF ConfigureApplication, OpTypeOK, ActionsOrder, VerifyOneAtATime
  <2>4. PrimitiveIsCompleted' /\ InstalledComplete'
    BY <1>6 DEF ConfigureApplication, OpTypeOK, ActionsOrder, UnitsOrder, PrimitiveIsCompleted,
           InstalledComplete
  <2> QED
    BY <2>1, <2>2, <2>3, <2>4
<1>7. CASE GetActions(o)
  <2>1. OpTypeOK'
    BY <1>7 DEF GetActions, OpTypeOK
  <2>2. ActionsOrder' /\ UnitsOrder'
    BY <1>7 DEF GetActions, OpTypeOK, ActionsOrder, UnitsOrder
  <2>3. VerifyOneAtATime'
    BY <1>7 DEF GetActions, OpTypeOK, ActionsOrder, VerifyOneAtATime
  <2>4. PrimitiveIsCompleted' /\ InstalledComplete'
    BY <1>7 DEF GetActions, OpTypeOK, ActionsOrder, UnitsOrder, PrimitiveIsCompleted,
           InstalledComplete
  <2> QED
    BY <2>1, <2>2, <2>3, <2>4
<1>8. CASE NoAction(o)
  <2>1. OpTypeOK'
    <3>1. /\ opc' \in [Op -> {"absent", "idle", "deploying", "units", "settling", "configuring",
                              "listing", "relating", "starting", "acting", "reading",
                              "deciding"} \cup OpEnded]
          /\ told' \in [Op -> {"none", "skipped", "running", "completed", "failed"}]
      <4>1. CASE FirstOfTwo(o)
        <5>1. told' = [told EXCEPT ![o] = "skipped"] /\ opc' = [opc EXCEPT ![o] = "starting"]
          BY <1>8, <4>1 DEF NoAction
        <5> QED
          BY <5>1 DEF OpTypeOK
      <4>2. CASE ~FirstOfTwo(o)
        <5>1. UNCHANGED told /\ opc' = [opc EXCEPT ![o] = "raised"]
          BY <1>8, <4>2 DEF NoAction
        <5> QED
          BY <5>1 DEF OpTypeOK
      <4> QED
        BY <4>1, <4>2
    <3>2. UNCHANGED <<app, leader, key, related, config, acts, late, unlisted>>
      BY <1>8 DEF NoAction
    <3> QED
      BY <3>1, <3>2 DEF OpTypeOK
  <2>2. ActionsOrder' /\ UnitsOrder'
    BY <1>8 DEF NoAction, FirstOfTwo, OpTypeOK, ActionsOrder, UnitsOrder
  <2>3. VerifyOneAtATime'
    BY <1>8 DEF NoAction, FirstOfTwo, OpTypeOK, ActionsOrder, VerifyOneAtATime
  <2>4. PrimitiveIsCompleted' /\ InstalledComplete'
    BY <1>8 DEF NoAction, FirstOfTwo, OpTypeOK, ActionsOrder, UnitsOrder, PrimitiveIsCompleted,
           InstalledComplete
  <2> QED
    BY <2>1, <2>2, <2>3, <2>4
<1>9. CASE ActionDone(o)
  <2>1. OpTypeOK'
    BY <1>9 DEF ActionDone, OpTypeOK
  <2>2. ActionsOrder' /\ UnitsOrder'
    BY <1>9 DEF ActionDone, OpTypeOK, ActionsOrder, UnitsOrder
  <2>3. VerifyOneAtATime'
    BY <1>9 DEF ActionDone, OpTypeOK, ActionsOrder, VerifyOneAtATime
  <2>4. PrimitiveIsCompleted' /\ InstalledComplete'
    BY <1>9 DEF ActionDone, OpTypeOK, ActionsOrder, UnitsOrder, PrimitiveIsCompleted,
           InstalledComplete
  <2> QED
    BY <2>1, <2>2, <2>3, <2>4
<1>10. CASE ActionOverdue(o)
  <2>1. OpTypeOK'
    BY <1>10 DEF ActionOverdue, OpTypeOK
  <2>2. ActionsOrder' /\ UnitsOrder'
    BY <1>10 DEF ActionOverdue, OpTypeOK, ActionsOrder, UnitsOrder
  <2>3. VerifyOneAtATime'
    BY <1>10 DEF ActionOverdue, OpTypeOK, ActionsOrder, VerifyOneAtATime
  <2>4. PrimitiveIsCompleted' /\ InstalledComplete'
    BY <1>10 DEF ActionOverdue, OpTypeOK, ActionsOrder, UnitsOrder, PrimitiveIsCompleted,
           InstalledComplete
  <2> QED
    BY <2>1, <2>2, <2>3, <2>4
<1>11. CASE ReadStatus(o)
  <2>1. OpTypeOK'
    <3>1. LastAct(o) \in {"running", "completed", "failed"}
      <4>1. acts[o] \in Seq({"running", "completed", "failed"}) /\ acts[o] # <<>>
        BY <1>11 DEF ReadStatus, OpTypeOK, ActionsOrder
      <4> QED
        BY <4>1
    <3>2. told' \in [Op -> {"none", "skipped", "running", "completed", "failed"}]
          /\ unlisted' \subseteq Op
      <4>1. \E status \in {"running", "completed", "failed"} : told' = [told EXCEPT ![o] = status]
        BY <1>11, <3>1 DEF ReadStatus
      <4>2. unlisted' \in {unlisted, unlisted \cup {o}}
        BY <1>11 DEF ReadStatus
      <4> QED
        BY <4>1, <4>2 DEF OpTypeOK
    <3>3. /\ opc' \in [Op -> {"absent", "idle", "deploying", "units", "settling", "configuring",
                              "listing", "relating", "starting", "acting", "reading",
                              "deciding"} \cup OpEnded]
          /\ UNCHANGED <<app, leader, key, related, config, acts, late>>
      BY <1>11 DEF ReadStatus, OpTypeOK
    <3> QED
      BY <3>2, <3>3 DEF OpTypeOK
  <2>2. ActionsOrder' /\ UnitsOrder'
    BY <1>11 DEF ReadStatus, FirstOfTwo, OpTypeOK, ActionsOrder, UnitsOrder
  <2>3. VerifyOneAtATime'
    BY <1>11 DEF ReadStatus, FirstOfTwo, OpTypeOK, ActionsOrder, VerifyOneAtATime
  <2>4. PrimitiveIsCompleted' /\ InstalledComplete'
    BY <1>11 DEF ReadStatus, FirstOfTwo, OpTypeOK, ActionsOrder, UnitsOrder, PrimitiveIsCompleted,
           InstalledComplete
  <2> QED
    BY <2>1, <2>2, <2>3, <2>4
<1>12. CASE Verified(o)
  <2>1. OpTypeOK'
    BY <1>12 DEF Verified, MustRetry, VerifyLeft, OpTypeOK
  <2>2. ActionsOrder' /\ UnitsOrder'
    BY <1>12 DEF Verified, MustRetry, VerifyLeft, OpTypeOK, ActionsOrder, UnitsOrder,
           VerifyOneAtATime
  <2>3. VerifyOneAtATime'
    BY <1>12 DEF Verified, MustRetry, VerifyLeft, OpTypeOK, ActionsOrder, VerifyOneAtATime
  <2>4. PrimitiveIsCompleted' /\ InstalledComplete'
    BY <1>12 DEF Verified, MustRetry, VerifyLeft, OpTypeOK, ActionsOrder, UnitsOrder,
           PrimitiveIsCompleted,
           InstalledComplete
  <2> QED
    BY <2>1, <2>2, <2>3, <2>4
<1>13. CASE PrimitiveDone(o)
  <2>1. OpTypeOK'
    BY <1>13 DEF PrimitiveDone, Accepted, OpTypeOK
  <2>2. ActionsOrder' /\ UnitsOrder'
    BY <1>13 DEF PrimitiveDone, Accepted, OpTypeOK, ActionsOrder, UnitsOrder
  <2>3. VerifyOneAtATime'
    BY <1>13 DEF PrimitiveDone, Accepted, OpTypeOK, ActionsOrder, VerifyOneAtATime
  <2>4. PrimitiveIsCompleted' /\ InstalledComplete'
    BY <1>13 DEF PrimitiveDone, Accepted, OpTypeOK, ActionsOrder, UnitsOrder, PrimitiveIsCompleted,
           InstalledComplete
  <2> QED
    BY <2>1, <2>2, <2>3, <2>4
<1>14. CASE SshKeyDone(o)
  <2>1. OpTypeOK'
    BY <1>14 DEF SshKeyDone, OpTypeOK
  <2>2. ActionsOrder' /\ UnitsOrder'
    BY <1>14 DEF SshKeyDone, OpTypeOK, ActionsOrder, UnitsOrder
  <2>3. VerifyOneAtATime'
    BY <1>14 DEF SshKeyDone, OpTypeOK, ActionsOrder, VerifyOneAtATime
  <2>4. PrimitiveIsCompleted' /\ InstalledComplete'
    BY <1>14 DEF SshKeyDone, OpTypeOK, ActionsOrder, UnitsOrder, PrimitiveIsCompleted,
           InstalledComplete
  <2> QED
    BY <2>1, <2>2, <2>3, <2>4
<1>15. CASE AddRelation(o)
  <2>1. OpTypeOK'
    <3>1. related' \in BOOLEAN
      BY <1>15, Zenon DEF AddRelation, OpTypeOK
    <3> QED
      BY <1>15, <3>1 DEF AddRelation, OpTypeOK
  <2>2. ActionsOrder' /\ UnitsOrder'
    BY <1>15 DEF AddRelation, OpTypeOK, ActionsOrder, UnitsOrder
  <2>3. VerifyOneAtATime'
    BY <1>15 DEF AddRelation, OpTypeOK, ActionsOrder, VerifyOneAtATime
  <2>4. PrimitiveIsCompleted' /\ InstalledComplete'
    BY <1>15 DEF AddRelation, OpTypeOK, ActionsOrder, UnitsOrder, PrimitiveIsCompleted,
           InstalledComplete
  <2> QED
    BY <2>1, <2>2, <2>3, <2>4
<1>16. CASE OpCancel(o)
  <2>1. OpTypeOK'
    BY <1>16 DEF OpCancel, OpTypeOK
  <2>2. ActionsOrder' /\ UnitsOrder'
    BY <1>16 DEF OpCancel, OpTypeOK, ActionsOrder, UnitsOrder
  <2>3. VerifyOneAtATime'
    BY <1>16 DEF OpCancel, OpTypeOK, ActionsOrder, VerifyOneAtATime
  <2>4. PrimitiveIsCompleted' /\ InstalledComplete'
    BY <1>16 DEF OpCancel, OpTypeOK, ActionsOrder, UnitsOrder, PrimitiveIsCompleted,
           InstalledComplete
  <2> QED
    BY <2>1, <2>2, <2>3, <2>4
<1>17. CASE Deploy(o)
  <2>1. OpTypeOK'
    BY <1>17 DEF Deploy, OpTypeOK
  <2>2. ActionsOrder' /\ UnitsOrder'
    BY <1>17 DEF Deploy, OpTypeOK, ActionsOrder, UnitsOrder
  <2>3. VerifyOneAtATime'
    BY <1>17 DEF Deploy, OpTypeOK, ActionsOrder, VerifyOneAtATime
  <2>4. PrimitiveIsCompleted' /\ InstalledComplete'
    BY <1>17 DEF Deploy, OpTypeOK, ActionsOrder, UnitsOrder, PrimitiveIsCompleted,
           InstalledComplete
  <2> QED
    BY <2>1, <2>2, <2>3, <2>4
<1>18. CASE AddUnit(o)
  <2>1. OpTypeOK'
    <3>1. app.units + 1 \in 0..Units
      BY <1>18 DEF AddUnit, OpTypeOK, UnitsOrder
    <3>2. app' \in [by : Op \cup {NOBODY}, units : 0..Units, status : {"waiting", "active", "blocked"}]
      BY <1>18, <3>1 DEF AddUnit, OpTypeOK
    <3> QED
      BY <1>18, <3>2 DEF AddUnit, OpTypeOK
  <2>2. ActionsOrder' /\ UnitsOrder'
    BY <1>18 DEF AddUnit, OpTypeOK, ActionsOrder, UnitsOrder
  <2>3. VerifyOneAtATime'
    BY <1>18 DEF AddUnit, OpTypeOK, ActionsOrder, VerifyOneAtATime
  <2>4. PrimitiveIsCompleted' /\ InstalledComplete'
    BY <1>18 DEF AddUnit, OpTypeOK, ActionsOrder, UnitsOrder, PrimitiveIsCompleted,
           InstalledComplete
  <2> QED
    BY <2>1, <2>2, <2>3, <2>4
<1>19. CASE RunAction(o)
  <2>1. OpTypeOK'
    BY <1>19 DEF RunAction, OpTypeOK
  <2>2. ActionsOrder' /\ UnitsOrder'
    <3>1. UnitsOrder'
      BY <1>19 DEF RunAction, OpTypeOK, UnitsOrder
    <3>2. /\ acts'[o] # <<>> /\ Len(acts'[o]) = Len(acts[o]) + 1
          /\ \A q \in Op \ {o} : acts'[q] = acts[q]
      <4>1. acts[o] \in Seq({"running", "completed", "failed"})
        BY DEF OpTypeOK
      <4>2. acts'[o] = Append(acts[o], "running") /\ \A q \in Op \ {o} : acts'[q] = acts[q]
        BY <1>19 DEF RunAction, OpTypeOK
      <4> QED
        BY <4>1, <4>2
    <3>3. /\ opc[o] = "starting" /\ opc' = [opc EXCEPT ![o] = "acting"]
          /\ UNCHANGED told
      BY <1>19 DEF RunAction
    <3>4. ActionsOrder'
      <4> SUFFICES ASSUME NEW q \in Op PROVE ActionsOrderOf(q)'
        BY DEF ActionsOrder
      <4>1. ActionsOrderOf(q)
        BY DEF ActionsOrder
      <4>2. CASE q = o
        <5>1. Len(<<>>) = 0
          OBVIOUS
        <5> QED
          BY <4>1, <4>2, <3>2, <3>3, <5>1 DEF OpTypeOK, ActionsOrderOf
      <4>3. CASE q # o
        <5>1. opc'[q] = opc[q] /\ acts'[q] = acts[q] /\ told'[q] = told[q] /\ UNCHANGED unlisted
          BY <1>19, <4>3, <3>2, <3>3 DEF RunAction, OpTypeOK
        <5> QED
          BY <4>1, <5>1 DEF ActionsOrderOf
      <4> QED
        BY <4>2, <4>3
    <3> QED
      BY <3>1, <3>4
  <2>3. VerifyOneAtATime'
    BY <1>19 DEF RunAction, OpTypeOK, ActionsOrder, VerifyOneAtATime
  <2>4. PrimitiveIsCompleted' /\ InstalledComplete'
    BY <1>19 DEF RunAction, OpTypeOK, ActionsOrder, UnitsOrder, PrimitiveIsCompleted,
           InstalledComplete
  <2> QED
    BY <2>1, <2>2, <2>3, <2>4
<1> QED
  BY <1>1, <1>2, <1>3, <1>4, <1>5, <1>6, <1>7, <1>8, <1>9, <1>10, <1>11, <1>12, <1>13, <1>14, <1>15, <1>16, <1>17, <1>18, <1>19
     DEF OpStep, DeployCharm, ExecuteAction

\* The charm becomes active, elects leaders, ends actions, goes with its model.
LEMMA JujuStep ==
  ASSUME OpInv, SetAppStatus \/ ElectLeader \/ ModelDeleted \/ (\E o \in Op : ActionEnds(o))
  PROVE  OpInv'
<1> USE OpAssumption DEF OpInv, opVars, OpEnded, Deployed, LastAct, Finished, ActionsOrderOf
<1>1. CASE SetAppStatus
  <2>1. PICK status \in {"waiting", "active", "blocked"} : app' = [app EXCEPT !.status = status]
    BY <1>1 DEF SetAppStatus
  <2>2. /\ app' \in [by : Op \cup {NOBODY}, units : 0..Units,
                     status : {"waiting", "active", "blocked"}]
        /\ app'.by = app.by /\ app'.units = app.units
    BY <2>1 DEF OpTypeOK
  <2>3. UNCHANGED <<leader, key, config, related, opVars>>
    BY <1>1 DEF SetAppStatus
  <2> QED
    BY <2>2, <2>3 DEF OpTypeOK, ActionsOrder, UnitsOrder, VerifyOneAtATime,
              PrimitiveIsCompleted, InstalledComplete
<1>2. CASE ElectLeader
  <2>1. OpTypeOK'
    BY <1>2 DEF ElectLeader, OpTypeOK
  <2> QED
    BY <1>2, <2>1 DEF ElectLeader, ActionsOrder, UnitsOrder, VerifyOneAtATime,
              PrimitiveIsCompleted, InstalledComplete
<1>3. CASE ModelDeleted
  <2>1. /\ app' = [by |-> NOBODY, units |-> 0, status |-> "waiting"] /\ UNCHANGED <<config, opVars>>
        /\ leader' = FALSE /\ key' = FALSE /\ related' = FALSE
    BY <1>3 DEF ModelDeleted
  <2>2. app' \in [by : Op \cup {NOBODY}, units : 0..Units, status : {"waiting", "active", "blocked"}] /\ app'.by \notin Op
    BY <2>1
  <2>3. OpTypeOK'
    BY <2>1, <2>2 DEF OpTypeOK
  <2>4. ActionsOrder' /\ VerifyOneAtATime' /\ PrimitiveIsCompleted'
    BY <2>1 DEF ActionsOrder, VerifyOneAtATime, PrimitiveIsCompleted
  <2>5. UnitsOrder' /\ InstalledComplete'
    BY <2>2 DEF UnitsOrder, InstalledComplete
  <2> QED
    BY <2>3, <2>4, <2>5
<1>4. ASSUME NEW o \in Op, ActionEnds(o) PROVE OpInv'
  <2>1. PICK i \in 1..Len(acts[o]), status \in Finished :
             /\ acts[o][i] = "running"
             /\ acts' = [acts EXCEPT ![o][i] = status]
             /\ key' = (key \/ (OpKind[o] = "sshkey" /\ status = "completed"))
             /\ UNCHANGED <<app, leader, config, related, opc, told, history>>
    BY <1>4 DEF ActionEnds
  <2>2. UNCHANGED <<app, leader, config, related, opc, told, late, unlisted>>
    BY <2>1 DEF history
  <2>3. acts[o] \in Seq({"running", "completed", "failed"}) /\ Len(acts[o]) \in Nat \ {0}
    BY <2>1 DEF OpTypeOK
  <2>4. /\ acts'[o] \in Seq({"running", "completed", "failed"})
        /\ Len(acts'[o]) = Len(acts[o])
        /\ \A k \in 1..Len(acts[o]) : acts'[o][k] = IF k = i THEN status ELSE acts[o][k]
    BY <2>1, <2>3 DEF OpTypeOK
  <2>5. acts' \in [Op -> Seq({"running", "completed", "failed"})]
        /\ \A q \in Op \ {o} : acts'[q] = acts[q]
    BY <2>1, <2>4 DEF OpTypeOK
  <2>6. OpTypeOK'
    <3>1. key' \in BOOLEAN
      BY <2>1, Zenon
    <3> QED
      BY <2>2, <2>5, <3>1 DEF OpTypeOK
  <2>7. ActionsOrder' /\ UnitsOrder'
    <3>1. UnitsOrder'
      BY <2>2 DEF UnitsOrder
    <3>2. ActionsOrderOf(o)'
      <4>1. ActionsOrderOf(o) /\ Len(acts[o]) \in 1..Len(acts[o])
        BY <2>3 DEF ActionsOrder
      <4>2. LastAct(o)' = IF i = Len(acts[o]) THEN status ELSE LastAct(o)
        BY <2>4, <4>1
      <4> QED
        BY <2>1, <2>2, <2>3, <2>4, <4>1, <4>2
    <3>3. \A q \in Op \ {o} : ActionsOrderOf(q)'
      BY <2>2, <2>5 DEF ActionsOrder
    <3> QED
      BY <3>1, <3>2, <3>3 DEF ActionsOrder
  <2>8. VerifyOneAtATime'
    <3> SUFFICES ASSUME NEW q \in Op, OpKind[q] = "config"
                 PROVE  /\ Len(acts'[q]) <= Verify
                        /\ q \notin unlisted' =>
                              \A k \in 1..Len(acts'[q]) - 1 : acts'[q][k] = "failed"
      BY DEF VerifyOneAtATime
    <3>1. /\ Len(acts[q]) <= Verify
          /\ q \notin unlisted => \A k \in 1..Len(acts[q]) - 1 : acts[q][k] = "failed"
      BY DEF VerifyOneAtATime
    <3>2. CASE q = o
      BY <2>1, <2>2, <2>3, <2>4, <3>1, <3>2
    <3>3. CASE q # o
      BY <2>2, <2>5, <3>1, <3>3
    <3> QED
      BY <3>2, <3>3
  <2>9. PrimitiveIsCompleted' /\ InstalledComplete'
    <3>1. Len(acts[o]) = 1 /\ LastAct(o) = "completed" => i = 1 /\ acts[o][i] = "completed"
      BY <2>1, <2>3
    <3> QED
      BY <2>1, <2>2, <2>3, <3>1, <2>5 DEF PrimitiveIsCompleted, InstalledComplete
  <2> QED
    BY <2>6, <2>7, <2>8, <2>9
<1> QED
  BY <1>1, <1>2, <1>3, <1>4

-----------------------------------------------------------------------------
CharmInv == ProvInv /\ OpInv

LEMMA ProvUnchanged == ProvInv /\ UNCHANGED provVars => ProvInv'
BY DEF ProvInv, provVars, ProvTypeOK, ProvOrder, AgentKeepsConnection

LEMMA OpUnchanged == OpInv /\ UNCHANGED <<juju, opVars>> => OpInv'
BY DEF OpInv, juju, opVars, OpTypeOK, ActionsOrder, ActionsOrderOf, UnitsOrder, VerifyOneAtATime,
       PrimitiveIsCompleted, InstalledComplete, Deployed, LastAct, Finished

LEMMA CharmStep == CharmInv /\ [CharmNext]_charmVars => CharmInv'
<1> SUFFICES ASSUME ProvInv, OpInv, [CharmNext]_charmVars PROVE ProvInv' /\ OpInv'
  BY DEF CharmInv
<1>1. CASE UNCHANGED charmVars
  BY <1>1, ProvUnchanged, OpUnchanged DEF charmVars
<1>2. CASE ProvNext /\ UNCHANGED <<juju, opVars>>
  BY <1>2, ProvisionStep, CancelStep, AgentStep, OpUnchanged DEF ProvNext
<1>3. ASSUME NEW o \in Op, StartInstall(o) \/ Begin(o) \/ OpStep(o) \/ OpCancel(o)
      PROVE  UNCHANGED provVars
  BY <1>3 DEF StartInstall, Begin, OpStep, OpCancel, DeployCharm, Deploy, AddUnit, JujuFails,
              AppReady, AppOverdue, ConfigureApplication, GetActions, ExecuteAction, RunAction,
              NoAction, ActionDone, ActionOverdue, ReadStatus, Verified, PrimitiveDone,
              SshKeyDone, AddRelation
<1>4. ASSUME SetAppStatus \/ ElectLeader \/ ModelDeleted \/ (\E o \in Op : ActionEnds(o))
      PROVE  UNCHANGED provVars
  BY <1>4 DEF SetAppStatus, ElectLeader, ModelDeleted, ActionEnds
<1>5. CASE \E o \in Op : StartInstall(o) \/ Begin(o) \/ OpStep(o) \/ OpCancel(o)
  BY <1>3, <1>5, OpStepInv, ProvUnchanged
<1>6. CASE SetAppStatus \/ ElectLeader \/ ModelDeleted \/ (\E o \in Op : ActionEnds(o))
  BY <1>4, <1>6, JujuStep, ProvUnchanged
<1> QED
  BY <1>1, <1>2, <1>5, <1>6 DEF CharmNext

THEOREM CharmInvariant == CharmSpec => []CharmInv
<1>1. (\E registered, before \in SUBSET Prov, created \in SUBSET Op :
          CharmInit(registered, before, created)) => CharmInv
  BY ProvInitially, OpInitially DEF CharmInit, CharmInv
<1> QED
  BY <1>1, CharmStep, PTL DEF CharmSpec

\* Type correctness of the calls, the machines, the tasks and the application.
THEOREM CharmTypes == CharmSpec => []CharmTypeOK
<1>1. CharmInv => CharmTypeOK
  BY DEF CharmInv, ProvInv, OpInv, CharmTypeOK
<1> QED
  BY <1>1, CharmInvariant, PTL

\* install_agent keeps the connection of a registration that succeeds, and no
\* connection outlives its call (libjuju.py:398-445).
THEOREM ConnectionKept == CharmSpec => []AgentKeepsConnection
<1>1. CharmInv => AgentKeepsConnection
  BY DEF CharmInv, ProvInv
<1> QED
  BY <1>1, CharmInvariant, PTL

\* Verifications of ssh credentials come to an end and, unless an answer of
\* Juju lacked one, never overlap, for any number of attempts
\* (n2vc_juju_conn.py:868-905, libjuju.py:629-633).
THEOREM VerifiedOneAtATime == CharmSpec => []VerifyOneAtATime
<1>1. CharmInv => VerifyOneAtATime
  BY DEF CharmInv, OpInv
<1> QED
  BY <1>1, CharmInvariant, PTL

\* A primitive returns only with its own action completed
\* (n2vc_juju_conn.py:916-939, libjuju.py:613-646).
THEOREM PrimitivesCompleted == CharmSpec => []PrimitiveIsCompleted
<1>1. CharmInv => PrimitiveIsCompleted
  BY DEF CharmInv, OpInv
<1> QED
  BY <1>1, CharmInvariant, PTL

\* An installation that returned has asked for all its units, for any number of
\* units and of competing calls (libjuju.py:495-541).
THEOREM InstallationsComplete == CharmSpec => []InstalledComplete
<1>1. CharmInv => InstalledComplete
  BY DEF CharmInv, OpInv
<1> QED
  BY <1>1, CharmInvariant, PTL

-----------------------------------------------------------------------------
(* The refinement of EnvironmentLife.                                      *)

ActionKinds == {"config", "primitive", "sshkey"}
Asking == {"starting", "acting", "reading", "deciding"}

\* Only calls of these kinds come to these places; a call for a key has started
\* nothing before it was told anything, and one action before it starts again;
\* an installation that ran out of time is over.
LifeOrderOf(o) ==
    /\ opc[o] \in {"configuring", "listing"} => OpKind[o] = "config"
    /\ opc[o] \in Asking => OpKind[o] \in ActionKinds
    /\ OpKind[o] = "sshkey" =>
          /\ opc[o] = "starting" => Len(acts[o]) <= 1 /\ (told[o] = "none" => acts[o] = <<>>)
          /\ opc[o] \in {"acting", "reading"} /\ told[o] = "none" => Len(acts[o]) <= 1
    /\ OpKind[o] = "install" /\ o \in late => opc[o] \in OpEnded

LifeOrder == \A o \in Op : LifeOrderOf(o)

LEMMA EnvInitially ==
  ASSUME NEW made \in SUBSET Op, OpInit(made)
  PROVE  LifeOrder /\ EnvLife!Init
<1>1. LifeOrder
  BY DEF OpInit, LifeOrder, LifeOrderOf, Asking
<1>2. EnvLife!Init
  BY DEF OpInit, EnvLife!Init, EnvLife!Nothing, over, achieved, OpEnded
<1> QED
  BY <1>1, <1>2

\* A call that goes on or ends, as EnvironmentLife sees it.
LEMMA OverGoes ==
  ASSUME OpTypeOK, NEW o \in Op, NEW label, OpGoto(o, label), opc[o] \notin OpEnded,
         late' \in {late, late \cup {o}}
  PROVE  /\ o \notin over
         /\ over' = IF label \in OpEnded THEN over \cup {o} ELSE over
         /\ achieved' = IF /\ label = "returned"
                           /\ \/ OpKind[o] = "primitive"
                              \/ OpKind[o] = "install" /\ o \notin late'
                        THEN achieved \cup {o} ELSE achieved
<1>1. \A q \in Op : opc'[q] = IF q = o THEN label ELSE opc[q]
  BY DEF OpGoto, OpTypeOK
<1>2. \A q \in Op \ {o} : q \in late' <=> q \in late
  OBVIOUS
<1>3. o \notin over /\ o \notin achieved
  BY DEF over, achieved, OpEnded
<1>4. over' = IF label \in OpEnded THEN over \cup {o} ELSE over
  BY <1>1, <1>3 DEF over, OpEnded
<1>5. \A q \in Op \ {o} : q \in achieved' <=> q \in achieved
  BY <1>1, <1>2 DEF achieved
<1>6. o \in achieved' <=> /\ label = "returned"
                         /\ \/ OpKind[o] = "primitive"
                            \/ OpKind[o] = "install" /\ o \notin late'
  BY <1>1 DEF achieved
<1>7. achieved \subseteq Op /\ achieved' \subseteq Op
  BY DEF achieved
<1> QED
  BY <1>3, <1>4, <1>5, <1>6, <1>7

LEMMA CallEnds ==
  ASSUME OpTypeOK, NEW o \in Op, NEW label, OpGoto(o, label), opc[o] \notin OpEnded,
         late' \in {late, late \cup {o}}, UNCHANGED <<app, acts, unlisted>>,
         label = "returned" => OpKind[o] # "primitive" /\ (OpKind[o] = "install" => o \in late')
  PROVE  [EnvLife!Next]_(EnvLife!vars)
<1>1. achieved' = achieved /\ o \notin over
  BY OverGoes
<1>2. CASE label \in OpEnded
  <2>1. over' = over \cup {o}
    BY <1>2, OverGoes
  <2>2. EnvLife!End(o)
    BY <1>1, <2>1 DEF EnvLife!End
  <2> QED
    BY <2>2 DEF EnvLife!Next
<1>3. CASE label \notin OpEnded
  <2>1. over' = over
    BY <1>3, OverGoes
  <2> QED
    BY <1>1, <2>1 DEF EnvLife!vars
<1> QED
  BY <1>2, <1>3

LEMMA LifeGoes ==
  ASSUME OpTypeOK, LifeOrder, NEW o \in Op, NEW label, OpGoto(o, label),
         \A q \in Op \ {o} : acts'[q] = acts[q] /\ told'[q] = told[q],
         late' \in {late, late \cup {o}}, LifeOrderOf(o)'
  PROVE  LifeOrder'
<1> SUFFICES ASSUME NEW q \in Op, q # o PROVE LifeOrderOf(q)'
  BY DEF LifeOrder
<1>1. opc'[q] = opc[q] /\ acts'[q] = acts[q] /\ told'[q] = told[q] /\ (q \in late' <=> q \in late)
  BY DEF OpGoto, OpTypeOK
<1>2. LifeOrderOf(q)
  BY DEF LifeOrder
<1> QED
  BY <1>1, <1>2 DEF LifeOrderOf

\* Steps of a call that neither deploy nor start an action nor achieve.
Plain(o) ==
    \/ StartInstall(o) \/ Begin(o) \/ JujuFails(o) \/ AppOverdue(o) \/ ConfigureApplication(o)
    \/ GetActions(o) \/ NoAction(o) \/ ActionDone(o) \/ ActionOverdue(o)
    \/ Verified(o) \/ SshKeyDone(o) \/ AddRelation(o) \/ OpCancel(o)

PlainGoes(o, label) ==
    /\ OpGoto(o, label) /\ opc[o] \notin OpEnded
    /\ UNCHANGED <<app, acts, unlisted>> /\ late' \in {late, late \cup {o}}
    /\ \A q \in Op \ {o} : told'[q] = told[q]
    /\ label = "returned" => OpKind[o] # "primitive" /\ (OpKind[o] = "install" => o \in late')

LEMMA PlainLabel ==
  ASSUME OpInv, LifeOrder, NEW o \in Op, Plain(o)
  PROVE  LifeOrderOf(o)' /\ \E label : PlainGoes(o, label)
<1> USE OpAssumption DEF OpEnded, juju, history
<1>1. OpTypeOK /\ ActionsOrderOf(o) /\ LifeOrderOf(o)
  BY DEF OpInv, ActionsOrder, LifeOrder
<1>2. \A label : OpGoto(o, label) => opc'[o] = label
  BY <1>1 DEF OpGoto, OpTypeOK
<1>3. told[o] \in {"none", "skipped", "running", "completed", "failed"}
  BY <1>1 DEF OpTypeOK
<1>4. CASE StartInstall(o)
  <2>1. PICK label \in {"deploying", "raised"} : OpGoto(o, label)
    BY <1>4 DEF StartInstall
  <2>2. opc[o] = "idle" /\ UNCHANGED <<app, acts, told, history>>
    BY <1>4 DEF StartInstall
  <2> QED
    BY <1>1, <1>2, <2>1, <2>2 DEF LifeOrderOf, PlainGoes, Asking
<1>5. CASE Begin(o)
  <2>1. PICK label \in {"configuring", "relating", "starting"} : OpGoto(o, label)
           /\ (label = "configuring" => OpKind[o] = "config")
           /\ (label = "starting" => OpKind[o] \in ActionKinds)
    BY <1>5 DEF Begin, ActionKinds
  <2>2. opc[o] = "idle" /\ OpKind[o] # "install" /\ acts[o] = <<>> /\ UNCHANGED <<app, acts, told, history>>
    BY <1>1, <1>5 DEF Begin, ActionsOrderOf
  <2>3. Len(<<>>) <= 1
    OBVIOUS
  <2> QED
    BY <1>1, <1>2, <2>1, <2>2, <2>3 DEF LifeOrderOf, PlainGoes, Asking
<1>6. CASE JujuFails(o) \/ OpCancel(o)
  <2>1. PICK label \in {"raised", "cancelled"} : OpGoto(o, label)
    BY <1>6 DEF JujuFails, OpCancel
  <2>2. opc[o] \notin OpEnded /\ UNCHANGED <<app, acts, told, history>>
    BY <1>6 DEF JujuFails, OpCancel
  <2> QED
    BY <1>1, <1>2, <2>1, <2>2 DEF LifeOrderOf, PlainGoes, Asking
<1>7. CASE AppOverdue(o)
  <2>1. /\ opc[o] = "settling" /\ OpGoto(o, "returned") /\ late' = late \cup {o}
        /\ UNCHANGED <<app, acts, told, unlisted>> /\ OpKind[o] = "install"
    BY <1>1, <1>7 DEF AppOverdue, ActionsOrderOf
  <2>2. PlainGoes(o, "returned")
    BY <2>1 DEF PlainGoes
  <2> QED
    BY <1>1, <1>2, <2>1, <2>2 DEF LifeOrderOf, Asking
<1>8. CASE ConfigureApplication(o) \/ GetActions(o)
  <2>1. PICK label \in {"listing", "starting", "returned"} : OpGoto(o, label)
    BY <1>8 DEF ConfigureApplication, GetActions
  <2>2. /\ opc[o] \in {"configuring", "listing"} /\ UNCHANGED <<app, acts, told, history>>
        /\ OpKind[o] = "config"
    BY <1>1, <1>8 DEF ConfigureApplication, GetActions, LifeOrderOf
  <2> QED
    BY <1>1, <1>2, <2>1, <2>2 DEF LifeOrderOf, PlainGoes, Asking, ActionKinds
<1>9. CASE NoAction(o)
  <2>1. opc[o] \in {"starting", "acting", "reading"} /\ UNCHANGED <<app, acts, history>>
    BY <1>9 DEF NoAction
  <2>2. OpKind[o] \in ActionKinds
    BY <1>1, <2>1 DEF LifeOrderOf, Asking
  <2>3. CASE FirstOfTwo(o)
    <3>1. told' = [told EXCEPT ![o] = "skipped"] /\ OpGoto(o, "starting") /\ OpKind[o] = "sshkey"
          /\ told[o] = "none"
      BY <1>9, <2>3 DEF NoAction, FirstOfTwo
    <3>2. Len(acts[o]) <= 1
      BY <1>1, <2>1, <3>1 DEF LifeOrderOf
    <3>3. told'[o] = "skipped" /\ \A q \in Op \ {o} : told'[q] = told[q]
      BY <1>1, <3>1 DEF OpTypeOK
    <3>4. PlainGoes(o, "starting")
      BY <2>1, <3>1, <3>3 DEF PlainGoes
    <3> QED
      BY <1>1, <1>2, <2>1, <2>2, <3>1, <3>2, <3>3, <3>4 DEF LifeOrderOf, Asking
  <2>4. CASE ~FirstOfTwo(o)
    <3>1. OpGoto(o, "raised") /\ UNCHANGED told
      BY <1>9, <2>4 DEF NoAction
    <3> QED
      BY <1>1, <1>2, <2>1, <3>1 DEF LifeOrderOf, PlainGoes, Asking
  <2> QED
    BY <2>3, <2>4
<1>10. CASE ActionDone(o) \/ ActionOverdue(o)
  <2>1. /\ opc[o] = "acting" /\ OpGoto(o, "reading") /\ UNCHANGED <<app, acts, told, unlisted>>
        /\ late' \in {late, late \cup {o}}
    BY <1>10 DEF ActionDone, ActionOverdue
  <2>2. OpKind[o] \in ActionKinds
    BY <1>1, <2>1 DEF LifeOrderOf, Asking
  <2>3. PlainGoes(o, "reading")
    BY <2>1 DEF PlainGoes
  <2> QED
    BY <1>1, <1>2, <2>1, <2>2, <2>3 DEF LifeOrderOf, Asking, ActionKinds
<1>12. CASE Verified(o) \/ SshKeyDone(o)
  <2>1. PICK label \in {"starting", "returned"} : OpGoto(o, label)
           /\ (label = "starting" => OpKind[o] = "config")
    BY <1>12 DEF Verified, SshKeyDone
  <2>2. /\ opc[o] = "deciding" /\ UNCHANGED <<app, acts, told, history>>
        /\ OpKind[o] \in {"config", "sshkey"}
    BY <1>12 DEF Verified, SshKeyDone
  <2> QED
    BY <1>1, <1>2, <2>1, <2>2 DEF LifeOrderOf, PlainGoes, Asking, ActionKinds
<1>13. CASE AddRelation(o)
  <2>1. PICK label \in {"returned", "raised"} : OpGoto(o, label)
    BY <1>13 DEF AddRelation
  <2>2. opc[o] = "relating" /\ UNCHANGED <<app, acts, told, history>> /\ OpKind[o] = "relation"
    BY <1>1, <1>13 DEF AddRelation, ActionsOrderOf
  <2> QED
    BY <1>1, <1>2, <2>1, <2>2 DEF LifeOrderOf, PlainGoes, Asking
<1> QED
  BY <1>4, <1>5, <1>6, <1>7, <1>8, <1>9, <1>10, <1>12, <1>13 DEF Plain

LEMMA PlainSimulates ==
  ASSUME OpInv, LifeOrder, NEW o \in Op, Plain(o)
  PROVE  LifeOrder' /\ [EnvLife!Next]_(EnvLife!vars)
<1>1. LifeOrderOf(o)'
  BY PlainLabel
<1>2. PICK label : PlainGoes(o, label)
  BY PlainLabel
<1>3. OpTypeOK
  BY DEF OpInv
<1>4. LifeOrder'
  BY <1>1, <1>2, <1>3, LifeGoes DEF PlainGoes
<1>5. [EnvLife!Next]_(EnvLife!vars)
  BY <1>2, <1>3, CallEnds DEF PlainGoes
<1> QED
  BY <1>4, <1>5

\* The status of an action is told, or a failure in its place.
LEMMA ReadSimulates ==
  ASSUME OpInv, LifeOrder, NEW o \in Op, ReadStatus(o)
  PROVE  LifeOrder' /\ [EnvLife!Next]_(EnvLife!vars)
<1>1. OpTypeOK /\ ActionsOrderOf(o) /\ LifeOrderOf(o)
  BY DEF OpInv, ActionsOrder, LifeOrder
<1>2. PICK label \in {"starting", "deciding"} :
             OpGoto(o, label) /\ (label = "starting" => FirstOfTwo(o))
  BY DEF ReadStatus
<1>3. /\ opc[o] = "reading" /\ opc'[o] = label /\ UNCHANGED <<app, acts, late>>
      /\ acts[o] # <<>> /\ OpKind[o] \in ActionKinds
  BY <1>1, <1>2 DEF ReadStatus, juju, OpGoto, OpTypeOK, ActionsOrderOf, LifeOrderOf, Asking
<1>4. \E status : status # "none" /\ told' = [told EXCEPT ![o] = status]
  <2>1. acts[o] \in Seq({"running", "completed", "failed"})
    BY <1>1 DEF OpTypeOK
  <2>2. LastAct(o) \in {"running", "completed", "failed"}
    BY <1>3, <2>1 DEF LastAct
  <2> QED
    BY <2>2 DEF ReadStatus
<1>5. LifeOrder'
  <2>1. told'[o] # "none" /\ \A q \in Op \ {o} : told'[q] = told[q]
    BY <1>1, <1>4 DEF OpTypeOK
  <2>2. LifeOrderOf(o)'
    BY <1>1, <1>2, <1>3, <2>1 DEF LifeOrderOf, Asking, FirstOfTwo, OpEnded, ActionKinds
  <2> QED
    BY <1>1, <1>2, <1>3, <2>1, <2>2, LifeGoes
<1>6. o \notin over /\ UNCHANGED <<over, achieved>>
  BY <1>1, <1>2, <1>3, OverGoes DEF OpEnded
<1>7. CASE UNCHANGED unlisted
  BY <1>3, <1>5, <1>6, <1>7 DEF EnvLife!vars
<1>8. CASE unlisted' = unlisted \cup {o}
  <2>1. EnvLife!Mislead(o)
    BY <1>3, <1>6, <1>8 DEF EnvLife!Mislead
  <2> QED
    BY <1>5, <2>1 DEF EnvLife!Next
<1> QED
  BY <1>7, <1>8 DEF ReadStatus

LEMMA InstallSimulates ==
  ASSUME OpInv, LifeOrder, NEW o \in Op, Deploy(o) \/ AddUnit(o) \/ AppReady(o)
  PROVE  LifeOrder' /\ [EnvLife!Next]_(EnvLife!vars)
<1> USE OpAssumption
<1>1. OpTypeOK /\ ActionsOrderOf(o) /\ LifeOrderOf(o)
  BY DEF OpInv, ActionsOrder, LifeOrder
<1>2. PICK label \in {"units", "settling", "returned"} : OpGoto(o, label)
  BY DEF Deploy, AddUnit, AppReady
<1>3. /\ opc[o] \in {"deploying", "units", "settling"} /\ UNCHANGED <<acts, told, late, unlisted>>
      /\ OpKind[o] = "install"
  BY <1>1 DEF Deploy, AddUnit, AppReady, ActionsOrderOf, history
<1>4. o \notin late
  BY <1>1, <1>3 DEF LifeOrderOf, OpEnded
<1>5. LifeOrder'
  <2>1. opc'[o] = label
    BY <1>1, <1>2 DEF OpGoto, OpTypeOK
  <2>2. LifeOrderOf(o)'
    BY <1>3, <1>4, <2>1, <1>2 DEF LifeOrderOf, Asking
  <2> QED
    BY <1>1, <1>2, <1>3, <2>2, LifeGoes
<1>6. CASE Deploy(o)
  <2>1. label # "returned"
    BY <1>1, <1>2, <1>6 DEF Deploy, OpGoto, OpTypeOK
  <2>2. o \notin over /\ UNCHANGED <<over, achieved>>
    BY <1>1, <1>2, <1>3, <2>1, OverGoes DEF OpEnded
  <2>3. EnvLife!Deploy(o)
    BY <1>3, <1>6, <2>2 DEF Deploy, Deployed, EnvLife!Deploy
  <2> QED
    BY <1>5, <2>3 DEF EnvLife!Next
<1>7. CASE AddUnit(o)
  <2>1. label # "returned"
    BY <1>1, <1>2, <1>7 DEF AddUnit, OpGoto, OpTypeOK
  <2>2. o \notin over /\ UNCHANGED <<over, achieved>>
    BY <1>1, <1>2, <1>3, <2>1, OverGoes DEF OpEnded
  <2>3. app.by = o /\ app.units < Units /\ app' = [app EXCEPT !.units = @ + 1]
    BY <1>7 DEF AddUnit, OpInv, UnitsOrder
  <2>4. EnvLife!AddUnit(o)
    BY <1>3, <2>2, <2>3 DEF EnvLife!AddUnit
  <2> QED
    BY <1>5, <2>4 DEF EnvLife!Next
<1>8. CASE AppReady(o)
  <2>1. opc[o] = "settling" /\ app.by = o /\ app.status \in FinalApplication
        /\ OpGoto(o, "returned") /\ UNCHANGED app
    BY <1>8 DEF AppReady, Ready, juju
  <2>2. app.units = Units
    BY <2>1 DEF OpInv, UnitsOrder
  <2>3. EnvLife!Done(o)
    BY <1>3, <2>1, <2>2 DEF EnvLife!Done, FinalApplication
  <2>4. o \notin over /\ over' = over \cup {o} /\ achieved' = achieved \cup {o}
    BY <1>1, <1>3, <1>4, <2>1, OverGoes DEF OpEnded
  <2>5. EnvLife!Achieve(o)
    BY <1>3, <2>1, <2>3, <2>4 DEF EnvLife!Achieve
  <2> QED
    BY <1>5, <2>5 DEF EnvLife!Next
<1> QED
  BY <1>6, <1>7, <1>8

LEMMA RunSimulates ==
  ASSUME OpInv, LifeOrder, NEW o \in Op, RunAction(o)
  PROVE  LifeOrder' /\ [EnvLife!Next]_(EnvLife!vars)
<1> USE OpAssumption
<1>1. OpTypeOK /\ ActionsOrderOf(o) /\ LifeOrderOf(o)
  BY DEF OpInv, ActionsOrder, LifeOrder
<1>2. /\ opc[o] = "starting" /\ acts' = [acts EXCEPT ![o] = Append(@, "running")]
      /\ OpGoto(o, "acting") /\ UNCHANGED <<app, told, late, unlisted>>
  BY DEF RunAction, juju, history
<1>3. acts[o] \in Seq({"running", "completed", "failed"})
  BY <1>1 DEF OpTypeOK
<1>4. acts'[o] = Append(acts[o], "running") /\ \A q \in Op \ {o} : acts'[q] = acts[q]
  BY <1>1, <1>2 DEF OpTypeOK
<1>5. OpKind[o] \in ActionKinds
  BY <1>1, <1>2 DEF LifeOrderOf, Asking
<1>6. LifeOrder'
  <2>1. Len(acts'[o]) = Len(acts[o]) + 1 /\ Len(<<>>) = 0
    BY <1>3, <1>4
  <2>2. opc'[o] = "acting"
    BY <1>1, <1>2 DEF OpGoto, OpTypeOK
  <2>3. OpKind[o] = "sshkey" /\ told'[o] = "none" => Len(acts'[o]) <= 1
    BY <1>1, <1>2, <2>1 DEF LifeOrderOf
  <2>4. LifeOrderOf(o)'
    BY <1>1, <1>2, <1>5, <2>2, <2>3 DEF LifeOrderOf, Asking, ActionKinds
  <2> QED
    BY <1>1, <1>2, <1>4, <2>4, LifeGoes
<1>7. EnvLife!MayStart(o)
  <2>1. CASE OpKind[o] = "primitive"
    BY <1>1, <1>2, <2>1 DEF ActionsOrderOf, EnvLife!MayStart
  <2>2. CASE OpKind[o] = "sshkey"
    <3>1. Len(acts[o]) \in Nat /\ Len(acts[o]) <= 1
      BY <1>1, <1>2, <1>3, <2>2 DEF LifeOrderOf
    <3>2. Len(acts[o]) < 2
      BY <3>1
    <3> QED
      BY <2>2, <3>2 DEF EnvLife!MayStart
  <2>3. CASE OpKind[o] = "config"
    BY <1>1, <1>2, <2>3 DEF ActionsOrderOf, EnvLife!MayStart
  <2> QED
    BY <1>5, <2>1, <2>2, <2>3 DEF ActionKinds
<1>8. o \notin over /\ UNCHANGED <<over, achieved>>
  BY <1>1, <1>2, OverGoes DEF OpEnded
<1>9. EnvLife!Start(o)
  BY <1>2, <1>7, <1>8 DEF EnvLife!Start
<1> QED
  BY <1>6, <1>9 DEF EnvLife!Next

LEMMA PrimitiveSimulates ==
  ASSUME OpInv, LifeOrder, NEW o \in Op, PrimitiveDone(o)
  PROVE  LifeOrder' /\ [EnvLife!Next]_(EnvLife!vars)
<1> USE OpAssumption
<1>1. OpTypeOK /\ ActionsOrderOf(o) /\ LifeOrderOf(o)
  BY DEF OpInv, ActionsOrder, LifeOrder
<1>2. PICK label \in {"returned", "raised"} :
             OpGoto(o, label) /\ (label = "returned" => told[o] = "completed")
  BY DEF PrimitiveDone, Accepted
<1>3. opc[o] = "deciding" /\ OpKind[o] = "primitive" /\ UNCHANGED <<app, acts, told, late, unlisted>>
  BY DEF PrimitiveDone, juju, history
<1>4. LifeOrder'
  <2>1. opc'[o] = label
    BY <1>1, <1>2 DEF OpGoto, OpTypeOK
  <2>2. LifeOrderOf(o)'
    BY <1>2, <1>3, <2>1 DEF LifeOrderOf, Asking
  <2> QED
    BY <1>1, <1>2, <1>3, <2>2, LifeGoes
<1>5. CASE label = "returned"
  <2>1. Len(acts[o]) = 1 /\ acts[o][Len(acts[o])] = "completed"
    BY <1>1, <1>2, <1>3, <1>5 DEF ActionsOrderOf, LastAct, Finished
  <2>2. acts[o] \in Seq({"running", "completed", "failed"})
    BY <1>1 DEF OpTypeOK
  <2>3. acts[o] = <<"completed">>
    BY <2>1, <2>2
  <2>4. o \notin over /\ over' = over \cup {o} /\ achieved' = achieved \cup {o}
    BY <1>1, <1>2, <1>3, <1>5, OverGoes DEF OpEnded
  <2>5. EnvLife!Achieve(o)
    BY <1>3, <2>3, <2>4 DEF EnvLife!Achieve, EnvLife!Done
  <2> QED
    BY <1>4, <2>5 DEF EnvLife!Next
<1>6. CASE label = "raised"
  <2>1. [EnvLife!Next]_(EnvLife!vars)
    BY <1>1, <1>2, <1>3, <1>6, CallEnds DEF OpEnded
  <2> QED
    BY <1>4, <2>1
<1> QED
  BY <1>2, <1>5, <1>6

LEMMA OutsideSimulates ==
  ASSUME OpInv, LifeOrder,
         SetAppStatus \/ ElectLeader \/ ModelDeleted \/ (\E o \in Op : ActionEnds(o))
  PROVE  LifeOrder' /\ [EnvLife!Next]_(EnvLife!vars)
<1>1. UNCHANGED <<opc, told, late, unlisted>>
  BY DEF SetAppStatus, ElectLeader, ModelDeleted, ActionEnds, opVars, history
<1>2. UNCHANGED <<over, achieved>>
  BY <1>1 DEF over, achieved
<1>3. CASE SetAppStatus \/ ElectLeader \/ ModelDeleted
  <2>1. UNCHANGED acts
    BY <1>3 DEF SetAppStatus, ElectLeader, ModelDeleted, opVars
  <2>2. LifeOrder'
    BY <1>1, <2>1 DEF LifeOrder, LifeOrderOf
  <2>3. \/ \E status \in {"waiting", "active", "blocked"} : EnvLife!Report(status)
        \/ EnvLife!Vanish \/ UNCHANGED EnvLife!vars
    BY <1>1, <1>2, <1>3, <2>1 DEF SetAppStatus, ElectLeader, ModelDeleted, Deployed, EnvLife!Report,
                                  EnvLife!Vanish, EnvLife!Nothing, EnvLife!vars
  <2> QED
    BY <2>2, <2>3 DEF EnvLife!Next
<1>4. ASSUME NEW o \in Op, ActionEnds(o) PROVE LifeOrder' /\ [EnvLife!Next]_(EnvLife!vars)
  <2>1. PICK i \in 1..Len(acts[o]), status \in Finished :
             acts[o][i] = "running" /\ acts' = [acts EXCEPT ![o][i] = status] /\ UNCHANGED app
    BY <1>4 DEF ActionEnds, Finished
  <2>2. acts[o] \in Seq({"running", "completed", "failed"})
    BY DEF OpInv, OpTypeOK
  <2>3. EnvLife!Finish(o, i, status)
    BY <1>1, <1>2, <2>1 DEF EnvLife!Finish
  <2>4. /\ Len(acts'[o]) = Len(acts[o]) /\ \A q \in Op \ {o} : acts'[q] = acts[q]
        /\ acts[o] # <<>>
    BY <2>1, <2>2 DEF OpInv, OpTypeOK
  <2>5. LifeOrder'
    <3> SUFFICES ASSUME NEW q \in Op PROVE LifeOrderOf(q)'
      BY DEF LifeOrder
    <3>1. LifeOrderOf(q) /\ ActionsOrderOf(q)
      BY DEF LifeOrder, OpInv, ActionsOrder
    <3>2. Len(acts'[q]) = Len(acts[q]) /\ (acts[q] = <<>> => acts'[q] = <<>>)
      BY <2>4
    <3> QED
      BY <1>1, <3>1, <3>2 DEF LifeOrderOf
  <2> QED
    BY <2>1, <2>3, <2>5 DEF EnvLife!Next, Finished
<1> QED
  BY <1>3, <1>4

LEMMA EnvSimulates ==
  ASSUME CharmInv, LifeOrder, [CharmNext]_charmVars
  PROVE  LifeOrder' /\ [EnvLife!Next]_(EnvLife!vars)
<1> USE DEF CharmInv
<1>1. CASE UNCHANGED <<juju, opVars>>
  <2>1. UNCHANGED <<app, opc, acts, told, late, unlisted>>
    BY <1>1 DEF juju, opVars
  <2>2. LifeOrder'
    BY <2>1 DEF LifeOrder, LifeOrderOf
  <2>3. UNCHANGED EnvLife!vars
    BY <2>1 DEF EnvLife!vars, over, achieved
  <2> QED
    BY <2>2, <2>3
<1>2. ASSUME NEW o \in Op, StartInstall(o) \/ Begin(o) \/ OpStep(o) \/ OpCancel(o)
      PROVE  LifeOrder' /\ [EnvLife!Next]_(EnvLife!vars)
  <2>1. Plain(o) \/ ReadStatus(o) \/ Deploy(o) \/ AddUnit(o) \/ AppReady(o) \/ RunAction(o) \/ PrimitiveDone(o)
    BY <1>2 DEF Plain, OpStep, DeployCharm, ExecuteAction
  <2> QED
    BY <2>1, PlainSimulates, ReadSimulates, InstallSimulates, RunSimulates, PrimitiveSimulates
<1>3. CASE SetAppStatus \/ ElectLeader \/ ModelDeleted \/ (\E o \in Op : ActionEnds(o))
  BY <1>3, OutsideSimulates
<1> QED
  BY <1>1, <1>2, <1>3 DEF CharmNext, charmVars

THEOREM LifeOrderInvariant == CharmSpec => []LifeOrder
<1>1. (\E registered, before \in SUBSET Prov, created \in SUBSET Op :
          CharmInit(registered, before, created)) => LifeOrder
  BY EnvInitially DEF CharmInit
<1>2. CharmInv /\ LifeOrder /\ [CharmNext]_charmVars => LifeOrder'
  BY EnvSimulates
<1> QED
  BY <1>1, <1>2, CharmInvariant, PTL DEF CharmSpec

\* The calls in an environment keep their promise, for any number of calls,
\* units and verifications: one installation at a time owns the application,
\* calls that ended start nothing, actions are no more than they should be, and
\* an installation in time or a primitive returns only with its work done
\* (libjuju.py:452-646, n2vc_juju_conn.py:637-670, 852-939).
THEOREM EnvironmentLifeImplemented == CharmSpec => ImplementsEnvironmentLife
<1>1. (\E registered, before \in SUBSET Prov, created \in SUBSET Op :
          CharmInit(registered, before, created)) => EnvLife!Init
  BY EnvInitially DEF CharmInit
<1>2. CharmInv /\ LifeOrder /\ [CharmNext]_charmVars => [EnvLife!Next]_(EnvLife!vars)
  BY EnvSimulates
<1> QED
  BY <1>1, <1>2, CharmInvariant, LifeOrderInvariant, PTL
     DEF CharmSpec, ImplementsEnvironmentLife, EnvLife!Spec
===============================================================================
