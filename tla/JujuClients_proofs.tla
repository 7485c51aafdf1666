-------------------------- MODULE JujuClients_proofs --------------------------
(***************************************************************************)
(* The composition that MCJujuClients checks: what it does to the state of *)
(* one component is a behaviour of that component's own specification, the *)
(* one the other proofs are about.                                         *)
(***************************************************************************)
EXTENDS MCJujuClients, CharmActions_proofs, K8sJuju_proofs, JujuMethods_proofs

\* A scenario names calls and resources of the constants.
LEMMA ScenarioTypes ==
  ASSUME NEW s \in Scenarios
  PROVE  /\ s.charm[1] \in SUBSET Prov /\ s.charm[2] \in SUBSET Prov /\ s.charm[3] \in SUBSET Op
         /\ s.k8s[1] \in SUBSET KCall /\ s.k8s[2] \in SUBSET Cluster
         /\ s.waiters \in SUBSET Waiter
         /\ s.session \in SUBSET SCall
         /\ s.legacy \in SUBSET LCall
<1> USE ScenarioAssumption
<1> DEFINE Charms == (SUBSET Prov) \X (SUBSET Prov) \X (SUBSET Op)
           Clouds == (SUBSET KCall) \X (SUBSET Cluster)
           Calls == [charm : Charms, k8s : Clouds, waiters : SUBSET Waiter,
                     session : SUBSET SCall, legacy : SUBSET LCall]
<1>1. CharmScenarios \subseteq Charms /\ <<{}, {}, {}>> \in Charms
  BY DEF CharmScenarios
<1>2. K8sScenarios \subseteq Clouds /\ <<{}, {}>> \in Clouds
  BY DEF K8sScenarios
<1>3. WaiterScenarios \subseteq SUBSET Waiter
  BY DEF WaiterScenarios
<1>4. SessionScenarios \subseteq SUBSET SCall
  BY DEF SessionScenarios
<1>5. LegacyScenarios \subseteq SUBSET LCall
  BY DEF LegacyScenarios
<1> HIDE DEF Charms, Clouds
<1>6. NoCalls \in Calls
  BY <1>1, <1>2 DEF NoCalls
<1>7. s \in Calls
  BY <1>1, <1>2, <1>3, <1>4, <1>5, <1>6 DEF Scenarios
<1> QED
  BY <1>7 DEF Charms, Clouds

LEMMA ClientsInitially ==
  ASSUME MCInit
  PROVE  /\ \E registered, before \in SUBSET Prov, created \in SUBSET Op :
               CharmInit(registered, before, created)
         /\ \E calls \in SUBSET KCall, clusters \in SUBSET Cluster : K8sInit(calls, clusters)
         /\ \E waiters \in SUBSET Waiter : ObsInit(waiters)
         /\ \E calls \in SUBSET SCall : SessInit(calls)
         /\ \E calls \in SUBSET LCall : LegacyInit(calls)
<1>1. PICK s \in Scenarios :
          /\ CharmInit(s.charm[1], s.charm[2], s.charm[3])
          /\ K8sInit(s.k8s[1], s.k8s[2])
          /\ ObsInit(s.waiters) /\ SessInit(s.session) /\ LegacyInit(s.legacy)
  BY DEF MCInit
<1> QED
  BY <1>1, ScenarioTypes

\* One component's step leaves the others alone.
LEMMA ClientsStep ==
  ASSUME [MCNext]_<<charmVars, k8sVars, obsVars, sessVars, legacyVars>>
  PROVE  /\ [CharmNext]_charmVars /\ [K8sNext]_k8sVars /\ [ObsNext]_obsVars
         /\ [SessNext]_sessVars /\ [LegacyNext]_legacyVars
  BY DEF MCNext

\* The instance that TLC explores implements the specification of each of its
\* components: provisioning and charms (libjuju.py, n2vc_juju_conn.py), the
\* Kubernetes connector (k8s_juju_conn.py), the observer, the session and vnf.py.
THEOREM ClientsImplement ==
    MCSpec => CharmSpec /\ K8sSpec /\ ObsSpec /\ SessSpec /\ LegacySpec
  BY ClientsInitially, ClientsStep, PTL
  DEF MCSpec, CharmSpec, K8sSpec, ObsSpec, SessSpec, LegacySpec

\* Every variable of the five components keeps its type, for any calls.
THEOREM ClientsTypes == MCSpec => []ClientsTypeOK
<1>1. MCSpec => [](CharmTypeOK /\ K8sTypeOK /\ ObsTypeOK /\ SessTypeOK /\ LegacyTypeOK)
  BY ClientsImplement, CharmTypes, K8sTypes, ObsTypes, SessTypes, LegacyTypes, PTL
<1> QED
  BY <1>1 DEF ClientsTypeOK
===============================================================================
