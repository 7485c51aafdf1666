----------------------------- MODULE MCJujuClients -----------------------------
(***************************************************************************)
(* Instances for TLC of the clients of Juju: CharmActions with             *)
(* MachineProvisioning, K8sJuju, JujuObserver, JujuSession, LegacyN2VC.    *)
(* They share no state, so that an initial state gives calls to one of     *)
(* them, in combinations that compete for something, and none to the rest. *)
(***************************************************************************)
EXTENDS EnvironmentRefinement, BundleRefinement, JujuObserver, JujuSession, LegacyN2VC, TLC

CONSTANTS p1, host, in1, in2, cfg, prim, ssh, rel,
          x, y, ix, iy, jx, un, rst, kprim, look, ini, ka, kb,
          w1, w2, w3, appl, mach, u1, u2, u3, lo, n1, n2,
          cr, de, d1, d2, d3, re, nsr, ch1, ch2

MCOpKind == (in1 :> "install") @@ (in2 :> "install") @@ (cfg :> "config")
            @@ (prim :> "primitive") @@ (ssh :> "sshkey") @@ (rel :> "relation")
MCMachineOf == [o \in Op |-> p1]
MCHostOf == [p \in Prov |-> host]

MCKKind == (ini :> "init") @@ [c \in {ix, iy, jx} |-> "install"] @@ (un :> "uninstall")
           @@ (rst :> "reset") @@ (kprim :> "primitive") @@ (look :> "look")
MCClusterOf == [c \in KCall |-> IF c \in {iy, ini} THEN y ELSE x]
MCInstanceOf == [c \in KCall |-> IF c \in {jx, iy} THEN kb ELSE ka]

MCWatchedBy == (w1 :> appl) @@ (w2 :> appl) @@ (w3 :> mach)

MCSKind == (lo :> "logout") @@ [c \in {u1, u2, u3} |-> "use"]
MCNameOf == (u3 :> n2) @@ [c \in {u1, u2, lo} |-> n1]

MCLKind == (cr :> "create") @@ (de :> "destroy") @@ [c \in {d1, d2, d3} |-> "deploy"]
           @@ (re :> "remove")
MCServiceOf == [c \in LCall |-> nsr]
MCCharmOf == [c \in LCall |-> IF c = d2 THEN ch2 ELSE ch1]
MCDeclared == <<2, 3, 1>>

ASSUME ScenarioAssumption ==
    /\ p1 \in Prov /\ {in1, in2, cfg, prim, ssh, rel} \subseteq Op
    /\ {x, y} \subseteq Cluster /\ {ix, iy, jx, un, rst, kprim, look, ini} \subseteq KCall
    /\ {w1, w2, w3} \subseteq Waiter
    /\ {u1, u2, u3, lo} \subseteq SCall
    /\ {cr, de, d1, d2, d3, re} \subseteq LCall

-----------------------------------------------------------------------------
\* Registrations to make and made before, and calls in the environment.
CharmScenarios == {
    <<{p1}, {}, {}>>, <<{p1}, {}, {in1}>>, <<{}, {p1}, {in1, in2}>>, <<{}, {p1}, {in1, cfg}>>,
    <<{}, {p1}, {in1, prim}>>, <<{}, {p1}, {in1, ssh}>>, <<{}, {p1}, {in1, rel}>> }

\* Calls of the connector, and clusters it has prepared.
K8sScenarios == {
    <<{ix, jx}, {x}>>, <<{ix, un}, {x}>>, <<{ix, kprim}, {x}>>, <<{ix, rst}, {x}>>,
    <<{look, rst}, {x}>>, <<{look, iy, rst}, {x}>>, <<{ix, ini}, {x}>>,
    <<{ini, iy}, {}>>, <<{jx, ini, rst}, {x}>> }

WaiterScenarios == { {w1, w2}, {w1, w3} }
SessionScenarios == { {u1, u2, u3, lo} }
LegacyScenarios == { {d1, d2}, {d1, d3}, {cr, de}, {d1, re}, {cr, d1}, {d1, de} }

\* One component has calls.
NoCalls == [charm |-> <<{}, {}, {}>>, k8s |-> <<{}, {}>>, waiters |-> {}, session |-> {},
            legacy |-> {}]
Scenarios ==
    {[NoCalls EXCEPT !.charm = s] : s \in CharmScenarios}
    \cup {[NoCalls EXCEPT !.k8s = s] : s \in K8sScenarios}
    \cup {[NoCalls EXCEPT !.waiters = s] : s \in WaiterScenarios}
    \cup {[NoCalls EXCEPT !.session = s] : s \in SessionScenarios}
    \cup {[NoCalls EXCEPT !.legacy = s] : s \in LegacyScenarios}

MCInit == \E s \in Scenarios :
    /\ CharmInit(s.charm[1], s.charm[2], s.charm[3])
    /\ K8sInit(s.k8s[1], s.k8s[2])
    /\ ObsInit(s.waiters)
    /\ SessInit(s.session) /\ (s.session = {} => existing = {})
    /\ LegacyInit(s.legacy) /\ (s.legacy = {} => inJuju = {})

MCNext ==
    \/ CharmNext /\ UNCHANGED <<k8sVars, obsVars, sessVars, legacyVars>>
    \/ K8sNext /\ UNCHANGED <<charmVars, obsVars, sessVars, legacyVars>>
    \/ ObsNext /\ UNCHANGED <<charmVars, k8sVars, sessVars, legacyVars>>
    \/ SessNext /\ UNCHANGED <<charmVars, k8sVars, obsVars, legacyVars>>
    \/ LegacyNext /\ UNCHANGED <<charmVars, k8sVars, obsVars, sessVars>>

MCSpec ==
    /\ MCInit
    /\ [][MCNext]_<<charmVars, k8sVars, obsVars, sessVars, legacyVars>>
    /\ CharmFairness

\* The types of all components.
ClientsTypeOK == CharmTypeOK /\ K8sTypeOK /\ ObsTypeOK /\ SessTypeOK /\ LegacyTypeOK
===============================================================================
