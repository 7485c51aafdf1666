---------------------------- MODULE K8sJuju_proofs ----------------------------
(***************************************************************************)
(* Proofs about K8sJuju, for any calls, clusters and instances.            *)
(***************************************************************************)
EXTENDS BundleRefinement, TLAPS

Deploying == {"deploying", "settling"}
Sessions == {"connecting", "disconnecting", "destroying controller"}
Places == {"absent", "idle", "bootstrapping", "adding", "checking", "removing cloud",
           "uninstalling", "reading"} \cup Deploying \cup Sessions \cup KEnded

\* The state of the connection and of the calls in K8sTypeOK.
CallTypes ==
    /\ authenticated \in BOOLEAN /\ crossed \in BOOLEAN
    /\ made \in 0..Logins /\ controller \in 0..Logins
    /\ link \in [Object -> Cluster \cup {NOWHERE}]
    /\ kpc \in [KCall -> Places]
    /\ mine \in [KCall -> 0..Logins]
    /\ target \in [KCall -> Cluster \cup {NOWHERE}]

\* The rest of K8sTypeOK.
WorldTypes ==
    /\ astray \in BOOLEAN
    /\ again \subseteq KCall /\ resetting \subseteq KCall
    /\ configs \subseteq Cluster /\ running \subseteq Cluster
    /\ deployed \subseteq kmodels /\ kmodels \subseteq Cluster \X Instance
    /\ gone \subseteq Cluster \X Instance
    /\ placed \in [KCall -> Cluster \cup {NOWHERE}]
    /\ workdir \in KCall \cup {NOWHERE}
    /\ previous \in [KCall -> KCall \cup {NOWHERE}]

\* Only calls of a kind come to a place; an installation that ran out of time
\* is in its reset.
Fits(c, label, resets) ==
    /\ resets => /\ KKind[c] = "install"
                 /\ label \in {"connecting", "checking", "disconnecting",
                               "destroying controller", "removing cloud", "false"}
    /\ label \in {"adding"} \cup Deploying => KKind[c] = "install"
    /\ label \in {"checking", "destroying controller", "removing cloud"} =>
          KKind[c] = "reset" \/ resets
    /\ label = "disconnecting" => KKind[c] \in {"reset", "uninstall"} \/ resets
    /\ label = "uninstalling" => KKind[c] = "uninstall"
    /\ label = "reading" => KKind[c] \in {"primitive", "look"}
    /\ label = "bootstrapping" => KKind[c] = "init"

KindInv == \A c \in KCall : Fits(c, kpc[c], c \in resetting)

\* Where no login or logout meets another one, one call at a time is about it,
\* with the controller of the connector, and at most this one is connected.
SessionInv ==
    /\ \A c \in KCall : kpc[c] = "connecting" => mine[c] \in Object
    /\ ~crossed =>
          /\ \A c, d \in KCall : kpc[c] \in Sessions /\ kpc[d] \in Sessions => c = d
          /\ \A c \in KCall : kpc[c] = "connecting" => mine[c] = controller /\ ~authenticated
          /\ \A c \in KCall : kpc[c] = "disconnecting" => mine[c] = controller /\ authenticated
          /\ \A c \in KCall : kpc[c] = "destroying controller" => ~authenticated
          /\ authenticated => controller \in Object
          /\ \A i \in Object : link[i] # NOWHERE <=> authenticated /\ i = controller

\* The working directory is that of the one installation that deploys.
WorkdirInv ==
    ~astray =>
        /\ \A c \in KCall : kpc[c] \in Deploying => workdir = c /\ previous[c] = NOWHERE
        /\ workdir # NOWHERE => kpc[workdir] \in Deploying

\* An installation that waits for its applications, or returned its instance,
\* has its bundle in its model, or had it there until somebody took it.
InstalledInv == \A c \in KCall :
    kpc[c] = "settling" \/ (KKind[c] = "install" /\ kpc[c] = "returned") =>
        ModelOf(c) \in deployed \cup gone

K8sInv == CallTypes /\ WorldTypes /\ KindInv /\ SessionInv /\ WorkdirInv /\ InstalledInv

LEMMA NoObject == \A i \in Object : i # 0
<1>1. \A i \in 1..Logins : i # 0
  <2>1. SUFFICES ASSUME NEW i \in 1..Logins PROVE i # 0
    OBVIOUS
  <2>2. i \in Nat /\ 1 <= i
    BY KAssumption
  <2> QED
    BY <2>2
<1> QED
  BY <1>1 DEF Object

LEMMA K8sInitially ==
  ASSUME NEW calls \in SUBSET KCall, NEW clusters \in SUBSET Cluster, K8sInit(calls, clusters)
  PROVE  K8sInv
<1> USE KAssumption DEF K8sInit, Object, KEnded, Deploying, Sessions
<1>1. CallTypes /\ WorldTypes
  <2>1. 0 \in 0..Logins
    OBVIOUS
  <2>2. CallTypes
    BY <2>1 DEF CallTypes, Places
  <2>3. WorldTypes
    BY DEF WorldTypes
  <2> QED
    BY <2>2, <2>3
<1>2. KindInv
  BY DEF KindInv, Fits
<1>3. SessionInv
  BY DEF SessionInv
<1>4. WorkdirInv /\ InstalledInv
  BY DEF WorkdirInv, InstalledInv
<1> QED
  BY <1>1, <1>2, <1>3, <1>4 DEF K8sInv

-----------------------------------------------------------------------------
(* What a step of one call leaves as it is.                                *)

LEMMA KindGoes ==
  ASSUME CallTypes, KindInv, NEW c \in KCall, NEW label, KGoto(c, label),
         resetting' \in {resetting, resetting \cup {c}}, Fits(c, label, c \in resetting')
  PROVE  KindInv'
<1> SUFFICES ASSUME NEW d \in KCall PROVE Fits(d, kpc'[d], d \in resetting')
  BY DEF KindInv, Fits
<1>1. CASE d = c
  BY <1>1 DEF KGoto, CallTypes
<1>2. CASE d # c
  <2>1. kpc'[d] = kpc[d] /\ (d \in resetting' <=> d \in resetting)
    BY <1>2 DEF KGoto, CallTypes
  <2> QED
    BY <2>1 DEF KindInv, Fits
<1> QED
  BY <1>1, <1>2

LEMMA SessionStays ==
  ASSUME CallTypes, SessionInv, NEW c \in KCall, NEW label, KGoto(c, label),
         label \notin Sessions, UNCHANGED <<session, mine>>
  PROVE  SessionInv'
BY DEF SessionInv, Sessions, CallTypes, KGoto, session

LEMMA SessionOpens ==
  ASSUME CallTypes, SessionInv, NEW c \in KCall, OpenController(c), ~authenticated
  PROVE  SessionInv' /\ CallTypes'
<1> USE KAssumption
<1>1. /\ made' \in Object /\ controller' = made'
      /\ mine' = [mine EXCEPT ![c] = made']
      /\ kpc' = [kpc EXCEPT ![c] = "connecting"]
      /\ crossed' = (crossed \/ \E d \in KCall \ {c} : kpc[d] \in Sessions)
      /\ UNCHANGED <<authenticated, link, target>>
  <2>1. /\ made < Logins /\ made' = made + 1 /\ controller' = made'
        /\ mine' = [mine EXCEPT ![c] = made'] /\ KGoto(c, "connecting") /\ Crossing(c)
        /\ UNCHANGED <<authenticated, link, target>>
    BY DEF OpenController
  <2>2. made' \in Object
    BY <2>1 DEF CallTypes, Object
  <2> QED
    BY <2>1, <2>2 DEF KGoto, Crossing, InSession, Sessions
<1>2. CallTypes'
  <2>1. crossed' \in BOOLEAN
    BY <1>1
  <2>2. made' \in 0..Logins
    BY <1>1 DEF Object
  <2> QED
    BY <1>1, <2>1, <2>2 DEF CallTypes, Places, Sessions
<1>3. SessionInv'
  BY <1>1 DEF SessionInv, Sessions, CallTypes
<1> QED
  BY <1>2, <1>3

LEMMA SessionCloses ==
  ASSUME CallTypes, SessionInv, NEW c \in KCall, kpc[c] \notin Sessions, Logout(c),
         UNCHANGED <<made, link, target>>
  PROVE  SessionInv' /\ CallTypes'
<1> USE KAssumption
<1>1. crossed' = (crossed \/ \E d \in KCall \ {c} : kpc[d] \in Sessions)
  BY DEF Logout, Crossing, InSession, Sessions
<1>2. crossed' \in BOOLEAN
  BY <1>1
<1>3. CASE authenticated /\ controller # 0
  <2>1. /\ mine' = [mine EXCEPT ![c] = controller]
        /\ kpc' = [kpc EXCEPT ![c] = "disconnecting"]
        /\ UNCHANGED <<authenticated, controller>>
    BY <1>3 DEF Logout, KGoto
  <2>2. CallTypes'
    BY <1>2, <2>1 DEF CallTypes, Places, Sessions
  <2>3. SessionInv'
    BY <1>1, <1>3, <2>1 DEF SessionInv, Sessions, CallTypes
  <2> QED
    BY <2>2, <2>3
<1>4. CASE ~(authenticated /\ controller # 0)
  <2>1. PICK label \in {"destroying controller", "returned"} :
               kpc' = [kpc EXCEPT ![c] = label]
    BY <1>4 DEF Logout, KGoto, AfterLogout
  <2>2. authenticated' = FALSE /\ UNCHANGED <<controller, mine>>
    BY <1>4 DEF Logout
  <2>3. CallTypes'
    BY <1>2, <2>1, <2>2 DEF CallTypes, Places, Sessions, KEnded
  <2>4. ~crossed => ~authenticated
    <3>1. authenticated => controller = 0
      BY <1>4
    <3> QED
      BY <3>1, NoObject DEF SessionInv
  <2>5. SessionInv'
    BY <1>1, <2>1, <2>2, <2>4 DEF SessionInv, Sessions, CallTypes
  <2> QED
    BY <2>3, <2>5
<1> QED
  BY <1>3, <1>4

LEMMA WorkdirStays ==
  ASSUME CallTypes, WorldTypes, WorkdirInv, NEW c \in KCall, NEW label, KGoto(c, label),
         kpc[c] \notin Deploying, label \notin Deploying, UNCHANGED place
  PROVE  WorkdirInv'
BY KAssumption DEF WorkdirInv, CallTypes, WorldTypes, KGoto, place

LEMMA InstalledStays ==
  ASSUME CallTypes, InstalledInv, NEW c \in KCall, NEW label, KGoto(c, label),
         label = "returned" => KKind[c] # "install", label # "settling", placed' = placed,
         deployed \cup gone \subseteq deployed' \cup gone'
  PROVE  InstalledInv'
BY DEF InstalledInv, CallTypes, KGoto, ModelOf

LEMMA TypesGo ==
  ASSUME CallTypes, NEW c \in KCall, NEW label \in Places, KGoto(c, label),
         UNCHANGED <<session, mine, target>>
  PROVE  CallTypes'
BY DEF CallTypes, KGoto, session

\* The errand of a call suits its kind.
LEMMA ErrandFits ==
  ASSUME NEW c \in KCall, c \in resetting' => KKind[c] = "install"
  PROVE  /\ Fits(c, Errand(c)', c \in resetting')
         /\ Errand(c)' \in {"checking", "adding", "uninstalling", "returned", "reading"}
         /\ Errand(c)' = "returned" => KKind[c] = "init"
<1>1. KKind[c] \in {"init", "install", "uninstall", "reset", "primitive", "look"}
  BY KAssumption
<1> QED
  BY <1>1 DEF Errand, Fits, Deploying

\* Enter: either way the call fits its place.
LEMMA EnterStep ==
  ASSUME CallTypes, WorldTypes, KindInv, SessionInv, InstalledInv, NEW c \in KCall, Enter(c),
         c \in resetting' => KKind[c] = "install", resetting' \in {resetting, resetting \cup {c}},
         placed' = placed, deployed' = deployed, gone' = gone
  PROVE  /\ CallTypes' /\ KindInv' /\ SessionInv' /\ InstalledInv'
         /\ \E label : KGoto(c, label) /\ label \notin Deploying
<1>1. CASE authenticated
  <2>1. UNCHANGED <<session, mine>> /\ Send(c, Errand(c)')
    BY <1>1 DEF Enter, LoggedIn
  <2> DEFINE label == Errand(c)'
  <2>2. /\ KGoto(c, label) /\ Fits(c, label, c \in resetting')
        /\ label \in {"checking", "adding", "uninstalling", "returned", "reading"}
        /\ label = "returned" => KKind[c] = "init"
    BY <2>1, ErrandFits DEF Send
  <2>3. target' \in [KCall -> Cluster \cup {NOWHERE}]
    BY <2>1 DEF Send, CallTypes, session, Object
  <2> HIDE DEF label
  <2>4. CallTypes'
    BY <2>1, <2>2, <2>3 DEF CallTypes, KGoto, session, Places, KEnded
  <2>5. KindInv'
    BY <2>2, KindGoes
  <2>6. SessionInv'
    BY <2>1, <2>2, SessionStays DEF Sessions
  <2>7. InstalledInv'
    BY <2>2, InstalledStays
  <2> QED
    BY <2>2, <2>4, <2>5, <2>6, <2>7 DEF Deploying
<1>2. CASE ~authenticated
  <2>1. OpenController(c)
    BY <1>2 DEF Enter, LoggedIn
  <2>2. CallTypes' /\ SessionInv'
    BY <1>2, <2>1, SessionOpens
  <2>3. KGoto(c, "connecting")
    BY <2>1 DEF OpenController
  <2>4. Fits(c, "connecting", c \in resetting')
    BY DEF Fits, Deploying
  <2>5. KindInv'
    BY <2>3, <2>4, KindGoes
  <2>6. InstalledInv'
    BY <2>3, InstalledStays
  <2> QED
    BY <2>2, <2>3, <2>5, <2>6 DEF Deploying
<1> QED
  BY <1>1, <1>2 DEF CallTypes

-----------------------------------------------------------------------------
(* The steps.                                                              *)

LEMMA StartStep == ASSUME K8sInv, NEW c \in KCall, StartCall(c) PROVE K8sInv'
<1> USE DEF K8sInv
<1>1. /\ kpc[c] = "idle" /\ Enter(c) /\ resetting' = resetting
      /\ UNCHANGED <<world, again, placed, place>>
  BY DEF StartCall
<1>2. /\ CallTypes' /\ KindInv' /\ SessionInv' /\ InstalledInv'
      /\ \E label : KGoto(c, label) /\ label \notin Deploying
  <2>1. c \in resetting' => KKind[c] = "install"
    BY <1>1 DEF KindInv, Fits
  <2> QED
    BY <1>1, <2>1, EnterStep DEF world
<1>3. WorldTypes'
  BY <1>1 DEF WorldTypes, world, place
<1>4. WorkdirInv'
  BY <1>1, <1>2, WorkdirStays DEF Deploying
<1> QED
  BY <1>2, <1>3, <1>4

LEMMA BootstrappedStep == ASSUME K8sInv, NEW c \in KCall, Bootstrapped(c) PROVE K8sInv'
<1> USE DEF K8sInv
<1>1. /\ kpc[c] = "bootstrapping" /\ Enter(c) /\ resetting' = resetting
      /\ running' = running \cup {ClusterOf[c]} /\ configs' = configs \cup {ClusterOf[c]}
      /\ UNCHANGED <<kmodels, deployed, gone, again, placed, place>>
  BY DEF Bootstrapped
<1>2. /\ CallTypes' /\ KindInv' /\ SessionInv' /\ InstalledInv'
      /\ \E label : KGoto(c, label) /\ label \notin Deploying
  <2>1. c \in resetting' => KKind[c] = "install"
    BY <1>1 DEF KindInv, Fits
  <2> QED
    BY <1>1, <2>1, EnterStep
<1>3. WorldTypes'
  BY <1>1, KAssumption DEF WorldTypes, place
<1>4. WorkdirInv'
  BY <1>1, <1>2, WorkdirStays DEF Deploying
<1> QED
  BY <1>2, <1>3, <1>4

LEMMA LoginFailsStep == ASSUME K8sInv, NEW c \in KCall, LoginFails(c) PROVE K8sInv'
<1> USE DEF K8sInv
<1>1. /\ kpc[c] = "connecting" /\ again' = again \cup {c} /\ resetting' = resetting
      /\ UNCHANGED <<placed, world, place>>
  BY DEF LoginFails
<1>2. c \in resetting' => KKind[c] = "install"
  BY <1>1 DEF KindInv, Fits
<1>3. /\ CallTypes' /\ KindInv' /\ SessionInv' /\ InstalledInv'
      /\ \E label : KGoto(c, label) /\ label \notin Deploying
  <2>1. CASE Enter(c)
    BY <1>1, <1>2, <2>1, EnterStep DEF world
  <2>2. CASE UNCHANGED <<session, mine>> /\ Send(c, Errand(c))
    <3> DEFINE label == Errand(c)
    <3>1. /\ KGoto(c, label) /\ Fits(c, label, c \in resetting')
          /\ label \in {"checking", "adding", "uninstalling", "returned", "reading"}
          /\ label = "returned" => KKind[c] = "init"
      <4>1. Errand(c)' = Errand(c)
        BY <1>1 DEF Errand
      <4> QED
        BY <1>2, <2>2, <4>1, ErrandFits DEF Send
    <3>2. target' \in [KCall -> Cluster \cup {NOWHERE}]
      BY <2>2 DEF Send, CallTypes, session, Object
    <3> HIDE DEF label
    <3>3. CallTypes'
      BY <2>2, <3>1, <3>2 DEF CallTypes, KGoto, session, Places, KEnded
    <3>4. KindInv'
      BY <1>1, <3>1, KindGoes
    <3>5. SessionInv'
      BY <2>2, <3>1, SessionStays DEF Sessions
    <3>6. InstalledInv'
      BY <1>1, <3>1, InstalledStays DEF world
    <3> QED
      BY <3>1, <3>3, <3>4, <3>5, <3>6 DEF Deploying
  <2> QED
    BY <2>1, <2>2 DEF LoginFails
<1>4. WorldTypes'
  BY <1>1 DEF WorldTypes, world, place
<1>5. WorkdirInv'
  BY <1>1, <1>3, WorkdirStays DEF Deploying
<1> QED
  BY <1>3, <1>4, <1>5

LEMMA LoginWorksStep == ASSUME K8sInv, NEW c \in KCall, LoginWorks(c) PROVE K8sInv'
<1> USE KAssumption DEF K8sInv
<1> DEFINE label == Errand(c)
<1>1. /\ kpc[c] = "connecting"
      /\ link' = [link EXCEPT ![mine[c]] = ClusterOf[c]] /\ authenticated' = TRUE
      /\ Send(c, label) /\ UNCHANGED <<controller, made, crossed>>
      /\ UNCHANGED <<again, mine, resetting, placed, world, place>>
  BY DEF LoginWorks
<1>2. /\ KGoto(c, label) /\ Fits(c, label, c \in resetting')
      /\ label \in {"checking", "adding", "uninstalling", "returned", "reading"}
      /\ label = "returned" => KKind[c] = "init"
  <2>1. Errand(c)' = Errand(c)
    BY <1>1 DEF Errand
  <2>2. c \in resetting' => KKind[c] = "install"
    BY <1>1 DEF KindInv, Fits
  <2> QED
    BY <1>1, <2>1, <2>2, ErrandFits DEF Send
<1> HIDE DEF label
<1>3. link' \in [Object -> Cluster \cup {NOWHERE}] /\ mine[c] \in Object
  BY <1>1 DEF CallTypes, SessionInv
<1>4. CallTypes'
  <2>1. target' \in [KCall -> Cluster \cup {NOWHERE}]
    BY <1>1, <1>3 DEF Send, CallTypes, Object
  <2> QED
    BY <1>1, <1>2, <1>3, <2>1 DEF CallTypes, KGoto, Places, KEnded
<1>5. KindInv'
  BY <1>1, <1>2, KindGoes
<1>6. SessionInv'
  <2>1. \A d \in KCall : kpc'[d] \in Sessions => kpc[d] \in Sessions /\ kpc'[d] = kpc[d] /\ d # c
    BY <1>2 DEF KGoto, CallTypes, Sessions
  <2>2. \A d \in KCall : kpc'[d] = "connecting" => mine'[d] \in Object
    BY <1>1, <2>1 DEF SessionInv, Sessions
  <2>3. ~crossed => \A d \in KCall : kpc'[d] \notin Sessions
    BY <1>1, <2>1 DEF SessionInv, Sessions
  <2>4. ~crossed => \A i \in Object : link'[i] # NOWHERE <=> i = controller
    <3> SUFFICES ASSUME ~crossed, NEW i \in Object
                 PROVE  link'[i] # NOWHERE <=> i = controller
      OBVIOUS
    <3>1. mine[c] = controller /\ link[i] = NOWHERE
      BY <1>1 DEF SessionInv
    <3>2. link'[i] = IF i = controller THEN ClusterOf[c] ELSE NOWHERE
      BY <1>1, <3>1 DEF CallTypes
    <3>3. ClusterOf[c] # NOWHERE
      OBVIOUS
    <3> QED
      BY <3>2, <3>3
  <2>5. ~crossed => controller \in Object
    BY <1>1, <1>3 DEF SessionInv
  <2> QED
    BY <1>1, <2>2, <2>3, <2>4, <2>5 DEF SessionInv, Sessions
<1>7. WorldTypes' /\ WorkdirInv'
  BY <1>1, <1>2, WorkdirStays DEF WorldTypes, world, place, Deploying
<1>8. InstalledInv'
  BY <1>1, <1>2, InstalledStays DEF world
<1> QED
  BY <1>4, <1>5, <1>6, <1>7, <1>8

LEMMA DisconnectedStep == ASSUME K8sInv, NEW c \in KCall, Disconnected(c) PROVE K8sInv'
<1> USE KAssumption DEF K8sInv
<1> DEFINE label == AfterLogout(c)
<1>1. /\ kpc[c] = "disconnecting" /\ KGoto(c, label)
      /\ link' = [link EXCEPT ![mine[c]] = NOWHERE] /\ controller' = 0 /\ authenticated' = FALSE
      /\ UNCHANGED <<made, crossed, own, world, place>>
  BY DEF Disconnected
<1>2. /\ label \in {"destroying controller", "returned"} /\ Fits(c, label, c \in resetting')
      /\ label = "returned" => KKind[c] # "install"
  <2>1. Fits(c, "disconnecting", c \in resetting)
    BY <1>1 DEF KindInv
  <2>2. resetting' = resetting
    BY <1>1 DEF own
  <2> QED
    BY <2>1, <2>2 DEF Fits, AfterLogout, Errand, Deploying
<1> HIDE DEF label
<1>3. CallTypes'
  <2>1. link' \in [Object -> Cluster \cup {NOWHERE}]
    BY <1>1 DEF CallTypes
  <2>2. controller' \in 0..Logins
    BY <1>1
  <2> QED
    BY <1>1, <1>2, <2>1, <2>2 DEF CallTypes, KGoto, own, Places, Sessions, KEnded
<1>4. KindInv'
  BY <1>1, <1>2, KindGoes DEF own
<1>5. SessionInv'
  <2>1. \A d \in KCall : kpc'[d] = IF d = c THEN label ELSE kpc[d]
    BY <1>1 DEF KGoto, CallTypes
  <2>2. \A d \in KCall : kpc'[d] = "connecting" => mine'[d] \in Object
    BY <1>1, <1>2, <2>1 DEF SessionInv, own
  <2>3. ~crossed => \A d \in KCall : kpc'[d] \in Sessions => d = c
    BY <1>1, <2>1 DEF SessionInv, Sessions
  <2>4. ~crossed => \A i \in Object : link'[i] = NOWHERE
    BY <1>1 DEF SessionInv, CallTypes
  <2> QED
    BY <1>1, <1>2, <2>1, <2>2, <2>3, <2>4 DEF SessionInv, Sessions
<1>6. WorldTypes' /\ WorkdirInv'
  BY <1>1, <1>2, WorkdirStays DEF WorldTypes, own, world, place, Deploying
<1>7. InstalledInv'
  BY <1>1, <1>2, InstalledStays DEF own, world
<1> QED
  BY <1>3, <1>4, <1>5, <1>6, <1>7

\* Steps that neither log in nor out nor deploy.
LEMMA PlainStep ==
  ASSUME K8sInv, NEW c \in KCall, Bootstrap(c) \/ KRaises(c) \/ NotReset(c) \/ RemoveCloud(c) \/ Read(c)
  PROVE  K8sInv'
<1> USE DEF K8sInv
<1>1. PICK label \in {"bootstrapping", "returned", "raised", "false"} :
             /\ KGoto(c, label) /\ UNCHANGED <<session, own, world, place>>
             /\ Fits(c, label, c \in resetting)
             /\ label = "returned" => KKind[c] # "install"
             /\ kpc[c] \notin Deploying
  <2>1. Fits(c, kpc[c], c \in resetting)
    BY DEF KindInv
  <2>2. CASE Bootstrap(c)
    BY <2>1, <2>2 DEF Bootstrap, Fits, Deploying
  <2>3. CASE KRaises(c)
    BY <2>1, <2>3 DEF KRaises, Fits, Deploying
  <2>4. CASE NotReset(c)
    BY <2>1, <2>4 DEF NotReset, Fits, Deploying, Resets
  <2>5. CASE RemoveCloud(c)
    BY <2>1, <2>5 DEF RemoveCloud, Fits, Deploying, Resets
  <2>6. CASE Read(c)
    BY <2>1, <2>6 DEF Read, Fits, Deploying
  <2> QED
    BY <2>2, <2>3, <2>4, <2>5, <2>6
<1>2. label \in Places /\ label \notin Sessions /\ label \notin Deploying
  BY DEF Places, Sessions, Deploying, KEnded
<1>3. CallTypes'
  BY <1>1, <1>2, TypesGo DEF own
<1>4. KindInv'
  BY <1>1, KindGoes DEF own
<1>5. SessionInv'
  BY <1>1, <1>2, SessionStays DEF own
<1>6. WorldTypes' /\ WorkdirInv'
  BY <1>1, <1>2, WorkdirStays DEF WorldTypes, own, world, place
<1>7. InstalledInv'
  BY <1>1, InstalledStays DEF own, world
<1> QED
  BY <1>3, <1>4, <1>5, <1>6, <1>7

LEMMA AddModelStep == ASSUME K8sInv, NEW c \in KCall, AddModel(c) PROVE K8sInv'
<1> USE KAssumption DEF K8sInv
<1>1. /\ kpc[c] = "adding" /\ KGoto(c, "deploying") /\ target[c] \in running
      /\ kmodels' = kmodels \cup {<<target[c], InstanceOf[c]>>}
      /\ placed' = [placed EXCEPT ![c] = target[c]]
      /\ previous' = [previous EXCEPT ![c] = workdir] /\ workdir' = c
      /\ astray' = (astray \/ workdir # NOWHERE)
      /\ UNCHANGED <<session, again, mine, target, resetting, configs, running, deployed, gone>>
  BY DEF AddModel
<1>2. CallTypes'
  BY <1>1, TypesGo DEF Places, Deploying
<1>3. KindInv'
  <2>1. Fits(c, "adding", c \in resetting)
    BY <1>1 DEF KindInv
  <2>2. Fits(c, "deploying", c \in resetting')
    BY <1>1, <2>1 DEF Fits, Deploying
  <2> QED
    BY <1>1, <2>2, KindGoes
<1>4. SessionInv'
  BY <1>1, SessionStays DEF Sessions
<1>5. WorldTypes'
  <2>1. <<target[c], InstanceOf[c]>> \in Cluster \X Instance
    BY <1>1 DEF WorldTypes
  <2>2. astray' \in BOOLEAN
    BY <1>1
  <2> QED
    BY <1>1, <2>1, <2>2 DEF WorldTypes
<1>6. WorkdirInv'
  BY <1>1 DEF WorkdirInv, WorldTypes, CallTypes, KGoto, Deploying
<1>7. InstalledInv'
  BY <1>1 DEF InstalledInv, CallTypes, WorldTypes, KGoto, ModelOf
<1> QED
  BY <1>2, <1>3, <1>4, <1>5, <1>6, <1>7

\* The bundle is deployed, or an installation ends well or badly.
LEMMA DeployStep ==
  ASSUME K8sInv, NEW c \in KCall, DeployBundle(c) \/ Settled(c) \/ DeployFails(c)
  PROVE  K8sInv'
<1> USE KAssumption DEF K8sInv
<1>1. /\ kpc[c] \in Deploying
      /\ UNCHANGED <<session, own, configs, running, kmodels, gone, previous>>
  BY DEF DeployBundle, Settled, DeployFails, Deploying, world, place
<1>2. PICK label \in {"settling", "returned", "raised"} :
             /\ KGoto(c, label)
             /\ label = "settling" => UNCHANGED <<workdir, astray>>
             /\ label = "returned" => workdir' = previous[c] /\ UNCHANGED astray
             /\ label = "raised" => astray' = TRUE /\ UNCHANGED workdir
             /\ ModelOf(c) \in deployed' \cup gone \/ label = "raised"
             /\ deployed' \in {deployed, deployed \cup {ModelOf(c)}}
             /\ ModelOf(c) \in kmodels \/ deployed' = deployed
  <2>1. CASE DeployBundle(c)
    BY <2>1 DEF DeployBundle
  <2>2. CASE Settled(c)
    BY <2>2 DEF Settled, world, InstalledInv
  <2>3. CASE DeployFails(c)
    BY <2>3 DEF DeployFails, AfterFailure, world
  <2> QED
    BY <2>1, <2>2, <2>3
<1>3. label \in Places /\ label \notin Sessions
  BY DEF Places, Deploying, KEnded, Sessions
<1>4. CallTypes'
  BY <1>1, <1>2, <1>3, TypesGo DEF own
<1>5. KindInv'
  <2>1. Fits(c, kpc[c], c \in resetting)
    BY DEF KindInv
  <2>2. Fits(c, label, c \in resetting')
    BY <1>1, <2>1 DEF Fits, Deploying, own
  <2> QED
    BY <1>1, <1>2, <2>2, KindGoes DEF own
<1>6. SessionInv'
  BY <1>1, <1>2, <1>3, SessionStays DEF own
<1>7. WorldTypes'
  <2>1. deployed' \subseteq kmodels
    BY <1>2 DEF WorldTypes
  <2>2. workdir' \in KCall \cup {NOWHERE} /\ astray' \in BOOLEAN
    BY <1>2 DEF WorldTypes
  <2> QED
    BY <1>1, <2>1, <2>2 DEF WorldTypes, own
<1>8. WorkdirInv'
  <2> SUFFICES ASSUME ~astray'
               PROVE  /\ \A d \in KCall : kpc'[d] \in Deploying => workdir' = d /\ previous'[d] = NOWHERE
                      /\ workdir' # NOWHERE => kpc'[workdir'] \in Deploying
    BY DEF WorkdirInv
  <2>1. label # "raised" /\ ~astray
    BY <1>2
  <2>2. workdir = c /\ previous[c] = NOWHERE
    BY <1>1, <2>1 DEF WorkdirInv
  <2>3. \A d \in KCall : kpc'[d] = IF d = c THEN label ELSE kpc[d]
    BY <1>2 DEF KGoto, CallTypes
  <2>4. CASE label = "settling"
    BY <1>1, <1>2, <2>1, <2>2, <2>3, <2>4 DEF WorkdirInv, Deploying
  <2>5. CASE label = "returned"
    BY <1>1, <1>2, <2>1, <2>2, <2>3, <2>5 DEF WorkdirInv, Deploying
  <2> QED
    BY <2>1, <2>4, <2>5
<1>9. InstalledInv'
  BY <1>1, <1>2 DEF InstalledInv, CallTypes, KGoto, ModelOf, own
<1> QED
  BY <1>4, <1>5, <1>6, <1>7, <1>8, <1>9

LEMMA TimesOutStep == ASSUME K8sInv, NEW c \in KCall, TimesOut(c) PROVE K8sInv'
<1> USE KAssumption DEF K8sInv
<1>1. /\ kpc[c] = "settling" /\ resetting' = resetting \cup {c} /\ workdir' = previous[c]
      /\ UNCHANGED <<world, again, placed, previous, astray>>
  BY DEF TimesOut, GoHome
<1>2. KKind[c] = "install"
  BY <1>1 DEF KindInv, Fits, Deploying
<1>3. /\ CallTypes' /\ KindInv' /\ SessionInv' /\ InstalledInv'
      /\ \E label : KGoto(c, label) /\ label \notin Deploying
  <2>1. CASE Enter(c)
    BY <1>1, <1>2, <2>1, EnterStep DEF world
  <2>2. CASE KGoto(c, "false") /\ UNCHANGED <<session, mine, target>>
    <3>1. CallTypes'
      BY <2>2, TypesGo DEF Places, KEnded
    <3>2. Fits(c, "false", c \in resetting')
      BY <1>2 DEF Fits, Deploying
    <3>3. KindInv'
      BY <1>1, <2>2, <3>2, KindGoes
    <3>4. SessionInv'
      BY <2>2, SessionStays DEF Sessions
    <3>5. InstalledInv'
      BY <1>1, <2>2, InstalledStays DEF world
    <3> QED
      BY <2>2, <3>1, <3>3, <3>4, <3>5 DEF Deploying
  <2> QED
    BY <2>1, <2>2 DEF TimesOut
<1>4. WorldTypes'
  BY <1>1 DEF WorldTypes, world
<1>5. WorkdirInv'
  <2>1. PICK label : kpc' = [kpc EXCEPT ![c] = label] /\ label \notin Deploying
    BY <1>3 DEF KGoto
  <2>2. \A d \in KCall : kpc'[d] = IF d = c THEN label ELSE kpc[d]
    BY <2>1 DEF CallTypes
  <2> QED
    BY <1>1, <2>1, <2>2 DEF WorkdirInv, Deploying
<1> QED
  BY <1>3, <1>4, <1>5

\* reset and uninstall up to their logout.
LEMMA LogoutStep ==
  ASSUME K8sInv, NEW c \in KCall, Checked(c) \/ DestroyModel(c)
  PROVE  K8sInv'
<1> USE KAssumption DEF K8sInv
<1>1. /\ kpc[c] \in {"checking", "uninstalling"} /\ Logout(c)
      /\ UNCHANGED <<made, link, again, target, resetting, placed, configs, running, place>>
      /\ kmodels' \subseteq kmodels /\ deployed' \subseteq deployed /\ deployed' \subseteq kmodels'
      /\ deployed \cup gone \subseteq deployed' \cup gone' /\ gone' \subseteq gone \cup kmodels
  <2>1. CASE Checked(c)
    BY <2>1 DEF Checked, world, WorldTypes
  <2>2. CASE DestroyModel(c)
    BY <2>2 DEF DestroyModel, WorldTypes
  <2> QED
    BY <2>1, <2>2
<1>2. PICK label \in {"disconnecting", "destroying controller", "returned"} :
             KGoto(c, label) /\ Fits(c, label, c \in resetting)
             /\ (label = "returned" => KKind[c] # "install")
  <2>1. Fits(c, kpc[c], c \in resetting)
    BY DEF KindInv
  <2>2. KGoto(c, "disconnecting") \/ KGoto(c, AfterLogout(c))
    BY <1>1 DEF Logout
  <2>3. Fits(c, "disconnecting", c \in resetting)
    BY <1>1, <2>1 DEF Fits, Deploying
  <2>4. /\ AfterLogout(c) \in {"destroying controller", "returned"}
        /\ Fits(c, AfterLogout(c), c \in resetting)
        /\ AfterLogout(c) = "returned" => KKind[c] # "install"
    BY <1>1, <2>1 DEF Fits, AfterLogout, Errand, Deploying
  <2> QED
    BY <2>2, <2>3, <2>4
<1>3. CallTypes' /\ SessionInv'
  BY <1>1, SessionCloses DEF Sessions
<1>4. KindInv'
  BY <1>1, <1>2, KindGoes
<1>5. WorldTypes'
  BY <1>1 DEF WorldTypes, place
<1>6. WorkdirInv'
  BY <1>1, <1>2, WorkdirStays DEF Deploying
<1>7. InstalledInv'
  BY <1>1, <1>2, InstalledStays
<1> QED
  BY <1>3, <1>4, <1>5, <1>6, <1>7

LEMMA DestroyControllerStep == ASSUME K8sInv, NEW c \in KCall, DestroyController(c) PROVE K8sInv'
<1> USE KAssumption DEF K8sInv
<1>1. /\ kpc[c] = "destroying controller" /\ KGoto(c, "removing cloud")
      /\ running' = running \ {ClusterOf[c]}
      /\ kmodels' = kmodels \ InCluster(ClusterOf[c])
      /\ deployed' = deployed \ InCluster(ClusterOf[c])
      /\ gone' = gone \cup InCluster(ClusterOf[c])
      /\ link' = [i \in Object |-> IF link[i] = ClusterOf[c] THEN NOWHERE ELSE link[i]]
      /\ UNCHANGED <<authenticated, controller, made, crossed, own, configs, place>>
  BY DEF DestroyController
<1>2. CallTypes'
  <2>1. link' \in [Object -> Cluster \cup {NOWHERE}]
    BY <1>1 DEF CallTypes
  <2> QED
    BY <1>1, <2>1 DEF CallTypes, KGoto, own, Places
<1>3. KindInv'
  <2>1. Fits(c, "destroying controller", c \in resetting)
    BY <1>1 DEF KindInv
  <2>2. Fits(c, "removing cloud", c \in resetting')
    BY <1>1, <2>1 DEF Fits, Deploying, own
  <2> QED
    BY <1>1, <2>2, KindGoes DEF own
<1>4. SessionInv'
  <2>1. \A d \in KCall : kpc'[d] = IF d = c THEN "removing cloud" ELSE kpc[d]
    BY <1>1 DEF KGoto, CallTypes
  <2>2. ~crossed => ~authenticated /\ \A i \in Object : link'[i] = NOWHERE
    BY <1>1 DEF SessionInv
  <2> QED
    BY <1>1, <2>1, <2>2 DEF SessionInv, Sessions, own
<1>5. WorldTypes'
  BY <1>1 DEF WorldTypes, InCluster, own, place
<1>6. WorkdirInv'
  BY <1>1, WorkdirStays DEF Deploying
<1>7. InstalledInv'
  BY <1>1, InstalledStays DEF own
<1> QED
  BY <1>2, <1>3, <1>4, <1>5, <1>6, <1>7

LEMMA K8sStep == K8sInv /\ [K8sNext]_k8sVars => K8sInv'
<1> SUFFICES ASSUME K8sInv, [K8sNext]_k8sVars PROVE K8sInv'
  OBVIOUS
<1>1. CASE UNCHANGED k8sVars
  BY <1>1 DEF k8sVars, session, own, world, place, K8sInv, CallTypes, WorldTypes, KindInv, Fits,
              SessionInv, WorkdirInv, InstalledInv, ModelOf
<1>2. ASSUME NEW c \in KCall,
             \/ StartCall(c) \/ KRaises(c) \/ KLogin(c) \/ InitK8s(c)
             \/ Install(c) \/ ResetK8s(c) \/ DestroyModel(c) \/ Read(c)
      PROVE  K8sInv'
  <2>1. CASE KLogin(c)
    BY <2>1, LoginWorksStep, LoginFailsStep, DisconnectedStep DEF KLogin
  <2>2. CASE InitK8s(c)
    BY <2>2, PlainStep, BootstrappedStep DEF InitK8s
  <2>3. CASE Install(c)
    BY <2>3, AddModelStep, DeployStep, TimesOutStep DEF Install
  <2>4. CASE ResetK8s(c)
    BY <2>4, PlainStep, LogoutStep, DestroyControllerStep DEF ResetK8s
  <2> QED
    BY <1>2, <2>1, <2>2, <2>3, <2>4, StartStep, PlainStep, LogoutStep
<1> QED
  BY <1>1, <1>2 DEF K8sNext

THEOREM K8sInvariant == K8sSpec => []K8sInv
<1>1. (\E calls \in SUBSET KCall, clusters \in SUBSET Cluster : K8sInit(calls, clusters)) => K8sInv
  BY K8sInitially
<1> QED
  BY <1>1, K8sStep, PTL DEF K8sSpec

\* Type correctness of the connector, its calls and the clusters.
THEOREM K8sTypes == K8sSpec => []K8sTypeOK
<1>1. K8sInv => K8sTypeOK
  <2>1. CallTypes => kpc \in [KCall -> {"absent", "idle", "bootstrapping", "connecting",
                 "disconnecting", "adding", "deploying", "settling", "checking",
                 "destroying controller", "removing cloud", "uninstalling",
                 "reading"} \cup KEnded]
    BY DEF CallTypes, Places, Sessions, Deploying, KEnded
  <2>2. SUFFICES ASSUME CallTypes, WorldTypes PROVE K8sTypeOK
    BY DEF K8sInv
  <2>3. authenticated \in BOOLEAN /\ crossed \in BOOLEAN /\ made \in 0..Logins
          /\ controller \in 0..Logins
    BY <2>2, Zenon DEF CallTypes
  <2> QED
    BY <2>1, <2>2, <2>3, Zenon DEF CallTypes, WorldTypes, K8sTypeOK
<1> QED
  BY <1>1, K8sInvariant, PTL

\* Logins and logouts that do not meet leave the connector with one connection,
\* that of its controller, or with none (k8s_juju_conn.py:948-1005).
THEOREM ConnectedOnce == K8sSpec => []OneConnection
<1>1. K8sInv => OneConnection
  BY DEF K8sInv, SessionInv, OneConnection
<1> QED
  BY <1>1, K8sInvariant, PTL

\* What an installation returned is in Juju, or was taken away by another call,
\* for any number of calls and clusters (k8s_juju_conn.py:283-400).
THEOREM InstallationsThere == K8sSpec => []InstalledIsThere
<1>1. K8sInv => InstalledIsThere
  BY DEF K8sInv, InstalledInv, InstalledIsThere
<1> QED
  BY <1>1, K8sInvariant, PTL

\* Installations that do not overlap and do not raise restore the working
\* directory (k8s_juju_conn.py:334-397).
THEOREM WorkdirRestored == K8sSpec => []WorkdirIsRestored
<1>1. K8sInv => WorkdirIsRestored
  BY KAssumption DEF K8sInv, WorldTypes, WorkdirInv, WorkdirIsRestored, Deploying
<1> QED
  BY <1>1, K8sInvariant, PTL

-----------------------------------------------------------------------------
(* The refinement of BundleLife.                                           *)

BeforeModel == {"absent", "idle", "connecting", "adding"}

\* An installation has no model before it adds one; one that waits for its
\* applications, or no longer does, deployed the bundle.
BundleInv == \A c \in KCall :
    /\ KKind[c] = "install" /\ c \notin resetting /\ kpc[c] \in BeforeModel => placed[c] = NOWHERE
    /\ kpc[c] = "settling" \/ c \in resetting =>
          c \notin NonAtomic /\ ModelOf(c) \in deployed \cup gone

LEMMA BundleInitially ==
  ASSUME NEW calls \in SUBSET KCall, NEW clusters \in SUBSET Cluster, K8sInit(calls, clusters)
  PROVE  BundleInv /\ Bundle!Init
<1>1. BundleInv
  BY DEF K8sInit, BundleInv
<1>2. Bundle!Init
  BY DEF K8sInit, Bundle!Init, ended, confirmed, KEnded
<1> QED
  BY <1>1, <1>2

LEMMA BundleGoes ==
  ASSUME CallTypes, BundleInv, NEW c \in KCall, NEW label, KGoto(c, label), placed' = placed,
         deployed \cup gone \subseteq deployed' \cup gone',
         resetting' \in {resetting, resetting \cup {c}},
         KKind[c] = "install" /\ c \notin resetting' /\ label \in BeforeModel => kpc[c] \in BeforeModel,
         label = "settling" \/ c \in resetting' \ resetting =>
             c \notin NonAtomic /\ ModelOf(c) \in deployed' \cup gone'
  PROVE  BundleInv'
<1> SUFFICES ASSUME NEW d \in KCall
             PROVE  /\ KKind[d] = "install" /\ d \notin resetting' /\ kpc'[d] \in BeforeModel =>
                           placed'[d] = NOWHERE
                    /\ kpc'[d] = "settling" \/ d \in resetting' =>
                           d \notin NonAtomic /\ <<placed'[d], InstanceOf[d]>> \in deployed' \cup gone'
  BY DEF BundleInv, ModelOf
<1>1. kpc'[d] = IF d = c THEN label ELSE kpc[d]
  BY DEF KGoto, CallTypes
<1>2. CASE d = c
  BY <1>1, <1>2 DEF BundleInv, ModelOf
<1>3. CASE d # c
  BY <1>1, <1>3 DEF BundleInv, ModelOf
<1> QED
  BY <1>2, <1>3

\* A call that goes on or ends, as BundleLife sees it.
LEMMA EndedGoes ==
  ASSUME CallTypes, NEW c \in KCall, NEW label, KGoto(c, label), kpc[c] \notin KEnded
  PROVE  /\ c \notin ended
         /\ ended' = IF label \in KEnded THEN ended \cup {c} ELSE ended
         /\ confirmed' = IF KKind[c] = "install" /\ label = "returned"
                         THEN confirmed \cup {c} ELSE confirmed
<1>1. \A d \in KCall : kpc'[d] = IF d = c THEN label ELSE kpc[d]
  BY DEF KGoto, CallTypes
<1> QED
  BY <1>1 DEF ended, confirmed, KEnded

LEMMA BundleEnds ==
  ASSUME CallTypes, NEW c \in KCall, NEW label, KGoto(c, label), kpc[c] \notin KEnded,
         label = "returned" => KKind[c] # "install",
         UNCHANGED <<kmodels, deployed, gone, placed>>
  PROVE  [Bundle!Next]_(Bundle!vars)
<1>1. confirmed' = confirmed /\ c \notin ended
  BY EndedGoes
<1>2. CASE label \in KEnded
  <2>1. ended' = ended \cup {c}
    BY <1>2, EndedGoes
  <2>2. Bundle!End(c)
    BY <1>1, <2>1 DEF Bundle!End
  <2> QED
    BY <2>2 DEF Bundle!Next
<1>3. CASE label \notin KEnded
  <2>1. ended' = ended
    BY <1>3, EndedGoes
  <2> QED
    BY <1>1, <2>1 DEF Bundle!vars
<1> QED
  BY <1>2, <1>3

LEMMA EnterGoes ==
  ASSUME NEW c \in KCall, Enter(c), c \in resetting' => KKind[c] = "install"
  PROVE  \E label : /\ KGoto(c, label)
                    /\ label \in {"checking", "adding", "uninstalling", "returned", "reading", "connecting"}
                    /\ label = "returned" => KKind[c] # "install"
<1>1. CASE authenticated
  <2>1. KGoto(c, Errand(c)')
    BY <1>1 DEF Enter, LoggedIn, Send
  <2> QED
    BY <2>1, ErrandFits
<1>2. CASE ~authenticated
  <2>1. KGoto(c, "connecting")
    BY <1>2 DEF Enter, LoggedIn, OpenController
  <2> QED
    BY <2>1
<1> QED
  BY <1>1, <1>2

\* Logins, logouts, reads and waits: no model comes or goes.
Quiet(c) ==
    \/ StartCall(c) \/ KRaises(c) \/ KLogin(c) \/ InitK8s(c) \/ TimesOut(c)
    \/ NotReset(c) \/ Checked(c) \/ RemoveCloud(c) \/ Read(c) \/ DeployFails(c)

QuietGoes(c, label) ==
    /\ KGoto(c, label) /\ kpc[c] \notin KEnded
    /\ label # "settling"
    /\ label = "returned" => KKind[c] # "install"
    /\ KKind[c] = "install" /\ c \notin resetting' /\ label \in BeforeModel => kpc[c] \in BeforeModel
    /\ \/ resetting' = resetting
       \/ kpc[c] = "settling" /\ resetting' = resetting \cup {c}
    /\ UNCHANGED <<kmodels, deployed, gone, placed>>

LEMMA QuietLabel ==
  ASSUME K8sInv, NEW c \in KCall, Quiet(c)
  PROVE  \E label : QuietGoes(c, label)
<1> USE KAssumption DEF K8sInv
<1>1. Fits(c, kpc[c], c \in resetting)
  BY DEF KindInv
<1>2. CASE StartCall(c) \/ Bootstrapped(c)
  <2>1. /\ kpc[c] \in {"idle", "bootstrapping"} /\ Enter(c) /\ resetting' = resetting
        /\ UNCHANGED <<kmodels, deployed, gone, placed>>
    BY <1>2 DEF StartCall, Bootstrapped, world
  <2>2. c \in resetting' => KKind[c] = "install"
    BY <1>1, <2>1 DEF Fits
  <2>3. kpc[c] = "bootstrapping" => KKind[c] # "install"
    BY <1>1 DEF Fits
  <2> QED
    BY <2>1, <2>2, <2>3, EnterGoes DEF QuietGoes, BeforeModel, KEnded
<1>3. CASE LoginWorks(c) \/ LoginFails(c)
  <2>1. /\ kpc[c] = "connecting" /\ resetting' = resetting
        /\ Enter(c) \/ KGoto(c, Errand(c))
        /\ UNCHANGED <<kmodels, deployed, gone, placed>>
    BY <1>3 DEF LoginWorks, LoginFails, Send, world
  <2>2. c \in resetting' => KKind[c] = "install"
    BY <1>1, <2>1 DEF Fits
  <2>3. CASE Enter(c)
    BY <2>1, <2>2, <2>3, EnterGoes DEF QuietGoes, BeforeModel, KEnded
  <2>4. CASE KGoto(c, Errand(c))
    <3>1. Errand(c)' = Errand(c)
      BY <2>1 DEF Errand
    <3>2. /\ Errand(c) \in {"checking", "adding", "uninstalling", "returned", "reading"}
          /\ Errand(c) = "returned" => KKind[c] = "init"
      BY <2>2, <3>1, ErrandFits
    <3>3. QuietGoes(c, Errand(c))
      BY <2>1, <2>4, <3>2 DEF QuietGoes, BeforeModel, KEnded
    <3> QED
      BY <3>3
  <2> QED
    BY <2>1, <2>3, <2>4
<1>4. CASE Disconnected(c)
  <2>1. /\ kpc[c] = "disconnecting" /\ KGoto(c, AfterLogout(c)) /\ resetting' = resetting
        /\ UNCHANGED <<kmodels, deployed, gone, placed>>
    BY <1>4 DEF Disconnected, own, world
  <2>2. /\ AfterLogout(c) \in {"destroying controller", "returned"}
        /\ AfterLogout(c) = "returned" => KKind[c] # "install"
    BY <1>1, <2>1 DEF Fits, AfterLogout, Errand
  <2>3. QuietGoes(c, AfterLogout(c))
    BY <2>1, <2>2 DEF QuietGoes, BeforeModel, KEnded
  <2> QED
    BY <2>3
<1>5. CASE TimesOut(c)
  <2>1. /\ kpc[c] = "settling" /\ resetting' = resetting \cup {c}
        /\ Enter(c) \/ KGoto(c, "false")
        /\ UNCHANGED <<kmodels, deployed, gone, placed>>
    BY <1>5 DEF TimesOut, world
  <2>2. KKind[c] = "install"
    BY <1>1, <2>1 DEF Fits, Deploying
  <2>3. CASE Enter(c)
    BY <2>1, <2>2, <2>3, EnterGoes DEF QuietGoes, KEnded
  <2>4. CASE KGoto(c, "false")
    BY <2>1, <2>2, <2>4 DEF QuietGoes, KEnded
  <2> QED
    BY <2>1, <2>3, <2>4
<1>6. CASE Checked(c)
  <2>1. /\ kpc[c] = "checking" /\ resetting' = resetting
        /\ KGoto(c, "disconnecting") \/ KGoto(c, AfterLogout(c))
        /\ UNCHANGED <<kmodels, deployed, gone, placed>>
    BY <1>6 DEF Checked, Logout, world
  <2>2. AfterLogout(c) = "destroying controller"
    BY <1>1, <2>1 DEF Fits, AfterLogout, Errand
  <2>3. QuietGoes(c, "disconnecting") \/ QuietGoes(c, "destroying controller")
    BY <2>1, <2>2 DEF QuietGoes, BeforeModel, KEnded
  <2> QED
    BY <2>3
<1>7. CASE Bootstrap(c) \/ KRaises(c) \/ NotReset(c) \/ RemoveCloud(c) \/ Read(c) \/ DeployFails(c)
  <2>1. PICK label \in {"bootstrapping", "returned", "raised", "false"} : KGoto(c, label)
               /\ (label = "returned" => KKind[c] # "install")
    <3>1. CASE Bootstrap(c) \/ KRaises(c)
      BY <3>1 DEF Bootstrap, KRaises
    <3>2. CASE NotReset(c) \/ RemoveCloud(c)
      BY <1>1, <3>2 DEF NotReset, RemoveCloud, Fits, Resets
    <3>3. CASE Read(c)
      BY <1>1, <3>3 DEF Read, Fits
    <3>4. CASE DeployFails(c)
      BY <3>4 DEF DeployFails, AfterFailure
    <3> QED
      BY <1>7, <3>1, <3>2, <3>3, <3>4
  <2>2. /\ kpc[c] \notin KEnded /\ resetting' = resetting
        /\ UNCHANGED <<kmodels, deployed, gone, placed>>
    BY <1>7 DEF Bootstrap, KRaises, NotReset, RemoveCloud, Read, DeployFails, KEnded, own, world
  <2>3. QuietGoes(c, label)
    BY <2>1, <2>2 DEF QuietGoes, BeforeModel
  <2> QED
    BY <2>3
<1> QED
  BY <1>2, <1>3, <1>4, <1>5, <1>6, <1>7 DEF Quiet, KLogin, InitK8s

LEMMA QuietSimulates ==
  ASSUME K8sInv, BundleInv, NEW c \in KCall, Quiet(c)
  PROVE  BundleInv' /\ [Bundle!Next]_(Bundle!vars)
<1>1. PICK label : QuietGoes(c, label)
  BY QuietLabel
<1>2. CallTypes
  BY DEF K8sInv
<1>3. BundleInv'
  <2>1. c \in resetting' \ resetting => c \notin NonAtomic /\ ModelOf(c) \in deployed' \cup gone'
    BY <1>1 DEF QuietGoes, BundleInv
  <2> QED
    BY <1>1, <1>2, <2>1, BundleGoes DEF QuietGoes
<1>4. [Bundle!Next]_(Bundle!vars)
  BY <1>1, <1>2, BundleEnds DEF QuietGoes
<1> QED
  BY <1>3, <1>4

LEMMA AddSimulates ==
  ASSUME K8sInv, BundleInv, NEW c \in KCall, AddModel(c)
  PROVE  BundleInv' /\ [Bundle!Next]_(Bundle!vars)
<1> USE KAssumption DEF K8sInv
<1>1. /\ kpc[c] = "adding" /\ KGoto(c, "deploying") /\ target[c] \in running
      /\ <<target[c], InstanceOf[c]>> \notin kmodels
      /\ kmodels' = kmodels \cup {<<target[c], InstanceOf[c]>>}
      /\ placed' = [placed EXCEPT ![c] = target[c]]
      /\ UNCHANGED <<resetting, deployed, gone>>
  BY DEF AddModel
<1>2. KKind[c] = "install" /\ c \notin resetting
  <2>1. Fits(c, "adding", c \in resetting)
    BY <1>1 DEF KindInv
  <2> QED
    BY <2>1 DEF Fits
<1>3. \A d \in KCall : kpc'[d] = IF d = c THEN "deploying" ELSE kpc[d]
  BY <1>1 DEF KGoto, CallTypes
<1>4. \A d \in KCall \ {c} : placed'[d] = placed[d]
  BY <1>1 DEF WorldTypes
<1>5. BundleInv'
  BY <1>1, <1>2, <1>3, <1>4 DEF BundleInv, ModelOf, BeforeModel
<1>6. target[c] \in Cluster
  BY <1>1 DEF WorldTypes
<1>7. c \notin ended /\ UNCHANGED <<ended, confirmed>>
  BY <1>1, EndedGoes DEF KEnded
<1>8. Bundle!Add(c, target[c])
  BY <1>1, <1>2, <1>7 DEF Bundle!Add, Bundle!Installing, BundleInv, BeforeModel
<1> QED
  BY <1>5, <1>6, <1>8 DEF Bundle!Next

LEMMA DeploySimulates ==
  ASSUME K8sInv, BundleInv, NEW c \in KCall, DeployBundle(c)
  PROVE  BundleInv' /\ [Bundle!Next]_(Bundle!vars)
<1> USE KAssumption DEF K8sInv
<1> DEFINE label == IF c \in NonAtomic THEN "returned" ELSE "settling"
<1>1. /\ kpc[c] = "deploying" /\ ModelOf(c) \in kmodels /\ KGoto(c, label)
      /\ deployed' = deployed \cup {ModelOf(c)}
      /\ UNCHANGED <<resetting, placed, kmodels, gone>>
  BY DEF DeployBundle, own
<1>2. BundleInv'
  <2>1. ModelOf(c) \in deployed' /\ (label = "settling" => c \notin NonAtomic)
    BY <1>1
  <2>2. label \notin BeforeModel
    BY DEF BeforeModel
  <2> QED
    BY <1>1, <2>1, <2>2, BundleGoes
<1>3. KKind[c] = "install"
  BY <1>1 DEF KindInv, Fits, Deploying
<1>4. /\ c \notin ended
      /\ ended' = IF c \in NonAtomic THEN ended \cup {c} ELSE ended
      /\ confirmed' = IF c \in NonAtomic THEN confirmed \cup {c} ELSE confirmed
  BY <1>1, <1>3, EndedGoes DEF KEnded
<1>5. placed[c] # NOWHERE
  BY <1>1 DEF WorldTypes, ModelOf
<1>6. Bundle!Deploy(c)
  BY <1>1, <1>3, <1>4, <1>5 DEF Bundle!Deploy, Bundle!Installing, Bundle!Model, ModelOf
<1> QED
  BY <1>2, <1>6 DEF Bundle!Next

LEMMA SettledSimulates ==
  ASSUME K8sInv, BundleInv, NEW c \in KCall, Settled(c)
  PROVE  BundleInv' /\ [Bundle!Next]_(Bundle!vars)
<1> USE DEF K8sInv
<1>1. /\ kpc[c] = "settling" /\ ModelOf(c) \in deployed \cup gone /\ KGoto(c, "returned")
      /\ UNCHANGED <<resetting, placed, kmodels, deployed, gone>>
  BY DEF Settled, own, world, InstalledInv
<1>2. BundleInv'
  BY <1>1, BundleGoes DEF BeforeModel
<1>3. KKind[c] = "install" /\ c \notin NonAtomic
  BY <1>1 DEF KindInv, Fits, Deploying, BundleInv
<1>4. c \notin ended /\ ended' = ended \cup {c} /\ confirmed' = confirmed \cup {c}
  BY <1>1, <1>3, EndedGoes DEF KEnded
<1>5. Bundle!Confirm(c)
  BY <1>1, <1>3, <1>4 DEF Bundle!Confirm, Bundle!Installing, Bundle!Model, ModelOf
<1> QED
  BY <1>2, <1>5 DEF Bundle!Next

LEMMA ControllerSimulates ==
  ASSUME K8sInv, BundleInv, NEW c \in KCall, DestroyController(c)
  PROVE  BundleInv' /\ [Bundle!Next]_(Bundle!vars)
<1> USE DEF K8sInv
<1>1. /\ kpc[c] = "destroying controller" /\ KGoto(c, "removing cloud")
      /\ kmodels' = kmodels \ InCluster(ClusterOf[c])
      /\ deployed' = deployed \ InCluster(ClusterOf[c])
      /\ gone' = gone \cup InCluster(ClusterOf[c])
      /\ UNCHANGED <<resetting, placed>>
  BY DEF DestroyController, own
<1>2. deployed \cup gone \subseteq deployed' \cup gone'
  BY <1>1
<1>3. BundleInv'
  BY <1>1, <1>2, BundleGoes DEF BeforeModel
<1>4. c \notin ended /\ UNCHANGED <<ended, confirmed>>
  <2>1. CallTypes /\ kpc[c] \notin KEnded /\ "removing cloud" \notin KEnded
    BY <1>1 DEF KEnded
  <2>2. /\ c \notin ended
        /\ ended' = IF "removing cloud" \in KEnded THEN ended \cup {c} ELSE ended
        /\ confirmed' = IF KKind[c] = "install" /\ "removing cloud" = "returned"
                        THEN confirmed \cup {c} ELSE confirmed
    BY <1>1, <2>1, EndedGoes
  <2> QED
    BY <2>1, <2>2
<1>5. Bundle!Take({m \in kmodels : m[1] = ClusterOf[c]})
  BY <1>1 DEF Bundle!Take, InCluster
<1>6. Bundle!GivesUp(c) \/ KKind[c] = "reset"
  <2>1. Fits(c, "destroying controller", c \in resetting)
    BY <1>1 DEF KindInv
  <2>2. CASE c \in resetting
    BY <1>4, <2>1, <2>2 DEF Fits, BundleInv, Bundle!GivesUp, Bundle!Installing, Bundle!Model, ModelOf
  <2> QED
    BY <2>1, <2>2 DEF Fits
<1>7. Bundle!Clear(c)
  BY <1>1, <1>4, <1>5, <1>6 DEF Bundle!Clear
<1> QED
  BY <1>3, <1>7 DEF Bundle!Next

LEMMA RemoveSimulates ==
  ASSUME K8sInv, BundleInv, NEW c \in KCall, DestroyModel(c)
  PROVE  BundleInv' /\ [Bundle!Next]_(Bundle!vars)
<1> USE DEF K8sInv
<1> DEFINE m == <<target[c], InstanceOf[c]>>
<1>1. /\ kpc[c] = "uninstalling" /\ target[c] \in running
      /\ kmodels' = kmodels \ {m} /\ deployed' = deployed \ {m}
      /\ gone' = gone \cup ({m} \cap kmodels)
      /\ Logout(c) /\ UNCHANGED <<resetting, placed>>
  BY DEF DestroyModel
<1>2. KKind[c] = "uninstall" /\ c \notin resetting
  <2>1. Fits(c, "uninstalling", c \in resetting)
    BY <1>1 DEF KindInv
  <2> QED
    BY <2>1 DEF Fits
<1>3. PICK label \in {"disconnecting", "returned"} : KGoto(c, label)
  <2>1. AfterLogout(c) = "returned"
    BY <1>2 DEF AfterLogout, Errand
  <2> QED
    BY <1>1, <2>1 DEF Logout
<1>4. deployed \cup gone \subseteq deployed' \cup gone'
  BY <1>1 DEF WorldTypes
<1>5. BundleInv'
  BY <1>1, <1>3, <1>4, BundleGoes DEF BeforeModel
<1>6. c \notin ended /\ ended' \in {ended, ended \cup {c}} /\ confirmed' = confirmed
  BY <1>1, <1>2, <1>3, EndedGoes DEF KEnded
<1>7. Bundle!Take({m})
  BY <1>1 DEF Bundle!Take
<1>8. Bundle!Remove(c, target[c])
  BY <1>1, <1>2, <1>6, <1>7 DEF Bundle!Remove
<1>9. target[c] \in Cluster
  BY <1>1 DEF WorldTypes
<1> QED
  BY <1>5, <1>8, <1>9 DEF Bundle!Next

LEMMA BundleSimulates ==
  ASSUME K8sInv, BundleInv, [K8sNext]_k8sVars
  PROVE  BundleInv' /\ [Bundle!Next]_(Bundle!vars)
<1>1. CASE UNCHANGED k8sVars
  <2>1. UNCHANGED <<kpc, resetting, placed, kmodels, deployed, gone>>
    BY <1>1 DEF k8sVars, own, world
  <2>2. BundleInv'
    BY <2>1 DEF BundleInv, ModelOf
  <2>3. UNCHANGED Bundle!vars
    BY <2>1 DEF Bundle!vars, ended, confirmed
  <2> QED
    BY <2>2, <2>3
<1>2. ASSUME NEW c \in KCall,
             \/ StartCall(c) \/ KRaises(c) \/ KLogin(c) \/ InitK8s(c)
             \/ Install(c) \/ ResetK8s(c) \/ DestroyModel(c) \/ Read(c)
      PROVE  BundleInv' /\ [Bundle!Next]_(Bundle!vars)
  <2>1. \/ Quiet(c) \/ AddModel(c) \/ DeployBundle(c) \/ Settled(c)
        \/ DestroyController(c) \/ DestroyModel(c)
    BY <1>2 DEF Quiet, Install, ResetK8s
  <2> QED
    BY <2>1, QuietSimulates, AddSimulates, DeploySimulates, SettledSimulates,
       ControllerSimulates, RemoveSimulates
<1> QED
  BY <1>1, <1>2 DEF K8sNext

THEOREM BundleInvariant == K8sSpec => []BundleInv
<1>1. (\E calls \in SUBSET KCall, clusters \in SUBSET Cluster : K8sInit(calls, clusters)) => BundleInv
  BY BundleInitially
<1>2. K8sInv /\ BundleInv /\ [K8sNext]_k8sVars => BundleInv'
  BY BundleSimulates
<1> QED
  BY <1>1, <1>2, K8sInvariant, PTL DEF K8sSpec

\* The calls on bundles keep their promise, for any calls on any clusters and
\* however they cross: a model goes only by an uninstall of its instance, a
\* reset of its cluster or an installation to it that ran out of time, an
\* instance is returned only when its bundle is in place or was taken by one of
\* these, and no call does anything once it is over
\* (k8s_juju_conn.py:242-400, 505-524).
THEOREM BundleLifeImplemented == K8sSpec => ImplementsBundleLife
<1>1. (\E calls \in SUBSET KCall, clusters \in SUBSET Cluster : K8sInit(calls, clusters)) => Bundle!Init
  BY BundleInitially
<1>2. K8sInv /\ BundleInv /\ [K8sNext]_k8sVars => [Bundle!Next]_(Bundle!vars)
  BY BundleSimulates
<1> QED
  BY <1>1, <1>2, K8sInvariant, BundleInvariant, PTL DEF K8sSpec, ImplementsBundleLife, Bundle!Spec
===============================================================================
