------------------------------ MODULE LegacyN2VC ------------------------------
(***************************************************************************)
(* The first connector, N2VC with VCAMonitor (src/n2vc/vnf.py): network    *)
(* services are created and destroyed, charms deployed and removed, over   *)
(* one controller and a dictionary of models.  get_model has no lock.      *)
(***************************************************************************)
EXTENDS Integers, Sequences, FiniteSets, Functions

CONSTANTS
    LCall,     \* calls
    LKind,     \* "create", "destroy", "deploy", "remove"
    Service,   \* network services, each a model
    ServiceOf,
    Charm,     \* applications
    CharmOf,
    Declared,  \* the seq of each initial-config-primitive but "config", as declared
    Known      \* those of a primitive that the charm has

ASSUME LegacyAssumption ==
    /\ LKind \in [LCall -> {"create", "destroy", "deploy", "remove"}]
    /\ ServiceOf \in [LCall -> Service] /\ CharmOf \in [LCall -> Charm]
    /\ Declared \in Seq(Nat) /\ Known \subseteq Nat
    /\ LCall \cap {"absent", "none"} = {}

VARIABLES
    lpc,        \* where a call is
    signedIn,   \* self.authenticated
    inJuju,     \* the models of the controller
    charms,     \* the applications of each
    models,     \* self.models: the call that opened it, "absent", "none"
    open,       \* the model connections of get_model, by the call
    attached,   \* those DestroyNetworkService opens itself and never closes
    refcount,   \* self.refcount["model"]
    monitors,   \* self.monitors: the connection observed, "absent", "none"
    subscribed, \* the applications with a callback
    pass,       \* how many primitives a deployment has read
    queue,      \* the seqs it still runs for them
    executed,   \* those it ran, in order
    missed,     \* history: deployments that found no application to run one on
    raced       \* history: two calls opened or closed one model together

callSide == <<pass, queue, executed, missed>>
modelSide == <<models, open, attached, refcount, monitors, raced>>
legacyVars == <<lpc, signedIn, inJuju, charms, modelSide, subscribed, callSide>>

LEnded == {"returned", "raised"}
LGoto(c, label) == lpc' = [lpc EXCEPT ![c] = label]
Held(c) == models[ServiceOf[c]]
App(c) == <<ServiceOf[c], CharmOf[c]>>

LegacyInit(calls) ==
    /\ lpc = [c \in LCall |-> IF c \in calls THEN "idle" ELSE "absent"]
    /\ signedIn = FALSE
    /\ inJuju \in SUBSET Service
    /\ charms = {} /\ subscribed = {}
    /\ models = [n \in Service |-> "absent"]
    /\ open = {} /\ attached = {} /\ refcount = 0
    /\ monitors = [n \in Service |-> "absent"]
    /\ pass = [c \in LCall |-> 0]
    /\ queue = [c \in LCall |-> {}]
    /\ executed = [c \in LCall |-> <<>>]
    /\ missed = {} /\ raced = FALSE

-----------------------------------------------------------------------------
(* Variants with a plausible mistake.                                      *)

\* The monitor observes the model when somebody subscribes.
MonitorLater(c) == "none"

\* The primitives run as they were declared.
AsDeclared(c) == CHOOSE q \in queue[c] :
    \A r \in queue[c] : \E i, j \in 1..Len(Declared) : Declared[i] = q /\ Declared[j] = r /\ i <= j

-----------------------------------------------------------------------------
(* login and get_model.                                                    *)

First(c) == IF LKind[c] \in {"create", "destroy"} THEN "listing" ELSE "getting"

Login(c) ==
    /\ lpc[c] = "idle"
    /\ LGoto(c, IF signedIn THEN First(c) ELSE "login")
    /\ UNCHANGED <<signedIn, inJuju, charms, modelSide, subscribed, callSide>>

\* A failure is swallowed; the next method looks at the flag again, or fails.
LoginEnds(c) ==
    /\ lpc[c] = "login"
    /\ \/ signedIn' = TRUE /\ LGoto(c, First(c))
       \/ UNCHANGED <<signedIn, lpc>>
       \/ LGoto(c, "raised") /\ UNCHANGED signedIn
    /\ UNCHANGED <<inJuju, charms, modelSide, subscribed, callSide>>

AfterGet(c) == CASE LKind[c] = "create" -> "returned"
                 [] LKind[c] = "deploy" -> "checking"
                 [] OTHER -> "removing"

Opening == {"looking", "opening", "adding"}
Together(c, labels) == \E d \in LCall \ {c} : ServiceOf[d] = ServiceOf[c] /\ lpc[d] \in labels

GetModel(c) ==
    /\ lpc[c] = "getting"
    /\ IF Held(c) # "absent"
       THEN LGoto(c, AfterGet(c)) /\ UNCHANGED raced
       ELSE LGoto(c, "looking") /\ raced' = (raced \/ Together(c, Opening))
    /\ UNCHANGED <<signedIn, inJuju, charms, models, open, attached, refcount, monitors>>
    /\ UNCHANGED <<subscribed, callSide>>

ListModels(c) ==
    /\ lpc[c] = "looking"
    /\ LGoto(c, IF ServiceOf[c] \in inJuju THEN "opening" ELSE "adding")
    /\ UNCHANGED <<signedIn, inJuju, charms, modelSide, subscribed, callSide>>

Observed(c) == c

\* The model, then create_model_monitor, which makes one monitor for a name.
OpenService(c) ==
    /\ \/ lpc[c] = "opening" /\ ServiceOf[c] \in inJuju /\ UNCHANGED inJuju
       \/ lpc[c] = "adding" /\ ServiceOf[c] \notin inJuju
          /\ inJuju' = inJuju \cup {ServiceOf[c]}
    /\ models' = [models EXCEPT ![ServiceOf[c]] = c]
    /\ open' = open \cup {c}
    /\ refcount' = refcount + 1
    /\ monitors' = [monitors EXCEPT ![ServiceOf[c]] = IF @ = "absent" THEN Observed(c) ELSE @]
    /\ LGoto(c, AfterGet(c))
    /\ UNCHANGED <<signedIn, charms, attached, raced, subscribed, callSide>>

\* "already exists" is swallowed: the model of the other call, or a KeyError
\* that leaves a monitor of nothing.
AlreadyExists(c) ==
    /\ lpc[c] = "adding" /\ ServiceOf[c] \in inJuju
    /\ refcount' = refcount + 1
    /\ monitors' = [monitors EXCEPT ![ServiceOf[c]] =
                      IF @ # "absent" THEN @
                      ELSE IF Held(c) = "absent" THEN "none" ELSE Held(c)]
    /\ LGoto(c, IF Held(c) = "absent" THEN "raised" ELSE AfterGet(c))
    /\ UNCHANGED <<signedIn, inJuju, charms, models, open, attached, raced>>
    /\ UNCHANGED <<subscribed, callSide>>

\* An error of the controller.
LegacyFails(c) ==
    /\ lpc[c] \in Opening \cup {"listing", "attaching", "deploying", "running", "taking down",
                                "destroying"}
    /\ LGoto(c, "raised")
    /\ UNCHANGED <<signedIn, inJuju, charms, modelSide, subscribed, callSide>>

-----------------------------------------------------------------------------
(* DeployCharms, down to ExecuteInitialPrimitives.                         *)

\* get_application, then Subscribe; a model that is None has no applications
\* and cannot deploy.
CheckCharm(c) ==
    /\ lpc[c] = "checking"
    /\ IF Held(c) # "none" /\ App(c) \in charms
       THEN LGoto(c, "raised") /\ UNCHANGED subscribed
       ELSE /\ subscribed' = subscribed \cup {App(c)}
            /\ LGoto(c, IF Held(c) = "none" THEN "raised" ELSE "deploying")
    /\ UNCHANGED <<signedIn, inJuju, charms, modelSide, callSide>>

\* Relate may fail in silence.
DeployOne(c) ==
    /\ lpc[c] = "deploying" /\ ServiceOf[c] \in inJuju /\ App(c) \notin charms
    /\ charms' = charms \cup {App(c)}
    /\ LGoto(c, "running")
    /\ UNCHANGED <<signedIn, inJuju, modelSide, subscribed, callSide>>

\* Each primitive that is read starts a run of all that were read, by seq.
ReadPrimitive(c) ==
    /\ lpc[c] = "running" /\ queue[c] = {} /\ pass[c] < Len(Declared)
    /\ pass' = [pass EXCEPT ![c] = @ + 1]
    /\ queue' = [queue EXCEPT ![c] = {Declared[i] : i \in 1..pass'[c]}]
    /\ UNCHANGED <<lpc, signedIn, inJuju, charms, modelSide, subscribed, executed, missed>>

NextSeq(c) == CHOOSE q \in queue[c] : \A r \in queue[c] : q <= r

\* Without the application there is no action, and no error; a primitive that
\* the charm has not is passed over (PrimitiveDoesNotExist).
RunPrimitive(c) ==
    /\ lpc[c] = "running" /\ queue[c] # {}
    /\ queue' = [queue EXCEPT ![c] = @ \ {NextSeq(c)}]
    /\ IF Held(c) = "none" \/ App(c) \notin charms
       THEN missed' = missed \cup {c} /\ UNCHANGED executed
       ELSE /\ IF NextSeq(c) \in Known
               THEN executed' = [executed EXCEPT ![c] = Append(@, NextSeq(c))]
               ELSE UNCHANGED executed
            /\ UNCHANGED missed
    /\ UNCHANGED <<lpc, signedIn, inJuju, charms, modelSide, subscribed, pass>>

PrimitivesDone(c) ==
    /\ lpc[c] = "running" /\ queue[c] = {} /\ pass[c] = Len(Declared)
    /\ LGoto(c, "returned")
    /\ UNCHANGED <<signedIn, inJuju, charms, modelSide, subscribed, callSide>>

-----------------------------------------------------------------------------
(* RemoveCharms, CreateNetworkService and DestroyNetworkService.           *)

AfterRemove(c) == IF LKind[c] = "remove" THEN "returned" ELSE "removing"
ToRemove(c) == {a \in charms : a[1] = ServiceOf[c] /\ (LKind[c] = "remove" => a = App(c))}

\* Unsubscribe, then app.remove; without an application there is nothing to do.
RemoveCharm(c) ==
    /\ lpc[c] = "removing"
    /\ IF Held(c) = "none" \/ ToRemove(c) = {}
       THEN LGoto(c, IF LKind[c] = "remove" THEN "returned" ELSE "closing") /\ UNCHANGED subscribed
       ELSE \E a \in ToRemove(c) : subscribed' = subscribed \ {a} /\ LGoto(c, "taking down")
    /\ UNCHANGED <<signedIn, inJuju, charms, modelSide, callSide>>

CharmRemoved(c) ==
    /\ lpc[c] = "taking down"
    /\ \E a \in ToRemove(c) : a \notin subscribed /\ charms' = charms \ {a}
    /\ LGoto(c, AfterRemove(c))
    /\ UNCHANGED <<signedIn, inJuju, modelSide, subscribed, callSide>>

ListServices(c) ==
    /\ lpc[c] = "listing"
    /\ LGoto(c, CASE LKind[c] = "create" /\ ServiceOf[c] \in inJuju -> "returned"
                  [] LKind[c] = "create" /\ ServiceOf[c] \notin inJuju -> "getting"
                  [] LKind[c] = "destroy" /\ ServiceOf[c] \in inJuju -> "attaching"
                  [] OTHER -> "closing")
    /\ UNCHANGED <<signedIn, inJuju, charms, modelSide, subscribed, callSide>>

\* controller.get_model, neither cached nor counted; get_model comes with the
\* first application that RemoveCharms is called for.
Attach(c) ==
    /\ lpc[c] = "attaching" /\ ServiceOf[c] \in inJuju
    /\ attached' = attached \cup {c}
    /\ LGoto(c, IF ToRemove(c) = {} THEN "closing" ELSE "getting")
    /\ UNCHANGED <<signedIn, inJuju, charms, models, open, refcount, monitors, raced>>
    /\ UNCHANGED <<subscribed, callSide>>

\* disconnect_model awaits the connection it finds; None fails in silence.
CloseModel(c) ==
    /\ lpc[c] = "closing"
    /\ raced' = (raced \/ Together(c, {"disconnecting"} \cup Opening))
    /\ LGoto(c, IF Held(c) \in LCall THEN "disconnecting" ELSE "destroying")
    /\ UNCHANGED <<signedIn, inJuju, charms, models, open, attached, refcount, monitors>>
    /\ UNCHANGED <<subscribed, callSide>>

\* A failure is swallowed, and the model stays cached and counted.
Disconnect(c) ==
    /\ lpc[c] = "disconnecting"
    /\ \/ /\ open' = open \ {Held(c)}
          /\ refcount' = refcount - 1
          /\ models' = [models EXCEPT ![ServiceOf[c]] = "none"]
       \/ UNCHANGED <<open, refcount, models>>
    /\ LGoto(c, "destroying")
    /\ UNCHANGED <<signedIn, inJuju, charms, attached, monitors, raced, subscribed, callSide>>

DestroyModels(c) ==
    /\ lpc[c] = "destroying"
    /\ inJuju' = inJuju \ {ServiceOf[c]}
    /\ charms' = {a \in charms : a[1] # ServiceOf[c]}
    /\ LGoto(c, "returned")
    /\ UNCHANGED <<signedIn, modelSide, subscribed, callSide>>

-----------------------------------------------------------------------------
GetModelSteps(c) ==
    Login(c) \/ LoginEnds(c) \/ GetModel(c) \/ ListModels(c) \/ OpenService(c) \/ AlreadyExists(c)
DeployCharms(c) ==
    CheckCharm(c) \/ DeployOne(c) \/ ReadPrimitive(c) \/ RunPrimitive(c) \/ PrimitivesDone(c)
RemoveSteps(c) ==
    RemoveCharm(c) \/ CharmRemoved(c) \/ ListServices(c) \/ Attach(c) \/ CloseModel(c)
    \/ Disconnect(c) \/ DestroyModels(c)

LegacyNext == \E c \in LCall :
    GetModelSteps(c) \/ DeployCharms(c) \/ RemoveSteps(c) \/ LegacyFails(c)

LegacySpec ==
    /\ \E calls \in SUBSET LCall : LegacyInit(calls)
    /\ [][LegacyNext]_legacyVars

-----------------------------------------------------------------------------
LegacyTypeOK ==
    /\ lpc \in [LCall -> {"absent", "idle", "login", "listing", "attaching", "getting", "checking",
                          "deploying", "running", "removing", "taking down", "closing",
                          "disconnecting", "destroying"} \cup Opening \cup LEnded]
    /\ signedIn \in BOOLEAN /\ raced \in BOOLEAN
    /\ inJuju \subseteq Service
    /\ charms \subseteq Service \X Charm /\ subscribed \subseteq Service \X Charm
    /\ models \in [Service -> LCall \cup {"absent", "none"}]
    /\ monitors \in [Service -> LCall \cup {"absent", "none"}]
    /\ open \subseteq LCall /\ attached \subseteq LCall /\ refcount \in Int
    /\ pass \in [LCall -> 0..Len(Declared)]
    /\ queue \in [LCall -> SUBSET Range(Declared)]
    /\ executed \in [LCall -> Seq(Nat)] /\ missed \subseteq LCall

\* Unless two calls open or close one model together, the count is that of the
\* connections that get_model opened and nobody closed, and a model that is
\* cached as open is one of them and observed by the monitor of its name
\* (vnf.py:1298-1337, 1405-1413).  The connection of DestroyNetworkService
\* itself (vnf.py:1021) is beside them: not counted, not observed, not closed.
OpenIsObserved ==
    ~raced =>
        /\ refcount = Cardinality(open)
        /\ \A n \in Service : models[n] \in LCall => models[n] \in open /\ monitors[n] = models[n]

Runnable == Range(Declared) \cap Known

\* A deployment that returns has run every initial primitive that the charm
\* has, and the last ones by their seq, unless the application was removed
\* beside it (vnf.py:801-869, 913-927).
PrimitivesInOrder ==
    \A c \in LCall \ missed : LKind[c] = "deploy" /\ lpc[c] = "returned" =>
        LET n == Cardinality(Runnable)
            lastRun == SubSeq(executed[c], Len(executed[c]) - n + 1, Len(executed[c]))
        IN /\ Range(lastRun) = Runnable
           /\ \A i, j \in 1..n : i < j => lastRun[i] < lastRun[j]
===============================================================================
