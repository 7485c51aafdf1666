----------------------------- MODULE JujuSession ------------------------------
(***************************************************************************)
(* The connection that the _juju_ methods of N2VCJujuConnector share       *)
(* (src/n2vc/n2vc_juju_conn.py): _juju_login, _juju_get_model,             *)
(* _juju_disconnect_model and _juju_logout.  Two flags, _connecting and    *)
(* _creating_model, are polled where the calls must not overlap.           *)
(***************************************************************************)
EXTENDS Naturals, FiniteSets

CONSTANTS
    SCall,     \* calls
    SKind,     \* "use": login, then get_model; "logout"
    ModelName,
    NameOf     \* the model a call wants

ASSUME SessionAssumption ==
    /\ SKind \in [SCall -> {"use", "logout"}]
    /\ NameOf \in [SCall -> ModelName]

VARIABLES
    spc,          \* where a call is
    loggedIn,     \* _authenticated
    connecting,   \* _connecting
    creating,     \* _creating_model
    juju_models,  \* the models in juju_models: "absent", "open", "none"
    closed,       \* models a logout has gone through
    existing,     \* the models of the controller
    opened        \* history: how often a model was connected

sessVars == <<spc, loggedIn, connecting, creating, juju_models, closed, existing, opened>>

SEnded == {"returned", "raised"}
SGoto(c, label) == spc' = [spc EXCEPT ![c] = label]

SessInit(calls) ==
    /\ spc = [c \in SCall |-> IF c \in calls THEN "idle" ELSE "absent"]
    /\ loggedIn = FALSE /\ connecting = FALSE /\ creating = FALSE
    /\ juju_models = [n \in ModelName |-> "absent"]
    /\ closed = [c \in SCall |-> {}]
    /\ existing \in SUBSET ModelName
    /\ opened = [n \in ModelName |-> 0]

-----------------------------------------------------------------------------
(* Variants with a plausible mistake.                                      *)

\* The cache is looked at before the wait only.
CachedNever(c) == FALSE

-----------------------------------------------------------------------------
(* _juju_login.                                                            *)

\* Polls of the flag are steps of their own: the call looks again after 0.1 s.
LoginFirst(c) ==
    /\ spc[c] = "idle" /\ SKind[c] = "use"
    /\ IF ~loggedIn /\ ~connecting
       THEN connecting' = TRUE /\ SGoto(c, "connecting")
       ELSE SGoto(c, IF loggedIn THEN "getting" ELSE "login wait") /\ UNCHANGED connecting
    /\ UNCHANGED <<loggedIn, creating, juju_models, closed, existing, opened>>

LoginPoll(c) ==
    /\ spc[c] = "login wait" /\ ~connecting
    /\ IF loggedIn
       THEN SGoto(c, "getting") /\ UNCHANGED connecting
       ELSE connecting' = TRUE /\ SGoto(c, "connecting")
    /\ UNCHANGED <<loggedIn, creating, juju_models, closed, existing, opened>>

Connect(c) ==
    /\ spc[c] = "connecting"
    /\ connecting' = FALSE
    /\ \/ loggedIn' = TRUE /\ SGoto(c, "getting")
       \/ SGoto(c, "raised") /\ UNCHANGED loggedIn
    /\ UNCHANGED <<creating, juju_models, closed, existing, opened>>

-----------------------------------------------------------------------------
(* _juju_get_model.                                                        *)

Cached(c) == juju_models[NameOf[c]] # "absent"
Free == ~creating

GetModelFirst(c) ==
    /\ spc[c] = "getting"
    /\ IF juju_models[NameOf[c]] = "absent" /\ ~creating
       THEN creating' = TRUE /\ SGoto(c, "creating")
       ELSE /\ SGoto(c, IF juju_models[NameOf[c]] # "absent" THEN "returned" ELSE "model wait")
            /\ UNCHANGED creating
    /\ UNCHANGED <<loggedIn, connecting, juju_models, closed, existing, opened>>

\* After the sleep: the cache, then the flag.
GetModelPoll(c) ==
    /\ spc[c] = "model wait"
    /\ \/ Cached(c) /\ SGoto(c, "returned") /\ UNCHANGED creating
       \/ ~Cached(c) /\ Free /\ creating' = TRUE /\ SGoto(c, "creating")
    /\ UNCHANGED <<loggedIn, connecting, juju_models, closed, existing, opened>>

\* add_model or get_model of the controller, an observer, and `finally`; the
\* answer may come after a logout.
CreateModel(c) ==
    /\ spc[c] = "creating"
    /\ creating' = FALSE
    /\ \/ /\ existing' = existing \cup {NameOf[c]}
          /\ juju_models' = [juju_models EXCEPT ![NameOf[c]] = "open"]
          /\ opened' = [opened EXCEPT ![NameOf[c]] = @ + 1]
          /\ SGoto(c, "returned")
       \/ /\ existing' \in {existing, existing \cup {NameOf[c]}}
          /\ SGoto(c, "raised")
          /\ UNCHANGED <<juju_models, opened>>
    /\ UNCHANGED <<loggedIn, connecting, closed>>

-----------------------------------------------------------------------------
(* _juju_logout.                                                           *)

LogoutFirst(c) ==
    /\ spc[c] = "idle" /\ SKind[c] = "logout"
    /\ SGoto(c, IF loggedIn THEN "closing" ELSE "returned")
    /\ UNCHANGED <<loggedIn, connecting, creating, juju_models, closed, existing, opened>>

\* A model that was closed already is None and fails; either way the key stays.
DisconnectModel(c, n) ==
    /\ spc[c] = "closing" /\ n \notin closed[c] /\ juju_models[n] # "absent"
    /\ closed' = [closed EXCEPT ![c] = @ \cup {n}]
    /\ juju_models' \in {juju_models, [juju_models EXCEPT ![n] = "none"]}
    /\ UNCHANGED <<spc, loggedIn, connecting, creating, existing, opened>>

\* Iterating over the models fails when one was added meanwhile, and the
\* disconnection of the controller may fail.
LogoutFails(c) ==
    /\ spc[c] \in {"closing", "leaving"}
    /\ SGoto(c, "raised")
    /\ UNCHANGED <<loggedIn, connecting, creating, juju_models, closed, existing, opened>>

LeaveController(c) ==
    /\ spc[c] = "closing"
    /\ \A n \in ModelName : juju_models[n] # "absent" => n \in closed[c]
    /\ SGoto(c, "leaving")
    /\ UNCHANGED <<loggedIn, connecting, creating, juju_models, closed, existing, opened>>

LoggedOut(c) ==
    /\ spc[c] = "leaving"
    /\ loggedIn' = FALSE
    /\ SGoto(c, "returned")
    /\ UNCHANGED <<connecting, creating, juju_models, closed, existing, opened>>

-----------------------------------------------------------------------------
JujuLogin(c) == LoginFirst(c) \/ LoginPoll(c) \/ Connect(c)
JujuGetModel(c) == GetModelFirst(c) \/ GetModelPoll(c) \/ CreateModel(c)
JujuLogout(c) ==
    \/ LogoutFirst(c) \/ LogoutFails(c) \/ LeaveController(c) \/ LoggedOut(c)
    \/ \E n \in ModelName : DisconnectModel(c, n)

SessNext == \E c \in SCall : JujuLogin(c) \/ JujuGetModel(c) \/ JujuLogout(c)

SessSpec ==
    /\ \E calls \in SUBSET SCall : SessInit(calls)
    /\ [][SessNext]_sessVars

-----------------------------------------------------------------------------
SessTypeOK ==
    /\ spc \in [SCall -> {"absent", "idle", "login wait", "connecting", "getting", "model wait",
                          "creating", "closing", "leaving"} \cup SEnded]
    /\ loggedIn \in BOOLEAN /\ connecting \in BOOLEAN /\ creating \in BOOLEAN
    /\ juju_models \in [ModelName -> {"absent", "open", "none"}]
    /\ closed \in [SCall -> SUBSET ModelName]
    /\ existing \subseteq ModelName
    /\ opened \in [ModelName -> Nat]

At(label) == {c \in SCall : spc[c] = label}

\* The flags are what they are polled for: one call at a time connects, one
\* creates a model, however many wake up from their sleeps together
\* (n2vc_juju_conn.py:1452-1465, 1673-1687).
OneAtATime ==
    /\ Cardinality(At("connecting")) = IF connecting THEN 1 ELSE 0
    /\ Cardinality(At("creating")) = IF creating THEN 1 ELSE 0

\* A model is connected once, so that it has one observer; calls that waited
\* for it find it in the cache (n2vc_juju_conn.py:1452-1509).
ModelOpenedOnce == \A n \in ModelName : opened[n] = IF juju_models[n] = "absent" THEN 0 ELSE 1
===============================================================================
