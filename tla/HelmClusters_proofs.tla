-------------------------- MODULE HelmClusters_proofs --------------------------
(***************************************************************************)
(* Proofs about HelmClusters and HelmKdu, for any calls, release names,    *)
(* repositories and number of changes the operator makes; the last part    *)
(* shows that HelmClusters implements KduLife.                             *)
(***************************************************************************)
EXTENDS KduRefinement, TLAPS

NotStarted == {"absent", "idle", "naming", "checking"}
AfterTask == {"final", "storing", "notifying", "info", "returned", "raised"}

\* What the place of a call says of its helm process, its status task and its
\* values file.
OrderOf(c) ==
    /\ pc[c] \in NotStarted => exec[c] = "none" /\ st[c] = "none"
    /\ pc[c] \in AfterTask => st[c] = "none" /\ exec[c] \in {"ok", "failed"} /\ c \notin temp
    /\ KindOf[c] = "uninstall" =>
          st[c] = "none" /\ c \notin temp /\ pc[c] \notin {"final", "storing", "notifying", "info"}
    /\ ~Installing(c) => pc[c] \notin {"naming", "checking"}
    /\ Installing(c) => pc[c] # "info" /\ (pc[c] = "returned" => exec[c] = "ok")
    /\ c \in stored =>
          /\ KindOf[c] # "uninstall" /\ pc[c] \in {"notifying", "info", "returned", "raised", "cancelled"}
          /\ st[c] = "none" /\ exec[c] \in {"ok", "failed"}

CallOrder == \A c \in Call : OrderOf(c)

\* A release is that of the install that made it, and only an install that
\* still works on it can take it away without deleting it on request.
MadeBy(n, d) == Exists(n) /\ releases[n].owner = d

OwnedInv ==
    /\ \A n \in Name : Exists(n) /\ Installing(releases[n].by) =>
          releases[n].owner = releases[n].by
    /\ \A c \in Call : Installing(c) /\ exec[c] = "ok" /\ name[c] \notin purged =>
          MadeBy(name[c], c)

\* The instance of a KDU is a release of a finished install of that KDU.
OfKdu(n, k) ==
    Exists(n) /\ KduOf[releases[n].owner] = k /\ exec[releases[n].owner] = "ok"

InstanceInv ==
    /\ \A k \in Kdu : instance[k] # NONE /\ instance[k] \notin purged => OfKdu(instance[k], k)
    /\ \A c \in Call : ~Installing(c) /\ exec[c] # "none" /\ name[c] \notin purged =>
          OfKdu(name[c], KduOf[c])

\* No other call has been made on the KDU.
Alone(c) == \A d \in Call \ {c} : KduOf[d] = KduOf[c] => pc[d] \in {"absent", "idle"}
Succeeded(c) == exec[c] = "ok" /\ KindOf[c] # "uninstall" /\ name[c] \notin purged /\ Alone(c)

FinalInv ==
    \A c \in Call : Succeeded(c) =>
        /\ Exists(name[c]) /\ releases[name[c]].by = c /\ releases[name[c]].desc = "deployed"
        /\ pc[c] = "storing" => last[c] = "deployed"

RecordInv ==
    \A c \in stored : Alone(c) =>
        /\ record[KduOf[c]].by = c
        /\ Succeeded(c) => record[KduOf[c]].desc = "deployed"

KduInv == KduTypeOK /\ CallOrder /\ OwnedInv /\ InstanceInv /\ FinalInv /\ RecordInv

-----------------------------------------------------------------------------
(* What a step does to the variables, call by call.                        *)

LEMMA ReleaseOf == ASSUME KduTypeOK, NEW n \in Name, Exists(n)
                   PROVE  /\ releases[n] \in Release
                          /\ releases[n].owner \in Call /\ releases[n].by \in Call
                          /\ releases[n].desc \in Status
BY DEF KduTypeOK, Exists, Release

\* A step of helm has a name to work on, and changes its release only.
LEMMA HelmChangesOne ==
  ASSUME KduTypeOK, CallOrder, NEW c \in Call, NEW label \in {"working", "ok", "failed"},
         NEW release \in Release \cup {NONE}, HelmStep(c, label, release),
         exec[c] # "none", purged' \subseteq Name
  PROVE  /\ KduTypeOK' /\ name[c] \in Name /\ pc[c] \notin NotStarted
         /\ \A n \in Name : releases'[n] = IF n = name[c] THEN release ELSE releases[n]
         /\ \A d \in Call : exec'[d] = IF d = c THEN label ELSE exec[d]
         /\ UNCHANGED <<dir, st, seen, calls, record, instance>>
<1>1. pc[c] \notin NotStarted
  BY DEF CallOrder, OrderOf
<1>2. name[c] \in Name
  BY <1>1 DEF KduTypeOK, NotStarted
<1>3. /\ releases' = [releases EXCEPT ![name[c]] = release]
      /\ exec' = [exec EXCEPT ![c] = label]
      /\ UNCHANGED <<dir, st, seen, calls, record, instance>>
  BY DEF HelmStep
<1>4. releases' \in [Name -> Release \cup {NONE}]
  BY <1>3 DEF KduTypeOK
<1>5. exec' \in [Call -> {"none", "started", "working", "ok", "failed"}]
  BY <1>3 DEF KduTypeOK
<1>6. KduTypeOK'
  BY <1>3, <1>4, <1>5 DEF KduTypeOK, calls
<1> QED
  BY <1>1, <1>2, <1>3, <1>6 DEF KduTypeOK

-----------------------------------------------------------------------------
(* The steps of HelmKdu.                                                   *)

LEMMA StartInstallStep == ASSUME KduInv, NEW c \in Call, StartInstall(c) PROVE KduInv'
<1> USE CallsAssumption, NoneAssumption DEF KduInv, cluster, tasks, calls, Goto, Ended, StartInstall
<1>1. KduTypeOK'
  BY DEF KduTypeOK, CallOrder, OrderOf, Created, Status, Release, InstanceInv
<1>2. CallOrder'
  BY DEF KduTypeOK, CallOrder, OrderOf, NotStarted, AfterTask, Installing, Watched, HasValues
<1>3. OwnedInv'
  BY DEF KduTypeOK, CallOrder, OrderOf, NotStarted, OwnedInv, MadeBy, Exists, Installing, Release
<1>4. InstanceInv'
  BY DEF KduTypeOK, CallOrder, OrderOf, NotStarted, AfterTask, OwnedInv, MadeBy, InstanceInv,
         OfKdu, Exists, Installing, Release
<1>5. FinalInv'
  BY DEF KduTypeOK, CallOrder, OrderOf, NotStarted, AfterTask, OwnedInv, MadeBy, InstanceInv,
         OfKdu, FinalInv, Succeeded, Alone, Exists, Installing, Release
<1>6. RecordInv'
  BY DEF KduTypeOK, CallOrder, OrderOf, NotStarted, AfterTask, FinalInv, RecordInv, Succeeded, Alone
<1> QED
  BY <1>1, <1>2, <1>3, <1>4, <1>5, <1>6

LEMMA StartOperationStep == ASSUME KduInv, NEW c \in Call, StartOperation(c) PROVE KduInv'
<1> USE CallsAssumption, NoneAssumption DEF KduInv, cluster, tasks, calls, Goto, Ended,
       StartOperation, Known, Launch, HasValues
<1>1. KduTypeOK'
  <2>1. instance[KduOf[c]] \in Name
    BY DEF KduTypeOK
  <2>2. name' \in [Call -> Name \cup {NONE}] /\ name'[c] \in Name
    BY <2>1 DEF KduTypeOK
  <2>3. /\ pc' \in [Call -> {"absent", "idle", "naming", "checking", "executing", "final",
                            "storing", "notifying", "info"} \cup Ended]
        /\ exec' \in [Call -> {"none", "started", "working", "ok", "failed"}]
        /\ st' \in [Call -> {"none", "sleep", "read"}]
    BY DEF KduTypeOK
  <2>4. \A d \in Call : pc'[d] \notin {"absent", "idle", "naming"} => name'[d] # NONE
    BY <2>1, <2>2 DEF KduTypeOK
  <2>5. temp' \subseteq Call /\ dir' \in {"none", "bare", "config"}
    BY DEF KduTypeOK, Created
  <2> QED
    BY <2>2, <2>3, <2>4, <2>5 DEF KduTypeOK
<1>2. CallOrder'
  BY DEF KduTypeOK, CallOrder, OrderOf, NotStarted, AfterTask, Installing, Watched, HasValues
<1>3. OwnedInv'
  BY DEF KduTypeOK, CallOrder, OrderOf, NotStarted, OwnedInv, MadeBy, Exists, Installing, Release
<1>4. InstanceInv'
  <2>1. instance[KduOf[c]] \notin purged => OfKdu(instance[KduOf[c]], KduOf[c])
    BY DEF KduTypeOK, InstanceInv
  <2>2. exec[c] = "none" /\ name'[c] = instance[KduOf[c]]
    BY DEF KduTypeOK, CallOrder, OrderOf, NotStarted
  <2>3. ASSUME NEW n \in Name, NEW k, OfKdu(n, k) PROVE OfKdu(n, k)'
    <3>1. releases[n].owner \in Call
      BY <2>3, ReleaseOf DEF OfKdu
    <3> QED
      BY <2>2, <2>3, <3>1 DEF OfKdu, Exists, KduTypeOK
  <2>4. \A n \in Name, k \in Kdu : OfKdu(n, k) => OfKdu(n, k)'
    BY <2>3
  <2>5. \A k \in Kdu : instance[k] # NONE => instance[k] \in Name
    BY DEF KduTypeOK
  <2>6. ASSUME NEW d \in Call, d # c, exec'[d] # "none"
        PROVE  exec[d] # "none" /\ name'[d] = name[d] /\ name[d] \in Name
    BY <2>6 DEF KduTypeOK, CallOrder, OrderOf, NotStarted
  <2>7. UNCHANGED <<instance, purged>>
    OBVIOUS
  <2> QED
    BY <2>1, <2>2, <2>4, <2>5, <2>6, <2>7 DEF InstanceInv, Installing, OfKdu, Exists
<1>5. FinalInv'
  BY DEF KduTypeOK, CallOrder, OrderOf, NotStarted, AfterTask, OwnedInv, MadeBy, InstanceInv,
         OfKdu, FinalInv, Succeeded, Alone, Exists, Installing, Release
<1>6. RecordInv'
  BY DEF KduTypeOK, CallOrder, OrderOf, NotStarted, AfterTask, FinalInv, RecordInv, Succeeded, Alone
<1> QED
  BY <1>1, <1>2, <1>3, <1>4, <1>5, <1>6

LEMMA DrawNameStep == ASSUME KduInv, NEW c \in Call, NEW n \in Name, DrawName(c, n) PROVE KduInv'
<1> USE CallsAssumption, NoneAssumption DEF KduInv, cluster, tasks, calls, Goto, Ended, DrawName
<1>1. KduTypeOK'
  BY DEF KduTypeOK, CallOrder, OrderOf, Created, Status, Release, InstanceInv
<1>2. CallOrder'
  BY DEF KduTypeOK, CallOrder, OrderOf, NotStarted, AfterTask, Installing, Watched, HasValues
<1>3. OwnedInv'
  BY DEF KduTypeOK, CallOrder, OrderOf, NotStarted, OwnedInv, MadeBy, Exists, Installing, Release
<1>4. InstanceInv'
  BY DEF KduTypeOK, CallOrder, OrderOf, NotStarted, AfterTask, OwnedInv, MadeBy, InstanceInv,
         OfKdu, Exists, Installing, Release
<1>5. FinalInv'
  BY DEF KduTypeOK, CallOrder, OrderOf, NotStarted, AfterTask, OwnedInv, MadeBy, InstanceInv,
         OfKdu, FinalInv, Succeeded, Alone, Exists, Installing, Release
<1>6. RecordInv'
  BY DEF KduTypeOK, CallOrder, OrderOf, NotStarted, AfterTask, FinalInv, RecordInv, Succeeded, Alone
<1> QED
  BY <1>1, <1>2, <1>3, <1>4, <1>5, <1>6

LEMMA NameTakenStep == ASSUME KduInv, NEW c \in Call, NameTaken(c) PROVE KduInv'
<1> USE CallsAssumption, NoneAssumption DEF KduInv, cluster, tasks, calls, Goto, Ended, NameTaken
<1>1. KduTypeOK'
  BY DEF KduTypeOK, CallOrder, OrderOf, Created, Status, Release, InstanceInv
<1>2. CallOrder'
  BY DEF KduTypeOK, CallOrder, OrderOf, NotStarted, AfterTask, Installing, Watched, HasValues
<1>3. OwnedInv'
  BY DEF KduTypeOK, CallOrder, OrderOf, NotStarted, OwnedInv, MadeBy, Exists, Installing, Release
<1>4. InstanceInv'
  BY DEF KduTypeOK, CallOrder, OrderOf, NotStarted, AfterTask, OwnedInv, MadeBy, InstanceInv,
         OfKdu, Exists, Installing, Release
<1>5. FinalInv'
  BY DEF KduTypeOK, CallOrder, OrderOf, NotStarted, AfterTask, OwnedInv, MadeBy, InstanceInv,
         OfKdu, FinalInv, Succeeded, Alone, Exists, Installing, Release
<1>6. RecordInv'
  BY DEF KduTypeOK, CallOrder, OrderOf, NotStarted, AfterTask, FinalInv, RecordInv, Succeeded, Alone
<1> QED
  BY <1>1, <1>2, <1>3, <1>4, <1>5, <1>6

LEMMA NameAcceptedStep == ASSUME KduInv, NEW c \in Call, NameAccepted(c) PROVE KduInv'
<1> USE CallsAssumption, NoneAssumption DEF KduInv, cluster, tasks, calls, Goto, Ended,
       NameAccepted, Launch
<1>1. KduTypeOK'
  BY DEF KduTypeOK, CallOrder, OrderOf, Created, Status, Release, InstanceInv
<1>2. CallOrder'
  BY DEF KduTypeOK, CallOrder, OrderOf, NotStarted, AfterTask, Installing, Watched, HasValues
<1>3. OwnedInv'
  BY DEF KduTypeOK, CallOrder, OrderOf, NotStarted, OwnedInv, MadeBy, Exists, Installing, Release
<1>4. InstanceInv'
  BY DEF KduTypeOK, CallOrder, OrderOf, NotStarted, AfterTask, OwnedInv, MadeBy, InstanceInv,
         OfKdu, Exists, Installing, Release
<1>5. FinalInv'
  BY DEF KduTypeOK, CallOrder, OrderOf, NotStarted, AfterTask, OwnedInv, MadeBy, InstanceInv,
         OfKdu, FinalInv, Succeeded, Alone, Exists, Installing, Release
<1>6. RecordInv'
  BY DEF KduTypeOK, CallOrder, OrderOf, NotStarted, AfterTask, FinalInv, RecordInv, Succeeded, Alone
<1> QED
  BY <1>1, <1>2, <1>3, <1>4, <1>5, <1>6

LEMMA HelmInstallsStep == ASSUME KduInv, NEW c \in Call, HelmInstalls(c) PROVE KduInv'
<1> USE CallsAssumption, NoneAssumption DEF KduInv
<1> DEFINE release == [owner |-> c, by |-> c, desc |-> "pending"]
<1>1. name[c] \in Name
  BY DEF HelmInstalls, KduTypeOK, CallOrder, OrderOf, NotStarted
<1>2. release \in Release \cup {NONE}
  BY <1>1 DEF KduTypeOK, Release, Status
<1>3. HelmStep(c, "working", release) /\ exec[c] \in {"started", "working"} /\ purged' \subseteq Name
  BY <1>1 DEF HelmInstalls, KduTypeOK
<1>4. /\ KduTypeOK' /\ pc[c] \notin NotStarted
      /\ \A n \in Name : releases'[n] = IF n = name[c] THEN release ELSE releases[n]
      /\ \A d \in Call : exec'[d] = IF d = c THEN "working" ELSE exec[d]
      /\ UNCHANGED <<dir, st, seen, pc, name, temp, last, stored, record, instance>>
  BY <1>2, <1>3, HelmChangesOne DEF calls
<1> HIDE DEF release
<1>5. CallOrder'
  BY <1>3, <1>4 DEF CallOrder, OrderOf, NotStarted, AfterTask
<1>6. OwnedInv'
  BY <1>1, <1>2, <1>3, <1>4 DEF HelmInstalls, release, KduTypeOK, OwnedInv, MadeBy, Exists,
         Installing, Release, Worked, CallOrder, OrderOf, NotStarted
<1>7. InstanceInv'
  BY <1>1, <1>2, <1>3, <1>4 DEF HelmInstalls, release, KduTypeOK, InstanceInv, OwnedInv, OfKdu,
         Exists, Installing, Release, Worked, CallOrder, OrderOf, NotStarted
<1>8. FinalInv'
  BY <1>1, <1>2, <1>3, <1>4 DEF HelmInstalls, release, KduTypeOK, FinalInv, InstanceInv,
         OwnedInv, OfKdu, MadeBy, Succeeded, Alone, Exists, Installing, Release, Worked,
         CallOrder, OrderOf, NotStarted, AfterTask
<1>9. RecordInv'
  BY <1>1, <1>3, <1>4 DEF HelmInstalls, KduTypeOK, RecordInv, Succeeded, Alone, CallOrder,
         OrderOf, NotStarted
<1> QED
  BY <1>4, <1>5, <1>6, <1>7, <1>8, <1>9

LEMMA HelmChangesStep == ASSUME KduInv, NEW c \in Call, HelmChanges(c) PROVE KduInv'
<1> USE CallsAssumption, NoneAssumption DEF KduInv
<1> DEFINE release == [releases[name[c]] EXCEPT !.by = c, !.desc = "pending"]
<1>1. name[c] \in Name
  BY DEF HelmChanges, KduTypeOK, CallOrder, OrderOf, NotStarted
<1>2. /\ release \in Release \cup {NONE}
      /\ release # NONE /\ release.owner = releases[name[c]].owner
      /\ release.by = c /\ release.desc = "pending"
  <2>1. releases[name[c]] \in Release
    BY <1>1, ReleaseOf DEF HelmChanges, Worked
  <2>2. release \in Release
    BY <2>1 DEF Release, Status
  <2> QED
    BY <2>1, <2>2 DEF Release
<1>3. HelmStep(c, "working", release) /\ exec[c] \in {"started", "working"} /\ purged' \subseteq Name
  BY <1>1 DEF HelmChanges, KduTypeOK
<1>4. /\ KduTypeOK' /\ pc[c] \notin NotStarted
      /\ \A n \in Name : releases'[n] = IF n = name[c] THEN release ELSE releases[n]
      /\ \A d \in Call : exec'[d] = IF d = c THEN "working" ELSE exec[d]
      /\ UNCHANGED <<dir, st, seen, pc, name, temp, last, stored, record, instance>>
  BY <1>2, <1>3, HelmChangesOne DEF calls
<1> HIDE DEF release
<1>5. CallOrder'
  BY <1>3, <1>4 DEF CallOrder, OrderOf, NotStarted, AfterTask
<1>10. exec[c] = "started" /\ ~Installing(c) /\ Exists(name[c]) /\ purged' = purged
  BY DEF HelmChanges, Installing
<1>11. \A n \in Name :
          /\ Exists(n)' <=> Exists(n)
          /\ Exists(n) => releases'[n].owner = releases[n].owner
          /\ n # name[c] => releases'[n] = releases[n]
          /\ n = name[c] => releases'[n].by = c
  BY <1>1, <1>2, <1>4, <1>10 DEF Exists
<1>12. \A d \in Call : exec'[d] = "ok" <=> exec[d] = "ok"
  BY <1>4, <1>10
<1>13. \A d \in Call : exec[d] # "none" => name[d] \in Name
  BY DEF KduTypeOK, CallOrder, OrderOf, NotStarted
<1>6. OwnedInv'
  BY <1>4, <1>10, <1>11, <1>12, <1>13 DEF OwnedInv, MadeBy, Installing
<1>7. InstanceInv'
  <2>1. \A n \in Name : \A k : OfKdu(n, k) => OfKdu(n, k)'
    <3>1. ASSUME NEW n \in Name, NEW k, OfKdu(n, k) PROVE OfKdu(n, k)'
      <4>1. releases[n].owner \in Call
        BY <3>1, ReleaseOf DEF OfKdu
      <4> QED
        BY <3>1, <4>1, <1>11, <1>12 DEF OfKdu
    <3> QED
      BY <3>1
  <2>2. \A d \in Call : exec'[d] # "none" => exec[d] # "none"
    BY <1>4, <1>10
  <2>3. \A k \in Kdu : instance[k] # NONE => instance[k] \in Name
    BY DEF KduTypeOK
  <2> QED
    BY <1>4, <1>10, <1>13, <2>1, <2>2, <2>3 DEF InstanceInv, OfKdu, Installing
<1>8. FinalInv'
  BY <1>1, <1>2, <1>3, <1>4 DEF HelmChanges, release, KduTypeOK, FinalInv, InstanceInv, OwnedInv,
         OfKdu, MadeBy, Succeeded, Alone, Exists, Installing, Release, Worked, CallOrder,
         OrderOf, NotStarted, AfterTask
<1>9. RecordInv'
  BY <1>1, <1>3, <1>4 DEF HelmChanges, KduTypeOK, RecordInv, Succeeded, Alone, CallOrder,
         OrderOf, NotStarted
<1> QED
  BY <1>4, <1>5, <1>6, <1>7, <1>8, <1>9

LEMMA HelmDeletesStep == ASSUME KduInv, NEW c \in Call, HelmDeletes(c) PROVE KduInv'
<1> USE CallsAssumption, NoneAssumption DEF KduInv
<1> DEFINE release == NONE
<1>1. name[c] \in Name
  BY DEF HelmDeletes, KduTypeOK, CallOrder, OrderOf, NotStarted
<1>2. release \in Release \cup {NONE}
  BY <1>1 DEF KduTypeOK, Release, Status
<1>3. HelmStep(c, "ok", release) /\ exec[c] \in {"started", "working"} /\ purged' \subseteq Name
  BY <1>1 DEF HelmDeletes, KduTypeOK
<1>4. /\ KduTypeOK' /\ pc[c] \notin NotStarted
      /\ \A n \in Name : releases'[n] = IF n = name[c] THEN release ELSE releases[n]
      /\ \A d \in Call : exec'[d] = IF d = c THEN "ok" ELSE exec[d]
      /\ UNCHANGED <<dir, st, seen, pc, name, temp, last, stored, record, instance>>
  BY <1>2, <1>3, HelmChangesOne DEF calls
<1> HIDE DEF release
<1>5. CallOrder'
  BY <1>3, <1>4 DEF CallOrder, OrderOf, NotStarted, AfterTask
<1>6. OwnedInv'
  BY <1>1, <1>2, <1>3, <1>4 DEF HelmDeletes, release, KduTypeOK, OwnedInv, MadeBy, Exists,
         Installing, Release, Worked, CallOrder, OrderOf, NotStarted
<1>7. InstanceInv'
  BY <1>1, <1>2, <1>3, <1>4 DEF HelmDeletes, release, KduTypeOK, InstanceInv, OwnedInv, OfKdu,
         Exists, Installing, Release, Worked, CallOrder, OrderOf, NotStarted
<1>8. FinalInv'
  BY <1>1, <1>2, <1>3, <1>4 DEF HelmDeletes, release, KduTypeOK, FinalInv, InstanceInv, OwnedInv,
         OfKdu, MadeBy, Succeeded, Alone, Exists, Installing, Release, Worked, CallOrder,
         OrderOf, NotStarted, AfterTask
<1>9. RecordInv'
  BY <1>1, <1>3, <1>4 DEF HelmDeletes, KduTypeOK, RecordInv, Succeeded, Alone, CallOrder,
         OrderOf, NotStarted
<1> QED
  BY <1>4, <1>5, <1>6, <1>7, <1>8, <1>9

LEMMA HelmRefusesStep == ASSUME KduInv, NEW c \in Call, HelmRefuses(c) PROVE KduInv'
<1> USE CallsAssumption, NoneAssumption DEF KduInv
<1> DEFINE release == releases[name[c]]
<1>1. name[c] \in Name
  BY DEF HelmRefuses, KduTypeOK, CallOrder, OrderOf, NotStarted
<1>2. release \in Release \cup {NONE}
  BY <1>1 DEF KduTypeOK, Release, Status
<1>3. HelmStep(c, "failed", release) /\ exec[c] \in {"started", "working"} /\ purged' \subseteq Name
  BY <1>1 DEF HelmRefuses, KduTypeOK
<1>4. /\ KduTypeOK' /\ pc[c] \notin NotStarted
      /\ \A n \in Name : releases'[n] = IF n = name[c] THEN release ELSE releases[n]
      /\ \A d \in Call : exec'[d] = IF d = c THEN "failed" ELSE exec[d]
      /\ UNCHANGED <<dir, st, seen, pc, name, temp, last, stored, record, instance>>
  BY <1>2, <1>3, HelmChangesOne DEF calls
<1> HIDE DEF release
<1>5. CallOrder'
  BY <1>3, <1>4 DEF CallOrder, OrderOf, NotStarted, AfterTask
<1>6. OwnedInv'
  BY <1>1, <1>2, <1>3, <1>4 DEF HelmRefuses, release, KduTypeOK, OwnedInv, MadeBy, Exists,
         Installing, Release, Worked, CallOrder, OrderOf, NotStarted
<1>7. InstanceInv'
  BY <1>1, <1>2, <1>3, <1>4 DEF HelmRefuses, release, KduTypeOK, InstanceInv, OwnedInv, OfKdu,
         Exists, Installing, Release, Worked, CallOrder, OrderOf, NotStarted
<1>8. FinalInv'
  BY <1>1, <1>2, <1>3, <1>4 DEF HelmRefuses, release, KduTypeOK, FinalInv, InstanceInv, OwnedInv,
         OfKdu, MadeBy, Succeeded, Alone, Exists, Installing, Release, Worked, CallOrder,
         OrderOf, NotStarted, AfterTask
<1>9. RecordInv'
  BY <1>1, <1>3, <1>4 DEF HelmRefuses, KduTypeOK, RecordInv, Succeeded, Alone, CallOrder,
         OrderOf, NotStarted
<1> QED
  BY <1>4, <1>5, <1>6, <1>7, <1>8, <1>9

LEMMA HelmEndsStep == ASSUME KduInv, NEW c \in Call, HelmEnds(c) PROVE KduInv'
<1> USE CallsAssumption, NoneAssumption DEF KduInv
<1> DEFINE release == [releases[name[c]] EXCEPT !.desc = "deployed"]
<1>1. name[c] \in Name
  BY DEF HelmEnds, KduTypeOK, CallOrder, OrderOf, NotStarted
<1>2. /\ release \in Release \cup {NONE}
      /\ release # NONE /\ release.owner = releases[name[c]].owner
      /\ release.by = releases[name[c]].by /\ release.desc = "deployed"
  <2>1. releases[name[c]] \in Release
    BY <1>1, ReleaseOf DEF HelmEnds, Worked
  <2>2. release \in Release
    BY <2>1 DEF Release, Status
  <2> QED
    BY <2>1, <2>2 DEF Release
<1>3. HelmStep(c, "ok", release) /\ exec[c] \in {"started", "working"} /\ purged' \subseteq Name
  BY <1>1 DEF HelmEnds, KduTypeOK
<1>4. /\ KduTypeOK' /\ pc[c] \notin NotStarted
      /\ \A n \in Name : releases'[n] = IF n = name[c] THEN release ELSE releases[n]
      /\ \A d \in Call : exec'[d] = IF d = c THEN "ok" ELSE exec[d]
      /\ UNCHANGED <<dir, st, seen, pc, name, temp, last, stored, record, instance>>
  BY <1>2, <1>3, HelmChangesOne DEF calls
<1> HIDE DEF release
<1>5. CallOrder'
  BY <1>3, <1>4 DEF CallOrder, OrderOf, NotStarted, AfterTask
<1>6. OwnedInv'
  BY <1>1, <1>2, <1>3, <1>4 DEF HelmEnds, release, KduTypeOK, OwnedInv, MadeBy, Exists,
         Installing, Release, Worked, CallOrder, OrderOf, NotStarted
<1>7. InstanceInv'
  BY <1>1, <1>2, <1>3, <1>4 DEF HelmEnds, release, KduTypeOK, InstanceInv, OwnedInv, OfKdu,
         Exists, Installing, Release, Worked, CallOrder, OrderOf, NotStarted
<1>8. FinalInv'
  BY <1>1, <1>2, <1>3, <1>4 DEF HelmEnds, release, KduTypeOK, FinalInv, InstanceInv, OwnedInv,
         OfKdu, MadeBy, Succeeded, Alone, Exists, Installing, Release, Worked, CallOrder,
         OrderOf, NotStarted, AfterTask
<1>9. RecordInv'
  BY <1>1, <1>3, <1>4 DEF HelmEnds, KduTypeOK, RecordInv, Succeeded, Alone, CallOrder, OrderOf,
         NotStarted
<1> QED
  BY <1>4, <1>5, <1>6, <1>7, <1>8, <1>9

LEMMA HelmFailsStep == ASSUME KduInv, NEW c \in Call, HelmFails(c) PROVE KduInv'
<1> USE CallsAssumption, NoneAssumption DEF KduInv
<1> DEFINE release == IF Worked(c) THEN Undone(c) ELSE releases[name[c]]
<1>1. name[c] \in Name
  BY DEF HelmFails, KduTypeOK, CallOrder, OrderOf, NotStarted
<1>2. /\ release \in Release \cup {NONE}
      /\ release # NONE => /\ release.owner = releases[name[c]].owner
                           /\ release.by = releases[name[c]].by /\ Exists(name[c])
      /\ ~Worked(c) => release = releases[name[c]]
      /\ release = NONE /\ Worked(c) => Installing(c)
  <2>1. CASE ~Worked(c)
    BY <1>1, <2>1 DEF KduTypeOK, Exists
  <2>2. CASE Worked(c)
    <3>1. releases[name[c]] \in Release
      BY <1>1, <2>2, ReleaseOf DEF Worked
    <3>2. CASE c \in Atomic /\ Installing(c)
      BY <2>2, <3>2 DEF Undone, Installing
    <3>3. CASE ~(c \in Atomic /\ Installing(c))
      <4>1. PICK s \in Status : release = [releases[name[c]] EXCEPT !.desc = s]
        BY <2>2, <3>3 DEF Undone, Installing, Status
      <4>2. /\ release \in Release /\ release.owner = releases[name[c]].owner
            /\ release.by = releases[name[c]].by
        BY <3>1, <4>1 DEF Release
      <4> QED
        BY <2>2, <4>2 DEF Worked
    <3> QED
      BY <3>2, <3>3
  <2> QED
    BY <2>1, <2>2
<1>3. HelmStep(c, "failed", release) /\ exec[c] \in {"started", "working"} /\ purged' \subseteq Name
  BY <1>1 DEF HelmFails, KduTypeOK
<1>4. /\ KduTypeOK' /\ pc[c] \notin NotStarted
      /\ \A n \in Name : releases'[n] = IF n = name[c] THEN release ELSE releases[n]
      /\ \A d \in Call : exec'[d] = IF d = c THEN "failed" ELSE exec[d]
      /\ UNCHANGED <<dir, st, seen, pc, name, temp, last, stored, record, instance>>
  BY <1>2, <1>3, HelmChangesOne DEF calls
<1> HIDE DEF release
<1>5. CallOrder'
  BY <1>3, <1>4 DEF CallOrder, OrderOf, NotStarted, AfterTask
<1>6. OwnedInv'
  BY <1>1, <1>2, <1>3, <1>4 DEF HelmFails, release, KduTypeOK, OwnedInv, MadeBy, Exists,
         Installing, Release, Worked, CallOrder, OrderOf, NotStarted
<1>7. InstanceInv'
  BY <1>1, <1>2, <1>3, <1>4 DEF HelmFails, release, KduTypeOK, InstanceInv, OwnedInv, OfKdu,
         Exists, Installing, Release, Worked, CallOrder, OrderOf, NotStarted
<1>8. FinalInv'
  BY <1>1, <1>2, <1>3, <1>4 DEF HelmFails, release, KduTypeOK, FinalInv, InstanceInv, OwnedInv,
         OfKdu, MadeBy, Succeeded, Alone, Exists, Installing, Release, Worked, CallOrder,
         OrderOf, NotStarted, AfterTask
<1>9. RecordInv'
  BY <1>1, <1>3, <1>4 DEF HelmFails, KduTypeOK, RecordInv, Succeeded, Alone, CallOrder, OrderOf,
         NotStarted
<1> QED
  BY <1>4, <1>5, <1>6, <1>7, <1>8, <1>9

LEMMA StatusReadStep == ASSUME KduInv, NEW c \in Call, StatusRead(c) PROVE KduInv'
<1> USE CallsAssumption, NoneAssumption DEF KduInv, cluster, tasks, calls, Goto, Ended, StatusRead
<1>1. KduTypeOK'
  <2>1. name[c] \in Name
    BY DEF KduTypeOK, CallOrder, OrderOf, NotStarted
  <2>2. releases[name[c]].desc \in Status
    BY <2>1, ReleaseOf
  <2> QED
    BY <2>2 DEF KduTypeOK
<1>2. CallOrder'
  BY DEF KduTypeOK, CallOrder, OrderOf, NotStarted, AfterTask, Installing, Watched, HasValues
<1>3. OwnedInv'
  BY DEF KduTypeOK, CallOrder, OrderOf, NotStarted, OwnedInv, MadeBy, Exists, Installing, Release
<1>4. InstanceInv'
  BY DEF KduTypeOK, CallOrder, OrderOf, NotStarted, AfterTask, OwnedInv, MadeBy, InstanceInv,
         OfKdu, Exists, Installing, Release
<1>5. FinalInv'
  BY DEF KduTypeOK, CallOrder, OrderOf, NotStarted, AfterTask, OwnedInv, MadeBy, InstanceInv,
         OfKdu, FinalInv, Succeeded, Alone, Exists, Installing, Release
<1>6. RecordInv'
  BY DEF KduTypeOK, CallOrder, OrderOf, NotStarted, AfterTask, FinalInv, RecordInv, Succeeded, Alone
<1> QED
  BY <1>1, <1>2, <1>3, <1>4, <1>5, <1>6

LEMMA StatusUnreadStep == ASSUME KduInv, NEW c \in Call, StatusUnread(c) PROVE KduInv'
<1> USE CallsAssumption, NoneAssumption DEF KduInv, cluster, tasks, calls, Goto, Ended, StatusUnread
<1>1. KduTypeOK'
  BY DEF KduTypeOK, CallOrder, OrderOf, Created, Status, Release, InstanceInv
<1>2. CallOrder'
  BY DEF KduTypeOK, CallOrder, OrderOf, NotStarted, AfterTask, Installing, Watched, HasValues
<1>3. OwnedInv'
  BY DEF KduTypeOK, CallOrder, OrderOf, NotStarted, OwnedInv, MadeBy, Exists, Installing, Release
<1>4. InstanceInv'
  BY DEF KduTypeOK, CallOrder, OrderOf, NotStarted, AfterTask, OwnedInv, MadeBy, InstanceInv,
         OfKdu, Exists, Installing, Release
<1>5. FinalInv'
  BY DEF KduTypeOK, CallOrder, OrderOf, NotStarted, AfterTask, OwnedInv, MadeBy, InstanceInv,
         OfKdu, FinalInv, Succeeded, Alone, Exists, Installing, Release
<1>6. RecordInv'
  BY DEF KduTypeOK, CallOrder, OrderOf, NotStarted, AfterTask, FinalInv, RecordInv, Succeeded, Alone
<1> QED
  BY <1>1, <1>2, <1>3, <1>4, <1>5, <1>6

LEMMA StatusWrittenStep == ASSUME KduInv, NEW c \in Call, StatusWritten(c) PROVE KduInv'
<1> USE CallsAssumption, NoneAssumption DEF KduInv, cluster, tasks, calls, Goto, Ended,
       StatusWritten
<1>1. KduTypeOK'
  <2>1. [by |-> c, desc |-> seen[c]] \in [by : Call, desc : Status \cup {NONE}]
    BY DEF KduTypeOK
  <2>2. record' \in [Kdu -> [by : Call, desc : Status \cup {NONE}] \cup {NONE}]
    BY <2>1 DEF KduTypeOK
  <2> QED
    BY <2>2 DEF KduTypeOK
<1>2. CallOrder'
  BY DEF KduTypeOK, CallOrder, OrderOf, NotStarted, AfterTask, Installing, Watched, HasValues
<1>3. OwnedInv'
  BY DEF KduTypeOK, CallOrder, OrderOf, NotStarted, OwnedInv, MadeBy, Exists, Installing, Release
<1>4. InstanceInv'
  BY DEF KduTypeOK, CallOrder, OrderOf, NotStarted, AfterTask, OwnedInv, MadeBy, InstanceInv,
         OfKdu, Exists, Installing, Release
<1>5. FinalInv'
  BY DEF KduTypeOK, CallOrder, OrderOf, NotStarted, AfterTask, OwnedInv, MadeBy, InstanceInv,
         OfKdu, FinalInv, Succeeded, Alone, Exists, Installing, Release
<1>6. RecordInv'
  BY DEF KduTypeOK, CallOrder, OrderOf, NotStarted, AfterTask, FinalInv, RecordInv, Succeeded, Alone
<1> QED
  BY <1>1, <1>2, <1>3, <1>4, <1>5, <1>6

LEMMA StatusLostStep == ASSUME KduInv, NEW c \in Call, StatusLost(c) PROVE KduInv'
<1> USE CallsAssumption, NoneAssumption DEF KduInv, cluster, tasks, calls, Goto, Ended, StatusLost
<1>1. KduTypeOK'
  BY DEF KduTypeOK, CallOrder, OrderOf, Created, Status, Release, InstanceInv
<1>2. CallOrder'
  BY DEF KduTypeOK, CallOrder, OrderOf, NotStarted, AfterTask, Installing, Watched, HasValues
<1>3. OwnedInv'
  BY DEF KduTypeOK, CallOrder, OrderOf, NotStarted, OwnedInv, MadeBy, Exists, Installing, Release
<1>4. InstanceInv'
  BY DEF KduTypeOK, CallOrder, OrderOf, NotStarted, AfterTask, OwnedInv, MadeBy, InstanceInv,
         OfKdu, Exists, Installing, Release
<1>5. FinalInv'
  BY DEF KduTypeOK, CallOrder, OrderOf, NotStarted, AfterTask, OwnedInv, MadeBy, InstanceInv,
         OfKdu, FinalInv, Succeeded, Alone, Exists, Installing, Release
<1>6. RecordInv'
  BY DEF KduTypeOK, CallOrder, OrderOf, NotStarted, AfterTask, FinalInv, RecordInv, Succeeded, Alone
<1> QED
  BY <1>1, <1>2, <1>3, <1>4, <1>5, <1>6

LEMMA ExecutedStep == ASSUME KduInv, NEW c \in Call, Executed(c) PROVE KduInv'
<1> USE CallsAssumption, NoneAssumption DEF KduInv, cluster, tasks, calls, Goto, Ended, Executed,
       HelmOver, StatusTaskCancelled
<1>1. KduTypeOK'
  BY DEF KduTypeOK, CallOrder, OrderOf, Created, Status, Release, InstanceInv
<1>2. CallOrder'
  BY DEF KduTypeOK, CallOrder, OrderOf, NotStarted, AfterTask, Installing, Watched, HasValues
<1>3. OwnedInv'
  BY DEF KduTypeOK, CallOrder, OrderOf, NotStarted, OwnedInv, MadeBy, Exists, Installing, Release
<1>4. InstanceInv'
  BY DEF KduTypeOK, CallOrder, OrderOf, NotStarted, AfterTask, OwnedInv, MadeBy, InstanceInv,
         OfKdu, Exists, Installing, Release
<1>5. FinalInv'
  BY DEF KduTypeOK, CallOrder, OrderOf, NotStarted, AfterTask, OwnedInv, MadeBy, InstanceInv,
         OfKdu, FinalInv, Succeeded, Alone, Exists, Installing, Release
<1>6. RecordInv'
  BY DEF KduTypeOK, CallOrder, OrderOf, NotStarted, AfterTask, FinalInv, RecordInv, Succeeded, Alone
<1> QED
  BY <1>1, <1>2, <1>3, <1>4, <1>5, <1>6

LEMMA UninstalledStep == ASSUME KduInv, NEW c \in Call, Uninstalled(c) PROVE KduInv'
<1> USE CallsAssumption, NoneAssumption DEF KduInv, cluster, tasks, calls, Goto, Ended,
       Uninstalled, HelmOver
<1>1. KduTypeOK'
  BY DEF KduTypeOK, CallOrder, OrderOf, Created, Status, Release, InstanceInv
<1>2. CallOrder'
  BY DEF KduTypeOK, CallOrder, OrderOf, NotStarted, AfterTask, Installing, Watched, HasValues
<1>3. OwnedInv'
  BY DEF KduTypeOK, CallOrder, OrderOf, NotStarted, OwnedInv, MadeBy, Exists, Installing, Release
<1>4. InstanceInv'
  BY DEF KduTypeOK, CallOrder, OrderOf, NotStarted, AfterTask, OwnedInv, MadeBy, InstanceInv,
         OfKdu, Exists, Installing, Release
<1>5. FinalInv'
  BY DEF KduTypeOK, CallOrder, OrderOf, NotStarted, AfterTask, OwnedInv, MadeBy, InstanceInv,
         OfKdu, FinalInv, Succeeded, Alone, Exists, Installing, Release
<1>6. RecordInv'
  BY DEF KduTypeOK, CallOrder, OrderOf, NotStarted, AfterTask, FinalInv, RecordInv, Succeeded, Alone
<1> QED
  BY <1>1, <1>2, <1>3, <1>4, <1>5, <1>6

LEMMA FinalReadStep == ASSUME KduInv, NEW c \in Call, FinalRead(c) PROVE KduInv'
<1> USE CallsAssumption, NoneAssumption DEF KduInv, cluster, tasks, calls, Goto, Ended, FinalRead
<1>1. KduTypeOK'
  <2>1. name[c] \in Name
    BY DEF KduTypeOK
  <2>2. releases[name[c]].desc \in Status
    BY <2>1, ReleaseOf
  <2>3. last' \in [Call -> Status \cup {NONE}]
    BY <2>2 DEF KduTypeOK
  <2> QED
    BY <2>3 DEF KduTypeOK
<1>2. CallOrder'
  BY DEF KduTypeOK, CallOrder, OrderOf, NotStarted, AfterTask, Installing, Watched, HasValues
<1>3. OwnedInv'
  BY DEF KduTypeOK, CallOrder, OrderOf, NotStarted, OwnedInv, MadeBy, Exists, Installing, Release
<1>4. InstanceInv'
  BY DEF KduTypeOK, CallOrder, OrderOf, NotStarted, AfterTask, OwnedInv, MadeBy, InstanceInv,
         OfKdu, Exists, Installing, Release
<1>5. FinalInv'
  BY DEF KduTypeOK, CallOrder, OrderOf, NotStarted, AfterTask, OwnedInv, MadeBy, InstanceInv,
         OfKdu, FinalInv, Succeeded, Alone, Exists, Installing, Release
<1>6. RecordInv'
  BY DEF KduTypeOK, CallOrder, OrderOf, NotStarted, AfterTask, FinalInv, RecordInv, Succeeded, Alone
<1> QED
  BY <1>1, <1>2, <1>3, <1>4, <1>5, <1>6

LEMMA FinalWrittenStep == ASSUME KduInv, NEW c \in Call, FinalWritten(c) PROVE KduInv'
<1> USE CallsAssumption, NoneAssumption DEF KduInv, cluster, tasks, calls, Goto, Ended,
       FinalWritten, FinalStatus
<1>1. KduTypeOK'
  <2>1. [by |-> c, desc |-> last[c]] \in [by : Call, desc : Status \cup {NONE}]
    BY DEF KduTypeOK
  <2>2. record' \in [Kdu -> [by : Call, desc : Status \cup {NONE}] \cup {NONE}]
    BY <2>1 DEF KduTypeOK
  <2>4. pc' \in [Call -> {"absent", "idle", "naming", "checking", "executing", "final",
                         "storing", "notifying", "info"} \cup Ended]
    BY DEF KduTypeOK
  <2>5. instance' \in [Kdu -> Name \cup {NONE}]
    BY DEF KduTypeOK
  <2>6. \A d \in Call : pc'[d] \notin {"absent", "idle", "naming"} => name'[d] # NONE
    BY DEF KduTypeOK
  <2>7. stored' \subseteq Call
    BY DEF KduTypeOK
  <2> QED
    BY <2>2, <2>4, <2>5, <2>6, <2>7 DEF KduTypeOK
<1>2. CallOrder'
  BY DEF KduTypeOK, CallOrder, OrderOf, NotStarted, AfterTask, Installing, Watched, HasValues
<1>3. OwnedInv'
  BY DEF KduTypeOK, CallOrder, OrderOf, NotStarted, OwnedInv, MadeBy, Exists, Installing, Release
<1>4. InstanceInv'
  BY DEF KduTypeOK, CallOrder, OrderOf, NotStarted, AfterTask, OwnedInv, MadeBy, InstanceInv,
         OfKdu, Exists, Installing, Release
<1>5. FinalInv'
  BY DEF KduTypeOK, CallOrder, OrderOf, NotStarted, AfterTask, OwnedInv, MadeBy, InstanceInv,
         OfKdu, FinalInv, Succeeded, Alone, Exists, Installing, Release
<1>6. RecordInv'
  <2>1. ASSUME NEW d \in stored', Alone(d)'
        PROVE  /\ record'[KduOf[d]].by = d
               /\ Succeeded(d)' => record'[KduOf[d]].desc = "deployed"
    <3>1. CASE d = c
      <4>1. record'[KduOf[c]] = [by |-> c, desc |-> last[c]]
        BY DEF KduTypeOK
      <4>2. Succeeded(c)' => Succeeded(c)
        BY DEF Succeeded, Alone, KduTypeOK
      <4>3. Succeeded(c) => last[c] = "deployed"
        BY DEF FinalInv
      <4> QED
        BY <3>1, <4>1, <4>2, <4>3
    <3>2. CASE d # c
      <4>1. d \in Call /\ d \in stored /\ KduOf[d] # KduOf[c]
        BY <2>1, <3>2 DEF KduTypeOK, Alone
      <4>2. Alone(d) /\ (Succeeded(d)' => Succeeded(d))
        BY <2>1, <4>1 DEF KduTypeOK, Alone, Succeeded
      <4>3. record'[KduOf[d]] = record[KduOf[d]]
        BY <4>1 DEF KduTypeOK
      <4> QED
        BY <4>1, <4>2, <4>3 DEF RecordInv
    <3> QED
      BY <3>1, <3>2
  <2> QED
    BY <2>1 DEF RecordInv
<1> QED
  BY <1>1, <1>2, <1>3, <1>4, <1>5, <1>6

LEMMA FinalLostStep ==
  ASSUME KduInv, NEW c \in Call, FinalLost(c) \/ FinalNotified(c) PROVE KduInv'
<1> USE CallsAssumption, NoneAssumption DEF KduInv, cluster, tasks, calls, Goto, Ended,
       FinalLost, FinalNotified, Conclude, Outcome
<1>1. KduTypeOK'
  <2>1. pc' \in [Call -> {"absent", "idle", "naming", "checking", "executing", "final",
                         "storing", "notifying", "info"} \cup Ended]
    BY DEF KduTypeOK
  <2>2. instance' \in [Kdu -> Name \cup {NONE}]
    BY DEF KduTypeOK
  <2>3. \A d \in Call : pc'[d] \notin {"absent", "idle", "naming"} => name'[d] # NONE
    BY DEF KduTypeOK
  <2>4. dir' \in {"none", "bare", "config"}
    BY DEF KduTypeOK, Created
  <2> QED
    BY <2>1, <2>2, <2>3, <2>4 DEF KduTypeOK
<1>2. CallOrder'
  BY DEF KduTypeOK, CallOrder, OrderOf, NotStarted, AfterTask, Installing, Watched, HasValues
<1>3. OwnedInv'
  BY DEF KduTypeOK, CallOrder, OrderOf, NotStarted, OwnedInv, MadeBy, Exists, Installing, Release
<1>4. InstanceInv'
  BY DEF KduTypeOK, CallOrder, OrderOf, NotStarted, AfterTask, OwnedInv, MadeBy, InstanceInv,
         OfKdu, Exists, Installing, Release
<1>5. FinalInv'
  BY DEF KduTypeOK, CallOrder, OrderOf, NotStarted, AfterTask, OwnedInv, MadeBy, InstanceInv,
         OfKdu, FinalInv, Succeeded, Alone, Exists, Installing, Release
<1>6. RecordInv'
  BY DEF KduTypeOK, CallOrder, OrderOf, NotStarted, AfterTask, FinalInv, RecordInv, Succeeded, Alone
<1> QED
  BY <1>1, <1>2, <1>3, <1>4, <1>5, <1>6

LEMMA InformedStep == ASSUME KduInv, NEW c \in Call, Informed(c) PROVE KduInv'
<1> USE CallsAssumption, NoneAssumption DEF KduInv, cluster, tasks, calls, Goto, Ended, Informed
<1>1. KduTypeOK'
  BY DEF KduTypeOK, CallOrder, OrderOf, Created, Status, Release, InstanceInv
<1>2. CallOrder'
  BY DEF KduTypeOK, CallOrder, OrderOf, NotStarted, AfterTask, Installing, Watched, HasValues
<1>3. OwnedInv'
  BY DEF KduTypeOK, CallOrder, OrderOf, NotStarted, OwnedInv, MadeBy, Exists, Installing, Release
<1>4. InstanceInv'
  BY DEF KduTypeOK, CallOrder, OrderOf, NotStarted, AfterTask, OwnedInv, MadeBy, InstanceInv,
         OfKdu, Exists, Installing, Release
<1>5. FinalInv'
  BY DEF KduTypeOK, CallOrder, OrderOf, NotStarted, AfterTask, OwnedInv, MadeBy, InstanceInv,
         OfKdu, FinalInv, Succeeded, Alone, Exists, Installing, Release
<1>6. RecordInv'
  BY DEF KduTypeOK, CallOrder, OrderOf, NotStarted, AfterTask, FinalInv, RecordInv, Succeeded, Alone
<1> QED
  BY <1>1, <1>2, <1>3, <1>4, <1>5, <1>6

LEMMA CancelStep == ASSUME KduInv, NEW c \in Call, Cancel(c) PROVE KduInv'
<1> USE CallsAssumption, NoneAssumption DEF KduInv, cluster, tasks, calls, Goto, Ended, Cancel
<1>1. KduTypeOK'
  BY DEF KduTypeOK, CallOrder, OrderOf, Created, Status, Release, InstanceInv
<1>2. CallOrder'
  BY DEF KduTypeOK, CallOrder, OrderOf, NotStarted, AfterTask, Installing, Watched, HasValues
<1>3. OwnedInv'
  BY DEF KduTypeOK, CallOrder, OrderOf, NotStarted, OwnedInv, MadeBy, Exists, Installing, Release
<1>4. InstanceInv'
  BY DEF KduTypeOK, CallOrder, OrderOf, NotStarted, AfterTask, OwnedInv, MadeBy, InstanceInv,
         OfKdu, Exists, Installing, Release
<1>5. FinalInv'
  BY DEF KduTypeOK, CallOrder, OrderOf, NotStarted, AfterTask, OwnedInv, MadeBy, InstanceInv,
         OfKdu, FinalInv, Succeeded, Alone, Exists, Installing, Release
<1>6. RecordInv'
  BY DEF KduTypeOK, CallOrder, OrderOf, NotStarted, AfterTask, FinalInv, RecordInv, Succeeded, Alone
<1> QED
  BY <1>1, <1>2, <1>3, <1>4, <1>5, <1>6

-----------------------------------------------------------------------------
LEMMA KduInitially ==
  ASSUME NEW made \in SUBSET Call, KduInit(made), dir \in {"none", "bare", "config"}
  PROVE  KduInv
<1> USE CallsAssumption, NoneAssumption DEF KduInit
<1>1. KduTypeOK
  BY DEF KduTypeOK
<1>2. CallOrder
  BY DEF CallOrder, OrderOf, NotStarted, AfterTask
<1>3. OwnedInv /\ InstanceInv
  BY DEF OwnedInv, InstanceInv, Exists
<1>4. FinalInv /\ RecordInv
  BY DEF FinalInv, RecordInv, Succeeded
<1> QED
  BY <1>1, <1>2, <1>3, <1>4 DEF KduInv

LEMMA KduNextStep == ASSUME KduInv, KduNext PROVE KduInv'
<1>1. PICK c \in Call : Operation(c) \/ Helm(c) \/ StatusTask(c)
  BY DEF KduNext
<1>2. CASE Operation(c)
  BY <1>1, <1>2, StartInstallStep, StartOperationStep, DrawNameStep, NameTakenStep,
     NameAcceptedStep, ExecutedStep, UninstalledStep, FinalReadStep, FinalWrittenStep,
     FinalLostStep, InformedStep, CancelStep DEF Operation, AfterHelm
<1>3. CASE Helm(c)
  BY <1>1, <1>3, HelmInstallsStep, HelmChangesStep, HelmDeletesStep, HelmRefusesStep,
     HelmEndsStep, HelmFailsStep DEF Helm
<1>4. CASE StatusTask(c)
  BY <1>1, <1>4, StatusReadStep, StatusUnreadStep, StatusWrittenStep, StatusLostStep
     DEF StatusTask
<1> QED
  BY <1>1, <1>2, <1>3, <1>4

\* Calls on KDUs make a directory and take none away.
LEMMA KduKeepsDirectory == ASSUME KduNext PROVE dir' \in {dir, Created(dir)} /\ purged \subseteq purged'
<1>1. PICK c \in Call : Operation(c) \/ Helm(c) \/ StatusTask(c)
  BY DEF KduNext
<1> USE DEF cluster, tasks, calls, Created
<1>2. CASE Operation(c)
  <2>1. ASSUME NEW n \in Name, DrawName(c, n)
        PROVE  dir' \in {dir, Created(dir)} /\ purged \subseteq purged'
    BY <2>1 DEF DrawName
  <2> QED
    BY <1>2, <2>1 DEF Operation, AfterHelm, StartInstall, StartOperation, NameTaken, NameAccepted,
       Executed, Uninstalled, FinalRead, FinalWritten, FinalNotified, FinalLost, Informed, Cancel
<1>3. CASE Helm(c)
  BY <1>3 DEF Helm, HelmStep, HelmInstalls, HelmChanges, HelmDeletes, HelmRefuses, HelmEnds,
     HelmFails
<1>4. CASE StatusTask(c)
  BY <1>4 DEF StatusTask, StatusRead, StatusUnread, StatusWritten, StatusLost
<1> QED
  BY <1>1, <1>2, <1>3, <1>4

LEMMA KduUntouched ==
  ASSUME KduInv, UNCHANGED <<cluster, tasks, calls, record, instance>>,
         dir' \in {"none", "bare", "config"}
  PROVE  KduInv'
BY DEF KduInv, cluster, tasks, calls, KduTypeOK, CallOrder, OrderOf, OwnedInv, MadeBy, InstanceInv,
       OfKdu, FinalInv, RecordInv, Succeeded, Alone, Exists

LEMMA KduPurged == ASSUME KduInv, NEW a \in Admin, NEW n \in Name, PurgeRelease(a, n) PROVE KduInv'
<1> USE CallsAssumption, NoneAssumption DEF KduInv, PurgeRelease, tasks, calls
<1>1. KduTypeOK'
  BY DEF KduTypeOK
<1>2. \A m \in Name : m \notin purged' => releases'[m] = releases[m] /\ m \notin purged
  BY DEF KduTypeOK
<1>3. \A m \in Name : Exists(m)' => Exists(m) /\ releases'[m] = releases[m]
  BY DEF KduTypeOK, Exists
<1>4. \A c \in Call : exec[c] # "none" => name[c] \in Name
  BY DEF KduTypeOK, CallOrder, OrderOf, NotStarted
<1>5. CallOrder'
  BY DEF CallOrder, OrderOf
<1>6. OwnedInv'
  BY <1>2, <1>3, <1>4 DEF OwnedInv, MadeBy, Exists
<1>7. InstanceInv'
  BY <1>2, <1>4 DEF InstanceInv, OfKdu, Exists, KduTypeOK
<1>8. FinalInv'
  BY <1>2, <1>4 DEF FinalInv, Succeeded, Alone, Exists
<1>9. RecordInv'
  BY DEF RecordInv, Succeeded, Alone
<1> QED
  BY <1>1, <1>5, <1>6, <1>7, <1>8, <1>9

-----------------------------------------------------------------------------
(* The administration of the cluster.                                      *)

\* What a reset tried is gone or counted, and it goes on when it tried all.
ResetInv ==
    \A a \in Admin :
        /\ tried[a] \subseteq purged \cup left
        /\ AdminIs(a, "reset", "removing") \/ AdminIs(a, "reset", "returned") =>
              listed[a] \subseteq tried[a]

\* Until a reset returns, init_env's directory is there, and its client.
ReadyInv ==
    (\A a \in Admin : ~AdminIs(a, "reset", "returned")) =>
        \A a \in Admin : AdminKind[a] = "init" /\ apc[a] \notin {"absent", "idle"} =>
            dir = "config" /\ (apc[a] = "returned" => client)

\* r is registered under its name.
On(r) == repos[NameOfRepo[r]] = r
Quiet == \A a \in Admin : apc[a] # "syncing"

\* A synchronisation on its way: what is registered, and what is left to do.
Midway(a) ==
    /\ synced \in SUBSET Repo /\ Unambiguous(synced)
    /\ \A r \in Repo :
          /\ On(r) <=> (r \in added /\ r \notin outcome[a].deleted) \/ r \in outcome[a].added
          /\ r \in todo[a].delete \/ r \in outcome[a].deleted <=> r \in added /\ r \notin synced
          /\ r \notin todo[a].delete \cap outcome[a].deleted
          /\ r \in todo[a].add \/ r \in outcome[a].added <=> r \in synced /\ r \notin added

SyncInv ==
    /\ \A n \in RepoName : repos[n] # NONE => NameOfRepo[repos[n]] = n
    /\ Unambiguous(wanted)
    /\ \A a, b \in Admin : apc[a] = "syncing" /\ apc[b] = "syncing" => a = b
    /\ \A a \in Admin :
          /\ AdminIs(a, "sync", "idle") => outcome[a].deleted = {} /\ outcome[a].added = {}
          /\ apc[a] = "syncing" => AdminKind[a] = "sync"
    /\ ~swallowed =>
          /\ Quiet => \A r \in Repo : /\ On(r) <=> r \in added
                                      /\ synced # NONE => (r \in added <=> r \in synced)
          /\ \A a \in Admin : apc[a] = "syncing" => Midway(a)

AdminInv == AdminTypeOK /\ ResetInv /\ ReadyInv /\ SyncInv
HelmInv == KduInv /\ AdminInv

LEMMA Replaced ==
  ASSUME NEW S, NEW T, NEW f, NEW g, NEW e, NEW t, f \in [S -> T], e \in S, t \in T,
         g = [f EXCEPT ![e] = t]
  PROVE  g \in [S -> T]
OBVIOUS

LEMMA AdminInitially ==
  ASSUME NEW made \in SUBSET Call, NEW administered \in SUBSET Admin, NEW prepared \in BOOLEAN,
         Init(made, administered, prepared)
  PROVE  HelmInv
<1> USE AdminAssumption DEF Init
<1>1. KduInv
  BY KduInitially
<1>2. AdminTypeOK
  <2>1. account \in BOOLEAN /\ client \in BOOLEAN /\ tiller \in BOOLEAN /\ swallowed \in BOOLEAN
    BY Zenon
  <2>2. changes \in 0..Operator
    OBVIOUS
  <2> QED
    BY <2>1, <2>2 DEF AdminTypeOK
<1>3. ResetInv /\ ReadyInv
  BY DEF ResetInv, ReadyInv, AdminIs
<1>4. SyncInv
  BY DEF SyncInv, Unambiguous, AdminIs, On, Quiet
<1> QED
  BY <1>1, <1>2, <1>3, <1>4 DEF AdminInv, HelmInv

\* A step of a call on a KDU.
LEMMA AdminUntouched == ASSUME HelmInv, KduNext, UNCHANGED adminVars PROVE AdminInv'
<1>1. dir' \in {dir, Created(dir)} /\ purged \subseteq purged'
  BY KduKeepsDirectory
<1> USE DEF HelmInv, AdminInv, adminVars, helmSide, resetSide, repoSide
<1>2. AdminTypeOK'
  BY DEF AdminTypeOK
<1>3. ResetInv'
  BY <1>1 DEF ResetInv, AdminIs
<1>4. ReadyInv'
  BY <1>1 DEF ReadyInv, AdminIs, Created
<1>5. SyncInv'
  BY DEF SyncInv, AdminIs, Unambiguous, On, Quiet, Midway
<1> QED
  BY <1>2, <1>3, <1>4, <1>5

LEMMA InitPathsStep == ASSUME HelmInv, NEW a \in Admin, InitPaths(a) PROVE HelmInv'
<1> USE AdminAssumption DEF HelmInv, AdminInv, AdminGoto, AdminIs, helmSide, resetSide, repoSide,
       InitPaths
<1>1. KduInv'
  BY KduUntouched DEF kduVars, KduInv, KduTypeOK
<1>2. AdminTypeOK'
  BY DEF AdminTypeOK, KduInv, KduTypeOK
<1>3. ResetInv'
  BY DEF ResetInv, AdminTypeOK, kduVars, cluster
<1>4. ReadyInv'
  BY DEF ReadyInv, AdminTypeOK, kduVars, Created
<1>5. SyncInv'
  BY DEF SyncInv, AdminTypeOK, Unambiguous, On, Quiet, Midway
<1> QED
  BY <1>1, <1>2, <1>3, <1>4, <1>5 DEF HelmInv, AdminInv

LEMMA FindTillerStep == ASSUME HelmInv, NEW a \in Admin, FindTiller(a) PROVE HelmInv'
<1> USE AdminAssumption DEF HelmInv, AdminInv, AdminGoto, AdminIs, helmSide, resetSide, repoSide,
       FindTiller, ClientNeeded
<1>1. KduInv'
  BY KduUntouched DEF kduVars, KduInv, KduTypeOK
<1>2. AdminTypeOK'
  BY DEF AdminTypeOK, KduInv, KduTypeOK
<1>3. ResetInv'
  BY DEF ResetInv, AdminTypeOK, kduVars, cluster
<1>4. ReadyInv'
  BY DEF ReadyInv, AdminTypeOK, kduVars, Created
<1>5. SyncInv'
  BY DEF SyncInv, AdminTypeOK, Unambiguous, On, Quiet, Midway
<1> QED
  BY <1>1, <1>2, <1>3, <1>4, <1>5 DEF HelmInv, AdminInv

LEMMA CreateAccountStep == ASSUME HelmInv, NEW a \in Admin, CreateAccount(a) PROVE HelmInv'
<1> USE AdminAssumption DEF HelmInv, AdminInv, AdminGoto, AdminIs, helmSide, resetSide, repoSide,
       CreateAccount
<1>1. KduInv'
  BY KduUntouched DEF kduVars, KduInv, KduTypeOK
<1>2. AdminTypeOK'
  BY DEF AdminTypeOK, KduInv, KduTypeOK
<1>3. ResetInv'
  BY DEF ResetInv, AdminTypeOK, kduVars, cluster
<1>4. ReadyInv'
  BY DEF ReadyInv, AdminTypeOK, kduVars, Created
<1>5. SyncInv'
  BY DEF SyncInv, AdminTypeOK, Unambiguous, On, Quiet, Midway
<1> QED
  BY <1>1, <1>2, <1>3, <1>4, <1>5 DEF HelmInv, AdminInv

LEMMA HelmInitStep == ASSUME HelmInv, NEW a \in Admin, HelmInit(a) PROVE HelmInv'
<1> USE AdminAssumption DEF HelmInv, AdminInv, AdminGoto, AdminIs, helmSide, resetSide, repoSide,
       HelmInit
<1>1. KduInv'
  BY KduUntouched DEF kduVars, KduInv, KduTypeOK
<1>2. AdminTypeOK'
  BY DEF AdminTypeOK, KduInv, KduTypeOK
<1>3. ResetInv'
  BY DEF ResetInv, AdminTypeOK, kduVars, cluster
<1>4. ReadyInv'
  BY DEF ReadyInv, AdminTypeOK, kduVars, Created
<1>5. SyncInv'
  BY DEF SyncInv, AdminTypeOK, Unambiguous, On, Quiet, Midway
<1> QED
  BY <1>1, <1>2, <1>3, <1>4, <1>5 DEF HelmInv, AdminInv

LEMMA ResetPathsStep == ASSUME HelmInv, NEW a \in Admin, ResetPaths(a) PROVE HelmInv'
<1> USE AdminAssumption DEF HelmInv, AdminInv, AdminGoto, AdminIs, helmSide, resetSide, repoSide,
       ResetPaths
<1>1. KduInv'
  BY KduUntouched DEF kduVars, KduInv, KduTypeOK
<1>2. AdminTypeOK'
  BY DEF AdminTypeOK, KduInv, KduTypeOK
<1>3. ResetInv'
  BY DEF ResetInv, AdminTypeOK, kduVars, cluster
<1>4. ReadyInv'
  BY DEF ReadyInv, AdminTypeOK, kduVars, Created
<1>5. SyncInv'
  BY DEF SyncInv, AdminTypeOK, Unambiguous, On, Quiet, Midway
<1> QED
  BY <1>1, <1>2, <1>3, <1>4, <1>5 DEF HelmInv, AdminInv

LEMMA ListReleasesStep == ASSUME HelmInv, NEW a \in Admin, ListReleases(a) PROVE HelmInv'
<1> USE AdminAssumption DEF HelmInv, AdminInv, AdminGoto, AdminIs, helmSide, resetSide, repoSide,
       ListReleases
<1>1. KduInv'
  BY KduUntouched DEF kduVars, KduInv, KduTypeOK
<1>2. AdminTypeOK'
  BY DEF AdminTypeOK, KduInv, KduTypeOK
<1>3. ResetInv'
  BY DEF ResetInv, AdminTypeOK, kduVars, cluster
<1>4. ReadyInv'
  BY DEF ReadyInv, AdminTypeOK, kduVars, Created
<1>5. SyncInv'
  BY DEF SyncInv, AdminTypeOK, Unambiguous, On, Quiet, Midway
<1> QED
  BY <1>1, <1>2, <1>3, <1>4, <1>5 DEF HelmInv, AdminInv

LEMMA PurgeFailsStep == ASSUME HelmInv, NEW a \in Admin, NEW n \in Name, PurgeFails(a, n) PROVE HelmInv'
<1> USE AdminAssumption DEF HelmInv, AdminInv, AdminGoto, AdminIs, helmSide, resetSide, repoSide,
       PurgeFails
<1>1. KduInv'
  BY KduUntouched DEF kduVars, KduInv, KduTypeOK
<1>2. AdminTypeOK'
  BY DEF AdminTypeOK, KduInv, KduTypeOK
<1>3. ResetInv'
  BY DEF ResetInv, AdminTypeOK, kduVars, cluster
<1>4. ReadyInv'
  BY DEF ReadyInv, AdminTypeOK, kduVars, Created
<1>5. SyncInv'
  BY DEF SyncInv, AdminTypeOK, Unambiguous, On, Quiet, Midway
<1> QED
  BY <1>1, <1>2, <1>3, <1>4, <1>5 DEF HelmInv, AdminInv

LEMMA RemoveSoftwareStep == ASSUME HelmInv, NEW a \in Admin, RemoveSoftware(a) PROVE HelmInv'
<1> USE AdminAssumption DEF HelmInv, AdminInv, AdminGoto, AdminIs, helmSide, resetSide, repoSide,
       RemoveSoftware, AllTried
<1>1. KduInv'
  BY KduUntouched DEF kduVars, KduInv, KduTypeOK
<1>2. AdminTypeOK'
  BY DEF AdminTypeOK, KduInv, KduTypeOK
<1>3. ResetInv'
  BY DEF ResetInv, AdminTypeOK, kduVars, cluster
<1>4. ReadyInv'
  BY DEF ReadyInv, AdminTypeOK, kduVars, Created
<1>5. SyncInv'
  BY DEF SyncInv, AdminTypeOK, Unambiguous, On, Quiet, Midway
<1> QED
  BY <1>1, <1>2, <1>3, <1>4, <1>5 DEF HelmInv, AdminInv

LEMMA AdminFailsStep == ASSUME HelmInv, NEW a \in Admin, AdminFails(a) PROVE HelmInv'
<1> USE AdminAssumption DEF HelmInv, AdminInv, AdminGoto, AdminIs, helmSide, resetSide, repoSide,
       AdminFails, AllTried
<1>1. KduInv'
  BY KduUntouched DEF kduVars, KduInv, KduTypeOK
<1>2. AdminTypeOK'
  BY DEF AdminTypeOK, KduInv, KduTypeOK
<1>3. ResetInv'
  BY DEF ResetInv, AdminTypeOK, kduVars, cluster
<1>4. ReadyInv'
  BY DEF ReadyInv, AdminTypeOK, kduVars, Created
<1>5. SyncInv'
  BY DEF SyncInv, AdminTypeOK, Unambiguous, On, Quiet, Midway
<1> QED
  BY <1>1, <1>2, <1>3, <1>4, <1>5 DEF HelmInv, AdminInv

LEMMA PurgeReleaseStep == ASSUME HelmInv, NEW a \in Admin, NEW n \in Name, PurgeRelease(a, n) PROVE HelmInv'
<1> USE AdminAssumption DEF HelmInv, AdminInv, AdminGoto, AdminIs, helmSide, resetSide, repoSide,
       PurgeRelease
<1>1. KduInv'
  BY KduPurged
<1>2. AdminTypeOK'
  BY DEF AdminTypeOK, KduInv, KduTypeOK
<1>3. ResetInv'
  BY DEF ResetInv, AdminTypeOK, kduVars, cluster
<1>4. ReadyInv'
  BY DEF ReadyInv, AdminTypeOK, kduVars, Created
<1>5. SyncInv'
  BY DEF SyncInv, AdminTypeOK, Unambiguous, On, Quiet, Midway
<1> QED
  BY <1>1, <1>2, <1>3, <1>4, <1>5 DEF HelmInv, AdminInv

LEMMA RemoveDirectoryStep == ASSUME HelmInv, NEW a \in Admin, RemoveDirectory(a) PROVE HelmInv'
<1> USE AdminAssumption DEF HelmInv, AdminInv, AdminGoto, AdminIs, helmSide, resetSide, repoSide,
       RemoveDirectory, AllTried
<1>1. KduInv'
  BY KduUntouched DEF kduVars, KduInv, KduTypeOK
<1>2. AdminTypeOK'
  BY DEF AdminTypeOK, KduInv, KduTypeOK
<1>3. ResetInv'
  BY DEF ResetInv, AdminTypeOK, kduVars, cluster
<1>4. ReadyInv'
  BY DEF ReadyInv, AdminTypeOK, kduVars, Created
<1>5. SyncInv'
  BY DEF SyncInv, AdminTypeOK, Unambiguous, On, Quiet, Midway
<1> QED
  BY <1>1, <1>2, <1>3, <1>4, <1>5 DEF HelmInv, AdminInv

LEMMA SyncBeginsStep == ASSUME HelmInv, NEW a \in Admin, SyncBegins(a) PROVE HelmInv'
<1> USE AdminAssumption DEF HelmInv, AdminInv, AdminGoto, AdminIs, helmSide, resetSide, repoSide,
       SyncBegins
<1>1. KduInv'
  BY KduUntouched DEF kduVars, KduInv, KduTypeOK
<1>2. AdminTypeOK'
  BY DEF AdminTypeOK, KduInv, KduTypeOK
<1>3. ResetInv'
  BY DEF ResetInv, AdminTypeOK, kduVars, cluster
<1>4. ReadyInv'
  BY DEF ReadyInv, AdminTypeOK, kduVars, Created
<1>5. SyncInv'
  BY DEF SyncInv, AdminTypeOK, Unambiguous, On, Quiet, Midway
<1> QED
  BY <1>1, <1>2, <1>3, <1>4, <1>5 DEF HelmInv, AdminInv

LEMMA DeleteRepoStep == ASSUME HelmInv, NEW a \in Admin, NEW r \in Repo, DeleteRepo(a, r) PROVE HelmInv'
<1> USE AdminAssumption DEF HelmInv, AdminInv, AdminGoto, AdminIs, helmSide, resetSide, repoSide,
       DeleteRepo
<1>1. KduInv'
  BY KduUntouched DEF KduInv, KduTypeOK, Created
<1>6. /\ todo' = [todo EXCEPT ![a] = [todo[a] EXCEPT !.delete = @ \ {r}]]
      /\ todo'[a].delete = todo[a].delete \ {r} /\ todo'[a].add = todo[a].add
      /\ \A b \in Admin \ {a} : todo'[b] = todo[b] /\ outcome'[b] = outcome[b]
  BY DEF AdminTypeOK
<1>7. /\ outcome' \in [Admin -> [deleted : SUBSET Repo, added : SUBSET Repo]]
      /\ outcome'[a].added = outcome[a].added
      /\ outcome'[a].deleted = outcome[a].deleted \cup {r} \/ (swallowed' /\ outcome' = outcome)
  BY DEF AdminTypeOK
<1>2. AdminTypeOK'
  <2>1. [todo[a] EXCEPT !.delete = @ \ {r}] \in [delete : SUBSET Repo, add : SUBSET Repo]
    BY DEF AdminTypeOK
  <2>2. todo' \in [Admin -> [delete : SUBSET Repo, add : SUBSET Repo]]
    <3>1. todo \in [Admin -> [delete : SUBSET Repo, add : SUBSET Repo]] /\ a \in Admin
      BY DEF AdminTypeOK
    <3> QED
      BY ONLY <1>6, <2>1, <3>1, Replaced, Zenon
  <2>3. repos' \in [RepoName -> Repo \cup {NONE}] /\ swallowed' \in BOOLEAN
    BY DEF AdminTypeOK
  <2> QED
    BY <1>7, <2>2, <2>3 DEF AdminTypeOK
<1>3. ResetInv'
  BY DEF ResetInv, AdminTypeOK, kduVars, cluster
<1>4. ReadyInv'
  BY DEF ReadyInv, AdminTypeOK, kduVars, Created
<1>5. SyncInv'
  <2>1. UNCHANGED <<catalog, wanted, added, synced, apc>> /\ ~Quiet
    BY DEF Quiet
  <2>2. \A n \in RepoName : repos'[n] # NONE => NameOfRepo[repos'[n]] = n
    BY DEF AdminTypeOK, SyncInv
  <2>3. \A b \in Admin : apc[b] = "syncing" => b = a
    BY DEF SyncInv
  <2>4. \A b \in Admin : AdminIs(b, "sync", "idle") => b # a
    OBVIOUS
  <2>5. ASSUME ~swallowed' PROVE Midway(a)'
    <3>1. ~swallowed /\ Midway(a)
      BY <2>5 DEF AdminTypeOK, SyncInv
    <3>2. repos' = [repos EXCEPT ![NameOfRepo[r]] = NONE]
      BY <2>5
    <3>3. On(r)
      BY <3>1 DEF Midway
    <3>4. ASSUME NEW s \in Repo PROVE On(s)' <=> On(s) /\ s # r
      <4>1. CASE s = r
        BY <4>1, <3>2 DEF On, AdminTypeOK
      <4>2. CASE s # r /\ NameOfRepo[s] = NameOfRepo[r]
        BY <4>2, <3>2, <3>3 DEF On, AdminTypeOK
      <4>3. CASE NameOfRepo[s] # NameOfRepo[r]
        BY <4>3, <3>2 DEF On, AdminTypeOK
      <4> QED
        BY <4>1, <4>2, <4>3
    <3> QED
      BY <1>6, <1>7, <2>1, <2>5, <3>1, <3>2, <3>4 DEF Midway, Unambiguous
  <2> QED
    BY <1>6, <1>7, <2>1, <2>2, <2>3, <2>4, <2>5 DEF SyncInv, Unambiguous, Quiet
<1> QED
  BY <1>1, <1>2, <1>3, <1>4, <1>5 DEF HelmInv, AdminInv

LEMMA AddRepoStep == ASSUME HelmInv, NEW a \in Admin, NEW r \in Repo, AddRepo(a, r) PROVE HelmInv'
<1> USE AdminAssumption DEF HelmInv, AdminInv, AdminGoto, AdminIs, helmSide, resetSide, repoSide,
       AddRepo, MayAdd
<1>1. KduInv'
  BY KduUntouched DEF KduInv, KduTypeOK, Created
<1>6. /\ todo' = [todo EXCEPT ![a] = [todo[a] EXCEPT !.add = @ \ {r}]]
      /\ todo'[a].add = todo[a].add \ {r} /\ todo'[a].delete = todo[a].delete
      /\ \A b \in Admin \ {a} : todo'[b] = todo[b] /\ outcome'[b] = outcome[b]
  BY DEF AdminTypeOK
<1>7. /\ outcome' \in [Admin -> [deleted : SUBSET Repo, added : SUBSET Repo]]
      /\ outcome'[a].deleted = outcome[a].deleted
      /\ outcome'[a].added = outcome[a].added \cup {r} \/ (swallowed' /\ outcome' = outcome)
  <2>1. CASE outcome' = [outcome EXCEPT ![a].added = @ \cup {r}]
    <3>1. [outcome[a] EXCEPT !.added = @ \cup {r}] \in [deleted : SUBSET Repo, added : SUBSET Repo]
      BY DEF AdminTypeOK
    <3>2. outcome' = [outcome EXCEPT ![a] = [outcome[a] EXCEPT !.added = @ \cup {r}]]
      BY <2>1 DEF AdminTypeOK
    <3>3. outcome \in [Admin -> [deleted : SUBSET Repo, added : SUBSET Repo]] /\ a \in Admin
      BY DEF AdminTypeOK
    <3>4. outcome' \in [Admin -> [deleted : SUBSET Repo, added : SUBSET Repo]]
      BY ONLY <3>1, <3>2, <3>3, Replaced, Zenon
    <3>5. /\ outcome'[a].deleted = outcome[a].deleted
          /\ outcome'[a].added = outcome[a].added \cup {r}
      BY <3>1, <3>2, <3>3
    <3> QED
      BY <3>4, <3>5
  <2>2. CASE swallowed' = TRUE /\ outcome' = outcome
    BY <2>2 DEF AdminTypeOK
  <2> QED
    BY <2>1, <2>2
<1>2. AdminTypeOK'
  <2>1. [todo[a] EXCEPT !.add = @ \ {r}] \in [delete : SUBSET Repo, add : SUBSET Repo]
    BY DEF AdminTypeOK
  <2>2. todo' \in [Admin -> [delete : SUBSET Repo, add : SUBSET Repo]]
    <3>1. todo \in [Admin -> [delete : SUBSET Repo, add : SUBSET Repo]] /\ a \in Admin
      BY DEF AdminTypeOK
    <3> QED
      BY ONLY <1>6, <2>1, <3>1, Replaced, Zenon
  <2>3. repos' \in [RepoName -> Repo \cup {NONE}] /\ swallowed' \in BOOLEAN
    BY DEF AdminTypeOK
  <2> QED
    BY <1>7, <2>2, <2>3 DEF AdminTypeOK
<1>3. ResetInv'
  BY DEF ResetInv, AdminTypeOK, kduVars, cluster
<1>4. ReadyInv'
  BY DEF ReadyInv, AdminTypeOK, kduVars, Created
<1>5. SyncInv'
  <2>1. UNCHANGED <<catalog, wanted, added, synced, apc>> /\ ~Quiet
    BY DEF Quiet
  <2>2. \A n \in RepoName : repos'[n] # NONE => NameOfRepo[repos'[n]] = n
    BY DEF AdminTypeOK, SyncInv
  <2>3. \A b \in Admin : apc[b] = "syncing" => b = a
    BY DEF SyncInv
  <2>4. \A b \in Admin : AdminIs(b, "sync", "idle") => b # a
    OBVIOUS
  <2>5. ASSUME ~swallowed' PROVE Midway(a)'
    <3>1. ~swallowed /\ Midway(a)
      BY <2>5 DEF AdminTypeOK, SyncInv
    <3>2. repos' = [repos EXCEPT ![NameOfRepo[r]] = r] /\ r \in outcome'[a].added
      BY <2>5 DEF AdminTypeOK
    <3>3. \A s \in Repo : On(s) /\ NameOfRepo[s] = NameOfRepo[r] => s = r
      <4>1. \A s \in Repo : On(s) => s \in synced
        BY <3>1 DEF Midway
      <4> QED
        BY <3>1, <4>1 DEF Midway, Unambiguous
    <3>4. ASSUME NEW s \in Repo PROVE On(s)' <=> On(s) \/ s = r
      <4>1. CASE s = r
        BY <4>1, <3>2 DEF On, AdminTypeOK
      <4>2. CASE s # r /\ NameOfRepo[s] = NameOfRepo[r]
        BY <4>2, <3>2, <3>3 DEF On, AdminTypeOK
      <4>3. CASE NameOfRepo[s] # NameOfRepo[r]
        BY <4>3, <3>2 DEF On, AdminTypeOK
      <4> QED
        BY <4>1, <4>2, <4>3
    <3> QED
      BY <1>6, <1>7, <2>1, <2>5, <3>1, <3>2, <3>4 DEF Midway, Unambiguous
  <2> QED
    BY <1>6, <1>7, <2>1, <2>2, <2>3, <2>4, <2>5 DEF SyncInv, Unambiguous, Quiet
<1> QED
  BY <1>1, <1>2, <1>3, <1>4, <1>5 DEF HelmInv, AdminInv

LEMMA SyncRaisesStep == ASSUME HelmInv, NEW a \in Admin, SyncRaises(a) PROVE HelmInv'
<1> USE AdminAssumption DEF HelmInv, AdminInv, AdminGoto, AdminIs, helmSide, resetSide, repoSide,
       SyncRaises, MayAdd
<1>1. KduInv'
  BY KduUntouched DEF kduVars, KduInv, KduTypeOK
<1>2. AdminTypeOK'
  BY DEF AdminTypeOK, KduInv, KduTypeOK
<1>3. ResetInv'
  BY DEF ResetInv, AdminTypeOK, kduVars, cluster
<1>4. ReadyInv'
  BY DEF ReadyInv, AdminTypeOK, kduVars, Created
<1>5. SyncInv'
  BY DEF SyncInv, AdminTypeOK, Unambiguous, On, Quiet, Midway
<1> QED
  BY <1>1, <1>2, <1>3, <1>4, <1>5 DEF HelmInv, AdminInv

LEMMA SyncReturnsStep == ASSUME HelmInv, NEW a \in Admin, SyncReturns(a) PROVE HelmInv'
<1> USE AdminAssumption DEF HelmInv, AdminInv, AdminGoto, AdminIs, helmSide, resetSide, repoSide,
       SyncReturns
<1>1. KduInv'
  BY KduUntouched DEF kduVars, KduInv, KduTypeOK
<1>2. AdminTypeOK'
  BY DEF AdminTypeOK, KduInv, KduTypeOK
<1>3. ResetInv'
  BY DEF ResetInv, AdminTypeOK, kduVars, cluster
<1>4. ReadyInv'
  BY DEF ReadyInv, AdminTypeOK, kduVars, Created
<1>5. SyncInv'
  BY DEF SyncInv, AdminTypeOK, Unambiguous, On, Quiet, Midway
<1> QED
  BY <1>1, <1>2, <1>3, <1>4, <1>5 DEF HelmInv, AdminInv

LEMMA ChangeListsStep == ASSUME HelmInv, ChangeLists PROVE HelmInv'
<1> USE AdminAssumption DEF HelmInv, AdminInv, AdminGoto, AdminIs, helmSide, resetSide, repoSide,
       ChangeLists
<1>1. KduInv'
  BY KduUntouched DEF kduVars, KduInv, KduTypeOK
<1>2. AdminTypeOK'
  BY DEF AdminTypeOK, KduInv, KduTypeOK
<1>3. ResetInv'
  BY DEF ResetInv, AdminTypeOK, kduVars, cluster
<1>4. ReadyInv'
  BY DEF ReadyInv, AdminTypeOK, kduVars, Created
<1>5. SyncInv'
  BY DEF SyncInv, AdminTypeOK, Unambiguous, On, Quiet, Midway
<1> QED
  BY <1>1, <1>2, <1>3, <1>4, <1>5 DEF HelmInv, AdminInv

LEMMA HelmStepInv == HelmInv /\ [Next]_vars => HelmInv'
<1> SUFFICES ASSUME HelmInv, [Next]_vars PROVE HelmInv'
  OBVIOUS
<1>1. CASE UNCHANGED vars
  <2>1. KduInv'
    BY <1>1, KduUntouched DEF vars, kduVars, HelmInv, KduInv, KduTypeOK
  <2>2. AdminTypeOK' /\ ResetInv' /\ ReadyInv'
    BY <1>1 DEF vars, kduVars, adminVars, helmSide, resetSide, repoSide, cluster, HelmInv, AdminInv,
       AdminTypeOK, ResetInv, ReadyInv, AdminIs
  <2>3. SyncInv'
    BY <1>1 DEF vars, adminVars, repoSide, HelmInv, AdminInv, SyncInv, AdminIs, Unambiguous, On,
       Quiet, Midway
  <2> QED
    BY <2>1, <2>2, <2>3 DEF HelmInv, AdminInv
<1>2. CASE KduNext /\ UNCHANGED adminVars
  BY <1>2, KduNextStep, AdminUntouched DEF HelmInv
<1>3. CASE ChangeLists
  BY <1>3, ChangeListsStep
<1>4. ASSUME NEW a \in Admin, AdminStep(a) PROVE HelmInv'
  <2>1. CASE InitEnv(a)
    BY <2>1, InitPathsStep, FindTillerStep, CreateAccountStep, HelmInitStep DEF InitEnv
  <2>2. CASE Reset(a)
    BY <2>2, ResetPathsStep, ListReleasesStep, PurgeReleaseStep, PurgeFailsStep,
       RemoveSoftwareStep, RemoveDirectoryStep DEF Reset
  <2>3. CASE SynchronizeRepos(a)
    BY <2>3, SyncBeginsStep, SyncRaisesStep, SyncReturnsStep, DeleteRepoStep, AddRepoStep
       DEF SynchronizeRepos
  <2> QED
    BY <1>4, <2>1, <2>2, <2>3, AdminFailsStep DEF AdminStep
<1> QED
  BY <1>1, <1>2, <1>3, <1>4 DEF Next

-----------------------------------------------------------------------------
THEOREM HelmInvariant == Spec => []HelmInv
<1>1. (\E made \in SUBSET Call, administered \in SUBSET Admin, prepared \in BOOLEAN :
          Init(made, administered, prepared)) => HelmInv
  BY AdminInitially
<1> QED
  BY <1>1, HelmStepInv, PTL DEF Spec

\* Type correctness of the cluster, its calls and its repositories.
THEOREM HelmTypes == Spec => []TypeOK
<1>1. HelmInv => TypeOK
  BY DEF HelmInv, KduInv, AdminInv, TypeOK
<1> QED
  BY <1>1, HelmInvariant, PTL

\* A call on a KDU that ended and was not cancelled left no status task, no
\* helm process and no values file (k8s_helm_conn.py:479-495).
THEOREM CleanedUp == Spec => []NothingLeftBehind
<1>1. HelmInv => NothingLeftBehind
  BY DEF HelmInv, KduInv, CallOrder, OrderOf, AfterTask, NothingLeftBehind
<1> QED
  BY <1>1, HelmInvariant, PTL

\* Two installs never return one release, whatever names they draw
\* (k8s_helm_conn.py:426-440).
THEOREM InstallsReturned == Spec => []ReturnedIsInstalled
<1>1. HelmInv => ReturnedIsInstalled
  BY DEF HelmInv, KduInv, CallOrder, OrderOf, OwnedInv, MadeBy, ReturnedIsInstalled
<1> QED
  BY <1>1, HelmInvariant, PTL

\* The final status of a call stays in the database and is that of helm
\* (k8s_helm_conn.py:479-505, 1129-1165).
THEOREM FinalStatusKept == Spec => []FinalStatusStands
<1>1. HelmInv => FinalStatusStands
  <2> SUFFICES ASSUME HelmInv, NEW c \in stored, Alone(c), name[c] \notin purged
               PROVE  /\ record[KduOf[c]].by = c
                      /\ exec[c] = "ok" => record[KduOf[c]].desc = "deployed"
    BY DEF FinalStatusStands, Alone
  <2>1. c \in Call
    BY DEF HelmInv, KduInv, KduTypeOK
  <2>2. KindOf[c] # "uninstall"
    BY <2>1 DEF HelmInv, KduInv, CallOrder, OrderOf
  <2> QED
    BY <2>1, <2>2 DEF HelmInv, KduInv, RecordInv, Succeeded
<1> QED
  BY <1>1, HelmInvariant, PTL

\* A synchronisation leaves the repositories it was asked for, for any lists
\* and names (k8s_helm_conn.py:921-999).
THEOREM Synchronized == Spec => []SyncedAsWanted
<1>1. HelmInv => SyncedAsWanted
  <2> SUFFICES ASSUME HelmInv, synced # NONE, ~swallowed, Quiet PROVE Installed = synced
    BY DEF SyncedAsWanted, Quiet
  <2>1. synced \subseteq Repo /\ Installed \subseteq Repo
    BY DEF HelmInv, AdminInv, AdminTypeOK, Installed
  <2>2. ASSUME NEW r \in Repo PROVE r \in Installed <=> On(r)
    BY <2>2, AdminAssumption DEF HelmInv, AdminInv, AdminTypeOK, SyncInv, Installed, On
  <2>3. ASSUME NEW r \in Repo PROVE On(r) <=> r \in synced
    BY <2>3 DEF HelmInv, AdminInv, SyncInv
  <2> QED
    BY <2>1, <2>2, <2>3
<1> QED
  BY <1>1, HelmInvariant, PTL

\* A reset that returned deleted what it listed, or counted a failure
\* (k8s_helm_conn.py:292-377).
THEOREM AllListedTaken == Spec => []ResetTakesAllListed
<1>1. HelmInv => ResetTakesAllListed
  BY DEF HelmInv, AdminInv, ResetInv, AdminIs, ResetTakesAllListed
<1> QED
  BY <1>1, HelmInvariant, PTL

\* init_env returns with a client that can work (k8s_helm_conn.py:136-200).
THEOREM Ready == Spec => []InitializedIsReady
<1>1. HelmInv => InitializedIsReady
  BY DEF HelmInv, AdminInv, ReadyInv, AdminIs, InitializedIsReady
<1> QED
  BY <1>1, HelmInvariant, PTL

-----------------------------------------------------------------------------
(* The refinement: a release and its install, and an uninstall that worked. *)

MakerInv ==
    /\ \A n \in Name : Exists(n) =>
          LET d == releases[n].owner
          IN  Installing(d) /\ name[d] = n /\ exec[d] \in {"working", "ok", "failed"}
    /\ \A c \in Call : KindOf[c] = "uninstall" =>
          exec[c] # "working" /\ (exec[c] = "ok" => name[c] \in purged)

\* Before helm runs, nothing is known of a call.
LEMMA MakerBefore ==
  ASSUME KduInv, MakerInv, UNCHANGED releases, purged \subseteq purged',
         \A d \in Call : IF exec[d] = "none" THEN exec'[d] \in {"none", "started"}
                         ELSE exec'[d] = exec[d] /\ name'[d] = name[d]
  PROVE  MakerInv'
<1>1. ASSUME NEW n \in Name, Exists(n)' PROVE Exists(n) /\ releases[n].owner \in Call
  BY <1>1, ReleaseOf DEF KduInv, Exists
<1> QED
  BY <1>1 DEF MakerInv, Installing, Exists

\* A step of helm makes, keeps or drops the release of its name.
LEMMA MakerHelm ==
  ASSUME KduInv, MakerInv, NEW c \in Call, NEW label \in {"working", "ok", "failed"},
         NEW release \in Release \cup {NONE}, HelmStep(c, label, release),
         exec[c] # "none", purged \subseteq purged', purged' \subseteq Name,
         release # NONE => \/ Exists(name[c]) /\ release.owner = releases[name[c]].owner
                           \/ Installing(c) /\ release.owner = c,
         KindOf[c] = "uninstall" => label # "working" /\ (label = "ok" => name[c] \in purged')
  PROVE  MakerInv'
<1>1. /\ name[c] \in Name
      /\ \A n \in Name : releases'[n] = IF n = name[c] THEN release ELSE releases[n]
      /\ \A d \in Call : exec'[d] = IF d = c THEN label ELSE exec[d]
      /\ UNCHANGED name
  BY HelmChangesOne DEF KduInv, calls
<1>2. ASSUME NEW n \in Name, Exists(n)'
      PROVE  LET d == releases'[n].owner
             IN  Installing(d) /\ name'[d] = n /\ exec'[d] \in {"working", "ok", "failed"}
  <2>1. CASE n = name[c] /\ Installing(c) /\ release.owner = c
    BY <1>1, <2>1
  <2>2. CASE Exists(n) /\ releases'[n].owner = releases[n].owner
    <3>1. releases[n].owner \in Call
      BY <2>2, ReleaseOf DEF KduInv
    <3> QED
      BY <1>1, <2>2, <3>1 DEF MakerInv
  <2>3. n # name[c] => releases'[n] = releases[n]
    BY <1>1
  <2>4. n = name[c] => releases'[n] = release /\ release # NONE
    BY <1>1, <1>2 DEF Exists
  <2> QED
    BY <1>2, <2>1, <2>2, <2>3, <2>4 DEF Exists
<1>3. ASSUME NEW d \in Call, KindOf[d] = "uninstall"
      PROVE  exec'[d] # "working" /\ (exec'[d] = "ok" => name'[d] \in purged')
  BY <1>1, <1>3 DEF MakerInv
<1> QED
  BY <1>2, <1>3 DEF MakerInv, Installing

LEMMA MakerHelmSteps == ASSUME KduInv, MakerInv, NEW c \in Call, Helm(c) PROVE MakerInv'
<1> USE CallsAssumption, NoneAssumption
<1>1. exec[c] # "none" => name[c] \in Name
  BY DEF KduInv, KduTypeOK, CallOrder, OrderOf, NotStarted
<1>2. /\ purged \subseteq Name
      /\ name[c] \in Name => releases[name[c]] \in Release \cup {NONE}
  BY DEF KduInv, KduTypeOK
<1>3. CASE HelmInstalls(c)
  <2> DEFINE release == [owner |-> c, by |-> c, desc |-> "pending"]
  <2>1. release \in Release /\ release.owner = c
    BY DEF Release, Status
  <2>2. /\ HelmStep(c, "working", release) /\ exec[c] # "none" /\ Installing(c)
        /\ KindOf[c] # "uninstall" /\ purged' = purged
    BY <1>3 DEF HelmInstalls, Installing
  <2> HIDE DEF release
  <2> QED
    BY <1>2, <2>1, <2>2, MakerHelm
<1>4. CASE HelmChanges(c)
  <2> DEFINE release == [releases[name[c]] EXCEPT !.by = c, !.desc = "pending"]
  <2>1. /\ HelmStep(c, "working", release) /\ exec[c] # "none" /\ Exists(name[c])
        /\ KindOf[c] # "uninstall" /\ purged' = purged
    BY <1>4 DEF HelmChanges
  <2>2. release \in Release /\ release.owner = releases[name[c]].owner
    <3>1. releases[name[c]] \in Release
      BY <1>1, <2>1, ReleaseOf DEF KduInv
    <3> QED
      BY <3>1 DEF Release, Status
  <2> HIDE DEF release
  <2> QED
    BY <1>2, <2>1, <2>2, MakerHelm
<1>5. CASE HelmDeletes(c)
  BY <1>1, <1>2, <1>5, MakerHelm DEF HelmDeletes
<1>6. CASE HelmRefuses(c)
  <2> DEFINE release == releases[name[c]]
  <2>1. HelmStep(c, "failed", release) /\ exec[c] # "none" /\ purged' = purged
    BY <1>6 DEF HelmRefuses
  <2>2. release \in Release \cup {NONE} /\ (release # NONE => Exists(name[c]))
    BY <1>1, <1>2, <2>1 DEF Exists
  <2> QED
    BY <1>2, <2>1, <2>2, MakerHelm
<1>7. CASE HelmEnds(c)
  <2> DEFINE release == [releases[name[c]] EXCEPT !.desc = "deployed"]
  <2>1. /\ HelmStep(c, "ok", release) /\ exec[c] = "working" /\ Exists(name[c])
        /\ purged' = purged
    BY <1>7 DEF HelmEnds, Worked
  <2>2. release \in Release /\ release.owner = releases[name[c]].owner
    <3>1. releases[name[c]] \in Release
      BY <1>1, <2>1, ReleaseOf DEF KduInv
    <3> QED
      BY <3>1 DEF Release, Status
  <2>3. KindOf[c] # "uninstall"
    BY <2>1 DEF MakerInv
  <2> HIDE DEF release
  <2> QED
    BY <1>2, <2>1, <2>2, <2>3, MakerHelm
<1>8. CASE HelmFails(c)
  <2> DEFINE release == IF Worked(c) THEN Undone(c) ELSE releases[name[c]]
  <2>1. HelmStep(c, "failed", release) /\ exec[c] # "none" /\ purged' = purged
    BY <1>8 DEF HelmFails
  <2>2. /\ release \in Release \cup {NONE}
        /\ release # NONE => Exists(name[c]) /\ release.owner = releases[name[c]].owner
    <3>1. CASE ~Worked(c)
      BY <1>1, <1>2, <2>1, <3>1 DEF Exists
    <3>2. CASE Worked(c)
      <4>1. releases[name[c]] \in Release /\ Exists(name[c])
        BY <1>1, <2>1, <3>2, ReleaseOf DEF KduInv, Worked
      <4>2. \/ Undone(c) = NONE
            \/ \E s \in Status : Undone(c) = [releases[name[c]] EXCEPT !.desc = s]
        BY DEF Undone, Status
      <4> QED
        BY <3>2, <4>1, <4>2 DEF Release
    <3> QED
      BY <3>1, <3>2
  <2> HIDE DEF release
  <2> QED
    BY <1>2, <2>1, <2>2, MakerHelm
<1> QED
  BY <1>3, <1>4, <1>5, <1>6, <1>7, <1>8 DEF Helm

\* A step that works on something else, or only moves its call.
LEMMA MakerSame ==
  ASSUME KduInv, MakerInv, UNCHANGED <<releases, exec, name>>, purged \subseteq purged'
  PROVE  MakerInv'
BY MakerBefore

LEMMA MakerStep ==
  ASSUME KduInv, MakerInv, KduNext
  PROVE  MakerInv'
<1>1. PICK c \in Call : Operation(c) \/ Helm(c) \/ StatusTask(c)
  BY DEF KduNext
<1> USE DEF cluster, tasks, calls
<1>2. CASE Helm(c)
  BY <1>2, MakerHelmSteps
<1>3. CASE StatusTask(c)
  BY <1>3, MakerSame DEF StatusTask, StatusRead, StatusUnread, StatusWritten, StatusLost
<1>4. CASE StartInstall(c) \/ NameTaken(c) \/ AfterHelm(c) \/ Cancel(c)
  BY <1>4, MakerSame
     DEF StartInstall, NameTaken, AfterHelm, Executed, Uninstalled, FinalRead, FinalWritten,
         FinalNotified, FinalLost, Informed, Cancel
<1>5. ASSUME NEW n \in Name, DrawName(c, n) PROVE MakerInv'
  <2>1. /\ exec[c] = "none" /\ name' = [name EXCEPT ![c] = n]
        /\ UNCHANGED <<releases, purged, exec>>
    BY <1>5 DEF DrawName, KduInv, CallOrder, OrderOf, NotStarted
  <2> QED
    BY <2>1, MakerBefore DEF KduInv, KduTypeOK
<1>6. CASE StartOperation(c) \/ NameAccepted(c)
  <2>1. /\ exec[c] = "none" /\ exec' = [exec EXCEPT ![c] = "started"]
        /\ UNCHANGED <<releases, purged>>
        /\ name' = name \/ name' = [name EXCEPT ![c] = instance[KduOf[c]]]
    BY <1>6 DEF StartOperation, NameAccepted, Launch, KduInv, CallOrder, OrderOf, NotStarted
  <2> QED
    BY <2>1, MakerBefore DEF KduInv, KduTypeOK
<1> QED
  BY <1>1, <1>2, <1>3, <1>4, <1>5, <1>6 DEF Operation

\* Of the administration, only a purge touches a release.
LEMMA AdminReleases ==
  ASSUME NEW a \in Admin, AdminStep(a)
  PROVE  /\ UNCHANGED <<tasks, calls, record, instance>>
         /\ UNCHANGED cluster \/ \E n \in Name : PurgeRelease(a, n)
<1> USE DEF kduVars, Created
<1>1. CASE InitEnv(a)
  BY <1>1 DEF InitEnv, InitPaths, FindTiller, CreateAccount, HelmInit
<1>2. CASE Reset(a)
  <2>1. ASSUME NEW n \in Name, PurgeRelease(a, n)
        PROVE  UNCHANGED <<tasks, calls, record, instance>>
    BY <2>1 DEF PurgeRelease
  <2>2. ASSUME NEW n \in Name, PurgeFails(a, n)
        PROVE  UNCHANGED <<tasks, calls, record, instance, cluster>>
    BY <2>2 DEF PurgeFails
  <2>3. CASE ResetPaths(a) \/ ListReleases(a) \/ RemoveSoftware(a) \/ RemoveDirectory(a)
    BY <2>3 DEF ResetPaths, ListReleases, RemoveSoftware, RemoveDirectory
  <2> QED
    BY <1>2, <2>1, <2>2, <2>3 DEF Reset
<1>3. CASE SynchronizeRepos(a)
  <2>1. ASSUME NEW r \in Repo, DeleteRepo(a, r) \/ AddRepo(a, r)
        PROVE  UNCHANGED <<tasks, calls, record, instance, cluster>>
    BY <2>1 DEF DeleteRepo, AddRepo
  <2>2. CASE SyncBegins(a) \/ SyncRaises(a) \/ SyncReturns(a)
    BY <2>2 DEF SyncBegins, SyncRaises, SyncReturns
  <2> QED
    BY <1>3, <2>1, <2>2 DEF SynchronizeRepos
<1>4. CASE AdminFails(a)
  BY <1>4 DEF AdminFails
<1> QED
  BY <1>1, <1>2, <1>3, <1>4 DEF AdminStep

LEMMA MakerPurged ==
  ASSUME KduInv, MakerInv, NEW a \in Admin, NEW n \in Name, PurgeRelease(a, n)
  PROVE  MakerInv'
<1>1. /\ releases' = [releases EXCEPT ![n] = NONE] /\ purged' = purged \cup {n}
      /\ UNCHANGED <<name, exec>>
  BY DEF PurgeRelease, tasks, calls
<1>2. ASSUME NEW m \in Name, Exists(m)'
      PROVE  Exists(m) /\ releases'[m] = releases[m] /\ releases[m].owner \in Call
  BY <1>1, <1>2, ReleaseOf DEF Exists, KduInv, KduTypeOK
<1> QED
  BY <1>1, <1>2 DEF MakerInv, Installing, Exists

LEMMA MakerInitially ==
  ASSUME NEW made \in SUBSET Call, NEW administered \in SUBSET Admin, NEW prepared \in BOOLEAN,
         Init(made, administered, prepared)
  PROVE  MakerInv
BY DEF Init, KduInit, MakerInv, Exists

LifeInv == HelmInv /\ MakerInv

LEMMA LifeStep == LifeInv /\ [Next]_vars => LifeInv'
<1> SUFFICES ASSUME LifeInv, [Next]_vars PROVE LifeInv'
  OBVIOUS
<1> USE DEF LifeInv, HelmInv
<1>1. HelmInv'
  BY HelmStepInv
<1>2. CASE KduNext
  BY <1>1, <1>2, MakerStep
<1>3. CASE ChangeLists \/ UNCHANGED vars
  <2>1. UNCHANGED <<releases, exec, name, purged>>
    BY <1>3 DEF ChangeLists, vars, kduVars, cluster, tasks, calls
  <2> QED
    BY <1>1, <2>1, MakerSame
<1>4. ASSUME NEW a \in Admin, AdminStep(a) PROVE MakerInv'
  <2>1. CASE UNCHANGED cluster
    BY <1>4, <2>1, AdminReleases, MakerSame DEF cluster, tasks, calls
  <2>2. ASSUME NEW n \in Name, PurgeRelease(a, n) PROVE MakerInv'
    BY <2>2, MakerPurged
  <2> QED
    BY <1>4, <2>1, <2>2, AdminReleases
<1> QED
  BY <1>1, <1>2, <1>3, <1>4 DEF Next

\* Every release is that of the install it is named for, which has begun to
\* make it: an install has one release at most.
THEOREM LifeInvariant == Spec => []LifeInv
<1>1. (\E made \in SUBSET Call, administered \in SUBSET Admin, prepared \in BOOLEAN :
          Init(made, administered, prepared)) => LifeInv
  BY AdminInitially, MakerInitially DEF LifeInv
<1> QED
  BY <1>1, LifeStep, PTL DEF Spec

-----------------------------------------------------------------------------
(* Each step is one of the life of KDUs.                                   *)

LEMMA LifeStutters ==
  ASSUME UNCHANGED <<releases, purged, name, instance, record>>, over' = over,
         succeeded' = succeeded
  PROVE  UNCHANGED Life!vars
BY DEF Life!vars, owner, speaker, Exists

\* A call that moves has reported back when it gets to "returned" or "raised".
LEMMA CallMoves ==
  ASSUME KduTypeOK, NEW c \in Call, c \notin over, NEW label, Goto(c, label)
  PROVE  /\ label \in {"returned", "raised"} => over' = over \cup {c}
         /\ label \notin {"returned", "raised"} => over' = over
         /\ succeeded' = IF label = "returned" THEN succeeded \cup {c} ELSE succeeded
<1>1. \A d \in Call : pc'[d] = IF d = c THEN label ELSE pc[d]
  BY DEF Goto, KduTypeOK
<1> QED
  BY <1>1 DEF over, succeeded

LEMMA RecordSpeaks ==
  ASSUME KduTypeOK, NEW c \in Call, NEW s \in Status \cup {NONE},
         record' = [record EXCEPT ![KduOf[c]] = [by |-> c, desc |-> s]]
  PROVE  Life!Speak(c)
<1> DEFINE r == [by |-> c, desc |-> s]
<1>1. r # NONE /\ r.by = c
  BY NoneAssumption
<1>2. record' = [record EXCEPT ![KduOf[c]] = r] /\ record \in [Kdu -> [by : Call, desc : Status \cup {NONE}] \cup {NONE}]
  BY DEF KduTypeOK
<1> HIDE DEF r
<1>3. \A k \in Kdu : record'[k] = IF k = KduOf[c] THEN r ELSE record[k]
  BY <1>2, CallsAssumption
<1>4. speaker' = [k \in Kdu |-> IF k = KduOf[c] THEN c
                                ELSE IF record[k] = NONE THEN NONE ELSE record[k].by]
  BY <1>1, <1>3 DEF speaker
<1> QED
  BY <1>4, CallsAssumption DEF Life!Speak, speaker

\* A call whose helm worked has done what it reports.
LEMMA WorkDone ==
  ASSUME KduInv, MakerInv, NEW c \in Call, pc[c] \notin NotStarted, exec[c] # "none",
         KindOf[c] \in {"install", "uninstall"} => exec[c] = "ok"
  PROVE  Life!Done(c)
<1>1. name[c] \in Name /\ name[c] # NONE
  BY NoneAssumption DEF KduInv, KduTypeOK, NotStarted
<1>2. owner[name[c]] = IF Exists(name[c]) THEN releases[name[c]].owner ELSE NONE
  BY <1>1 DEF owner
<1>3. CASE KindOf[c] = "install"
  BY <1>1, <1>2, <1>3 DEF KduInv, OwnedInv, MadeBy, Installing, Life!Done
<1>4. CASE KindOf[c] = "uninstall"
  BY <1>1, <1>4 DEF MakerInv, Life!Done
<1>5. CASE KindOf[c] \in {"upgrade", "rollback"}
  <2>1. name[c] \in purged \/ Exists(name[c])
    BY <1>5 DEF KduInv, InstanceInv, OfKdu, Installing
  <2>2. Exists(name[c]) => releases[name[c]].owner \in Call
    BY <1>1, ReleaseOf DEF KduInv
  <2> QED
    BY <1>1, <1>2, <1>5, <2>1, <2>2, NoneAssumption DEF Life!Done
<1> QED
  BY <1>3, <1>4, <1>5, CallsAssumption

\* The end of a call, with or without a last status.
LEMMA CallReports ==
  ASSUME KduInv, MakerInv, NEW c \in Call, pc[c] \notin NotStarted, exec[c] # "none",
         c \notin over, NEW label \in {"returned", "raised"}, Goto(c, label),
         Life!Speak(c) \/ UNCHANGED record, UNCHANGED <<releases, purged, name>>,
         label = "returned" /\ KindOf[c] \in {"install", "uninstall"} => exec[c] = "ok",
         instance' = IF label = "returned" /\ Installing(c)
                     THEN [instance EXCEPT ![KduOf[c]] = name[c]] ELSE instance
  PROVE  Life!Next
<1>1. over' = over \cup {c} /\ succeeded' = IF label = "returned" THEN succeeded \cup {c} ELSE succeeded
  BY CallMoves DEF KduInv
<1>2. UNCHANGED owner /\ (Life!Speak(c) \/ UNCHANGED speaker)
  BY DEF owner, Exists, speaker
<1>3. CASE label = "raised"
  <2>1. Life!Fail(c)
    BY <1>1, <1>2, <1>3 DEF Life!Fail
  <2> QED
    BY <2>1 DEF Life!Next
<1>4. CASE label = "returned"
  <2>1. Life!Done(c)
    BY <1>4, WorkDone
  <2>2. Life!Succeed(c)
    BY <1>1, <1>2, <1>4, <2>1 DEF Life!Succeed, Life!Installs, Installing
  <2> QED
    BY <2>2 DEF Life!Next
<1> QED
  BY <1>3, <1>4

\* A step of helm claims, withdraws, purges or leaves a release to its install.
LEMMA HelmLives ==
  ASSUME LifeInv, NEW c \in Call, Helm(c)
  PROVE  Life!Next \/ UNCHANGED Life!vars
<1> USE NoneAssumption DEF LifeInv, HelmInv, KduInv
<1>1. /\ exec[c] \in {"started", "working"}
      /\ UNCHANGED <<pc, name, instance, record>>
  BY DEF Helm, HelmInstalls, HelmChanges, HelmDeletes, HelmRefuses, HelmEnds, HelmFails, HelmStep,
         calls
<1>2. name[c] \in Name /\ name[c] # NONE
  BY <1>1 DEF KduTypeOK, CallOrder, OrderOf, NotStarted
<1>3. c \notin over
  BY <1>1 DEF over, CallOrder, OrderOf, AfterTask
<1>4. UNCHANGED <<speaker, over, succeeded>>
  BY <1>1 DEF speaker, over, succeeded
<1>5. ASSUME NEW release, releases' = [releases EXCEPT ![name[c]] = release]
      PROVE  owner' = [owner EXCEPT ![name[c]] = IF release = NONE THEN NONE ELSE release.owner]
  <2>1. \A n \in Name : releases'[n] = IF n = name[c] THEN release ELSE releases[n]
    BY <1>5 DEF KduTypeOK
  <2> QED
    BY <1>2, <2>1 DEF owner, Exists
<1>6. owner[name[c]] = IF Exists(name[c]) THEN releases[name[c]].owner ELSE NONE
  BY <1>2 DEF owner
<1>7. Exists(name[c]) => releases[name[c]] \in Release /\ releases[name[c]].owner \in Call
  BY <1>2, ReleaseOf
<1>8. ASSUME NEW release,
             releases' = [releases EXCEPT ![name[c]] = release], purged' = purged,
             IF release = NONE THEN ~Exists(name[c])
             ELSE Exists(name[c]) /\ release.owner = releases[name[c]].owner
      PROVE  UNCHANGED Life!vars
  <2>1. owner' = [owner EXCEPT ![name[c]] = owner[name[c]]]
    BY <1>5, <1>6, <1>8
  <2>2. owner' = owner
    BY <2>1 DEF owner
  <2> QED
    BY <1>1, <1>4, <1>8, <2>2 DEF Life!vars
<1>9. CASE HelmInstalls(c)
  <2> DEFINE release == [owner |-> c, by |-> c, desc |-> "pending"]
  <2>1. /\ exec[c] = "started" /\ Installing(c) /\ ~Exists(name[c]) /\ UNCHANGED purged
        /\ releases' = [releases EXCEPT ![name[c]] = release]
    BY <1>9 DEF HelmInstalls, HelmStep
  <2>2. release # NONE /\ release.owner = c
    BY DEF Release, Status
  <2> HIDE DEF release
  <2>3. owner' = [owner EXCEPT ![name[c]] = c]
    BY <1>5, <2>1, <2>2
  <2>4. ~Life!HasRelease(c)
    BY <2>1, ReleaseOf DEF Life!HasRelease, owner, MakerInv
  <2>5. Life!Claim(c)
    BY <1>1, <1>2, <1>3, <1>4, <1>6, <2>1, <2>3, <2>4 DEF Life!Claim, Life!Installs, Installing
  <2> QED
    BY <2>5 DEF Life!Next
<1>10. CASE HelmChanges(c)
  <2> DEFINE release == [releases[name[c]] EXCEPT !.by = c, !.desc = "pending"]
  <2>1. /\ Exists(name[c]) /\ releases' = [releases EXCEPT ![name[c]] = release]
        /\ purged' = purged
    BY <1>10 DEF HelmChanges, HelmStep
  <2>2. release # NONE /\ release.owner = releases[name[c]].owner
    <3>1. release \in Release /\ release.owner = releases[name[c]].owner
      BY <1>7, <2>1 DEF Release, Status
    <3> QED
      BY <3>1
  <2> HIDE DEF release
  <2> QED
    BY <1>8, <2>1, <2>2
<1>11. CASE HelmDeletes(c)
  <2>1. /\ Exists(name[c]) /\ purged' = purged \cup {name[c]}
        /\ owner' = [owner EXCEPT ![name[c]] = NONE]
    BY <1>5, <1>11 DEF HelmDeletes, HelmStep
  <2>2. Life!Purge(name[c])
    BY <1>1, <1>4, <1>6, <1>7, <2>1 DEF Life!Purge
  <2> QED
    BY <1>2, <2>2 DEF Life!Next
<1>12. CASE HelmRefuses(c)
  <2>1. releases' = [releases EXCEPT ![name[c]] = releases[name[c]]] /\ purged' = purged
    BY <1>12 DEF HelmRefuses, HelmStep
  <2> QED
    BY <1>8, <2>1 DEF Exists
<1>13. CASE HelmEnds(c)
  <2> DEFINE release == [releases[name[c]] EXCEPT !.desc = "deployed"]
  <2>1. /\ Exists(name[c]) /\ releases' = [releases EXCEPT ![name[c]] = release]
        /\ purged' = purged
    BY <1>13 DEF HelmEnds, HelmStep, Worked
  <2>2. release # NONE /\ release.owner = releases[name[c]].owner
    <3>1. release \in Release /\ release.owner = releases[name[c]].owner
      BY <1>7, <2>1 DEF Release, Status
    <3> QED
      BY <3>1
  <2> HIDE DEF release
  <2> QED
    BY <1>8, <2>1, <2>2
<1>14. CASE HelmFails(c)
  <2> DEFINE release == IF Worked(c) THEN Undone(c) ELSE releases[name[c]]
  <2>1. releases' = [releases EXCEPT ![name[c]] = release] /\ purged' = purged
    BY <1>14 DEF HelmFails, HelmStep
  <2>2. CASE ~Worked(c)
    BY <1>8, <2>1, <2>2 DEF Exists
  <2>3. CASE Worked(c) /\ c \in Atomic /\ Installing(c)
    <3>1. release = NONE
      BY <2>3 DEF Undone, Installing
    <3>2. Exists(name[c]) /\ owner[name[c]] = c
      BY <1>2, <1>6, <2>3 DEF Worked, OwnedInv
    <3> HIDE DEF release
    <3>3. owner' = [owner EXCEPT ![name[c]] = NONE]
      BY <1>5, <2>1, <3>1
    <3>4. Life!Withdraw(c)
      BY <1>1, <1>2, <1>3, <1>4, <2>1, <2>3, <3>2, <3>3
         DEF Life!Withdraw, Life!Installs, Installing
    <3> QED
      BY <3>4 DEF Life!Next
  <2>4. CASE Worked(c) /\ ~(c \in Atomic /\ Installing(c))
    <3>1. PICK s \in Status : release = [releases[name[c]] EXCEPT !.desc = s]
      BY <2>4 DEF Undone, Installing, Status
    <3>2. /\ Exists(name[c]) /\ release \in Release
          /\ release.owner = releases[name[c]].owner
      BY <1>7, <2>4, <3>1 DEF Release, Worked
    <3>3. release # NONE
      BY <3>2
    <3> HIDE DEF release
    <3> QED
      BY <1>8, <2>1, <3>2, <3>3
  <2> QED
    BY <2>2, <2>3, <2>4
<1> QED
  BY <1>9, <1>10, <1>11, <1>12, <1>13, <1>14 DEF Helm

LEMMA StatusTaskLives ==
  ASSUME LifeInv, NEW c \in Call, StatusTask(c)
  PROVE  Life!Next \/ UNCHANGED Life!vars
<1> USE DEF LifeInv, HelmInv, KduInv
<1>1. UNCHANGED <<releases, purged, pc, name, instance>>
  BY DEF StatusTask, StatusRead, StatusUnread, StatusWritten, StatusLost, cluster, calls
<1>2. UNCHANGED <<owner, over, succeeded>>
  BY <1>1 DEF owner, over, succeeded, Exists
<1>3. CASE StatusWritten(c)
  <2>1. /\ record' = [record EXCEPT ![KduOf[c]] = [by |-> c, desc |-> seen[c]]]
        /\ st[c] = "read" /\ seen[c] \in Status \cup {NONE}
    BY <1>3 DEF StatusWritten, KduTypeOK
  <2>2. c \notin over
    BY <2>1 DEF over, CallOrder, OrderOf, AfterTask
  <2>3. Life!Report(c)
    BY <1>1, <1>2, <2>1, <2>2, RecordSpeaks DEF Life!Report
  <2> QED
    BY <2>3 DEF Life!Next
<1>4. CASE ~StatusWritten(c)
  <2>1. record' = record
    BY <1>4 DEF StatusTask, StatusRead, StatusUnread, StatusLost
  <2> QED
    BY <1>1, <1>2, <2>1, LifeStutters
<1> QED
  BY <1>3, <1>4

\* A call chooses its name, moves on, or reports what it did.
LEMMA OperationLives ==
  ASSUME LifeInv, NEW c \in Call, Operation(c)
  PROVE  Life!Next \/ UNCHANGED Life!vars
<1> USE NoneAssumption, CallsAssumption
    DEF LifeInv, HelmInv, KduInv, cluster, tasks, calls
<1>1. c \notin over
  BY DEF Operation, AfterHelm, StartInstall, StartOperation, DrawName, NameTaken, NameAccepted,
         Executed, Uninstalled, FinalRead, FinalWritten, FinalNotified, FinalLost, Informed,
         Cancel, over
<1>2. ASSUME NEW label \in {"naming", "checking", "executing", "final", "storing", "info",
                            "cancelled"},
             Goto(c, label), UNCHANGED <<releases, purged, name, instance, record>>
      PROVE  UNCHANGED Life!vars
  <2>1. UNCHANGED <<over, succeeded>>
    BY <1>1, <1>2, CallMoves
  <2> QED
    BY <1>2, <2>1, LifeStutters
<1>3. ASSUME NEW n \in Name, NEW label \in {"checking", "executing"},
             Goto(c, label), name' = [name EXCEPT ![c] = n], exec[c] = "none",
             ~Installing(c) => n = instance[KduOf[c]],
             UNCHANGED <<releases, purged, instance, record>>
      PROVE  Life!Next
  <2>1. UNCHANGED <<owner, speaker, over, succeeded>>
    BY <1>1, <1>3, CallMoves DEF owner, speaker, Exists
  <2>2. ~Life!HasRelease(c)
    BY <1>3, ReleaseOf DEF Life!HasRelease, owner, MakerInv
  <2>3. Life!Choose(c, n)
    BY <1>1, <1>3, <2>1, <2>2 DEF Life!Choose, Life!Installs, Installing
  <2> QED
    BY <2>3 DEF Life!Next
<1>4. CASE StartInstall(c) \/ NameTaken(c) \/ Executed(c) \/ FinalRead(c) \/ Cancel(c)
  BY <1>2, <1>4 DEF StartInstall, NameTaken, Executed, FinalRead, Cancel
<1>5. CASE NameAccepted(c)
  BY <1>2, <1>5 DEF NameAccepted, Launch
<1>6. CASE StartOperation(c)
  <2>1. /\ instance[KduOf[c]] \in Name /\ exec[c] = "none"
        /\ Goto(c, "executing") /\ name' = [name EXCEPT ![c] = instance[KduOf[c]]]
        /\ UNCHANGED <<releases, purged, instance, record>>
    BY <1>6 DEF StartOperation, Known, Launch, KduTypeOK, CallOrder, OrderOf, NotStarted
  <2> QED
    BY <1>3, <2>1
<1>7. ASSUME NEW n \in Name, DrawName(c, n) PROVE Life!Next
  <2>1. exec[c] = "none" /\ Installing(c)
    BY <1>7 DEF DrawName, CallOrder, OrderOf, NotStarted
  <2> QED
    BY <1>3, <1>7, <2>1 DEF DrawName
<1>8. CASE Uninstalled(c)
  <2>1. /\ pc[c] = "executing" /\ exec[c] \in {"ok", "failed"} /\ KindOf[c] = "uninstall"
        /\ Goto(c, IF exec[c] = "ok" THEN "returned" ELSE "raised")
        /\ UNCHANGED <<releases, purged, name, instance, record>>
    BY <1>8 DEF Uninstalled, HelmOver
  <2> QED
    BY <1>1, <2>1, CallReports DEF NotStarted, Installing
<1>9. CASE Informed(c)
  <2>1. /\ pc[c] = "info" /\ exec[c] # "none" /\ ~Installing(c) /\ KindOf[c] # "uninstall"
        /\ UNCHANGED <<releases, purged, name, instance, record>>
    BY <1>9 DEF Informed, CallOrder, OrderOf, AfterTask
  <2>2. PICK label \in {"returned", "raised"} : Goto(c, label)
    BY <1>9 DEF Informed
  <2> QED
    BY <1>1, <2>1, <2>2, CallReports DEF NotStarted, Installing
<1>10. CASE FinalWritten(c)
  <2>1. /\ record' = [record EXCEPT ![KduOf[c]] = [by |-> c, desc |-> last[c]]]
        /\ last[c] \in Status \cup {NONE}
        /\ Goto(c, "notifying") /\ UNCHANGED <<releases, purged, name, instance>>
    BY <1>10 DEF FinalWritten, FinalStatus, KduTypeOK
  <2>2. UNCHANGED <<over, succeeded, owner>>
    BY <1>1, <2>1, CallMoves DEF owner, Exists
  <2>3. Life!Speak(c)
    BY <2>1, RecordSpeaks
  <2>4. Life!Report(c)
    BY <1>1, <2>1, <2>2, <2>3 DEF Life!Report
  <2> QED
    BY <2>4 DEF Life!Next
<1>11. CASE FinalNotified(c) \/ FinalLost(c)
  <2>1. /\ exec[c] \in {"ok", "failed"} /\ KindOf[c] # "uninstall"
        /\ Conclude(c) /\ UNCHANGED <<releases, purged, name, record>>
    BY <1>11 DEF FinalNotified, FinalLost, CallOrder, OrderOf, AfterTask
  <2>2. CASE exec[c] = "failed" \/ Installing(c)
    <3>1. PICK label \in {"returned", "raised"} :
             /\ Goto(c, label)
             /\ label = "returned" => exec[c] = "ok" /\ Installing(c)
             /\ instance' = IF label = "returned"
                            THEN [instance EXCEPT ![KduOf[c]] = name[c]] ELSE instance
      BY <2>1, <2>2 DEF Conclude, Outcome
    <3>2. pc[c] \notin NotStarted /\ exec[c] # "none"
      BY <1>11, <2>1 DEF FinalNotified, FinalLost, NotStarted
    <3> QED
      BY <1>1, <2>1, <3>1, <3>2, CallReports
  <2>3. CASE exec[c] = "ok" /\ ~Installing(c)
    <3>1. Goto(c, "info") /\ UNCHANGED instance
      BY <2>1, <2>3 DEF Conclude, Outcome
    <3> QED
      BY <1>2, <2>1, <3>1
  <2> QED
    BY <2>1, <2>2, <2>3
<1> QED
  BY <1>4, <1>5, <1>6, <1>7, <1>8, <1>9, <1>10, <1>11 DEF Operation, AfterHelm

\* Of the administration, a purge takes a release away on request.
LEMMA PurgeLives ==
  ASSUME LifeInv, NEW a \in Admin, NEW n \in Name, PurgeRelease(a, n)
  PROVE  Life!Next
<1>1. /\ Exists(n) /\ releases' = [releases EXCEPT ![n] = NONE] /\ purged' = purged \cup {n}
      /\ UNCHANGED <<pc, name, record, instance>>
  BY DEF PurgeRelease, calls
<1>2. UNCHANGED <<speaker, over, succeeded>>
  BY <1>1 DEF speaker, over, succeeded
<1>3. owner' = [owner EXCEPT ![n] = NONE]
  BY <1>1 DEF owner, Exists, LifeInv, HelmInv, KduInv, KduTypeOK
<1>4. owner[n] # NONE
  BY <1>1, ReleaseOf, NoneAssumption DEF owner, LifeInv, HelmInv, KduInv
<1>5. Life!Purge(n)
  BY <1>1, <1>2, <1>3, <1>4 DEF Life!Purge
<1> QED
  BY <1>5 DEF Life!Next

LEMMA LifeSimulates ==
  ASSUME LifeInv, [Next]_vars
  PROVE  [Life!Next]_(Life!vars)
<1>1. CASE KduNext
  BY <1>1, HelmLives, StatusTaskLives, OperationLives DEF KduNext
<1>2. ASSUME UNCHANGED <<cluster, calls, record, instance>> PROVE UNCHANGED Life!vars
  BY <1>2, LifeStutters DEF cluster, calls, over, succeeded
<1>3. CASE ChangeLists \/ UNCHANGED vars
  BY <1>2, <1>3 DEF ChangeLists, vars, kduVars
<1>4. ASSUME NEW a \in Admin, AdminStep(a) PROVE [Life!Next]_(Life!vars)
  BY <1>2, <1>4, AdminReleases, PurgeLives
<1> QED
  BY <1>1, <1>3, <1>4 DEF Next

LEMMA LifeInitially ==
  ASSUME NEW made \in SUBSET Call, NEW administered \in SUBSET Admin, NEW prepared \in BOOLEAN,
         Init(made, administered, prepared)
  PROVE  Life!Init
BY DEF Init, KduInit, Life!Init, owner, speaker, over, succeeded, Exists

\* The calls on KDUs keep their promise, for any number of them and whatever
\* names they draw: no call takes a release away unasked once its install has
\* reported back, success means that the work is done, and who has reported
\* back writes no status (k8s_helm_conn.py:382-760, 1129-1165).
THEOREM KduLifeImplemented == Spec => ImplementsKduLife
<1>1. (\E made \in SUBSET Call, administered \in SUBSET Admin, prepared \in BOOLEAN :
          Init(made, administered, prepared)) => Life!Init
  BY LifeInitially
<1>2. LifeInv /\ [Next]_vars => [Life!Next]_(Life!vars)
  BY LifeSimulates
<1> QED
  BY LifeInvariant, <1>1, <1>2, PTL DEF Spec, ImplementsKduLife, Life!Spec
=============================================================================
