------------------------------- MODULE KduLife -------------------------------
(***************************************************************************)
(* What the calls on KDUs promise, without helm, its processes, status     *)
(* tasks, files or directories.  A name is given to the release of one     *)
(* install after another; a release goes when somebody asks for it, or     *)
(* while its install has not reported back.  A call that reports success   *)
(* has done what it was asked for, a KDU keeps the name its install        *)
(* reported, and a call that has reported back writes no status any more.  *)
(***************************************************************************)
CONSTANTS
    Call,
    KindOf,
    Kdu,
    KduOf,
    Name,
    NONE

VARIABLES
    owner,     \* the install that the release of a name came from
    purged,    \* the names whose release somebody asked to delete
    subject,   \* the name a call works on
    kept,      \* the name its caller keeps of a KDU
    speaker,   \* the call that wrote the status of a KDU last
    over,      \* the calls that have reported back
    succeeded  \* those that reported success

vars == <<owner, purged, subject, kept, speaker, over, succeeded>>

Installs(c) == KindOf[c] = "install"
HasRelease(c) == \E n \in Name : owner[n] = c

Init ==
    /\ owner = [n \in Name |-> NONE]
    /\ purged = {}
    /\ subject = [c \in Call |-> NONE]
    /\ kept = [k \in Kdu |-> NONE]
    /\ speaker = [k \in Kdu |-> NONE]
    /\ over = {}
    /\ succeeded = {}

\* An install may choose anew until it has a release.
Choose(c, n) ==
    /\ c \notin over /\ ~HasRelease(c)
    /\ ~Installs(c) => n = kept[KduOf[c]]
    /\ subject' = [subject EXCEPT ![c] = n]
    /\ UNCHANGED <<owner, purged, kept, speaker, over, succeeded>>

Claim(c) ==
    /\ Installs(c) /\ c \notin over /\ ~HasRelease(c)
    /\ subject[c] # NONE /\ owner[subject[c]] = NONE
    /\ owner' = [owner EXCEPT ![subject[c]] = c]
    /\ UNCHANGED <<purged, subject, kept, speaker, over, succeeded>>

Withdraw(c) ==
    /\ Installs(c) /\ c \notin over
    /\ subject[c] # NONE /\ owner[subject[c]] = c
    /\ owner' = [owner EXCEPT ![subject[c]] = NONE]
    /\ UNCHANGED <<purged, subject, kept, speaker, over, succeeded>>

Purge(n) ==
    /\ owner[n] # NONE
    /\ owner' = [owner EXCEPT ![n] = NONE]
    /\ purged' = purged \cup {n}
    /\ UNCHANGED <<subject, kept, speaker, over, succeeded>>

Speak(c) == speaker' = [speaker EXCEPT ![KduOf[c]] = c]

Report(c) ==
    /\ c \notin over
    /\ Speak(c)
    /\ UNCHANGED <<owner, purged, subject, kept, over, succeeded>>

\* What a call was asked for has been done, or undone on request.
Done(c) ==
    /\ subject[c] # NONE
    /\ \/ subject[c] \in purged
       \/ KindOf[c] = "install" /\ owner[subject[c]] = c
       \/ KindOf[c] \in {"upgrade", "rollback"} /\ owner[subject[c]] # NONE

Succeed(c) ==
    /\ c \notin over
    /\ Done(c)
    /\ Speak(c) \/ UNCHANGED speaker
    /\ over' = over \cup {c} /\ succeeded' = succeeded \cup {c}
    /\ kept' = IF Installs(c) THEN [kept EXCEPT ![KduOf[c]] = subject[c]] ELSE kept
    /\ UNCHANGED <<owner, purged, subject>>

Fail(c) ==
    /\ c \notin over
    /\ Speak(c) \/ UNCHANGED speaker
    /\ over' = over \cup {c}
    /\ UNCHANGED <<owner, purged, subject, kept, succeeded>>

Next ==
    \/ \E c \in Call : \/ Claim(c) \/ Withdraw(c) \/ Report(c) \/ Succeed(c) \/ Fail(c)
                       \/ \E n \in Name : Choose(c, n)
    \/ \E n \in Name : Purge(n)

Spec == Init /\ [][Next]_vars
=============================================================================
