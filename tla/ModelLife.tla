------------------------------ MODULE ModelLife ------------------------------
(***************************************************************************)
(* What the deletion of Juju models promises, without workers, caches,     *)
(* requests or polls.  A name is given to one incarnation after another,   *)
(* each of which appears once and goes for good.  A deleter asks for       *)
(* incarnations; only what was asked for is taken away, and a deleter that *)
(* reports success finds all that it asked for gone.                       *)
(***************************************************************************)
CONSTANTS
    Incarnation,
    NameOf,     \* the name of an incarnation
    Deleter

VARIABLES
    phase,      \* absent, present, leaving or gone
    asked,      \* the incarnations a deleter asked for
    confirmed   \* the deleters that have reported success

vars == <<phase, asked, confirmed>>

\* The name of i is taken while i is present or leaving.
Takes(i) == phase[i] \in {"present", "leaving"}

Init ==
    /\ phase = [i \in Incarnation |-> "absent"]
    /\ asked = [d \in Deleter |-> {}]
    /\ confirmed = {}

Appear(i) ==
    /\ phase[i] = "absent"
    /\ \A j \in Incarnation : NameOf[j] = NameOf[i] => ~Takes(j)
    /\ phase' = [phase EXCEPT ![i] = "present"]
    /\ UNCHANGED <<asked, confirmed>>

Ask(d, i) ==
    /\ d \notin confirmed
    /\ Takes(i)
    /\ asked' = [asked EXCEPT ![d] = @ \cup {i}]
    /\ UNCHANGED <<phase, confirmed>>

Condemn(i) ==
    /\ phase[i] = "present"
    /\ \E d \in Deleter : i \in asked[d]
    /\ phase' = [phase EXCEPT ![i] = "leaving"]
    /\ UNCHANGED <<asked, confirmed>>

Remove(i) ==
    /\ phase[i] = "leaving"
    /\ phase' = [phase EXCEPT ![i] = "gone"]
    /\ UNCHANGED <<asked, confirmed>>

Confirm(d) ==
    /\ d \notin confirmed
    /\ \A i \in asked[d] : phase[i] = "gone"
    /\ confirmed' = confirmed \cup {d}
    /\ UNCHANGED <<phase, asked>>

Next ==
    \/ \E i \in Incarnation : Appear(i) \/ Condemn(i) \/ Remove(i)
    \/ \E d \in Deleter : Confirm(d) \/ \E i \in Incarnation : Ask(d, i)

Spec == Init /\ [][Next]_vars
=============================================================================
