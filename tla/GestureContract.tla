---------------------------- MODULE GestureContract ----------------------------
(* What one ordinary button promises the mapping layer (docstring of         *)
(* button_gesture.py): a button without secondary action clicks at once and  *)
(* may repeat while held; any other gesture ends in exactly one of single    *)
(* click, double click and long press, and a click that waits or a hold that *)
(* turns long does so only after its own deadline.                           *)
EXTENDS Naturals

VARIABLES
    stage,     \* where the current gesture is
    kinds,     \* the secondary actions this gesture recognises
    deadline,  \* the one deadline that matters in this stage
    owed       \* triggers decided and not yet delivered to the mapping layer

vars == <<stage, kinds, deadline, owed>>

Triggers == {"single", "double", "long"}
Secondary == {"double", "long"}

Init ==
    /\ stage = "idle" /\ kinds = {} /\ deadline = "none"
    /\ owed = [t \in Triggers |-> 0]

Decide(t) == owed' = [owed EXCEPT ![t] = @ + 1]

HoldDeadline(ks) == IF "long" \in ks THEN "running" ELSE "none"

Enter(s, ks, d) == stage' = s /\ kinds' = ks /\ deadline' = d

Press ==
    \/ /\ stage = "idle"
       /\ \E d \in {"none", "running"} : Enter("held", {}, d)
       /\ Decide("single")
    \/ /\ stage = "idle"
       /\ \E ks \in (SUBSET Secondary) \ {{}} : Enter("first", ks, HoldDeadline(ks))
       /\ UNCHANGED owed
    \/ /\ stage = "gap"
       /\ Enter("second", kinds, HoldDeadline(kinds))
       /\ UNCHANGED owed

Release ==
    \/ /\ stage \in {"held", "spent"}
       /\ Enter("idle", {}, "none") /\ UNCHANGED owed
    \/ /\ stage = "first" /\ "double" \in kinds
       /\ Enter("gap", kinds, "running") /\ UNCHANGED owed
    \/ /\ stage = "first" /\ "double" \notin kinds
       /\ Enter("idle", {}, "none") /\ Decide("single")
    \/ /\ stage = "second"
       /\ Enter("idle", {}, "none") /\ Decide("double")

Elapse == deadline = "running" /\ deadline' = "passed" /\ UNCHANGED <<stage, kinds, owed>>

\* What a passed deadline decides: the waiting click is single, the hold is
\* long, the held button repeats.
Expire ==
    /\ deadline = "passed"
    /\ \/ stage = "gap" /\ Enter("idle", {}, "none") /\ Decide("single")
       \/ /\ stage \in {"first", "second"}
          /\ Enter("spent", kinds, "none") /\ Decide("long")
       \/ stage = "held" /\ Enter("held", {}, "running") /\ Decide("single")

Deliver == \E t \in Triggers :
    /\ owed[t] > 0
    /\ owed' = [owed EXCEPT ![t] = @ - 1]
    /\ UNCHANGED <<stage, kinds, deadline>>

Reset == Enter("idle", {}, "none") /\ UNCHANGED owed

Next == Press \/ Release \/ Elapse \/ Expire \/ Deliver \/ Reset

Spec == Init /\ [][Next]_vars
=============================================================================
