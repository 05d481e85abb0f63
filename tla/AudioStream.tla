------------------------------ MODULE AudioStream ------------------------------
(* What the audio route promises the voice session: samples may be lost on   *)
(* the way to the device, but none is invented, doubled, reordered or left   *)
(* over from the hold before (bounded_pcm_queue.cpp:3, "drop-oldest";         *)
(* application_coordinator.cpp:372, "start it fresh").  Samples are numbered  *)
(* in the order in which they are written.                                   *)
EXTENDS Naturals, Sequences

VARIABLES
    written,   \* samples written since the beginning
    opened,    \* how many of them before the route was opened
    out        \* the samples handed to the device since

vars == <<written, opened, out>>

Increasing(s) == \A i, j \in DOMAIN s : i < j => s[i] < s[j]

Init == written = 0 /\ opened = 0 /\ out = <<>>

Open == opened' = written /\ out' = <<>> /\ UNCHANGED written

Write == written' \in Nat /\ written' > written /\ UNCHANGED <<opened, out>>

\* The device is handed more: what it got stays, what comes is newer.
Deliver ==
    /\ out' \in Seq((opened + 1)..written) /\ Increasing(out')
    /\ Len(out) <= Len(out') /\ SubSeq(out', 1, Len(out)) = out
    /\ UNCHANGED <<written, opened>>

Next == Open \/ Write \/ Deliver

Spec == Init /\ [][Next]_vars
=============================================================================
