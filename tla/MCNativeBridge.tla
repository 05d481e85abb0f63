---------------------------- MODULE MCNativeBridge ----------------------------
(* The cases are checked side by side: two holds with one failure, one hold  *)
(* with two, and one hold with audio and a failure.                          *)
EXTENDS NativeBridge

AllFaults == FaultKinds

Budget(p, e, f) == [presses |-> p, events |-> e, faults |-> f]
Cases == {Budget(2, 0, 1), Budget(1, 0, 2), Budget(1, 1, 1)}
OneEvent == {Budget(0, 1, 0)}
LostLink == {Budget(0, 1, 1)}
===============================================================================
