--------------------------- MODULE MCInstanceControl ---------------------------
(* Three launches of the bridge and two of the settings window.  The two     *)
(* kinds share nothing but the bounds and the statistics depend on nothing   *)
(* but the mutex, so they are checked side by side: behaviours of three      *)
(* bridges, of two bridges that count presses, and of two windows.           *)
EXTENDS InstanceControl

ThreeBridges == {"b1", "b2", "b3"}
TwoWindows == {"w1", "w2"}

MCInit ==
    \/ InitFor(Bridges, MaxSaves, MaxRecords)
    \/ InitFor({"b1", "b2"}, MaxSaves, 0)
    \/ InitFor(Windows, 0, MaxRecords)
MCSpec == MCInit /\ [][Next]_vars /\ Fairness
=============================================================================
