------------------------------- MODULE MCBleLink -------------------------------
(* Long sequences of notifications need no late calls, and late calls no long *)
(* sequences, so they are checked side by side: seven notifications over a    *)
(* link that never fails, five with any fault, and four with a fault and a    *)
(* call of another thread.                                                    *)
EXTENDS BleLink

MCInit ==
    \/ InitFor(MaxNotices, 0, 0)
    \/ InitFor(5, 0, MaxFaults)
    \/ InitFor(4, MaxCalls, MaxFaults)
MCSpec == MCInit /\ [][Next]_vars /\ Fairness
=============================================================================
