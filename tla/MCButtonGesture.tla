--------------------------- MODULE MCButtonGesture ---------------------------
(* Bindings under which one button is checked: all of them, so that they may *)
(* also change between two presses.                                          *)
EXTENDS ButtonGesture

AllConfigs == Config

LongOnly == {[single |-> TRUE, double |-> FALSE, long |-> TRUE, repeat |-> FALSE]}
=============================================================================
