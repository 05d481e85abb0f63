----------------------------- MODULE MCRemoteInput -----------------------------
(* The cases are checked side by side: presses with both kinds of Raw Input; *)
(* edits of the mappings, without and with the tap; a tap whose host changes *)
(* and one that loses its agent in the middle of a press; a restart; garbled *)
(* reports and actions delivered in part.                                    *)
EXTENDS RemoteInput

Nothing == [presses |-> 0, repeats |-> 0, edits |-> 0, hosts |-> 0, starts |-> 1,
            faults |-> 0, hid |-> FALSE, gadget |-> FALSE, bound |-> {"custom"}]
TwoKinds == [Nothing EXCEPT !.presses = 2, !.hid = TRUE]
Edits == [Nothing EXCEPT !.presses = 1, !.repeats = 1, !.edits = 1, !.bound = {"chord", "custom"}]
TapEdits == [Nothing EXCEPT !.presses = 1, !.edits = 1, !.hosts = 1, !.gadget = TRUE,
                            !.bound = {"absent", "malformed", "corrupt"}]
Hosts == [Nothing EXCEPT !.hosts = 2, !.faults = 1, !.gadget = TRUE]
TapPress == [Nothing EXCEPT !.presses = 1, !.hosts = 1, !.faults = 1, !.gadget = TRUE]
Restart == [Nothing EXCEPT !.presses = 1, !.repeats = 1, !.starts = 2, !.faults = 1]

Garbling == [Nothing EXCEPT !.presses = 1, !.faults = 1, !.hid = TRUE,
                            !.bound = {"custom", "application"}]

Cases == {TwoKinds, Edits, TapEdits, Hosts, TapPress, Restart, Garbling}
OneEdit == {[Edits EXCEPT !.bound = {"identity", "custom"}]}
=============================================================================
