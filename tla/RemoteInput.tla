------------------------------ MODULE RemoteInput ------------------------------
(***************************************************************************)
(* One ordinary button of the remote, "up", as the application sees it:     *)
(* the low-level keyboard hook (legacy_key_suppressor_windows.py), the Raw  *)
(* Input listener (raw_input_windows.py) and the tap on the remote's HID    *)
(* reports (frida_compat.py, frida_hid_tap_runtime.py), and what app.py     *)
(* does with their edges: it arms the hook, which swallows the original     *)
(* key, and dispatches the button, which performs its action.               *)
(*                                                                          *)
(* Every edge of the button reaches the hook and the listener's window, and *)
(* the tap's socket if the agent inside the driver's host process is        *)
(* connected, each in order but at its own pace; so do the two kinds of     *)
(* messages the listener gets for an edge.  The hook waits a bounded        *)
(* time for the edge to be armed.  Abstracted: key codes, the report's      *)
(* bytes, window messages, time (a wait may run out and an armed edge may   *)
(* expire at any time), gestures (a press of a configured button that is    *)
(* not held is one action; ButtonGesture has the rest), the kinds of action *)
(* (a key combination of two keys, or an application) and the voice key     *)
(* (VoiceBridge).                                                           *)
(***************************************************************************)
EXTENDS Naturals, Sequences, FiniteSets, SequencesExt

CONSTANTS
    Budgets,     \* bounds, one record of them for each behaviour, see Budget
    ArmedMax     \* pending armed edges (64 in the code)

\* The exact identity mapping, a key combination, an application, or none.
Bindings == {"identity", "custom", "application", "disabled"}

\* What key_bindings.json may hold for the button: one of them, an entry that
\* is none, the key chord that older versions stored, nothing, or no JSON.
Stored == Bindings \cup {"malformed", "chord", "absent", "corrupt"}

\* default_button_actions
DefaultBinding == "identity"

\* semantic_action_for_keys: the old chord is the identity.
Migrated(d) == IF d = "chord" THEN "identity" ELSE d

\* button_action_for: a malformed entry is none.
ActionFor(d) == IF d = "malformed" THEN "disabled" ELSE d

\* load_key_bindings over the mapping b: a file that cannot be read keeps it.
Loaded(d, b) ==
    CASE d = "corrupt" -> b
      [] d = "absent" -> DefaultBinding
      [] OTHER -> ActionFor(Migrated(d))

\* The keys an action presses, in this order.
Combo(b) == CASE b = "identity" -> <<"arrow">>
              [] b = "custom" -> <<"modifier", "key">>
              [] OTHER -> <<>>
Keys == {"arrow", "modifier", "key"}

\* What is left of each bound; and whether the listener gets HID reports as
\* well, whether the tap's gadget is installed, the first mappings.
Budget == [presses : Nat, repeats : Nat, edits : Nat, hosts : Nat, starts : Nat,
           faults : Nat, hid : BOOLEAN, gadget : BOOLEAN, bound : SUBSET Stored]

ASSUME BudgetsAssumption == Budgets \subseteq Budget
ASSUME ArmedAssumption == ArmedMax \in Nat \ {0}

VARIABLES
    budget,     \* what is left of the bounds
    key,        \* the button is physically down
    hookQ,      \* edges (TRUE: down) the hook has not answered
    rawQ,       \* per source: messages for the listener's window: [down, hold]
    tapQ,       \* reports the agent has sent
    phase,      \* of the application's connection, see below
    failed,     \* an owner's stop has failed: the cleanup is incomplete
    bindings,   \* how the button is bound, as loaded
    disk,       \* how it is bound in key_bindings.json
    listener,   \* the listener's thread
    keyboard,   \* the button is in _active_keyboard_buttons
    hid,        \* the button is in _active_hid_buttons
    hook,       \* the hook's thread
    armed,      \* _armed_events
    armable,    \* the button's key in _armable_vk_codes, or no such filter
    seen,       \* the button's key is in _armed_vks_seen
    host,       \* the driver's host process, 0 when there is none
    loaded,     \* the agent runs inside it
    tap,        \* the tap's thread
    attempted,  \* injection_attempted_pid
    usage,      \* the button is in active_usages of the tap
    direct,     \* the button is in _direct_hid_usages of the application
    report,     \* how far _on_direct_hid_report is
    tapLive,    \* _direct_hid_tap_active
    held,       \* the dispatcher holds the button
    foreground, \* the key is down for the foreground window
    stuck,      \* keys of an action that SendInput has left down
    actions,    \* history: actions performed
    pressed,    \* history: presses, and starts over a button that may be down
    missed,     \* history: the hook's wait ran out
    changed,    \* history: how edges are treated changed in the middle of a hold
    tapSeen,    \* history: the tap has reported the button
    remapped,   \* history: the mapping became the identity since the last reset
    crossed,    \* history: one source was released before the other was pressed
    unreleased  \* history: keys whose release has failed

inputVars == <<budget, key, hookQ, rawQ, tapQ>>
appVars == <<phase, failed, bindings, disk>>
listenerVars == <<listener, keyboard, hid>>
hookVars == <<hook, armed, armable, seen>>
agentVars == <<host, loaded>>
tapVars == <<tap, attempted, usage, direct, report, tapLive>>
outVars == <<held, foreground, actions, stuck, unreleased>>
dispatcherVars == <<held, actions, stuck, unreleased, changed, remapped>>
historyVars == <<pressed, missed, changed, tapSeen, remapped, crossed>>
vars == <<inputVars, appVars, listenerVars, hookVars, agentVars, tapVars, outVars, historyVars>>

(***************************************************************************)
(* phase: down -> listening -> hooked -> up -> stoppingTap -> resetting ->   *)
(* stoppingListener -> stoppingHook -> down, or ended if a stop failed.      *)
(***************************************************************************)
Phases == {"down", "listening", "hooked", "up", "stoppingTap", "resetting",
           "stoppingListener", "stoppingHook", "ended"}

\* The two sources of Raw Input.  hold is the press the message belongs to, for
\* the properties: the code does not know it.
Sources == {"keyboard", "hid"}
Message == [down : BOOLEAN, hold : Nat]

InputTypes ==
    /\ budget \in Budget /\ key \in BOOLEAN
    /\ hookQ \in Seq(BOOLEAN) /\ rawQ \in [Sources -> Seq(Message)]
    /\ tapQ \in Seq(BOOLEAN)
    /\ phase \in Phases /\ failed \in BOOLEAN /\ bindings \in Bindings /\ disk \in Stored
ObserverTypes ==
    /\ listener \in {"off", "idle"} \cup Sources /\ keyboard \in BOOLEAN /\ hid \in BOOLEAN
    /\ hook \in {"off", "idle", "waiting"}
    /\ armed \in Seq(BOOLEAN) /\ Len(armed) <= ArmedMax
    /\ armable \in {"yes", "no", "unfiltered"} /\ seen \in BOOLEAN
    /\ host \in Nat /\ loaded \in BOOLEAN
    /\ tap \in {"off", "seeking", "accepting", "attached", "dead"} /\ attempted \in Nat
    /\ usage \in BOOLEAN /\ direct \in BOOLEAN /\ tapLive \in BOOLEAN
    /\ report \in {"none", "taken", "armed"}
OutTypes ==
    /\ held \in BOOLEAN /\ foreground \in BOOLEAN /\ actions \in Nat /\ pressed \in Nat
    /\ missed \in BOOLEAN /\ changed \in BOOLEAN /\ tapSeen \in BOOLEAN /\ remapped \in BOOLEAN
    /\ crossed \in BOOLEAN
    /\ stuck \subseteq Keys /\ unreleased \subseteq Keys

NoMessages == [s \in Sources |-> <<>>]

TypeOK == InputTypes /\ ObserverTypes /\ OutTypes

Init ==
    /\ budget \in Budgets
    /\ key = FALSE /\ hookQ = <<>> /\ rawQ = NoMessages /\ tapQ = <<>>
    /\ phase = "down" /\ failed = FALSE
    /\ disk \in budget.bound \ {"corrupt"} /\ bindings = Loaded(disk, DefaultBinding)
    /\ listener = "off" /\ keyboard = FALSE /\ hid = FALSE
    /\ hook = "off" /\ armed = <<>> /\ armable = "no" /\ seen = FALSE
    /\ host = 0 /\ loaded = FALSE
    /\ tap = "off" /\ attempted = 0 /\ usage = FALSE /\ direct = FALSE
    /\ report = "none" /\ tapLive = FALSE
    /\ held = FALSE /\ foreground = FALSE /\ actions = 0
    /\ pressed = 0 /\ missed = FALSE /\ changed = FALSE /\ tapSeen = FALSE /\ remapped = FALSE
    /\ crossed = FALSE
    /\ stuck = {} /\ unreleased = {}

Spend(b) == budget[b] > 0 /\ budget' = [budget EXCEPT ![b] = @ - 1]

\* The hook is between the two edges of a hold.
MidHold == key \/ hookQ # <<>> \/ foreground
Changes == changed' = (changed \/ MidHold)

-----------------------------------------------------------------------------
(* The remote, the user and the driver's host.                              *)

\* The messages of an edge: the keyboard's, and the report's if there are any.
\* They are separate WM_INPUT messages: either may come long after the other.
Sent(s) == listener # "off" /\ (s = "keyboard" \/ budget.hid)
Messages(down, hold) ==
    [s \in Sources |-> IF Sent(s) THEN Append(rawQ[s], [down |-> down, hold |-> hold]) ELSE rawQ[s]]

\* installHook in the agent: a completed read is sent while it is connected.
Reports(down) == IF tap = "attached" /\ loaded THEN <<down>> ELSE <<>>

Edge(down) ==
    /\ key' = down
    /\ hookQ' = Append(hookQ, down)
    /\ rawQ' = Messages(down, pressed')
    /\ tapQ' = tapQ \o Reports(down)
    /\ UNCHANGED <<appVars, listenerVars, hookVars, agentVars, tapVars, outVars,
                   missed, changed, tapSeen, remapped, crossed>>

Press ==
    /\ ~key /\ Spend("presses")
    /\ pressed' = pressed + 1
    /\ Edge(TRUE)
Release == key /\ UNCHANGED <<budget, pressed>> /\ Edge(FALSE)

\* Auto-repeat of the held key: not in the reports.
Repeat ==
    /\ key /\ Spend("repeats")
    /\ hookQ' = Append(hookQ, TRUE)
    /\ rawQ' = IF listener = "off" THEN rawQ
               ELSE [rawQ EXCEPT !["keyboard"] = Append(@, [down |-> TRUE, hold |-> pressed])]
    /\ UNCHANGED <<key, tapQ, appVars, listenerVars, hookVars, agentVars, tapVars, outVars,
                   historyVars>>

\* The settings window writes key_bindings.json.
EditBindings ==
    /\ Spend("edits")
    /\ disk' \in budget.bound \ {disk}
    /\ UNCHANGED <<key, hookQ, rawQ, tapQ, phase, failed, bindings, listenerVars, hookVars,
                   agentVars, tapVars, outVars, historyVars>>

\* Windows starts a new host process, in which no agent runs, or ends it.
ChangeHost ==
    /\ \/ Spend("hosts") /\ host' = budget.hosts
       \/ host # 0 /\ host' = 0 /\ UNCHANGED budget
    /\ loaded' = FALSE
    /\ UNCHANGED <<key, hookQ, rawQ, tapQ, appVars, listenerVars, hookVars, tapVars, outVars,
                   historyVars>>

-----------------------------------------------------------------------------
(* What app.py decides.                                                     *)

\* _physical_key_is_authoritative
Authoritative == bindings = "identity"
\* _is_button_action_configured
Configured(b) == b # "disabled"

\* _compute_armable_vk_codes
ArmableFor(b, live) ==
    CASE live -> "unfiltered"
      [] ~live /\ b \in {"custom", "application"} -> "yes"
      [] OTHER -> "no"

\* set_armable_vk_codes, if there is a suppressor.
SetArmable(b, live) ==
    IF hook = "off" THEN UNCHANGED <<armable, seen>>
    ELSE armable' = ArmableFor(b, live) /\ seen' = FALSE

\* The mapping the next event loads.
Current == Loaded(disk, bindings)
Load ==
    /\ bindings' = Current
    /\ remapped' = (remapped \/ (Current = "identity" /\ bindings # Current))

\* Mutant: the mappings are reloaded and the hook is not told.
ReloadSilently ==
    /\ Load
    /\ UNCHANGED <<armable, seen>>
    /\ IF Current # bindings THEN Changes ELSE UNCHANGED changed

\* _reload_bindings_if_changed, with load_key_bindings
Reload ==
    /\ Load
    /\ IF Current # bindings
       THEN SetArmable(Current, tapLive) /\ Changes
       ELSE UNCHANGED <<armable, seen, changed>>

\* _build_input_array and SendInput: all downs, then all ups, in one batch.
Batch(b) == [i \in 1..Len(Combo(b)) |-> [key |-> Combo(b)[i], down |-> TRUE]]
            \o [i \in 1..Len(Combo(b)) |-> [key |-> Reverse(Combo(b))[i], down |-> FALSE]]

\* The keys that are down after the first n events of it.
DownAfter(b, n) ==
    {k \in Keys : \E i \in 1..n : /\ Batch(b)[i] = [key |-> k, down |-> TRUE]
                                 /\ \A j \in i + 1..n : Batch(b)[j].key # k}

\* What is rolled back after n events: the downs that landed, or the ups that
\* did not.
Owed(b, n) ==
    IF n < Len(Combo(b)) THEN {Combo(b)[i] : i \in 1..n}
    ELSE {Batch(b)[i].key : i \in n + 1..Len(Batch(b))}

\* _best_effort_release of these keys, of which the ones in lost fail.
Rollback(b, n, owed, lost) ==
    /\ stuck' = (stuck \cup DownAfter(b, n)) \ (owed \ lost)
    /\ unreleased' = unreleased \cup lost

\* send_key_combo_tap: the whole batch is queued, or a part of it, or an
\* exception leaves open how much; what may be down is released, as well as
\* it goes.
TapKeys(b) ==
    \/ /\ stuck' = stuck \ ToSet(Combo(b))
       /\ UNCHANGED <<unreleased, budget>>
    \/ /\ Spend("faults")
       /\ \E n \in 0..Len(Batch(b)) - 1 : \E owed \in {Owed(b, n), ToSet(Combo(b))} :
             \E lost \in SUBSET owed : Rollback(b, n, owed, lost)

\* Where an application may be found.
Candidates == {"program", "package", "shortcut", "nowhere"}

\* open_configured_application
OpenApplication ==
    /\ \E c \in Candidates : actions' = IF c = "nowhere" THEN actions ELSE actions + 1
    /\ UNCHANGED <<stuck, unreleased, budget>>

\* _on_button_trigger and _apply_button_action
Perform(b) ==
    \/ b = "application" /\ OpenApplication
    \/ b # "application" /\ TapKeys(b) /\ actions' = actions + 1

\* _on_button_event, press and release of the dispatcher.
Dispatch(down) ==
    /\ Reload
    /\ held' = (down /\ (held \/ Configured(Current)))
    /\ IF down /\ ~held /\ Configured(Current) THEN Perform(Current)
       ELSE UNCHANGED <<actions, stuck, unreleased, budget>>

\* Another button's event reloads the mappings.
ReloadByOther ==
    /\ Current # bindings /\ (listener # "off" \/ tap # "off")
    /\ Reload
    /\ UNCHANGED <<inputVars, phase, failed, disk, listenerVars, hook, armed, agentVars, tapVars,
                   outVars, pressed, missed, tapSeen, crossed>>

-----------------------------------------------------------------------------
(* The hook.                                                                *)

\* arm_key_event: the oldest edge gives way.
Arm(down) ==
    IF hook = "off" THEN UNCHANGED <<armed, seen>>
    ELSE /\ armed' = IF Len(armed) < ArmedMax THEN Append(armed, down)
                     ELSE Append(Tail(armed), down)
         /\ seen' = TRUE

\* An armed edge is older than its lifetime; all live equally long.
Expire ==
    /\ armed # <<>>
    /\ armed' = Tail(armed)
    /\ UNCHANGED <<inputVars, appVars, listenerVars, hook, armable, seen, agentVars, tapVars,
                   outVars, historyVars>>

\* CallNextHookEx, or the callback's 1.
Pass == hookQ' = Tail(hookQ) /\ foreground' = Head(hookQ)
Swallow == hookQ' = Tail(hookQ) /\ UNCHANGED foreground

\* _consume_armed_key_event_locked: the first armed edge of this direction.
Matches == Head(hookQ) \in ToSet(armed)
Consume == armed' = RemoveFirst(armed, Head(hookQ)) /\ Swallow /\ hook' = "idle"

\* Without the hook, and on its zero-wait path, an edge passes at once.
PassEdge ==
    /\ hookQ # <<>>
    /\ hook = "off" \/ (hook = "idle" /\ armable = "no" /\ ~seen)
    /\ Pass
    /\ UNCHANGED <<budget, key, rawQ, tapQ, appVars, listenerVars, hookVars, agentVars, tapVars,
                   held, actions, stuck, unreleased, historyVars>>

\* consume_armed_key_event up to its wait.
TakeEdge ==
    /\ hookQ # <<>> /\ hook = "idle" /\ (armable # "no" \/ seen)
    /\ IF Matches THEN Consume
       ELSE hook' = "waiting" /\ UNCHANGED <<armed, hookQ, foreground>>
    /\ UNCHANGED <<budget, key, rawQ, tapQ, appVars, listenerVars, armable, seen, agentVars,
                   tapVars, held, actions, stuck, unreleased, historyVars>>

\* The condition is notified.
WakeUp ==
    /\ hook = "waiting" /\ Matches
    /\ Consume
    /\ UNCHANGED <<budget, key, rawQ, tapQ, appVars, listenerVars, armable, seen, agentVars,
                   tapVars, held, actions, stuck, unreleased, historyVars>>

\* The deadline: the original key goes on.
WaitEnds ==
    /\ hook = "waiting" /\ ~Matches
    /\ Pass
    /\ hook' = "idle" /\ missed' = TRUE
    /\ UNCHANGED <<budget, key, rawQ, tapQ, appVars, listenerVars, armed, armable, seen,
                   agentVars, tapVars, held, actions, stuck, unreleased, pressed, changed, tapSeen,
                   remapped, crossed>>

-----------------------------------------------------------------------------
(* The Raw Input listener.                                                  *)

\* _handle_keyboard_body or _handle_hid_body up to the raw event, and
\* _on_raw_input_event: it arms an edge of the keyboard.
EmitRaw(s) ==
    /\ listener = "idle" /\ rawQ[s] # <<>>
    /\ listener' = s
    /\ IF s = "hid" \/ Authoritative \/ tapLive \/ ~Configured(bindings)
       THEN UNCHANGED <<armed, seen>>
       ELSE Arm(Head(rawQ[s]).down)
    /\ UNCHANGED <<inputVars, appVars, keyboard, hid, hook, armable, agentVars, tapVars, outVars,
                   historyVars>>

\* Mutant: each source is compared with itself alone.
LogicalEdgeBySource(s, down) == down # IF s = "hid" THEN hid ELSE keyboard

Other(s) == IF s = "hid" THEN keyboard ELSE hid

\* The union of the two sources before and after (_update_source_button and
\* the end of _handle_hid_body).
LogicalEdge(s, down) == (keyboard \/ hid) # (down \/ Other(s))

\* decode_report_usages: whether the button is in the report's snapshot.
InSnapshot(down) == down

\* _handle_keyboard_body and _handle_hid_body: each keeps its own source.
KeyboardSource(down) == keyboard' = down /\ UNCHANGED hid
HidSource(down) == hid' = InSnapshot(down) /\ UNCHANGED keyboard

\* The union is released although the other source has yet to be pressed for
\* this hold.
Crosses(s, m) ==
    /\ keyboard \/ hid
    /\ ~m.down /\ ~Other(s)
    /\ \E t \in Sources \ {s} : \E x \in ToSet(rawQ[t]) : x.down /\ x.hold <= m.hold

\* parse_rawinput_hid_payload or decode_report_usages refuses the report.
Garbled ==
    /\ Spend("faults")
    /\ UNCHANGED <<keyboard, hid, bindings, armable, seen, dispatcherVars>>

\* _on_raw_input_button_event
DispatchRaw(s) ==
    /\ listener = s
    /\ listener' = "idle" /\ rawQ' = [rawQ EXCEPT ![s] = Tail(@)]
    /\ LET m == Head(rawQ[s]) IN
       \/ s = "hid" /\ Garbled /\ UNCHANGED crossed
       \/ /\ IF s = "hid" THEN HidSource(m.down) ELSE KeyboardSource(m.down)
          /\ crossed' = (crossed \/ Crosses(s, m))
          /\ IF LogicalEdge(s, m.down) /\ ~Authoritative THEN Dispatch(m.down)
             ELSE UNCHANGED <<budget, bindings, armable, seen, dispatcherVars>>
    /\ UNCHANGED <<key, hookQ, tapQ, phase, failed, disk, hook, armed, agentVars, tapVars,
                   foreground, pressed, missed, tapSeen>>

-----------------------------------------------------------------------------
(* The tap's thread and the agent.                                          *)

Stopping == phase \in {"stoppingTap", "resetting", "stoppingListener", "stoppingHook", "ended"}

\* Mutant: a host that has changed is taken for the one that was injected.
KnownAlways == attempted # 0

\* Another process than the one injected forgets the injection.
Known == attempted = host

\* find_rc003_hidogatt_host_pid
HostFound == host # 0

\* The gadget's script: it hooks the reads and sends heartbeats from then on.
ScriptRuns == loaded' = TRUE

\* inject_library: the host loads the gadget, which starts its script.
Inject == attempted' = host /\ ScriptRuns

\* prepare_secure_runtime: the archive, the directory's rights or the files
\* are refused.
RuntimeFails == UNCHANGED loaded
\* enable_debug_privilege: this process lacks the right.
PrivilegeFails == UNCHANGED loaded
\* inject_library fails before the remote thread, or stops waiting for it.
LibraryFails == UNCHANGED loaded \/ ScriptRuns

InjectFails ==
    /\ ~Known /\ Spend("faults")
    /\ attempted' = 0
    /\ RuntimeFails \/ PrivilegeFails \/ LibraryFails

\* bind() and listen() raise: nothing in _run catches it, the thread is gone.
SocketFails == Spend("faults") /\ tap' = "dead" /\ UNCHANGED <<attempted, loaded>>

\* One turn of _run up to accept().
Seek ==
    /\ tap = "seeking" /\ report = "none" /\ ~Stopping /\ HostFound
    /\ \/ /\ tap' = "accepting"
          /\ IF Known THEN UNCHANGED <<attempted, loaded>> ELSE Inject
          /\ UNCHANGED budget
       \/ InjectFails /\ UNCHANGED tap
       \/ SocketFails
    /\ UNCHANGED <<key, hookQ, rawQ, tapQ, appVars, listenerVars, hookVars, host, usage, direct,
                   report, tapLive, outVars, historyVars>>

\* connectToHub: the agent tries again and again.
AgentConnects == loaded

\* accept() or its timeout.
Accept ==
    /\ tap = "accepting"
    /\ tap' = IF AgentConnects THEN "attached" ELSE "seeking"
    /\ UNCHANGED <<inputVars, appVars, listenerVars, hookVars, agentVars, attempted, usage, direct,
                   report, tapLive, outVars, historyVars>>

\* _on_direct_hid_report up to its lock's end, for a report that differs from
\* the tap's last one.
TakeReport(down) ==
    /\ direct' = down
    /\ report' = IF direct # down THEN "taken" ELSE "none"

\* _handle_ioctl_output
ReadReport ==
    /\ tap = "attached" /\ report = "none" /\ tapQ # <<>>
    /\ tapQ' = Tail(tapQ)
    /\ usage' = Head(tapQ)
    /\ IF Head(tapQ) # usage THEN TakeReport(Head(tapQ)) ELSE UNCHANGED <<direct, report>>
    /\ UNCHANGED <<budget, key, hookQ, rawQ, appVars, listenerVars, hookVars, agentVars, tap,
                   attempted, tapLive, outVars, historyVars>>

\* It lifts the filter for a press, and arms the edge (_arm_from_direct_usage):
\* where the filter was not lifted, the hook treats the key otherwise from now on.
ArmReport ==
    /\ report = "taken"
    /\ report' = "armed" /\ tapSeen' = TRUE
    /\ tapLive' = (tapLive \/ usage)
    /\ IF hook = "off" THEN UNCHANGED <<armed, armable, seen>>
       ELSE /\ armable' = IF usage THEN "unfiltered" ELSE armable
            /\ Arm(usage)
    /\ IF tapLive THEN UNCHANGED changed ELSE Changes
    /\ UNCHANGED <<inputVars, appVars, listenerVars, hook, agentVars, tap, attempted, usage, direct,
                   outVars, pressed, missed, remapped, crossed>>

DispatchReport ==
    /\ report = "armed"
    /\ report' = "none"
    /\ Dispatch(usage)
    /\ UNCHANGED <<key, hookQ, rawQ, tapQ, phase, failed, disk, listenerVars, hook, armed, agentVars, tap,
                   attempted, usage, direct, tapLive, foreground, pressed, missed, tapSeen,
                   crossed>>

\* Mutant: a lost agent leaves its buttons as they are.
ReleaseNothing == UNCHANGED <<usage, direct, report>>

\* _release_active: an empty report.
ReleaseActive ==
    /\ usage' = FALSE
    /\ IF usage THEN TakeReport(FALSE) ELSE UNCHANGED <<direct, report>>

\* The loop over one agent ends: the host has changed, the agent closes its
\* socket, its heartbeat is lost, or stop() was called.
LoopOverEnds ==
    /\ \/ host # attempted /\ attempted' = 0 /\ UNCHANGED budget
       \/ (Stopping \/ ~loaded) /\ UNCHANGED <<attempted, budget>>
       \/ Spend("faults") /\ UNCHANGED attempted
    /\ tap' = "seeking"

\* The agent's process is gone and its socket reset, or the connection is:
\* recv() catches the timeout only, so the thread ends after its finally.
SocketReset ==
    /\ \/ ~loaded /\ UNCHANGED budget
       \/ Spend("faults")
    /\ tap' = "dead" /\ UNCHANGED attempted

LoseAgent ==
    /\ tap = "attached" /\ report = "none"
    /\ LoopOverEnds \/ SocketReset
    /\ tapQ' = <<>>
    /\ ReleaseActive
    /\ UNCHANGED <<key, hookQ, rawQ, appVars, listenerVars, hookVars, agentVars, tapLive, outVars,
                   historyVars>>

TapEnds ==
    /\ Stopping /\ tap \in {"seeking", "accepting"} /\ report = "none"
    /\ tap' = "off"
    /\ UNCHANGED <<inputVars, appVars, listenerVars, hookVars, agentVars, attempted, usage, direct,
                   report, tapLive, outVars, historyVars>>

-----------------------------------------------------------------------------
(* Connecting and the cleanup of the application.                           *)

Go(from, to) == phase = from /\ phase' = to
\* A start is used up, and so is a fault if it fails.
Spent(b) ==
    /\ budget.starts > 0 /\ budget[b] > 0
    /\ budget' = [budget EXCEPT !.starts = @ - 1, !.faults = IF b = "faults" THEN @ - 1 ELSE @]

\* Raw Input devices: the remote's under either spelling of its identity,
\* another one, one that gives no name.
Paths == {"classic", "ble", "other", "nameless"}
\* _get_device_name
Named(p) == p # "nameless"
\* device_path_matches_rc003
MatchesRC003(p) == Named(p) /\ p \in {"classic", "ble"}
\* enumerate_matching_device_paths
Matching(paths) == {p \in paths : MatchesRC003(p)}
\* select_single_device_path
Single(matches) == Cardinality(matches) = 1

\* No device, more than one, or no way to ask: there is no hook either.
NoListener == Go("down", "hooked") /\ Spent("faults") /\ UNCHANGED listener

\* The listener's thread has its window and is ready (start, _run).
ListenerRuns == Go("down", "listening") /\ listener' = "idle" /\ Spent("starts")

\* The thread fails before it is ready, and gives its window back.
ThreadFails == Go("down", "hooked") /\ Spent("faults") /\ UNCHANGED listener

\* start() does not get rid of a thread that was late: the attempt fails.
ThreadStays == Go("down", "stoppingTap") /\ Spent("faults") /\ listener' = "idle"

\* The sources of a new listener.
NewSources == keyboard' = FALSE /\ hid' = FALSE

\* _start_hid_listener: a new listener, or none.
StartListener ==
    /\ NewSources
    /\ pressed' = IF key THEN pressed + 1 ELSE pressed
    /\ \E paths \in SUBSET Paths :
          IF Single(Matching(paths)) THEN ListenerRuns \/ ThreadFails \/ ThreadStays ELSE NoListener
    /\ UNCHANGED <<key, hookQ, rawQ, tapQ, failed, bindings, disk, hookVars, agentVars, tapVars,
                   outVars, missed, changed, tapSeen, remapped, crossed>>

\* A new suppressor.
NewSuppressor == armed' = <<>> /\ seen' = FALSE /\ armable' = ArmableFor(bindings, tapLive)

\* Its thread has installed its hook (start, _run).
HookRuns == hook' = "idle" /\ NewSuppressor /\ Changes

StartHook ==
    /\ Go("listening", "hooked")
    /\ \/ HookRuns /\ UNCHANGED budget
       \/ Spend("faults") /\ UNCHANGED <<hookVars, changed>>
    /\ UNCHANGED <<key, hookQ, rawQ, tapQ, failed, bindings, disk, listenerVars, agentVars, tapVars,
                   outVars, pressed, missed, tapSeen, remapped, crossed>>

\* dependency_available: the archive of the gadget is there and verified.
GadgetAvailable == budget.gadget
\* start() of the tap: without the gadget it has no thread.
TapRuns == tap' = IF GadgetAvailable THEN "seeking" ELSE "off"
\* A new tap.
NewTap == attempted' = 0 /\ usage' = FALSE /\ tapQ' = <<>>

\* _start_hid_report_tap
StartTap ==
    /\ Go("hooked", "up")
    /\ TapRuns /\ NewTap
    /\ UNCHANGED <<budget, key, hookQ, rawQ, failed, bindings, disk, listenerVars, hookVars,
                   agentVars, direct, report, tapLive, outVars, historyVars>>

BeginCleanup ==
    /\ Go("up", "stoppingTap")
    /\ UNCHANGED <<inputVars, failed, bindings, disk, listenerVars, hookVars, agentVars, tapVars,
                   outVars, historyVars>>

\* stop() of the tap: its thread has ended, or outlives a join of three
\* seconds.
TapStopped == tap \in {"off", "dead"} /\ report = "none"

\* The tap's stop, and the application's part of it.
StopTap ==
    /\ Go("stoppingTap", "resetting")
    /\ \/ TapStopped /\ UNCHANGED <<failed, budget>>
       \/ ~TapStopped /\ Spend("faults") /\ failed' = TRUE
    /\ direct' = FALSE /\ tapLive' = FALSE
    /\ SetArmable(bindings, FALSE)
    /\ IF tapLive THEN Changes ELSE UNCHANGED changed
    /\ UNCHANGED <<key, hookQ, rawQ, tapQ, bindings, disk, listenerVars, hook, armed, agentVars,
                   tap, attempted, usage, report, outVars, pressed, missed, tapSeen, remapped, crossed>>

ResetGestures ==
    /\ Go("resetting", "stoppingListener")
    /\ held' = FALSE /\ remapped' = FALSE
    /\ UNCHANGED <<inputVars, failed, bindings, disk, listenerVars, hookVars, agentVars, tapVars,
                   foreground, actions, stuck, unreleased, pressed, missed, changed, tapSeen, crossed>>

\* Mutant: the listener is stopped and what it holds is not released.
ReleaseAllNot == UNCHANGED <<bindings, armable, seen, budget, dispatcherVars>>

\* _release_all, through _on_raw_input_button_event.
ReleaseAll ==
    IF (keyboard \/ hid) /\ ~Authoritative THEN Dispatch(FALSE)
    ELSE UNCHANGED <<bindings, armable, seen, budget, dispatcherVars>>

\* WM_CLOSE: the window is destroyed, the message loop ends.
LoopEnds ==
    /\ listener \notin Sources
    /\ listener' = "off" /\ rawQ' = NoMessages /\ keyboard' = FALSE /\ hid' = FALSE

\* WM_CLOSE cannot be posted, or the thread outlives its join.
LoopSurvives ==
    /\ listener # "off" /\ Spend("faults")
    /\ UNCHANGED <<listenerVars, rawQ>>

\* stop()
StopListener ==
    /\ Go("stoppingListener", "stoppingHook")
    /\ \/ LoopEnds /\ ReleaseAll /\ UNCHANGED failed
       \/ LoopSurvives /\ failed' = TRUE /\ UNCHANGED <<bindings, armable, seen, dispatcherVars>>
    /\ UNCHANGED <<key, hookQ, tapQ, disk, hook, armed, agentVars, tapVars, foreground, pressed,
                   missed, tapSeen, crossed>>

\* The hook's thread ends, once its callback has.
HookEnds ==
    /\ hook # "waiting"
    /\ hook' = "off" /\ Changes
    /\ UNCHANGED <<failed, budget>>

\* It outlives the join of two seconds: the hook stays installed.
HookSurvives ==
    /\ hook # "off" /\ Spend("faults")
    /\ failed' = TRUE /\ UNCHANGED <<hook, changed>>

\* The suppressor's stop.
StopHook ==
    /\ HookEnds \/ HookSurvives
    /\ Go("stoppingHook", IF failed' THEN "ended" ELSE "down")
    /\ armed' = <<>>
    /\ UNCHANGED <<key, hookQ, rawQ, tapQ, bindings, disk, listenerVars, armable, seen, agentVars,
                   tapVars, outVars, pressed, missed, tapSeen, remapped, crossed>>

-----------------------------------------------------------------------------
Hook == PassEdge \/ TakeEdge \/ WakeUp \/ WaitEnds
Listener == \E s \in Sources : EmitRaw(s) \/ DispatchRaw(s)
Reporting == ReadReport \/ ArmReport \/ DispatchReport
Tap == Seek \/ Accept \/ LoseAgent \/ TapEnds
Application ==
    \/ StartListener \/ StartHook \/ StartTap
    \/ StopTap \/ ResetGestures \/ StopListener \/ StopHook
Environment ==
    \/ Press \/ Release \/ Repeat \/ EditBindings \/ ChangeHost \/ ReloadByOther \/ BeginCleanup

Next == Hook \/ Expire \/ Listener \/ Reporting \/ Tap \/ Application \/ Environment

Spec == Init /\ [][Next]_vars

\* The tap's thread runs on; nothing is assumed of the user or of Windows.
FairSpec == Spec /\ WF_vars(Reporting) /\ WF_vars(Tap)

-----------------------------------------------------------------------------
(* Correctness.                                                             *)

\* One physical press is one action, however many repeats, whichever sources
\* report it and whichever of them comes first (_update_source_button): as long
\* as the tap is silent, and unless one source is released before the other is
\* pressed.  A listener that starts over a held button takes it for a press.
OneActionPerPress == tapSeen \/ crossed \/ actions <= pressed

\* The strict form, for README: the union of the sources is enough.
OneActionInAnyOrder == tapSeen \/ actions <= pressed

\* Without the tap, the dispatcher lets a button go when the listener has seen
\* it released: one press and one release for one physical hold
\* (_update_source_button).
HoldEnds == ~key /\ rawQ = NoMessages /\ listener = "idle" /\ ~tapSeen => ~held

\* When the button is up the foreground window does not think it is down,
\* unless the hook's wait for an arm ran out, or the treatment of edges
\* changed in the middle of a hold (consume_armed_key_event,
\* set_armable_vk_codes).
NoHalfSwallowed == ~key /\ hookQ = <<>> /\ foreground => missed \/ changed

\* After a complete cleanup the dispatcher holds no button, unless its mapping
\* became the identity since the reset (_cleanup_once, _release_all,
\* _release_active); and an action that SendInput delivered in part leaves no
\* key down whose release did not fail as well (send_key_combo_tap).
NothingHeld == (phase = "down" /\ held => remapped) /\ stuck \subseteq unreleased

\* A button the tap has reported is released when the agent, its host or its
\* heartbeat is lost (_release_active).
TapLetsGo == direct => tap = "attached"

\* While the application is up and a host stays, the tap gets attached to it,
\* also to one that replaced the host it had injected (_run), unless an error of
\* its socket has ended its thread.
Attaches(t) ==
    \A h \in 1..2 :
        host = h /\ phase = "up" /\ tap # "off" ~> host # h \/ phase # "up" \/ tap \in t
TapAttaches == Attaches({"attached", "dead"})

\* The strict form, for README: whatever happens to the socket.
TapComesBack == Attaches({"attached"})
=============================================================================
