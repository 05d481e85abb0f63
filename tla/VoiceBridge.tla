------------------------------ MODULE VoiceBridge ------------------------------
(***************************************************************************)
(* The voice path of RC003App (app.py): one physical microphone button,    *)
(* reported three times -- as F5 to the low-level keyboard hook, as a HID  *)
(* report to the optional tap, and as ATVV control events over BLE -- must *)
(* become one host shortcut (a held key, or a pair of taps) and one MIC_OPEN. *)
(*                                                                         *)
(* Threads: the hook thread takes no lock; the voice-edge worker, the tap  *)
(* thread, the BLE decode thread and the event loop's cleanup serialise on *)
(* _voice_trigger_lock.  The lock is held across the slow part of opening  *)
(* a session (lease, PortAudio), so that part is a step of its own:        *)
(* opening # "none" means "some thread holds the lock in that part", and   *)
(* the lock-free hook interleaves with it.                                 *)
(***************************************************************************)
EXTENDS Naturals, Sequences

CONSTANTS
    Preset,       \* "toggle": two taps; "hold": a custom held chord;
                  \* "transform": the hook itself replaces F5 by right-Alt
    Tap,          \* TRUE: the direct HID tap is installed
    QueueMax,     \* maxsize of _voice_edge_queue (64 in the code)
    Faults,       \* the failures that may happen
    Timings,      \* the arrival orders that may happen (see the actions)
    MaxPresses,   \* bound: physical presses and auto-repeats
    MaxControls,  \* bound: ATVV control events
    MaxFaults     \* bound: failures

FaultKinds == {"host", "tapUp", "lease", "restore", "playback", "write", "micWrite",
               "tapLost", "disconnect", "connect", "owner", "join"}
TimingKinds == {"reannounce", "lateStop", "repress", "cleanupEdge",
                "busyCleanup", "tapLate"}

ASSUME PresetAssumption == Preset \in {"toggle", "hold", "transform"}
ASSUME TapAssumption == Tap \in BOOLEAN
ASSUME BoundsAssumption ==
    /\ QueueMax \in Nat \ {0}
    /\ MaxPresses \in Nat /\ MaxControls \in Nat /\ MaxFaults \in Nat
ASSUME EnvAssumption == Faults \subseteq FaultKinds /\ Timings \subseteq TimingKinds

VARIABLES
    remote,      \* the physical button is held
    toHook,      \* F5 edges Windows has not yet shown to the hook
    toTap,       \* HID reports the tap thread has not yet read
    announced,   \* this hold's MIC_BUTTON event has been delivered
    hook,        \* where the hook callback is
    f5,          \* _legacy_f5_is_down
    keyDown,     \* _voice_legacy_transform_key_down
    session,     \* _voice_legacy_transform_session
    emitted,     \* _voice_legacy_transform_emitted
    queue,       \* _voice_edge_queue
    worker,      \* the worker thread, with the edge it is dispatching
    late,        \* a worker that has outlived its two-second join
    outlived,    \* history: a worker has outlived its join
    tap,         \* the tap thread, with the edge it is dispatching
    tapHeld,     \* the tap's last report had the button down
    tapActive,   \* _direct_hid_tap_active
    opening,     \* who holds the lock inside _handle_mic_button_pressed
    rawPending,  \* _voice_raw_input_trigger_pending
    fallback,    \* _voice_audio_start_fallback_pending
    waiting,     \* _voice_audio_started_waiting_for_legacy_f5
    physDown,    \* _voice_physical_button_down
    active,      \* VoiceController.active
    host,        \* the host's view: key held, or recognizer listening
    playback,    \* _playback is not None
    lease,       \* Windows' audio policies are borrowed
    unreturned,  \* the last attempt to give them back has failed
    micPosted,   \* MIC_OPEN is posted to the event loop
    micOpen,     \* MIC_OPEN was sent and the BLE session is not closed yet
    phase,       \* connection lifecycle, see Lifecycle
    reconnect,   \* the supervisor's disconnect event
    failed,      \* this cleanup retained an owner
    presses, controls, faults   \* what is left of the three bounds

envVars == <<remote, toHook, toTap, announced>>
hookVars == <<hook, f5, keyDown, session, emitted>>
oldWorker == <<late, outlived>>
threadVars == <<queue, worker, oldWorker, tap, tapHeld, tapActive, opening>>
latchVars == <<rawPending, fallback, waiting, physDown>>
voiceVars == <<active, host>>
leaseVars == <<lease, unreturned>>
micVars == <<micPosted, micOpen>>
resourceVars == <<playback, leaseVars, micVars>>
lifeVars == <<phase, reconnect, failed>>
vars == <<envVars, hookVars, threadVars, latchVars, voiceVars, resourceVars,
          lifeVars, presses, controls, faults>>

(***************************************************************************)
(* Lifecycle: down -Connect-> ble -StartListener-> hooked -StartWorker->   *)
(* up -StopTap-> untapping -StopEdges-> stopping -JoinWorker-> drained     *)
(* -ResetVoice-> reset -StopHook-> unhooked -CloseBle-> closed             *)
(* -CloseAudio-> down | dead.                                              *)
(***************************************************************************)
Lifecycle == {"down", "ble", "hooked", "up", "untapping", "stopping", "drained",
              "reset", "unhooked", "closed", "dead"}

HookOn == phase \in {"hooked", "up", "untapping", "stopping", "drained", "reset"}
BleOn  == HookOn \/ phase \in {"ble", "unhooked"}
TapOn  == Tap /\ phase \in {"hooked", "up"}
LockFree == opening = "none"

Motion == {"down", "up"}
Edge == [press : BOOLEAN, handled : BOOLEAN]
HookSteps == {"idle", "emitDown", "emitUp", "reportDown", "reportUp"}
WorkerSteps == {"off", "idle", "press", "handledPress", "release"}
Openers == {"none", "worker", "late", "tap", "control", "audio"}

EdgeFlags ==
    /\ remote \in BOOLEAN /\ announced \in BOOLEAN
    /\ tapHeld \in BOOLEAN /\ tapActive \in BOOLEAN /\ outlived \in BOOLEAN
HookFlags ==
    /\ f5 \in BOOLEAN /\ keyDown \in BOOLEAN
    /\ session \in BOOLEAN /\ emitted \in BOOLEAN
VoiceFlags ==
    /\ rawPending \in BOOLEAN /\ fallback \in BOOLEAN
    /\ waiting \in BOOLEAN /\ physDown \in BOOLEAN
    /\ active \in BOOLEAN /\ host \in BOOLEAN
OwnerFlags ==
    /\ playback \in BOOLEAN /\ lease \in BOOLEAN /\ unreturned \in BOOLEAN
    /\ micPosted \in BOOLEAN /\ micOpen \in BOOLEAN
    /\ reconnect \in BOOLEAN /\ failed \in BOOLEAN

ThreadTypes ==
    /\ hook \in HookSteps /\ opening \in Openers /\ phase \in Lifecycle
    /\ worker \in WorkerSteps /\ late \in WorkerSteps
    /\ tap \in {"idle", "press", "release"}
QueueTypes ==
    /\ toHook \in Seq(Motion) /\ toTap \in Seq(Motion)
    /\ queue \in Seq(Edge) /\ Len(queue) <= QueueMax
BudgetTypes ==
    presses \in 0..MaxPresses /\ controls \in 0..MaxControls /\ faults \in 0..MaxFaults

TypeOK == /\ EdgeFlags /\ HookFlags /\ VoiceFlags /\ OwnerFlags
          /\ ThreadTypes /\ QueueTypes /\ BudgetTypes

Init ==
    /\ remote = FALSE /\ toHook = <<>> /\ toTap = <<>> /\ announced = FALSE
    /\ hook = "idle" /\ f5 = FALSE /\ keyDown = FALSE
    /\ session = FALSE /\ emitted = FALSE
    /\ queue = <<>> /\ worker = "off" /\ late = "off" /\ outlived = FALSE /\ tap = "idle"
    /\ tapHeld = FALSE /\ tapActive = FALSE
    /\ opening = "none"
    /\ rawPending = FALSE /\ fallback = FALSE /\ waiting = FALSE /\ physDown = FALSE
    /\ active = FALSE /\ host = FALSE
    /\ playback = FALSE /\ lease = FALSE /\ unreturned = FALSE
    /\ micPosted = FALSE /\ micOpen = FALSE
    /\ phase = "down" /\ reconnect = FALSE /\ failed = FALSE
    /\ presses = MaxPresses /\ controls = MaxControls /\ faults = MaxFaults

-----------------------------------------------------------------------------
(* Delivery to the host.                                                    *)

CanFail(kind) == kind \in Faults /\ faults > 0

\* What is left of the failure budget after a step that went well, or not.
Spend(ok) == faults' = IF ok THEN faults ELSE faults - 1

\* physicalize_injected_event: the hook gives the bridge's own shortcut the
\* look of a physical one.
Physical == HookOn

\* The host after one delivered action: a tap that looks physical flips the
\* recognizer, an edge of the held key sets its level.
Delivered(engage) ==
    CASE Preset # "toggle" -> engage
      [] Preset = "toggle" /\ Physical -> ~host
      [] OTHER -> host

\* Sending the configured shortcut.  keybd_event reports nothing; a failure is
\* an exception before the edge.  A tap whose key-down landed and whose key-up
\* raised is reported as failed as well ("tapUp").
Sent(engage, ok) ==
    \/ ok /\ host' = Delivered(engage)
    \/ ~ok /\ CanFail("host") /\ UNCHANGED host
    \/ ~ok /\ CanFail("tapUp") /\ Preset = "toggle" /\ host' = Delivered(engage)

\* Mutant: a transformed session is taken to be delivered both ways.
ApplyUnreleased(engage, ok) ==
    (IF session THEN ok /\ UNCHANGED host ELSE Sent(engage, ok)) /\ Spend(ok)

\* _apply_voice_action: a transformed session never sends the shortcut; its
\* KEY_UP releases right-Alt if the hook has not released it yet.
Apply(engage, ok) ==
    /\ \/ ~session /\ Sent(engage, ok)
       \/ session /\ (engage \/ ~keyDown) /\ ok /\ UNCHANGED host
       \/ session /\ ~engage /\ keyDown /\ ok /\ host' = FALSE
       \/ session /\ ~engage /\ keyDown /\ ~ok /\ CanFail("host") /\ UNCHANGED host
    /\ Spend(ok)

-----------------------------------------------------------------------------
(* The audio policy lease.  Its restore() returns nothing and does not raise. *)

Returned == lease' = FALSE /\ unreturned' = FALSE
LeftBorrowed == "restore" \in Faults /\ lease' = TRUE /\ unreturned' = TRUE

\* restore().
GiveBack == Returned \/ (lease /\ LeftBorrowed)

\* acquire(), which gives back what it could not borrow completely.
Acquire(ok) ==
    \/ ok /\ lease' = TRUE /\ unreturned' = FALSE
    \/ ~ok /\ CanFail("lease") /\ (Returned \/ LeftBorrowed)

-----------------------------------------------------------------------------
(* The two halves of a session, run under the lock.                         *)

\* _handle_mic_button_pressed up to the shortcut, by thread who.
OpenVoice(handled, who) ==
    /\ waiting' = FALSE
    /\ \/ handled /\ active' = TRUE /\ UNCHANGED <<host, faults>>
       \/ ~handled /\ active' \in BOOLEAN /\ Apply(TRUE, active')
    /\ opening' = IF active' THEN who ELSE "none"

\* Mutant: a closing action is sent without a session.
CloseAlways == active' \in BOOLEAN /\ Apply(FALSE, ~active')

\* The closing action, if a session is open; one that failed stays owed.
Close ==
    \/ ~active /\ UNCHANGED <<active, host, faults>>
    \/ active /\ active' \in BOOLEAN /\ Apply(FALSE, ~active')

\* _close_voice_host_session.
CloseVoice ==
    /\ Close
    /\ keyDown' = (keyDown /\ ~(session /\ active /\ ~active'))
    /\ reconnect' = (reconnect \/ active')
    /\ session' = FALSE
    /\ GiveBack

\* _on_button_event("mic", True).  A free lock is needed by every caller.
MicPress(handled, who) ==
    /\ LockFree
    /\ physDown' = TRUE
    /\ announced' = (announced /\ physDown)
    /\ IF active \/ rawPending \/ ~BleOn
       THEN UNCHANGED <<rawPending, waiting, opening, voiceVars, faults>>
       ELSE OpenVoice(handled, who) /\ rawPending' = active'
    /\ UNCHANGED <<f5, keyDown, session, emitted, hook, fallback, resourceVars, lifeVars>>

\* _on_button_event("mic", False).
MicRelease ==
    /\ LockFree
    /\ physDown' = FALSE
    /\ rawPending' = FALSE
    /\ IF active THEN CloseVoice
                 ELSE UNCHANGED <<voiceVars, keyDown, session, reconnect, leaseVars, faults>>
    /\ UNCHANGED <<announced, f5, emitted, hook, fallback, waiting, opening,
                   playback, micVars, phase, failed>>

-----------------------------------------------------------------------------
(* The physical button.  Its edges reach the hook and the tap separately.   *)

Settled ==
    /\ toHook = <<>> /\ toTap = <<>> /\ hook = "idle" /\ tap = "idle"
    /\ queue = <<>> /\ worker \in {"off", "idle"} /\ late \in {"off", "idle"} /\ LockFree

\* "repress": the button may go down again before its last edges were
\* dispatched (75 ms).  "cleanupEdge": it may move while a cleanup runs
\* between stopping the tap and stopping the hook.  "busyCleanup": a cleanup
\* may begin while the worker still has edges.  "tapLate": the hook may see an
\* F5 before the tap has reported the same edge.
MayMove == phase \in {"untapping", "stopping", "drained", "reset"} => "cleanupEdge" \in Timings

Report(edge) ==
    /\ toHook' = IF HookOn THEN Append(toHook, edge) ELSE toHook
    /\ toTap' = IF TapOn THEN Append(toTap, edge) ELSE toTap

PressButton ==
    /\ ~remote /\ MayMove /\ presses > 0
    /\ Settled \/ "repress" \in Timings
    /\ remote' = TRUE
    /\ presses' = presses - 1
    /\ Report("down")
    /\ UNCHANGED <<announced, hookVars, threadVars, latchVars, voiceVars,
                   resourceVars, lifeVars, controls, faults>>

ReleaseButton ==
    /\ remote /\ MayMove
    /\ remote' = FALSE
    /\ Report("up")
    /\ UNCHANGED <<announced, hookVars, threadVars, latchVars, voiceVars,
                   resourceVars, lifeVars, presses, controls, faults>>

\* WH_KEYBOARD_LL repeats key-down while the button is held; the tap's
\* report is a snapshot that does not change.
AutoRepeat ==
    /\ remote /\ MayMove /\ HookOn /\ presses > 0
    /\ presses' = presses - 1
    /\ toHook' = Append(toHook, "down")
    /\ UNCHANGED <<remote, toTap, announced, hookVars, threadVars, latchVars,
                   voiceVars, resourceVars, lifeVars, controls, faults>>

-----------------------------------------------------------------------------
(* The hook thread: no lock, three steps per F5 edge.                       *)

\* _transform_legacy_voice_key: the edge right-Alt gets, if any.
TransformDown ==
    Preset = "transform" /\ ~(active \/ rawPending \/ keyDown \/ f5)
TransformUp == Preset = "transform" /\ keyDown

HookTransform ==
    /\ HookOn /\ hook = "idle" /\ toHook # <<>>
    /\ toTap = <<>> \/ "tapLate" \in Timings
    /\ toHook' = Tail(toHook)
    /\ \/ /\ Head(toHook) = "down" /\ TransformDown
          /\ hook' = "emitDown" /\ keyDown' = TRUE
       \/ /\ Head(toHook) = "up" /\ TransformUp
          /\ hook' = "emitUp" /\ keyDown' = FALSE
       \/ /\ Head(toHook) = "down" /\ ~TransformDown
          /\ hook' = "reportDown" /\ UNCHANGED keyDown
       \/ /\ Head(toHook) = "up" /\ ~TransformUp
          /\ hook' = "reportUp" /\ UNCHANGED keyDown
    /\ UNCHANGED <<remote, toTap, announced, f5, session, emitted, threadVars,
                   latchVars, voiceVars, resourceVars, lifeVars, presses, controls, faults>>

\* _emit_legacy_voice_key: send_voice_key_combo_down/up(("ralt",)).
HookEmit ==
    /\ hook \in {"emitDown", "emitUp"}
    /\ LET down == hook = "emitDown" IN
       /\ hook' = IF down THEN "reportDown" ELSE "reportUp"
       /\ \/ /\ host' = down /\ emitted' = TRUE
             /\ UNCHANGED <<keyDown, faults>>
          \/ /\ CanFail("host") /\ Spend(FALSE)
             /\ emitted' = FALSE
             /\ keyDown' = (keyDown /\ ~down)
             /\ UNCHANGED host
    /\ UNCHANGED <<envVars, f5, session, threadVars, latchVars, active,
                   resourceVars, lifeVars, presses, controls>>

\* Mutant: F5 is queued although the tap supplies the edges.
DuplicateOfHook(press) == f5 = press

\* _on_legacy_key_event: the tap owns the edge, or it is a repeat, or it is
\* queued for the worker (dropped if the queue is full).
Duplicate(press) == tapActive \/ f5 = press

Enqueue(press, handled) ==
    queue' = IF Len(queue) < QueueMax
             THEN Append(queue, [press |-> press, handled |-> handled]) ELSE queue

LegacyKeyEvent(press) ==
    IF Duplicate(press)
    THEN UNCHANGED <<f5, session, emitted, queue>>
    ELSE /\ f5' = press
         /\ session' = (session \/ (press /\ (emitted \/ keyDown)))
         /\ Enqueue(press, session')
         /\ emitted' = FALSE

\* handle_key_event: the swallowed F5 is reported.
HookReport ==
    /\ hook \in {"reportDown", "reportUp"}
    /\ hook' = "idle"
    /\ LegacyKeyEvent(hook = "reportDown")
    /\ UNCHANGED <<envVars, keyDown, worker, oldWorker, tap, tapHeld, tapActive, opening,
                   latchVars, voiceVars, resourceVars, lifeVars, presses, controls, faults>>

-----------------------------------------------------------------------------
(* The voice-edge worker: _voice_edge_worker_loop, _dispatch_voice_mic_edge. *)

\* queue.get, then the wait for the 75 ms edge-to-tap budget.
WorkerTake ==
    /\ worker = "idle" /\ queue # <<>>
    /\ worker' = IF ~Head(queue).press THEN "release"
                 ELSE IF Head(queue).handled THEN "handledPress" ELSE "press"
    /\ queue' = Tail(queue)
    /\ UNCHANGED <<envVars, hookVars, oldWorker, tap, tapHeld, tapActive, opening, latchVars,
                   voiceVars, resourceVars, lifeVars, presses, controls, faults>>

\* The stop event, which the start of a worker clears, for an older one too.
StopIsSet == worker = "off" \/ phase \notin {"up", "untapping"}

\* The loop looks at the stop event after every edge.
NextWorker == IF StopIsSet THEN "off" ELSE "idle"

WorkerPress ==
    /\ worker \in {"press", "handledPress"}
    /\ MicPress(worker = "handledPress", "worker")
    /\ worker' = IF opening' = "worker" THEN worker ELSE NextWorker
    /\ UNCHANGED <<remote, toHook, toTap, queue, oldWorker, tap, tapHeld, tapActive,
                   presses, controls>>

WorkerRelease ==
    /\ worker = "release"
    /\ MicRelease
    /\ worker' = NextWorker
    /\ UNCHANGED <<remote, toHook, toTap, queue, oldWorker, tap, tapHeld, tapActive,
                   presses, controls>>

\* Mutant: the worker waits for an edge before it looks at the stop event.
WorkerExitBlocked ==
    /\ worker = "idle" /\ phase = "stopping" /\ queue # <<>>
    /\ worker' = "off"
    /\ UNCHANGED <<envVars, hookVars, queue, oldWorker, tap, tapHeld, tapActive, opening,
                   latchVars, voiceVars, resourceVars, lifeVars, presses, controls, faults>>

WorkerExit ==
    /\ worker = "idle" /\ phase = "stopping"
    /\ worker' = "off"
    /\ UNCHANGED <<envVars, hookVars, queue, oldWorker, tap, tapHeld, tapActive, opening,
                   latchVars, voiceVars, resourceVars, lifeVars, presses, controls, faults>>

-----------------------------------------------------------------------------
(* A worker whose join timed out goes on with the edge it has, and with the *)
(* queue of the next connection if that clears the stop event before it looks. *)

LatePress ==
    /\ late \in {"press", "handledPress"}
    /\ MicPress(late = "handledPress", "late")
    /\ late' = IF opening' = "late" THEN late ELSE NextWorker
    /\ UNCHANGED <<remote, toHook, toTap, queue, worker, outlived, tap, tapHeld, tapActive,
                   presses, controls>>

LateRelease ==
    /\ late = "release"
    /\ MicRelease
    /\ late' = NextWorker
    /\ UNCHANGED <<remote, toHook, toTap, queue, worker, outlived, tap, tapHeld, tapActive,
                   presses, controls>>

LateTake ==
    /\ late = "idle" /\ queue # <<>>
    /\ late' = IF ~Head(queue).press THEN "release"
               ELSE IF Head(queue).handled THEN "handledPress" ELSE "press"
    /\ queue' = Tail(queue)
    /\ UNCHANGED <<envVars, hookVars, worker, outlived, tap, tapHeld, tapActive, opening,
                   latchVars, voiceVars, resourceVars, lifeVars, presses, controls, faults>>

LateExit ==
    /\ late = "idle" /\ StopIsSet
    /\ late' = "off"
    /\ UNCHANGED <<envVars, hookVars, queue, worker, outlived, tap, tapHeld, tapActive, opening,
                   latchVars, voiceVars, resourceVars, lifeVars, presses, controls, faults>>

-----------------------------------------------------------------------------
(* The tap thread: _on_direct_hid_report.                                   *)

TapReport ==
    /\ TapOn /\ tap = "idle" /\ toTap # <<>>
    /\ toTap' = Tail(toTap)
    /\ tapHeld' = (Head(toTap) = "down")
    /\ tap' = CASE tapHeld' = tapHeld -> "idle"
                [] tapHeld' /\ ~tapHeld -> "press"
                [] OTHER -> "release"
    /\ tapActive' = (tapActive \/ tapHeld')
    /\ UNCHANGED <<remote, toHook, announced, hookVars, queue, worker, oldWorker, opening,
                   latchVars, voiceVars, resourceVars, lifeVars, presses, controls, faults>>

\* Mutant: a lost Gadget releases nothing.
TapLostHeld ==
    /\ TapOn /\ tap = "idle" /\ tapHeld /\ CanFail("tapLost") /\ Spend(FALSE)
    /\ tapHeld' = FALSE /\ toTap' = <<>>
    /\ UNCHANGED <<remote, toHook, announced, hookVars, queue, worker, oldWorker, tap, tapActive,
                   opening, latchVars, voiceVars, resourceVars, lifeVars, presses, controls>>

\* The injected Gadget's socket closes: frida_compat releases what was held.
TapLost ==
    /\ TapOn /\ tap = "idle" /\ tapHeld /\ CanFail("tapLost") /\ Spend(FALSE)
    /\ tap' = "release" /\ tapHeld' = FALSE /\ toTap' = <<>>
    /\ UNCHANGED <<remote, toHook, announced, hookVars, queue, worker, oldWorker, tapActive,
                   opening, latchVars, voiceVars, resourceVars, lifeVars, presses, controls>>

TapPress ==
    /\ tap = "press"
    /\ MicPress(FALSE, "tap")
    /\ tap' = IF opening' = "tap" THEN tap ELSE "idle"
    /\ UNCHANGED <<remote, toHook, toTap, queue, worker, oldWorker, tapHeld, tapActive,
                   presses, controls>>

TapRelease ==
    /\ tap = "release"
    /\ MicRelease
    /\ tap' = "idle"
    /\ UNCHANGED <<remote, toHook, toTap, queue, worker, oldWorker, tapHeld, tapActive,
                   presses, controls>>

-----------------------------------------------------------------------------
(* The audio endpoint, _open_playback_for_new_session.                       *)

\* Endpoints PortAudio lists under the selected name and host API; none as
\* well if nothing is selected or the query fails.
Endpoints == 0..2
\* resolve_selected_endpoint: never a guess.
Resolves(n) == n = 1
Unresolved == CanFail("playback") /\ Spend(FALSE) /\ UNCHANGED playback

\* open(): the stream, or an endpoint that is gone or takes no format.
OpenSink(ok) ==
    \/ ok /\ playback' = TRUE /\ UNCHANGED faults
    \/ ~ok /\ CanFail("playback") /\ Spend(FALSE) /\ UNCHANGED playback

OpenPlayback(ok) ==
    \/ playback /\ ok /\ UNCHANGED <<playback, faults>>
    \/ ~playback /\ \E n \in Endpoints :
          IF Resolves(n) THEN OpenSink(ok) ELSE ~ok /\ Unresolved

-----------------------------------------------------------------------------
(* The second half of _handle_mic_button_pressed: lease, endpoint, MIC_OPEN. *)

\* send_mic_open_threadsafe: the write is left to the event loop.
PostMicOpen == micPosted' = (micPosted \/ BleOn)

FinishOpening ==
    /\ opening # "none"
    /\ opening' = "none"
    /\ worker' = IF opening = "worker" THEN NextWorker ELSE worker
    /\ late' = IF opening = "late" THEN NextWorker ELSE late
    /\ tap' = IF opening = "tap" THEN "idle" ELSE tap
    /\ fallback' = IF opening = "audio" THEN active ELSE fallback
    /\ \/ Acquire(TRUE) /\ OpenPlayback(TRUE) /\ PostMicOpen
       \/ Acquire(FALSE) /\ Spend(FALSE) /\ UNCHANGED <<playback, micPosted>>
       \/ (Returned \/ LeftBorrowed) /\ OpenPlayback(FALSE) /\ UNCHANGED micPosted
    /\ UNCHANGED <<envVars, hookVars, queue, outlived, tapHeld, tapActive, rawPending, waiting,
                   physDown, voiceVars, micOpen, lifeVars, presses, controls>>

\* _schedule and _write_tx, on the event loop; a failed write asks for a reconnect.
SendMicOpen ==
    /\ micPosted /\ micPosted' = FALSE
    /\ \/ micOpen' = TRUE /\ UNCHANGED <<reconnect, faults>>
       \/ CanFail("micWrite") /\ Spend(FALSE) /\ reconnect' = TRUE /\ UNCHANGED micOpen
    /\ UNCHANGED <<envVars, hookVars, threadVars, latchVars, voiceVars, playback, leaseVars,
                   phase, failed, presses, controls>>

-----------------------------------------------------------------------------
(* ATVV control events, on the BLE decode thread: _on_control_event.        *)

\* _open_playback_for_new_session with its result ignored.
TryPlayback == \E ok \in BOOLEAN : OpenPlayback(ok)

ControlArrives ==
    /\ BleOn /\ LockFree /\ controls > 0
    /\ controls' = controls - 1
    /\ UNCHANGED <<remote, toHook, toTap, hook, f5, emitted, queue, worker, oldWorker, tap,
                   tapHeld, tapActive, presses>>

\* "reannounce": a hold may announce itself again.  "lateStop": an AUDIO_STOP
\* may arrive in a hold that is not announced yet, from the hold before it.
InOrder(kind, expected) == kind \in Timings \/ (physDown => announced = expected)

ConsumeLatch ==
    \/ rawPending /\ rawPending' = FALSE /\ UNCHANGED fallback
    \/ ~rawPending /\ fallback /\ fallback' = FALSE /\ UNCHANGED rawPending

\* Mutant: a toggle preset also opens on an event of a hold that has ended.
OpensOnEventLate == Preset = "toggle"

\* An ATVV event opens a session only for the legacy toggle, while the button
\* is held.
OpensOnEvent == Preset = "toggle" /\ physDown

\* In TOGGLE mode _waiting_for_legacy_f5 is never set, so its branch there
\* is not reachable.
MicButtonEvent ==
    /\ ControlArrives /\ InOrder("reannounce", FALSE)
    /\ announced' = TRUE
    /\ \/ /\ ConsumeLatch
          /\ UNCHANGED <<waiting, voiceVars, opening, playback, faults>>
       \/ /\ ~rawPending /\ ~fallback /\ Preset # "toggle"
          /\ waiting' = TRUE /\ TryPlayback
          /\ UNCHANGED <<rawPending, fallback, voiceVars, opening>>
       \/ /\ ~rawPending /\ ~fallback /\ Preset = "toggle" /\ ~physDown
          /\ UNCHANGED <<rawPending, fallback, waiting, voiceVars, opening, playback, faults>>
       \/ /\ ~rawPending /\ ~fallback /\ OpensOnEvent
          /\ OpenVoice(FALSE, "control")
          /\ UNCHANGED <<rawPending, fallback, playback>>
    /\ UNCHANGED <<keyDown, session, physDown, leaseVars, micVars, lifeVars>>

AudioStartedEvent ==
    /\ ControlArrives
    /\ fallback' = FALSE
    /\ \/ /\ active \/ (Preset = "toggle" /\ ~physDown)
          /\ UNCHANGED <<waiting, voiceVars, opening, playback, faults>>
       \/ /\ ~active /\ Preset # "toggle"
          /\ waiting' = TRUE /\ TryPlayback
          /\ UNCHANGED <<voiceVars, opening>>
       \/ /\ ~active /\ OpensOnEvent
          /\ OpenVoice(FALSE, "audio")
          /\ UNCHANGED playback
    /\ UNCHANGED <<announced, keyDown, session, rawPending, physDown, leaseVars, micVars,
                   lifeVars>>

AudioStoppedEvent ==
    /\ ControlArrives /\ InOrder("lateStop", TRUE)
    /\ fallback' = FALSE /\ waiting' = FALSE /\ rawPending' = FALSE
    /\ IF physDown
       THEN UNCHANGED <<voiceVars, keyDown, session, reconnect, leaseVars, faults>>
       ELSE CloseVoice
    /\ UNCHANGED <<announced, physDown, opening, playback, micVars, phase, failed>>

\* write() raises: the stream takes no more samples.
FrameLost == playback /\ CanFail("write") /\ Spend(FALSE)
\* close(): a sink that raises is kept.
CloseSink(ok) == playback' = ~ok

\* _on_pcm_frame: a failed write closes the sink and asks for a reconnect.
WriteFails ==
    /\ BleOn /\ FrameLost
    /\ \E ok \in BOOLEAN : CloseSink(ok)
    /\ reconnect' = TRUE
    /\ UNCHANGED <<envVars, hookVars, threadVars, latchVars, voiceVars, leaseVars, micVars,
                   phase, failed, presses, controls>>

-----------------------------------------------------------------------------
(* Connecting: one attempt of the supervisor, _connect_once.                *)

NewPhase(from, to) == phase = from /\ phase' = to

Connect ==
    /\ NewPhase("down", "ble")
    /\ reconnect' = FALSE
    /\ UNCHANGED <<envVars, hookVars, threadVars, latchVars, voiceVars, resourceVars,
                   failed, presses, controls, faults>>

\* discover, select or connect raised: straight to the cleanup.
ConnectFails ==
    /\ NewPhase("down", "untapping")
    /\ CanFail("connect") /\ Spend(FALSE)
    /\ reconnect' = FALSE
    /\ UNCHANGED <<envVars, hookVars, threadVars, latchVars, voiceVars, resourceVars,
                   failed, presses, controls>>

\* _start_hid_listener and _start_hid_report_tap.
StartListener ==
    /\ NewPhase("ble", "hooked")
    /\ UNCHANGED <<envVars, hookVars, threadVars, latchVars, voiceVars, resourceVars,
                   reconnect, failed, presses, controls, faults>>

StartWorker ==
    /\ NewPhase("hooked", "up")
    /\ worker' = "idle"
    /\ UNCHANGED <<envVars, hookVars, queue, oldWorker, tap, tapHeld, tapActive, opening,
                   latchVars, voiceVars, resourceVars, reconnect, failed,
                   presses, controls, faults>>

Disconnect ==
    /\ BleOn /\ CanFail("disconnect") /\ Spend(FALSE)
    /\ reconnect' = TRUE
    /\ UNCHANGED <<envVars, hookVars, threadVars, latchVars, voiceVars, resourceVars,
                   phase, failed, presses, controls>>

-----------------------------------------------------------------------------
(* _cleanup_once, one action per step.                                      *)

\* The tap thread is joined, then the tap releases what it still held.
StopTap ==
    /\ NewPhase("up", "untapping") /\ reconnect /\ tap = "idle"
    /\ "cleanupEdge" \in Timings \/ (toHook = <<>> /\ hook = "idle")
    /\ "busyCleanup" \in Timings \/ (queue = <<>> /\ worker = "idle" /\ LockFree)
    /\ toTap' = <<>> /\ tapHeld' = FALSE
    /\ tap' = IF tapHeld THEN "release" ELSE "idle"
    /\ UNCHANGED <<remote, toHook, announced, hookVars, queue, worker, oldWorker, tapActive,
                   opening, latchVars, voiceVars, resourceVars, reconnect, failed,
                   presses, controls, faults>>

\* _direct_hid_tap_active is cleared and the worker's stop event is set.
StopEdges ==
    /\ NewPhase("untapping", "stopping") /\ tap = "idle"
    /\ tapActive' = FALSE
    /\ UNCHANGED <<envVars, hookVars, queue, worker, oldWorker, tap, tapHeld, opening,
                   latchVars, voiceVars, resourceVars, reconnect, failed,
                   presses, controls, faults>>

\* The join of a worker whose edge takes longer than two seconds: it is forgotten.
OutliveJoin ==
    /\ worker \notin {"off", "idle"} /\ late = "off" /\ CanFail("join") /\ Spend(FALSE)
    /\ late' = worker /\ outlived' = TRUE
    /\ opening' = IF opening = "worker" THEN "late" ELSE opening

\* The worker has exited, or is left behind; its queue is replaced by an empty one.
JoinWorker ==
    /\ NewPhase("stopping", "drained")
    /\ \/ worker = "off" /\ UNCHANGED <<oldWorker, opening, faults>>
       \/ OutliveJoin
    /\ worker' = "off" /\ queue' = <<>>
    /\ UNCHANGED <<envVars, hookVars, tap, tapHeld, tapActive, latchVars, voiceVars,
                   resourceVars, reconnect, failed, presses, controls>>

ResetVoice ==
    /\ NewPhase("drained", "reset") /\ LockFree
    /\ Close
    /\ failed' = (failed \/ active')
    /\ fallback' = FALSE /\ waiting' = FALSE /\ rawPending' = FALSE /\ physDown' = FALSE
    /\ keyDown' = FALSE /\ session' = FALSE /\ emitted' = FALSE /\ f5' = FALSE
    /\ UNCHANGED <<envVars, hook, threadVars, resourceVars, reconnect, presses, controls>>

\* The listener and the hook: the hook thread ends after its current event,
\* and F5 is the foreground application's from now on.
StopHook ==
    /\ NewPhase("reset", "unhooked") /\ hook = "idle"
    /\ toHook' = <<>>
    /\ UNCHANGED <<remote, toTap, announced, hookVars, threadVars, latchVars, voiceVars,
                   resourceVars, reconnect, failed, presses, controls, faults>>

\* Mutant: an owner that does not let go is kept silently.
ReleaseSilent(owned) ==
    \/ owned' = FALSE /\ UNCHANGED <<failed, faults>>
    \/ owned /\ CanFail("owner") /\ Spend(FALSE) /\ UNCHANGED <<owned, failed>>

\* A step whose owner does not let go keeps it, and cleanup fails at the end.
Release(owned) ==
    \/ owned' = FALSE /\ UNCHANGED <<failed, faults>>
    \/ owned /\ CanFail("owner") /\ Spend(FALSE) /\ failed' = TRUE /\ UNCHANGED owned

\* The decode thread is joined; a MIC_OPEN that is posted, or being written, is
\* cancelled.
CloseBle ==
    /\ NewPhase("unhooked", "closed") /\ opening \notin {"control", "audio"}
    /\ Release(micOpen)
    /\ micPosted' = FALSE
    /\ UNCHANGED <<envVars, hookVars, threadVars, latchVars, voiceVars, playback, leaseVars,
                   reconnect, presses, controls>>

CloseAudio ==
    /\ phase = "closed"
    /\ Release(playback)
    /\ GiveBack
    /\ phase' = IF failed' THEN "dead" ELSE "down"
    /\ UNCHANGED <<envVars, hookVars, threadVars, latchVars, voiceVars, micVars,
                   reconnect, presses, controls>>

-----------------------------------------------------------------------------

Environment == PressButton \/ ReleaseButton \/ AutoRepeat
HookThread == HookTransform \/ HookEmit \/ HookReport
WorkerThread == WorkerTake \/ WorkerPress \/ WorkerRelease \/ WorkerExit
LateThread == LatePress \/ LateRelease \/ LateTake \/ LateExit
TapThread == TapReport \/ TapLost \/ TapPress \/ TapRelease
BleThread == \/ MicButtonEvent \/ AudioStartedEvent \/ AudioStoppedEvent
             \/ WriteFails \/ Disconnect \/ SendMicOpen
Supervisor == \/ Connect \/ ConnectFails \/ StartListener \/ StartWorker
              \/ StopTap \/ StopEdges \/ JoinWorker \/ ResetVoice
              \/ StopHook \/ CloseBle \/ CloseAudio

\* The bridge may rest: connected with nothing to do, or ended by a failed
\* cleanup.
Rest ==
    /\ phase = "dead" \/ (phase = "up" /\ Settled /\ ~reconnect)
    /\ UNCHANGED vars

Next == Environment \/ HookThread \/ WorkerThread \/ LateThread \/ TapThread
        \/ FinishOpening \/ BleThread \/ Supervisor \/ Rest

Spec == Init /\ [][Next]_vars

\* Each thread is scheduled; none of the events of the outside is promised.
Fairness ==
    /\ WF_vars(HookThread) /\ WF_vars(WorkerThread) /\ WF_vars(FinishOpening)
    /\ WF_vars(TapReport \/ TapPress \/ TapRelease)
    /\ WF_vars(Connect \/ StartListener \/ StartWorker \/ StopTap \/ StopEdges
               \/ JoinWorker \/ ResetVoice \/ StopHook \/ CloseBle \/ CloseAudio)

FairSpec == Spec /\ Fairness

-----------------------------------------------------------------------------
(* Safety.                                                                  *)

\* The events with which the toggle presets keep their two taps in step: the
\* shortcut is delivered, and a hold's ATVV events arrive in order.
Disciplined ==
    \/ Preset = "hold"
    \/ /\ Preset = "toggle"
       /\ Faults \cap {"host", "tapUp"} = {}
       /\ Timings \cap {"reannounce", "lateStop"} = {}

\* The voice controller never disagrees with the host: a session it believes
\* open is one the host has open (key held, recognizer listening), and the
\* reverse, whatever threads, faults and disconnects interleave -- unless a
\* worker has outlived its two-second join (_stop_voice_edge_worker).
HostMatchesController == Disciplined /\ ~outlived => host = active

\* The same without the discipline: what the pending latches are meant to give.
HostMatches == host = active

\* A session still open after its release was dispatched is one whose closing
\* action failed: a reconnect is requested that retries it, or the cleanup that
\* retried it has failed and ends the bridge -- or an outlived worker opened it.
OwedSessionReconnects == active => physDown \/ reconnect \/ failed \/ outlived

\* A finished cleanup leaves nothing of the old connection behind -- no host
\* shortcut, playback or open microphone -- and Windows' audio policies only if
\* giving them back was tried since they were last borrowed, and failed.
CleanSlate ==
    phase = "down" /\ ~outlived =>
        ~(host \/ active \/ playback \/ micOpen) /\ (lease => unreturned)

\* A cleanup that reports no failure has released everything (_cleanup_once,
\* CleanupIncompleteError).
NothingLeft == phase = "down" => ~(host \/ active \/ lease \/ playback \/ micOpen)

\* right-Alt is never down without somebody who will release it: the hook at
\* the F5 key-up it still waits for, the hook right now, or the controller.
HostOwed == host => keyDown \/ hook = "emitUp" \/ active

\* right-Alt never stays down: with the button up and every edge dispatched, a
\* key still down belongs to a session whose closing action is owed.
NoStuckAlt == Settled /\ ~remote /\ host => active

\* "A reconnect is a fresh input session": an attempt starts with no edge
\* from before it and with the hook's key-state clear.
FreshInputSession == phase = "down" => queue = <<>> /\ ~f5 /\ ~keyDown

-----------------------------------------------------------------------------
(* Action properties.                                                       *)

\* MIC_OPEN is written only inside a session.
MicOpenInSession == [][~micOpen /\ micOpen' => active]_vars

\* Once the tap supplies the edges, the F5 of the same press is a duplicate
\* that opens nothing: a session opens only while the tap's hold lasts, unless an
\* outlived worker opens it.
TapSuppliesEdges ==
    [][~active /\ active' /\ tapActive /\ ~outlived => tapHeld \/ tap = "release"]_vars

\* The release of the current hold is still on its way.
ReleaseUnderway ==
    \/ remote
    \/ \E i \in DOMAIN toHook : toHook[i] = "up"
    \/ \E i \in DOMAIN toTap : toTap[i] = "up"
    \/ hook \in {"emitUp", "reportUp"}
    \/ \E i \in DOMAIN queue : ~queue[i].press
    \/ worker = "release" \/ tap = "release"

\* A session opens only for a press whose release will still be dispatched:
\* no late control event and no stale edge opens the recognizer, unless an outlived
\* worker dispatches it.
OpensForAHold == [][~active /\ active' /\ ~outlived => ReleaseUnderway]_vars

\* No edge is queued before there is a worker to take it: what the comment in
\* _connect_once (app.py:302-304) says of the order of its calls.
WorkerBeforeEdges == [][Len(queue') > Len(queue) => worker # "off"]_vars

\* The endpoint is open before the shortcut is sent (the documented order).
EndpointBeforeShortcut == [][~host /\ host' => playback]_vars

-----------------------------------------------------------------------------
(* Liveness.                                                                *)

\* A session does not outlive the physical hold: once the button stays up the
\* session ends (or a failed cleanup has ended the bridge, or a worker that outlived
\* its join may have opened it).
SessionsEnd == []<>(remote \/ ~active \/ phase = "dead" \/ outlived)

\* A cleanup that has begun runs to the end.
CleanupEnds == phase = "untapping" ~> phase \in {"down", "dead"}
=============================================================================
