# TLA+ models of the RC003 remote-microphone bridge

The repository turns a Bluetooth remote control into a push-to-talk microphone
for Windows: while its microphone button is held, the bridge triggers the
user's voice recognizer on the host, opens the remote's microphone over BLE and
plays the decoded speech into a virtual audio cable the recognizer listens to.
The other buttons become key chords and program launches. Everything below is
about that product: `apps/windows/rc003` (Python, package `ovb_rc003`) and the
C++ core it can be switched to (`src/`, bound as `remotemic_native`). Paths in
this file are relative to `src/remote_mic_han/`; `app.py` and the other Python
files without a directory are in `apps/windows/rc003/src/ovb_rc003/`.

Contents: 1 the system, 2 the models, 3 the runs, 4 bounds and fairness, 5 the
proofs, 6 what the code does not keep, 7 what is not modelled, 8 the plan.

## 1. The system

| Part | State it keeps | Operations | Interacts with |
|---|---|---|---|
| **Bridge application** (`app.py`) | latches of the microphone hold, edge queue and worker, owners of playback and policies | hook, tap and ATVV callbacks, open / close a voice session, connect, cleanup | everything below; five threads under `_voice_trigger_lock`, the hook outside of it |
| **Voice controller** (`voice_controller.py`) | is a session open, in which mode | start, stop, failed action | asked by the application which host action to send |
| **Button gestures** (`button_gesture.py`) | per button: press, waiting click, decided long press; timers | edges, three timeouts, reset | Raw Input thread, timer threads, action execution |
| **Policy lease** (`src/audio/windows_voice_audio_policy_lease.cpp`) | registry marker, active flag, Windows' default endpoints and ducking | recover, acquire, restore | voice sessions, process start, the user in the control panel |
| **Native coordinator** (`src/app/application_coordinator.cpp`, `application_coordinator_native.py`) | coordinator state, session, route, event mailbox; Python's edge queue and release debouncer | start, stop, microphone edges, BLE callbacks, event pump | BLE dispatcher thread under the coordinator's mutex; hook, timer and worker threads in Python |
| **Connection supervisor** (`connection_supervisor.py`) | disconnect event, retry delay | run, reconnect request, stop | starts and cleans up either application |
| **BLE session** (`ble_transport_winrt.py`, `src/ble/`) | generation, notification queue, decode worker | connect, MIC_OPEN, close | WinRT callbacks on foreign threads |
| **Audio route** (`src/audio/wasapi_audio_route.cpp`, `bounded_pcm_queue.cpp`, `pcm_chunker.cpp`) | bounded sample queue, writer thread | start, write, drain, stop, close | decoder thread writes, coordinator closes |
| **Ordinary buttons** (`raw_input_windows.py`, `legacy_key_suppressor_windows.py`, `frida_compat.py`, `app.py`) | what each source thinks is down, armed edges, mappings | Raw Input messages, arming, hook callback, HID reports, dispatch, reload | hook thread waits for the thread that arms; the tap's agent runs inside another process |
| **Process control** (`single_instance.py`, `bridge_control_windows.py`, `bridge_launcher.py`, `__main__.py`) | named mutex and stop event | acquire, request stop, launch, replace | settings window and bridge processes |
| **Configuration, statistics** (`config.py`, `usage_statistics.py`) | JSON files | load with recovery, atomic save, read-modify-write | settings window and bridge write both |
| **HID filter driver** (`apps/windows/rc003/driver`) | capture ring, filter devices | report completion, dump, clear | control device against completion routines |

What is hard in this code:

* **One button, three reports.** A press of the microphone button reaches the
  process as an F5 key event, as a HID report and as ATVV control events, in any
  order and on three threads. Exactly one shortcut must result, and for the
  two-tap presets the taps must stay in pairs: a lost or doubled tap leaves the
  recognizer listening when nobody holds the button.
* **A lock that one thread may not take.** The keyboard hook must return at
  once, so it shares flags with the threads that hold the lock for seconds.
* **Timers that cannot be recalled.** `threading.Timer.cancel` does nothing to a
  timer that already waits for the lock; its callback is only late.
* **Borrowed settings.** The user's default microphone is changed while a voice
  session runs; a crash, a failing call or a user who changes it meanwhile must
  not lose the original.
* **Callbacks under a mutex that the joining thread holds** (C++ coordinator).
* **Two processes' files and kernel objects.** A mutex, a manual-reset event and
  three JSON files are shared by bridges and settings windows that start, end and
  are killed at any time, and each object has a lifetime of its own.
* **A key that has already been seen.** The hook must decide to swallow a key
  before it can know that another thread will act on it; the decision for the
  key-down and the one for the key-up may fall differently.
* **Cleanup over partial failure.** Each step may fail; an owner that does not let
  go must be kept and must keep the next connection from starting over it.

`PROJECT.json` lists these and the other hazards, each at its line.

The correctness of each part, in a sentence: the host follows the hold, and what
a hold borrowed is given back (voice path, coordinator); a gesture ends in one
outcome, after its own deadline (gestures); a setting is the user's or can be
given back (lease); a lost link ends in a cleanup, a cleanup ends, and nothing of
the old connection survives it (supervisor, BLE session, coordinator); the mailbox
never drops the event that matters, and what another queue drops is never
mistaken for something else (BLE, edge queue); samples are played in order
and close returns (route); two processes never own the device, and neither edits nor
counts are lost (process control, files); one press is one action and nothing
stays down (ordinary buttons).

## 2. The models

Each component has a module named for it, an `MC` module with the sets its
configurations use, and a `Proofs` module that extends it. `PROJECT.json` maps
every definition to the lines it stands for. A definition whose comment says
*Mutant* is no part of the model: it is a plausible mistake in the definition
below it, put in its place to show that the property named in `PROJECT.json`
would notice.

### VoiceBridge: the voice path of the Python application

The state is what the threads share: the F5 edges on their way to the hook and
the HID reports on their way to the tap (`toHook`, `toTap`), the hook's flags
(`f5`, `keyDown`, `session`, `emitted`), the bounded edge queue, the latches that
decide whether a later ATVV event repeats a press already handled (`rawPending`,
`fallback`, `waiting`, `physDown`), the controller (`active`), what the host really
has (`host`: key down, or recognizer listening), the owners a session creates
(`playback`, `lease`, `micOpen`) and the phase of the connection.

`opening` is the lock. A session is opened in two halves: the shortcut
(`OpenVoice`), then the slow part that acquires the lease, opens PortAudio and
posts MIC_OPEN to the event loop (`FinishOpening`). The whole of it runs under
`_voice_trigger_lock`; everything else that takes the lock is a single step with
the guard `LockFree`. The write itself (`SendMicOpen`) comes whenever the event loop
gets to it, outside of the lock. The hook takes no lock, so its three parts --
transform, emit, report (`HookTransform`, `HookEmit`, `HookReport`) -- interleave with
everybody. The cleanup is one action per step of `_cleanup_once`, because events
arrive between them.

Two things may be left behind. The lease's `restore` returns nothing: when it fails
the policies stay borrowed, the caller goes on as if they were returned and only the
history `unreturned` knows (`GiveBack`); the next acquire or cleanup tries again. A
worker in the middle of an edge may outlive the cleanup's two-second join
(`OutliveJoin`): the next connection starts another one, and the old one, `late`,
still finishes its edge and, since both share the stop event that the new connection
clears, may take edges of it. `outlived` is the history of that.

Smaller parts are definitions of their own: whether the hook makes an injected tap
physical, without which the recognizer does not see it (`Physical`,
`Delivered`), the choice of the output endpoint by its name (`Resolves`), the
opening of its stream and what closing it may leave (`OpenPlayback`, `CloseSink`).

Three kinds of preset behave differently and are the constant `Preset`: `toggle`
(two taps), `hold` (a custom chord held down), and `transform` (the hook itself
replaces F5 by right-Alt, so the key is down before the worker hears of it).

A failed host key comes in two forms: not sent (`"host"`), or sent and reported as
failed (`"tapUp"`: the tap's down edge went through). ATVV events may come when
the code does not expect them: a second announcement (`"reannounce"`), the stop of
the last hold in the next (`"lateStop"`).

### ButtonGesture, GestureContract: the other buttons

One button, since buttons share nothing but the lock. A timer is not one flag:
`entry` is the timer the dispatcher's dict holds (off, armed, or elapsed and
waiting for the lock), `orphans` are running timers whose entry another callback
popped, `late` are elapsed ones outside of the dict. Cancelling removes an armed
entry and turns an elapsed one into a late one, as `threading.Timer.cancel` does.
A decided trigger is called after the lock is left, so it is owed (`edge`,
`calls`) before it is delivered.

`GestureContract` is the docstring's promise: held, or exactly one of single,
double and long per gesture, each after its own deadline. `ButtonGesture`
implements it by the mapping at `Contract`, as long as an elapsed timer gets the
lock before the next edge (`Prompt`).

### PolicyLease: the borrowed audio settings

Every registry write, endpoint query and endpoint change is a step, in the code's
order, so that the process may be killed (`Crash`) between any two. `value` is what
Windows has, `choice` what the user last chose, `marker` the registry key. The caller
is part of the module: a connection attempt recovers a stale marker (`Recover`), a
session acquires, its end and every cleanup restore; `session` says that one runs. A
restore that fails in part leaves the lease `active`, and the next acquire then
returns at once. `lost` is a history of the settings whose own query failed where the
code goes on: a ducking preference that cannot be read counts as unset (cpp:227), an
endpoint that cannot be read in a restore as the user's own (cpp:187). `then`
remembers which of them called the shared `restore_marker_state`, because what happens
to `active_` afterwards depends on it.

### NativeBridge: the C++ coordinator and its Python application

Python owns the edges: hook, release debouncer (`timers`, `pending`, `handlers`:
a timer that will run, a handler that is scheduled, a handler already taken by
its thread), queue, worker and the host's two taps. C++ owns the session: every
entry point runs under one recursive mutex and is one step. `start` and `stop`
are the exceptions. They hold the mutex while they wait for the BLE transport
(`mutex`), whose dispatcher thread delivers callbacks that take the same mutex
(`dispatcher`): `EnterCallback` is the dispatcher before it has the mutex,
`RunCallback` after. `mailbox` is the coordinator's bounded event mailbox that
Python polls (`Pump`).

A cleanup may come at any moment: in a hold, in the debouncer's window, while
the worker has an edge in its hand. What it loses is recorded and not forbidden: an
edge that never reaches the worker (`edgeLost`: dropped from the full queue, the press
of a bounce, a hook stopped in a hold, a release whose timer the shutdown cancels)
or the tap that would have closed the recognizer (`tapLost`: it failed, or the drain
cleared its flag while it was due, `ClosingTapDue`). The lease's `restore` may fail
without a sign here too (`unreturned`, `GiveBack`); a start first recovers what is left.

### AudioRoute, AudioStream: the native audio route

The owner is whoever holds the coordinator's mutex: it opens the route for a
hold, writes, and ends the hold with drain, stop and close (`owner` is how far
it has come; each is a step, for the writer thread runs meanwhile). A sample is
its number in the order of writing and travels from `queue` through the
chunker's `residue` and the writer's `hand` to `rendered`. The device's buffer is
a number of frames (`padding`), the rate of its mix format a choice of the start.
`AudioStream` is the promise: a stream that may lose samples, and does nothing
else to them. Losses are a matter of their own (`Accounted`,
`OnlyLossRefuses`, `DropsOnlyWhenFull`).

Left out: how the endpoint is found (a start that fails releases what it holds),
sample formats and channels, and the value of a sample. That a sample becomes one
frame or three is kept, since the pacing and the pitch depend on it.

### BleLink: one connection after the other

`ConnectionSupervisor.run_forever`, the session it drives and the worker that feeds
the ATVV session. `loop` is where the event loop's coroutine is: a step for every
await of connect and close. Between two of them the loop runs what other threads
have posted (`posted`): a reconnect request or a MIC_OPEN that still names the
attempt of its session. WinRT's threads enqueue notifications (`queue`, which
drops its oldest when full) and report the link's status (`reports`). The worker
takes an item, and may be inside a slow callback when close joins it.

Frames are abstracted to the stream they belong to: a frame is two audio
notifications, `pending` the stream of a half frame, `decoder` the stream
whose state the decoder has. `mixed` records that a frame was decoded with another
stream's state.

### InstanceControl: processes and the files they share

Bridges and settings windows as processes (`pc`) with handles of two named
mutexes (`mutex`) and of the stop event (`event`, `signalled`). A kernel object
exists as long as somebody has a handle: a process that shows a notice, one
whose CloseHandle failed (`leaked`) or a caller in the middle of
`request_bridge_stop` keeps it. Any process may be killed at any time (`Kill`).

`config` and `bindings` are versions of the two settings files with their
writer; `known` is what a window has read. Saving is two writes, of which the second
may fail. `usage` is the total in the statistics file against `recorded`, the
presses that were counted; `counting` is a read-modify-write under way. A bridge
gives its mutex back whatever its threads still do (`Unlock`): the cleanup joins the
voice worker for two seconds only, and the tap, the listener and the BLE worker are
daemons. A count that is under way then goes on without the mutex (`outlived`).

### RemoteInput: one ordinary button, three observers

Every edge of the button goes to the hook (`hookQ`), to the listener's window
and, if the agent in the driver's host is connected, to the tap (`tapQ`), each in
order and at its own pace. The window gets two kinds of messages for an edge, the
keyboard's and the HID report's, and either may lag the other (`rawQ`, one queue for
each source). The listener and the tap arm the edge
in the hook (`Arm`) and then dispatch it; the hook waits for the arm, for a bounded
time (`WaitEnds`), and passes or swallows the key. `foreground` is what the
foreground window thinks.

The application reloads its mappings at the next event after the file changed, which
changes what is armed and what is dispatched between two edges of a hold
(`changed`, `remapped`). What the file may hold is a set of cases: valid, malformed,
the form of older versions, absent, corrupt (`Loaded`). An action is a batch of key
events of which SendInput may deliver a part (`TapKeys`, `Rollback`), or an
application that may be found in three places.

The tap's thread looks for the host process, injects the agent, waits for its
connection and loses it again (`Seek`, `Accept`, `LoseAgent`); `_run` catches the
timeouts of its sockets and no other error, so a reset connection (`SocketReset`) or a
port that cannot be bound (`SocketFails`) leaves the thread dead. Connecting starts
listener, hook and tap, each of which may fail (`StartListener`, `StartHook`,
`StartTap`); the cleanup stops them in its order, and an owner that does not stop
ends the application (`failed`).

`ButtonGesture` has the gestures that a press may be part of; here a press of a
configured button is one action.

## 3. The runs

| Run | Asks |
|---|---|
| `voice_toggle` | With two-tap presets and the HID tap: do host and controller stay in step through disconnects, lost taps, failing leases, returns, endpoints, writes and owners? Does a cleanup leave nothing behind but policies it could not return, does no late event open a session, does the tap's press make the hook's a duplicate, do sessions and cleanups end? |
| `voice_transform` | Right-Alt is pressed by the hook and released by hook, worker or cleanup: has it always an owner, though the edge queue overflows and ATVV events come out of order? |
| `voice_alt_disconnect` | The comment that right-Alt can never stay down: refuted. |
| `gesture` | Does a button keep `GestureContract`, is every waiting click decided, and do timers come to rest, for all sixteen bindings? |
| `lease_crash` | Two crashes and two failing or ignored calls anywhere, failing queries included: can every setting be given back, is nothing of the user's overwritten, does a session run on a lease the next process can undo, and are the settings the user's again and again as long as sessions come? |
| `native_holds` | Holds with cleanups at any moment, bounces, passed deadlines, and failing starts, leases and their returns, writes and taps: do host and microphone follow the button unless an edge or the closing tap was lost, do lease and route follow the session, does the mailbox keep the disconnect, and is every edge taken? |
| `native_stop_deadlock` | The comment that a callback cannot deadlock the shutdown: refuted. |
| `audio_route` | Two holds over a device that may be lost: is the route a stream (`KeepsStream`), is every lost sample counted, does close return? |
| `ble_link` | Two attempts over a failing link: does no write leave its session and no attempt start over a running worker, is the microphone closed that was opened, is no frame decoded with another stream's state, and does a fault end its attempt? |
| `instances` | Three bridges, two windows, a stop request, kills and failing calls: is there one of each, does a stop request end whom it was meant for and only them, are no edit and no count lost? |
| `remote_input` | Hook, Raw Input and tap over one button: is a press one action, is no key-up swallowed whose key-down was passed, is nothing held after a cleanup or a lost agent, and does the tap attach to a replaced host? |
| `remote_remap` | The docstring that an action sees one press and one release for a hold: refuted by a remapping. |

A `pass` run finds no error in the complete state space under its bounds; a
`violation` run states what a comment promises and TLC shows the behaviour that
breaks it (section 6).

## 4. Bounds, and the fairness assumed

*Voice.* Three presses, two or three ATVV events, two or three failures, of which a
`restore` that fails costs none, and one worker at a time that outlives its join.
Every latch belongs to one hold, and the mistakes that are possible confuse a hold
with the one before it; a third press shows that the state after a confusion is a
state the first two reach. The queue of `voice_toggle` never fills (the tap replaces
the hook's edges); that of `voice_transform` holds one edge and drops presses and
releases alike. `MaxControls` = 3 is announcement, start and stop of one hold, or the
stop of one and the events of the next. The cleanup of `voice_toggle` may find the
worker and the lock busy (`busyCleanup`); a hold begins when the one before it has
been dispatched, for section 6 shows what three quick presses do.

*Gestures.* Four presses: a double click and the gesture after it. Two cleanups;
two threads in a trigger. All sixteen bindings, and a press may find another
binding than the one before it (the settings window saves while a button is down).
Timers are prompt in the run; the theorems of section 5 cover late ones.

*Lease.* Two roles of the code's three: the loops treat roles alike and a crash
between two of them is what matters. Two microphones, so that a wrong one could
be given back. Two crashes: the second hits the recovery from the first.

*Native.* `Cases` are three environments side by side: two holds and one failure, one
hold and two failures, one hold with an audio event of the remote and a failure; a
`restore` that fails costs none of them. The queue and the mailbox hold two items: a
bounce or a second hold fills the one, a lost link behind an audio event the other.
Every call may fail, and every deadline pass: a release timer that can no longer be
cancelled (`lateCancel`), a drain that gives up (`drainDeadline`), a worker that
outlives its join (`joinTimeout`). Only `busyStart` and `busyStop`, a callback that
has entered when the transport is joined, are left out: they are the deadlock of
section 6.

*Audio.* A queue of three samples and chunks of two, batches of one, two and four:
residues, full and oversized batches all occur, and so does the queue's overflow
while a residue waits. Seven samples fill queue, hand, residue and device at
once; two starts show what is left over from one hold in the next. The device's
buffer holds between one chunk and two, at the source's rate and at three times it.

*BLE.* A queue of two notifications: with the one in the worker's hand a start may be
dropped, or wait while what comes after it is dropped. Two attempts: a late
callback, a status report or a worker can only disturb its successor. `MCBleLink` checks
three cases side by side: seven notifications over a link that does not fail, which are
two streams of a whole frame each (start, two halves, stop, start, two halves), so that
the decoder's state of one meets a frame of the other; five and a fault, which are the
first half of one stream and the start and both halves of another; four, a fault and a
call of another thread. Frames may come after their stream's stop.

*Processes.* Three bridges: the one that leaves, the one refused meanwhile and the
one launched afterwards. Bridges and windows share only the bounds, and the
statistics depend on nothing but the mutex, so `MCInstanceControl` checks three
initial states side by side: three bridges, two bridges that count, two windows.

*Ordinary buttons.* `Budgets` names seven kinds of environment that are checked side
by side, because they do not interact: two presses with both Raw Input sources,
edits of the mappings without and with the tap, hosts that change, an agent or a
socket lost during a press, a restart, garbled reports and partial delivery. One or two
presses: a mistake here confuses two edges, not two holds. Two armed edges of the
code's 64: the second is the one that outlives its key.

*Fairness.* Weak fairness of every thread's steps, since all of them are
operating-system threads or tasks of a running event loop that wait only for the locks
modelled. Nothing is promised of the user, of the remote or of failures: no fairness
on presses, releases, ATVV events, disconnects. In `VoiceBridge` nothing is assumed of
a worker that has outlived its join, nor of when MIC_OPEN is written. In
`NativeBridge` the supervisor's wait ends when its event is set. In `PolicyLease` a
session ends and a connection is attempted again (`Restore` in a session, `Recover`):
the session's end is the user's release or the cleanup of a lost link, and the
supervisor retries for ever. Nobody calls restore a second time because the first has
failed, so `SettingsReturn` has a condition, that sessions keep coming; without one, a
failed restore leaves the settings borrowed until the next cleanup or process. In
`ButtonGesture` elapsed timers and their threads run, and a cleanup that has begun
goes on. In `AudioRoute` the writer thread is scheduled, a device that is not lost
plays, and an owner that has begun to end a hold goes on; it is not promised that a
hold ends. In `BleLink` the loop and its callbacks and the worker run, WinRT ends a
status report it has begun, and a callback of the worker returns. In `InstanceControl`
a process that starts or leaves goes on and a running bridge polls the event; nobody
has to launch one, dismiss a notice or record anything. In `RemoteInput` the tap's
thread runs for as long as no error of its sockets has ended it: `TapAttaches`
promises nothing of a dead one.

Deadlock is checked in the voice, lease, native and audio runs that pass. A bridge that
rests is a step of its own (`Rest` in `VoiceBridge`), so that everybody waiting
on everybody is not mistaken for rest. It is not checked where the system really
comes to rest: in `gesture`, `remote_input` and `remote_remap` when nobody presses
any more, in `ble_link` when the supervisor has ended, in `instances` when all
processes are gone; nor in `native_stop_deadlock`, whose property it would hide.

## 5. What is proved

The theorems hold for every value of the constants: every bound on presses,
events, failures and crashes, every queue size, every set of failures, timings and
processes. Where one needs a discipline, its statement names it. All proofs have the
same shape: an inductive invariant, preserved action by action, and the property
as its consequence.

| Module | Theorems | Inductive invariant, and why the property alone is not inductive |
|---|---|---|
| `VoiceBridgeProofs` | `TypeCorrect`, `OwedSessions`, `HostInStep`, `CleanRestart` | `Safe`: until a worker outlives its join, `IInv`: which threads run in which phase (`ThreadLife`), an opening keeps the session and the reset out (`OpeningLocked`), what the reset and each later step have released (`AfterReset`, `OwnersReleased`), only one preset touches right-Alt (`NoTransform`), and, for the taps, an announcement that is outstanding will meet the pending latch (`Latched`). Without `Latched` an ATVV event could open a second session in a hold; without `OpeningLocked` a release could end the session in the middle of its opening. |
| `VoiceBridgeProofs`, right-Alt | `AltOwned` | `AltInv`, on top of `IInv`: the edges of one hold at a time are between the button and the worker, a release last (`OneHold`), what the hook's flags are at each of its steps (`AltSteps`), and a press it has reported opens a session whose latch makes the release close it (`KeyOpens`, `OpenHeld`, `AltClosed`). `HostOwed` alone does not know that the key-up will find the latch or the session still there. |
| `VoiceBridgeProofs`, edges | `TapOwnsItsHolds`, `SessionsHaveAnEnd` | `Sides`, on top of `IInv`: for each observer of the button, what it has of a hold and that the release is still to come (`HookSide`, `TapSide`), that a cleanup finds the hook's side empty (`HookRests`), and that a press which waits for the worker either belongs to the hold the hook remembers or has its release behind it in the queue (`EdgesKept`). The properties speak of the step that opens a session; the press behind it was queued, or left to the tap, many steps before. `SessionsHaveAnEnd` also needs that an ATVV event of a hold finds its session open (`HoldsOpen`). |
| `ButtonGestureProofs` | `GestureKept`, `OneOwnerAlways`, `ClicksKept`, `RepeatsStop`, `StopReleases`, `ContractKept` | `Kept` relates the recognizer's record to the listener's phase and to the dict's entries; `Exact` adds, under `Prompt`, that the dict's timer is the timer of the current stage and that late ones decide nothing. `ContractKept` is the refinement: initial states map to initial states, each step to a step of `GestureContract` or a stutter. |
| `PolicyLeaseProofs` | `LeaseSafe`, `NothingLost`, `OnlyGivesBack`, `SessionsLeased` | `Safe`, of every setting outside `lost`: whatever the marker would give back is the user's choice (`Exact`), whatever differs from the choice is covered by the marker (`Covered`), the target is written before any role (`TargetFirst`), and how far acquire and restore have come (`Acquiring`, `Restoring`). `SessionsLeased` rests on `Leased`: only a restore that leaves the lease inactive deletes the marker, and acquire writes the marker before it changes anything. |
| `NativeBridgeProofs` | `CoordinatorSafe`, `PoliciesReturned`, `StoppedHoldsNothing`, `ReconnectAnnounced`, `RouteOpenForAudio` | `Safe`: the mutex and the coordinator's state follow the supervisor's cycle, the dispatcher runs only between connect and disconnect, audio flag and route agree, a faulted coordinator's disconnect is in the mailbox or was taken from it. |
| `NativeBridgeProofs`, holds | `SessionsEndWithHolds`, `TapsStayPaired` | Until an edge is lost, `Pipeline`: one release at a time is in the debouncer, the queued edges alternate and end with the one that was queued last, and the worker's own edge is the opposite of the next (`OneRelease`, `Alternates`, `WorkerAlternates`). `NextEdge`, the edge the worker takes next, queued or not, is then known at every step; `HostPaired` and `MicPaired` say what host and microphone are while it is due. The properties speak of the moment when everything is dispatched, when `NextEdge` can only be a press. |
| `AudioRouteProofs` | `TypeCorrect`, `ClientHeld`, `NothingVanishes`, `RouteIsStream`, `FullWhenDropping`, `PacingHolds` | `IInv`: device, hand, residue and queue, one after the other, are one increasing sequence of samples written since the start (`InOrder`), and which of them is empty at which step of the writer (`Stages`). `KeepsStream` alone speaks of what the device got; what it will get next is only known to be newer because the whole line is ordered. |
| `BleLinkProofs` | `SafetyInvariant`, `TypeCorrect`, `WritesCancelled`, `WorkerJoined`, `MicClosed`, `OneStreamToAFrame` | `Safe`: outside of a live attempt the gate is shut (`GateShut`), from the cancelling on the worker is told to stop and past the join it has ended or the join has failed (`WorkerStops`), MIC_CLOSE was tried if the microphone was seen open (`MicTold`). That no write is in flight after the cancelling depends on the gate having been shut at an earlier step; that no attempt meets a worker depends on the failed join being remembered until the release. For `OneStreamToAFrame`, `Apart`: wherever the line from the decoder over the worker's item and the queue to the remote goes over to another stream, a start stands between. |
| `InstanceControlProofs` | `SafetyInvariant`, `TypeCorrect`, `OneInstance`, `LockFirst`, `NoPressLost`, `StopsForARequest`, `EditsKept` | `Safe`: a process has the handles its step says (`Locks`, `Events`), only the bridge with the mutex, or one whose threads have outlived it, has a total to write, and it started from the present one (`Counted`), what a window will overwrite is its own or known to it (`Edited`), and the event is not set while a fresh bridge has not been asked to stop (`Quiet`): the last needs the event's lifetime, which needs the mutex's. |
| `RemoteInputProofs` | `TypesKept`, `TapReleases`, `CleanupLetsGo`, `HoldsPassWhole`, `OneActionForOnePress` | `IInv`: which thread lives in which phase (`TapLife`, `ListenerLife`), what is left to release between the gestures' reset and the end of the cleanup (`Letting`), that the hook's filter is the one mapping and tap call for (`ArmableFollows`) and that the foreground's key-down was answered by a filter that will pass the key-up too (`PassedThrough`), whose edge is the last the hook sees (`LastEdge`). For the actions, `Counts`: some number of presses is over and has come to one action each, the union's present press to one more, and every message that can still turn a source on or off is of a later press; for which each source's messages have to be in order (`InOrder`). |

Assumptions. The `ASSUME`s of the modules are typing and distinctness of constants.
`Disciplined` (in `HostInStep`, `CleanRestart`): the held chord under every failure
and order; the two-tap presets when the host gets its keys and the ATVV events of a
hold come in order. `AltDisciplined` (in `AltOwned`): the preset whose key the hook
presses, no tap, the host gets its keys, no worker outlives its join, and no edge
meets a press that is not dispatched yet, or a cleanup. TLC breaks `HostOwed` without
any one of these, except that with the tap it does so only where the tap is lost
(section 6), and without the one about the join not at all: a worker is late only
where a cleanup has met an edge. `HoldByHold` (in `TapOwnsItsHolds` and
`SessionsHaveAnEnd`): a hold is dispatched before the next begins, no edge comes while
a cleanup runs, and the tap reports an edge before the hook does; `SessionsHaveAnEnd`
also needs `HostGetsKeys` for the two-tap presets and a queue of two. Section 6 shows
that the first and the third are needed for both theorems; TLC breaks `OpensForAHold`
without any of the others (an edge during a cleanup takes four presses, a key that
fails three). The theorems of `NativeBridge` assume nothing: what breaks the pairing
of taps is in their statements as a loss that has happened. `Prompt` in
`ContractKept`. `LeaseSafe`, `NothingLost` and `OnlyGivesBack` assume no user who acts
during a call and no ducking preference that equals the lease's own value, and nothing
of the calls that fail: section 6 shows that both are needed, and that the settings in
`lost` have to be excepted. `SessionsLeased` assumes nothing.

Proved and in no configuration, for a run would add nothing: the type invariants,
`OwedSessionReconnects`, `OneOwner`,
`RepeatNeedsHold`, `NothingHeldWhenStopped`, `StopReleasesAll`, `ClientOutlivesWriter`,
`OnlyLossRefuses`, `DropsOnlyWhenFull`, and `HostMatchesController` of the held
chord. `InstanceControl`'s theorems are about `Spec`, all of whose processes are yet
to be launched; the run's initial states are such states too, with some
processes and bounds used up beforehand.

Only model-checked: liveness (sessions, cleanups, attempts and stops end, clicks
resolve, timers rest, settings return, edges are taken, the tap attaches), because the
prover has no fairness. Every invariant and every action property of a run that passes
is stated by a theorem, some of them under one of the disciplines above, which the run
keeps.

## 6. What the code does not keep

Kept as runs, each with the comment it refutes in `PROJECT.json`:

* `voice_alt_disconnect`: a disconnect after the hook has pressed right-Alt and
  before the worker has dispatched that press. The cleanup clears the flags the
  hook's release depends on and has no session to close: right-Alt stays down.
* `native_stop_deadlock`: `stop` waits for the dispatcher thread while it holds
  the mutex that the dispatcher's callback waits for.
* `remote_remap`: a button is remapped to its own key. The next press is tested
  against the old mapping and dispatched, the dispatch loads the new one, and the
  release is dropped by it: the dispatcher holds the button and repeats it.

The modules state more of what comments and documents promise and the code does not
keep. To see one, replace a configuration's properties by the one named and change
what is told; the property is defined in the module.

| Property | Configuration | What happens |
|---|---|---|
| `NoStuckAlt` | `voice_transform`, `Timings = {"repress"}` | A press during the 75 ms the worker takes to release the previous right-Alt. |
| `NoStuckAlt` | `voice_transform`, `Faults = {"host"}` | A failed key-up of the hook counts as delivered. |
| `FreshInputSession` | `voice_transform`, `Preset = "hold"`, `Faults = {"disconnect"}`, `Timings = {"cleanupEdge"}` | An edge between the queue's replacement (app.py:929) and the hook's stop is the next connection's first. |
| `EndpointBeforeShortcut` | `voice_toggle` | The docstring (app.py:21-25) opens the endpoint first; the code sends the shortcut first. |
| `HostOwed` | `voice_transform`, `Tap = TRUE`, `Faults = {"tapLost", "disconnect"}` | The tap is lost in a hold, a report of the hook then presses right-Alt although the press is a duplicate, and the cleanup clears the latch its release needs. |
| `HostMatches` | `voice_toggle`, `Tap = FALSE`, `Timings = {"lateStop"}` | A late AUDIO_STOP clears the latch of the next hold, whose announcement then toggles the recognizer off. |
| `OpensForAHold` | `voice_toggle`, `Timings = {"tapLate"}` | An F5 queued before the tap's first report opens a session; its release is taken for a duplicate. |
| `MicOpenInSession` | `voice_toggle` | The release ends the session before the event loop has written the MIC_OPEN of its press: the remote's microphone opens after the session, and stays open until the next end of one. |
| `NothingLeft` | `voice_toggle` | `_cleanup_once` raises `CleanupIncompleteError` for what it could not release, the audio policies among it (app.py:648-653). `restore` fails without raising, so a cleanup counts as complete, and the next attempt starts, with Windows' policies still borrowed. |
| `HostMatchesController`, `CleanSlate`, `OpensForAHold`, `SessionsEnd`, each without its `outlived` | `voice_toggle` | The worker is inside a slow edge when the cleanup's join gives up after two seconds (app.py:925); it opens its session behind the reset, or for a release that no longer comes. |
| `WorkerBeforeEdges` | `voice_toggle` | The comment (app.py:302-304) starts the worker before the hook can fire; `_connect_once` installs the hook and attaches the tap first, so a press waits in the queue with nobody to take it. |
| `SessionsEnd`, `OpensForAHold`, `TapSuppliesEdges` | `voice_toggle`, `Timings = {"repress"}` | The button is held while the bridge connects, so the hook queues its repeated F5 and the tap reports no press; two quick presses later the tap owns the edges, and the press that still waits in the queue is dispatched after the tap's release: a session without end. |
| `OpensForAHold` | `voice_toggle`, `QueueMax = 1` | The full queue drops the release behind its press. |
| `QuietWhenStopped` | `gesture`, `MaxResets = 1` | A press between the dispatcher's reset and the listener's stop starts a timer that fires after the stop. |
| `LongNeedsOwnTimer` | `gesture`, `SPECIFICATION Spec`, `Prompt = FALSE`, `Configs <- LongOnly` | The docstring (button_gesture.py:177-179) says that the lock prevents a timeout racing a release. A long timer that lost the lock to the release runs in the next hold, finds it pressed and not yet long, makes it long at once and takes the new hold's timer out of the dict. |
| `WithoutOutliving` | `instances` | A thread outlives the bridge's last join in the middle of a count; the next bridge counts a press, and the old total is written over it. |
| `Recoverable` | `lease_crash`, `Duckings = {"nothing"}` | A crash between the marker's `DuckingExists` and `DuckingValue`: the next start deletes a preference of the user's that equals the lease's. |
| `AllRecoverable` | `lease_crash`, `Faults = {"look"}` | A failing query in the restore looks like a user's change; the endpoint stays on the cable and the marker is deleted. |
| `AllRecoverable` | `lease_crash`, `Faults = {"unread"}` | A ducking preference that acquire cannot read counts as unset (cpp:227): the restore deletes the user's value. |
| `SessionOnCable` | `lease_crash`, `Faults = {"set"}` | A restore gives one role back and fails at another; the lease stays active, the next acquire returns at once (cpp:215), and the session's recognizer listens to the user's microphone. |
| `GivesBackOnly` | `lease_crash`, `UserMayRace = TRUE` | A user's change between comparison and write is overwritten. |
| `OneActionInAnyOrder` | `remote_input` | The docstring (raw_input_windows.py:578-580) gives one press and one release for one physical hold, without a timing threshold. If the HID pair of messages lags the keyboard's, the union goes up twice: two actions for one press. |
| `TapComesBack` | `remote_input` | Windows replaces the host, the agent's socket is reset, `recv` raises `ConnectionResetError` (frida_compat.py:250-253 catches the timeout only) and the tap's thread is dead: nothing attaches to the new host until the next connection. |
| `HostAlwaysFollows` | `native_holds` | The comment (application_coordinator_native.py:163-167) taps twice for every hold. A cleanup in the debouncer's window drops the release with its timer, and a bounce queues a press whose release was cancelled: the recognizer listens on, or toggles the wrong way. |
| `ReleaseStillCloses` | `native_holds`, `Timings = {}`, `Faults = {}` | The comment (application_coordinator_native.py:287-289) drains the queue so that the release's tap is not lost. The drain sees an empty queue while the worker holds the release, and clears the flag the closing tap needs. |
| `EdgesTakenWhileUp` | `native_holds`, `Timings = {"drainDeadline", "joinTimeout"}` | A worker that outlives its join is kept by the next connection and then exits: its edges wait for nobody. |
| `StartEnds` | `native_stop_deadlock`, `Timings = {"busyStart"}`, `Faults = {"link"}`, `Budgets <- LostLink` | The link is lost during connect, whose failure joins the dispatcher under the mutex its callback waits for. |
| `KeepsPitch` | `audio_route`, `TenthsKHz == {441}` | The comment (wasapi_audio_route.cpp:307-309) says that the writer up-samples to the mix rate. It makes three frames of a sample whenever the rates differ: at 44.1 kHz speech is too slow. |
| `DrainWaitsForDevice` | `audio_route` | The header (audio_route.hpp:35) drains queue and device buffer; the code waits for the queue only, and close gives up what the writer's hand and the device still hold. |

Seen while modelling, promised nowhere, and kept in the models as the code has it:

* *Voice.* When the hook stops in the middle of a hold nobody sends `NativeBridge`'s
  closing tap (`edgeLost`). The Python playback's close swallows its exceptions and
  does not drain, so a sink whose close raises exists only on the native route.
* *Ordinary buttons.* The comment at app.py:1098-1101 says that Raw Input stands down
  while the tap is live; `_on_raw_input_button_event` has no such test, so a press
  seen by both may perform two actions (`OneActionPerPress` is about a silent tap).
  The tap arms unbound buttons too, which are swallowed with nothing in their place.
  `_direct_hid_tap_active` stays set after the agent is lost, until the cleanup; a
  report that is still being dispatched when a tap's stop runs out (app.py:466-517,
  556-567) arms its key in a hook whose filter no longer follows the tap; an agent
  that dies in a host that lives on is not injected again. A key passed after the wait
  ran out, whose release is then swallowed, stays down in the foreground (`missed`). A
  garbled HID report of a release leaves the button held until the next report. A
  corrupt `key_bindings.json` keeps the mapping that was loaded.
* *Processes and files.* Nothing in the repository calls `request_bridge_stop` or
  `bridge_is_running`, so "save and launch" does not restart a bridge that runs.
  `rc003_key_test capture --assign` rewrites `key_bindings.json` without the mutex,
  and an open settings window overwrites it later. One failing read of
  `usage-statistics.json` starts the history from nothing (`unread`). When the second
  of the two writes fails, `config.json` is new although the window says that nothing
  was saved.
* *BLE.* After failures and then a success, the first retry still sleeps the long
  delay. An overflow that drops one half of a frame shifts all frames until the next
  start or stop. A MIC_OPEN that was cancelled may have reached a remote whose session
  never saw its microphone open, and no MIC_CLOSE follows.

## 7. What is not modelled

Listed in `PROJECT.json` with status `not_modelled` or `partly`. Sample arithmetic
(ADPCM steps, filters, resampling), QML and window layout, log texts, diagnostics, the
VB-Cable installer flow, hardware probes and packaging hold no state a property here
could be about. Key chords, device names and endpoint names are model values or left
out. The C++ Raw Input source, keyboard hook and ATVV session repeat Python parts that
are modelled; the product selects the Python ones by default. In `VoiceBridge` one
worker at a time may outlive its join, and the hook is installed whenever a connection
is up: that toggle taps have no effect when it is not (app.py:346-360) is outside of
it. Retry delays are not modelled: the supervisor may retry at any time. In
`RemoteInput` time is: a wait may run out and an armed edge expire at any step;
bindings learned from a remote's own reports (`physical_bindings`) and another
keyboard's keys are left out.

## 8. The plan

1. **More proofs**: `HostOwed` with a tap that is not lost, which TLC finds to hold.
2. **AtvvProtocol**: capabilities, control parsing and frame accumulation as
   functions, checked against a reference over all short inputs.
3. **NativeInput**: the C++ hook, its ring and the Raw Input source, against the same
   promises as `RemoteInput`.
4. **CaptureRing**: the filter driver's ring against dump, clear and removal.
