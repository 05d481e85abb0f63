------------------------------ MODULE NativeBridge ------------------------------
(***************************************************************************)
(* The opt-in native path: NativeCoordinatorApp (Python) around the C++    *)
(* ApplicationCoordinator.  Python owns the microphone edges (hook, release *)
(* debouncer, edge worker) and the host's two toggle taps; C++ owns BLE,   *)
(* the audio route and the policy lease of a voice session.                *)
(*                                                                         *)
(* Every C++ entry point runs under one recursive mutex and is one step,   *)
(* except start and stop: they hold the mutex while they wait for the BLE  *)
(* transport, whose dispatcher thread delivers its callbacks under the     *)
(* same mutex.                                                             *)
(***************************************************************************)
EXTENDS Naturals, Sequences

CONSTANTS
    QueueMax,     \* maxsize of _voice_edge_queue (32 in the code)
    EventMax,     \* capacity of the event mailbox (128 in the code)
    Faults,       \* the failures that may happen
    Timings,      \* the coincidences that may happen
    Budgets       \* bounds, one record of them for each behaviour

\* openTap, closeTap: the host shortcut; guard, start, connect: a step of the
\* start; lease, write, audio: of a voice session; restore: of giving the lease
\* back; link: the BLE link is lost.
FaultKinds == {"openTap", "closeTap", "guard", "start", "connect", "lease",
               "write", "audio", "restore", "link"}

\* lateCancel: a cancelled timer runs all the same; drainDeadline: the drain's
\* second passes; joinTimeout: the worker's two seconds pass; busyStart,
\* busyStop: the dispatcher is in a callback when start or stop needs it.
TimingKinds == {"lateCancel", "drainDeadline", "joinTimeout", "busyStart", "busyStop"}

ASSUME LimitsAssumption == QueueMax \in Nat \ {0} /\ EventMax \in Nat \ {0}
ASSUME EnvAssumption ==
    /\ Faults \subseteq FaultKinds /\ Timings \subseteq TimingKinds
    /\ Budgets \subseteq [presses : Nat, events : Nat, faults : Nat]

VARIABLES
    remote,      \* the physical button is held
    f5,          \* _legacy_f5_is_down
    timers,      \* release timers that will still run
    pending,     \* the debouncer's _pending_handler is not None
    handlers,    \* release handlers taken, not yet run
    queue,       \* _voice_edge_queue: TRUE is a press
    worker,      \* the edge worker
    stopEvent,   \* _voice_edge_stop
    openTapOk,   \* _voice_open_tap_ok
    host,        \* the recognizer is listening
    phase,       \* where the supervisor's cycle is
    reconnect,   \* the supervisor's disconnect event
    mutex,       \* who holds the coordinator's mutex over a wait
    state,       \* CoordinatorState
    mic,         \* physical_mic_down_
    voice,       \* voice_.active()
    lease,       \* Windows' audio policies are borrowed
    unreturned,  \* the last attempt to give them back has failed
    route,       \* the audio route is open
    audioStarted,\* audio_started_
    link,        \* the BLE link
    dispatcher,  \* the BLE dispatcher, with the callback it has entered
    mailbox,     \* the events Python has not polled
    edgeLost,    \* (history) an edge of a hold was dropped or overtaken
    tapLost,     \* (history) a hold's closing tap failed or was forgotten
    presses, events, faults    \* what is left of the bounds

edgeVars == <<f5, timers, pending, handlers>>
workerVars == <<worker, stopEvent, openTapOk, host>>
lifeVars == <<phase, reconnect>>
leaseVars == <<lease, unreturned>>
voiceVars == <<mic, voice, leaseVars>>
audioVars == <<route, audioStarted>>
bleVars == <<link, dispatcher>>
coreVars == <<mutex, state, voiceVars, audioVars, mailbox>>
losses == <<edgeLost, tapLost>>
budget == <<presses, events, faults>>
vars == <<remote, edgeVars, queue, workerVars, lifeVars, coreVars, bleVars, losses, budget>>

\* down -Connect-> guarded -StartBegins-> starting -BleUp-> linking -StartDone->
\* up -BeginCleanup-> ending -StopGuard-> quiet -Shutdown-> draining -Drain->
\* joining -JoinWorker-> stopping -StopBegins-> leaving -LeaveBle-> releasing
\* -Release-> down; a failed start goes on with ending, from linking by aborting.
Phases == {"down", "guarded", "starting", "linking", "aborting", "up", "ending",
           "quiet", "draining", "joining", "stopping", "leaving", "releasing"}
HookOn == phase \in {"guarded", "starting", "linking", "aborting", "up", "ending"}

\* _service is not None.
HasService == phase \in Phases \ {"down", "leaving", "releasing"}

\* top: about to look at the stop event; get: waiting for an edge.
WorkerSteps == {"off", "top", "get", "press", "release", "tellPress", "tellRelease"}
WorkerFree == worker \in {"off", "top", "get"}
Callbacks == {"audioStart", "audioStop", "other", "lost"}
Kinds == {"disconnected", "other"}

TypeOK ==
    /\ remote \in BOOLEAN /\ f5 \in BOOLEAN /\ pending \in BOOLEAN
    /\ timers \in Nat /\ handlers \in Nat
    /\ queue \in Seq(BOOLEAN) /\ Len(queue) <= QueueMax
    /\ worker \in WorkerSteps /\ stopEvent \in BOOLEAN
    /\ openTapOk \in BOOLEAN /\ host \in BOOLEAN
    /\ phase \in Phases /\ reconnect \in BOOLEAN
    /\ mutex \in {"free", "start", "stop"}
    /\ state \in {"stopped", "starting", "running", "stopping", "faulted"}
    /\ mic \in BOOLEAN /\ voice \in BOOLEAN /\ lease \in BOOLEAN /\ unreturned \in BOOLEAN
    /\ route \in BOOLEAN /\ audioStarted \in BOOLEAN
    /\ link \in {"off", "on", "lost", "gone"}
    /\ dispatcher \in {"off", "idle"} \cup Callbacks
    /\ mailbox \in Seq(Kinds) /\ Len(mailbox) <= EventMax
    /\ edgeLost \in BOOLEAN /\ tapLost \in BOOLEAN
    /\ presses \in Nat /\ events \in Nat /\ faults \in Nat

Init ==
    /\ remote = FALSE /\ f5 = FALSE
    /\ timers = 0 /\ pending = FALSE /\ handlers = 0
    /\ queue = <<>> /\ worker = "off" /\ stopEvent = FALSE
    /\ openTapOk = FALSE /\ host = FALSE
    /\ phase = "down" /\ reconnect = FALSE
    /\ mutex = "free" /\ state = "stopped"
    /\ mic = FALSE /\ voice = FALSE /\ lease = FALSE /\ unreturned = FALSE
    /\ route = FALSE /\ audioStarted = FALSE
    /\ link = "off" /\ dispatcher = "off" /\ mailbox = <<>>
    /\ edgeLost = FALSE /\ tapLost = FALSE
    /\ \E b \in Budgets : presses = b.presses /\ events = b.events /\ faults = b.faults

CanFail(kind) == kind \in Faults /\ faults > 0 /\ faults' = faults - 1
NoReleasePending == timers = 0 /\ ~pending /\ handlers = 0

-----------------------------------------------------------------------------
(* The edges: the user, the hook, the debouncer.                            *)

\* put_nowait: a full queue drops the edge.
Enqueue(edge) ==
    IF Len(queue) < QueueMax THEN queue' = Append(queue, edge) ELSE UNCHANGED queue

\* What is lost with an edge: a full queue drops it, and a press of a bounce
\* drops the release before it, or gets ahead of its handler.
Loses(bounced) ==
    /\ edgeLost' = (edgeLost \/ Len(queue) >= QueueMax \/ bounced)
    /\ UNCHANGED tapLost

\* Timer.cancel does not stop a timer that is past its delay.
CancelTimer(rest) ==
    \/ rest = IF timers = 0 THEN 0 ELSE timers - 1
    \/ "lateCancel" \in Timings /\ rest = timers

\* The debouncer's on_press drops the release; the press is queued always.
OnKeyDown ==
    /\ f5' = TRUE
    /\ CancelTimer(timers') /\ pending' = FALSE
    /\ Enqueue(TRUE) /\ Loses(~NoReleasePending)
    /\ UNCHANGED handlers

PressButton ==
    /\ ~remote /\ remote' = TRUE
    /\ presses > 0 /\ presses' = presses - 1
    /\ IF HookOn /\ ~f5 THEN OnKeyDown ELSE UNCHANGED <<edgeVars, queue, losses>>
    /\ UNCHANGED <<workerVars, lifeVars, coreVars, bleVars, events, faults>>

\* Auto-repeat reports a button that was held when the hook started.
AutoRepeat ==
    /\ remote /\ HookOn /\ ~f5
    /\ OnKeyDown
    /\ UNCHANGED <<remote, workerVars, lifeVars, coreVars, bleVars, budget>>

\* on_release: the older schedule is cancelled, the newer handler wins.
OnKeyUp ==
    /\ f5' = FALSE
    /\ \E rest \in 0..timers : CancelTimer(rest) /\ timers' = rest + 1
    /\ pending' = TRUE
    /\ UNCHANGED <<handlers, queue>>

ReleaseButton ==
    /\ remote /\ remote' = FALSE
    /\ IF HookOn /\ f5 THEN OnKeyUp ELSE UNCHANGED <<edgeVars, queue>>
    /\ UNCHANGED <<workerVars, lifeVars, coreVars, bleVars, losses, budget>>

\* _fire_locked takes the handler that is pending now, whichever release
\* scheduled it, and calls it after the lock is dropped.
Fire ==
    /\ timers > 0 /\ timers' = timers - 1
    /\ pending' = FALSE
    /\ handlers' = IF pending THEN handlers + 1 ELSE handlers
    /\ UNCHANGED <<remote, f5, queue, workerVars, lifeVars, coreVars, bleVars, losses,
                   budget>>

RunHandler ==
    /\ handlers > 0 /\ handlers' = handlers - 1
    /\ Enqueue(FALSE) /\ Loses(FALSE)
    /\ UNCHANGED <<remote, f5, timers, pending, workerVars, lifeVars, coreVars, bleVars,
                   budget>>

-----------------------------------------------------------------------------
(* The C++ coordinator: voice session and events.                           *)

\* Mutant: the newest event is dropped.
PushedNewest(kind) ==
    IF Len(mailbox) = EventMax THEN mailbox ELSE Append(mailbox, kind)

\* push_event drops the oldest event of a full mailbox.
Pushed(kind) ==
    LET kept == IF Len(mailbox) = EventMax THEN Tail(mailbox) ELSE mailbox
    IN  Append(kept, kind)

\* The policy lease: restore() returns nothing and does not raise, and acquire()
\* gives back by the same routine what it could not borrow completely.
Returned == lease' = FALSE /\ unreturned' = FALSE
LeftBorrowed == "restore" \in Faults /\ lease' = TRUE /\ unreturned' = TRUE
GiveBack == Returned \/ (lease /\ LeftBorrowed)

\* open_voice_session: lease, voice state, MIC_OPEN; a failure undoes them.
OpenVoice ==
    \/ voice /\ UNCHANGED <<voice, leaseVars, faults>>
    \/ /\ ~voice /\ CanFail("lease") /\ UNCHANGED voice
       /\ Returned \/ LeftBorrowed
    \/ /\ ~voice /\ link = "on" /\ voice' = TRUE /\ UNCHANGED faults
       /\ lease' = TRUE /\ unreturned' = FALSE
    \/ /\ ~voice /\ UNCHANGED voice
       /\ (link # "on" /\ UNCHANGED faults) \/ CanFail("write")
       /\ Returned \/ LeftBorrowed

\* Mutant: the close forgets the audio flag.
CloseKeepsAudio ==
    IF voice THEN /\ voice' = FALSE /\ GiveBack /\ route' = FALSE
                  /\ UNCHANGED audioStarted
    ELSE UNCHANGED <<voice, leaseVars, audioVars>>

\* close_voice_session: the route is torn down and the lease restored.
CloseVoice ==
    IF voice THEN /\ voice' = FALSE /\ GiveBack
                  /\ route' = FALSE /\ audioStarted' = FALSE
    ELSE UNCHANGED <<voice, leaseVars, audioVars>>

\* Mutant: a release without a voice session leaves the latch.
MicEdgeLatched(pressed) ==
    IF pressed = mic \/ (mic /\ ~voice) THEN UNCHANGED <<voiceVars, audioVars, faults>>
    ELSE /\ mic' = pressed
         /\ IF pressed THEN OpenVoice /\ UNCHANGED audioVars
            ELSE CloseVoice /\ UNCHANGED faults

\* apply_physical_mic_edge
MicEdge(pressed) ==
    IF pressed = mic THEN UNCHANGED <<voiceVars, audioVars, faults>>
    ELSE /\ mic' = pressed
         /\ IF pressed THEN OpenVoice /\ UNCHANGED audioVars
            ELSE CloseVoice /\ UNCHANGED faults

\* handle_physical_mic_edge
HandleMicEdge(pressed) ==
    /\ mutex = "free"
    /\ IF state = "running" THEN MicEdge(pressed) /\ mailbox' = Pushed("other")
       ELSE UNCHANGED <<voiceVars, audioVars, mailbox, faults>>

\* on_input: the microphone has an external owner; other buttons are events.
Input ==
    /\ events > 0 /\ events' = events - 1
    /\ mutex = "free" /\ state = "running"
    /\ mailbox' = Pushed("other")
    /\ UNCHANGED <<remote, edgeVars, queue, workerVars, lifeVars, mutex, state, voiceVars,
                   audioVars, bleVars, losses, presses, faults>>

-----------------------------------------------------------------------------
(* The edge worker: the host's tap first, then the coordinator.             *)

\* Mutant: an empty queue ends the worker.
WorkerGivesUp ==
    /\ \/ worker = "top" /\ worker' = IF stopEvent THEN "off" ELSE "get"
       \/ worker = "get" /\ queue = <<>> /\ worker' = "off"
    /\ UNCHANGED <<remote, edgeVars, queue, stopEvent, openTapOk, host, lifeVars, coreVars,
                   bleVars, losses, budget>>

\* The stop event is seen between two gets only; a get ends after 250 ms.
WorkerLoops ==
    /\ \/ worker = "top" /\ worker' = IF stopEvent THEN "off" ELSE "get"
       \/ worker = "get" /\ stopEvent /\ queue = <<>> /\ worker' = "top"
    /\ UNCHANGED <<remote, edgeVars, queue, stopEvent, openTapOk, host, lifeVars, coreVars,
                   bleVars, losses, budget>>

WorkerTake ==
    /\ worker = "get" /\ queue # <<>>
    /\ queue' = Tail(queue)
    /\ worker' = IF Head(queue) THEN "press" ELSE "release"
    /\ UNCHANGED <<remote, edgeVars, stopEvent, openTapOk, host, lifeVars, coreVars,
                   bleVars, losses, budget>>

WorkerOpens ==
    /\ worker = "press" /\ worker' = "tellPress"
    /\ \/ openTapOk' = TRUE /\ host' = ~host /\ UNCHANGED faults
       \/ CanFail("openTap") /\ openTapOk' = FALSE /\ UNCHANGED host
    /\ UNCHANGED <<remote, edgeVars, queue, stopEvent, lifeVars, coreVars, bleVars, losses,
                   presses, events>>

\* Mutant: the release taps even if the opening tap failed.
AlwaysTaps == TRUE

TapsOnRelease == openTapOk

WorkerCloses ==
    /\ worker = "release" /\ worker' = "tellRelease"
    /\ \/ TapsOnRelease /\ host' = ~host /\ UNCHANGED <<tapLost, faults>>
       \/ TapsOnRelease /\ CanFail("closeTap") /\ tapLost' = TRUE /\ UNCHANGED host
       \/ ~TapsOnRelease /\ UNCHANGED <<host, tapLost, faults>>
    /\ UNCHANGED <<remote, edgeVars, queue, stopEvent, openTapOk, lifeVars, coreVars, bleVars,
                   edgeLost, presses, events>>

WorkerTells ==
    /\ worker \in {"tellPress", "tellRelease"} /\ worker' = "top"
    /\ IF HasService THEN HandleMicEdge(worker = "tellPress")
       ELSE UNCHANGED <<voiceVars, audioVars, mailbox, faults>>
    /\ UNCHANGED <<remote, edgeVars, queue, stopEvent, openTapOk, host, lifeVars, mutex,
                   state, bleVars, losses, presses, events>>

-----------------------------------------------------------------------------
(* The BLE transport: its dispatcher enters a callback without the          *)
(* coordinator's mutex and runs it with the mutex.                          *)

LinkLost ==
    /\ link = "on" /\ CanFail("link") /\ link' = "lost"
    /\ UNCHANGED <<remote, edgeVars, queue, workerVars, lifeVars, coreVars, dispatcher,
                   losses, presses, events>>

\* stop detaches the callbacks before it waits for the dispatcher.
EnterCallback ==
    /\ dispatcher = "idle" /\ phase \notin {"aborting", "leaving"}
    /\ mutex # "start" \/ "busyStart" \in Timings
    /\ \/ link = "on" /\ events > 0 /\ events' = events - 1
          /\ dispatcher' \in Callbacks \ {"lost"} /\ UNCHANGED link
       \/ link = "lost" /\ link' = "gone" /\ dispatcher' = "lost" /\ UNCHANGED events
    /\ UNCHANGED <<remote, edgeVars, queue, workerVars, lifeVars, coreVars, losses, presses,
                   faults>>

\* on_bytes, AudioStarted: a route that is still open is taken over.
AudioStart ==
    /\ dispatcher = "audioStart"
    /\ mailbox' = Pushed("other")
    /\ \/ route' = TRUE /\ audioStarted' = TRUE /\ UNCHANGED faults
       \/ ~route /\ ~audioStarted /\ CanFail("audio") /\ UNCHANGED audioVars
    /\ UNCHANGED <<state, voiceVars>>

\* on_bytes, AudioStopped: the route stays open for the next fragment.
AudioStop ==
    /\ dispatcher = "audioStop"
    /\ audioStarted' = FALSE /\ mailbox' = Pushed("other")
    /\ UNCHANGED <<state, route, voiceVars, faults>>

\* on_bytes: capabilities, the duplicate microphone event, audio.
OtherBytes ==
    /\ dispatcher = "other"
    /\ mailbox' = Pushed("other")
    /\ UNCHANGED <<state, audioVars, voiceVars, faults>>

\* Mutant: the lease outlives the link.
LostKeepsLease ==
    /\ dispatcher = "lost"
    /\ state' = IF state = "running" THEN "faulted" ELSE state
    /\ mic' = FALSE /\ mailbox' = Pushed("disconnected")
    /\ UNCHANGED <<voice, leaseVars, audioVars, faults>>

\* on_disconnected
Disconnected ==
    /\ dispatcher = "lost"
    /\ state' = IF state = "running" THEN "faulted" ELSE state
    /\ mic' = FALSE /\ GiveBack /\ mailbox' = Pushed("disconnected")
    /\ UNCHANGED <<voice, audioVars, faults>>

Ignored ==
    /\ dispatcher \in Callbacks \ {"lost"} /\ state # "running"
    /\ UNCHANGED <<state, voiceVars, audioVars, mailbox, faults>>

RunCallback ==
    /\ mutex = "free" /\ dispatcher' = "idle"
    /\ \/ state = "running" /\ (AudioStart \/ AudioStop \/ OtherBytes)
       \/ Disconnected
       \/ Ignored
    /\ UNCHANGED <<remote, edgeVars, queue, workerVars, lifeVars, mutex, link, losses,
                   presses, events>>

-----------------------------------------------------------------------------
(* The supervisor's cycle.                                                  *)

\* _connect_once: a new service, the edge worker and the hook.  A worker that
\* outlived the last cleanup is kept, and so is its stop event.
Connect ==
    /\ phase = "down" /\ reconnect' = FALSE
    /\ state' = "stopped" /\ mailbox' = <<>>
    /\ IF worker = "off" THEN worker' = "top" /\ stopEvent' = FALSE
       ELSE UNCHANGED <<worker, stopEvent>>
    /\ \/ phase' = "guarded" /\ UNCHANGED faults
       \/ CanFail("guard") /\ phase' = "ending"
    /\ UNCHANGED <<remote, edgeVars, queue, openTapOk, host, mutex, voiceVars, audioVars,
                   bleVars, losses, presses, events>>

\* start_command, up to the wait for the transport.  It gives back first what
\* an earlier connection has left borrowed (recover_stale).
StartBegins ==
    /\ phase = "guarded" /\ mutex = "free"
    /\ \/ phase' = "starting" /\ mutex' = "start" /\ state' = "starting" /\ Returned
          /\ UNCHANGED <<mailbox, faults>>
       \/ /\ phase' = "ending" /\ state' = "faulted"
          /\ mailbox' = Pushed("other") /\ UNCHANGED mutex
          /\ (CanFail("start") /\ Returned) \/ (lease /\ LeftBorrowed /\ UNCHANGED faults)
    /\ UNCHANGED <<remote, edgeVars, queue, workerVars, reconnect, mic, voice, audioVars,
                   bleVars, losses, presses, events>>

StartFailed ==
    /\ phase' = "ending" /\ mutex' = "free" /\ state' = "faulted"
    /\ mailbox' = Pushed("other") /\ link' = "off" /\ dispatcher' = "off"

\* connect, until its dispatcher runs.
BleUp ==
    /\ phase = "starting"
    /\ \/ phase' = "linking" /\ link' = "on" /\ dispatcher' = "idle"
          /\ UNCHANGED <<mutex, state, mailbox, faults>>
       \/ CanFail("connect") /\ StartFailed
    /\ UNCHANGED <<remote, edgeVars, queue, workerVars, reconnect, voiceVars, audioVars,
                   losses, presses, events>>

\* connect, the capability request.
StartDone ==
    /\ phase = "linking"
    /\ \/ phase' = "up" /\ mutex' = "free" /\ state' = "running"
          /\ mailbox' = Pushed("other") /\ UNCHANGED <<bleVars, faults>>
       \/ /\ CanFail("connect") \/ (link # "on" /\ UNCHANGED faults)
          /\ phase' = "aborting" /\ UNCHANGED <<mutex, state, mailbox, bleVars>>
    /\ UNCHANGED <<remote, edgeVars, queue, workerVars, reconnect, voiceVars, audioVars,
                   losses, presses, events>>

\* connect's failure joins the dispatcher, under the coordinator's mutex.
Abort ==
    /\ phase = "aborting" /\ dispatcher = "idle" /\ StartFailed
    /\ UNCHANGED <<remote, edgeVars, queue, workerVars, reconnect, voiceVars, audioVars,
                   losses, budget>>

\* _pump_events
Pump ==
    /\ phase = "up" /\ ~reconnect /\ mutex = "free" /\ mailbox # <<>>
    /\ mailbox' = Tail(mailbox) /\ reconnect' = (Head(mailbox) = "disconnected")
    /\ UNCHANGED <<remote, edgeVars, queue, workerVars, phase, mutex, state, voiceVars,
                   audioVars, bleVars, losses, budget>>

\* The supervisor wakes up: the link was lost, or the bridge is stopped.
BeginCleanup ==
    /\ phase = "up" /\ phase' = "ending"
    /\ UNCHANGED <<remote, edgeVars, queue, workerVars, reconnect, coreVars, bleVars,
                   losses, budget>>

\* _cleanup_once: the hook stops and the hold is forgotten.
StopGuard ==
    /\ phase = "ending" /\ phase' = "quiet"
    /\ f5' = FALSE /\ edgeLost' = (edgeLost \/ f5)
    /\ UNCHANGED <<remote, timers, pending, handlers, queue, workerVars, reconnect, coreVars,
                   bleVars, tapLost, budget>>

\* debouncer.shutdown: a release that is pending is dropped.
Shutdown ==
    /\ phase = "quiet" /\ phase' = "draining"
    /\ CancelTimer(timers') /\ pending' = FALSE /\ edgeLost' = (edgeLost \/ pending)
    /\ UNCHANGED <<remote, f5, handlers, queue, workerVars, reconnect, coreVars, bleVars,
                   tapLost, budget>>

\* The worker's next test of _voice_open_tap_ok is that of a release.
ClosingTapDue ==
    \/ worker = "release"
    \/ worker # "press" /\ IF queue = <<>> THEN handlers > 0 ELSE ~Head(queue)

\* The drain waits for the queue, not for the worker's last edge.
Drain ==
    /\ phase = "draining" /\ phase' = "joining"
    /\ queue = <<>> \/ "drainDeadline" \in Timings
    /\ openTapOk' = FALSE /\ stopEvent' = TRUE
    /\ tapLost' = (tapLost \/ (openTapOk /\ ClosingTapDue))
    /\ UNCHANGED <<remote, edgeVars, queue, worker, host, reconnect, coreVars, bleVars,
                   edgeLost, budget>>

JoinWorker ==
    /\ phase = "joining" /\ phase' = "stopping"
    /\ worker = "off" \/ "joinTimeout" \in Timings
    /\ UNCHANGED <<remote, edgeVars, queue, workerVars, reconnect, coreVars, bleVars,
                   losses, budget>>

\* stop: a coordinator that never started has nothing to stop; its destruction
\* tries to give back what the one before it has left borrowed.
StopBegins ==
    /\ phase = "stopping" /\ mutex = "free"
    /\ IF state = "stopped" THEN phase' = "down" /\ GiveBack /\ UNCHANGED <<mutex, state>>
       ELSE /\ dispatcher \in {"idle", "off"} \/ "busyStop" \in Timings
            /\ phase' = "leaving" /\ mutex' = "stop" /\ state' = "stopping"
            /\ UNCHANGED leaseVars
    /\ UNCHANGED <<remote, edgeVars, queue, workerVars, reconnect, mic, voice, audioVars,
                   mailbox, bleVars, losses, budget>>

\* disconnect joins the dispatcher, still under the coordinator's mutex.
LeaveBle ==
    /\ phase = "leaving" /\ phase' = "releasing"
    /\ dispatcher \in {"idle", "off"}
    /\ dispatcher' = "off" /\ link' = "off" /\ mutex' = "free"
    /\ UNCHANGED <<remote, edgeVars, queue, workerVars, reconnect, state, voiceVars,
                   audioVars, mailbox, losses, budget>>

\* The rest of stop: route, lease and voice state.  The lease is given back here
\* and once more when the coordinator is destroyed; both may fail.
Release ==
    /\ phase = "releasing" /\ phase' = "down"
    /\ route' = FALSE /\ audioStarted' = FALSE
    /\ GiveBack /\ mic' = FALSE /\ voice' = FALSE
    /\ state' = "stopped" /\ mailbox' = Pushed("other")
    /\ UNCHANGED <<remote, edgeVars, queue, workerVars, reconnect, mutex, bleVars, losses,
                   budget>>

Edges == PressButton \/ AutoRepeat \/ ReleaseButton \/ Fire \/ RunHandler
Worker == WorkerLoops \/ WorkerTake \/ WorkerOpens \/ WorkerCloses \/ WorkerTells
Ble == LinkLost \/ EnterCallback \/ RunCallback \/ Input
Start == Connect \/ StartBegins \/ BleUp \/ StartDone \/ Abort
Stop == StopGuard \/ Shutdown \/ Drain \/ JoinWorker \/ StopBegins \/ LeaveBle \/ Release
Next == Edges \/ Worker \/ Ble \/ Start \/ Pump \/ BeginCleanup \/ Stop

Spec == Init /\ [][Next]_vars

\* Every thread of the process runs; the supervisor wakes up when it is asked to.
Fairness ==
    /\ WF_vars(Fire) /\ WF_vars(RunHandler) /\ WF_vars(Worker) /\ WF_vars(RunCallback)
    /\ WF_vars(EnterCallback /\ dispatcher' = "lost")
    /\ WF_vars(StartBegins) /\ WF_vars(BleUp) /\ WF_vars(StartDone) /\ WF_vars(Abort)
    /\ WF_vars(Pump) /\ WF_vars(reconnect /\ BeginCleanup) /\ WF_vars(Stop)
FairSpec == Spec /\ Fairness

-----------------------------------------------------------------------------
(* Properties.                                                              *)

\* Every edge of the button has reached the host and the coordinator.
Settled == NoReleasePending /\ queue = <<>> /\ WorkerFree

\* Once every edge is dispatched, the recognizer listens only while the button
\* is held: two toggle taps per hold stay paired over reconnects, failed opening
\* taps, deadlines that pass and workers that outlive their connection.  Nothing
\* resynchronizes the recognizer, so a hold that has lost an edge (a bounce, a
\* full queue, a hook stopped within the hold, a release dropped with its timer)
\* or its closing tap is excepted (_run_voice_edge_worker, _cleanup_once).
HostFollowsHold == Settled /\ ~f5 /\ host => edgeLost \/ tapLost

\* What the comment of _cleanup_once's drain says: a release that has got past
\* the debouncer still closes the recognizer.
ReleaseStillCloses == Settled /\ ~f5 /\ host => edgeLost

\* What the worker's comment says of the two taps of a hold.
HostAlwaysFollows == Settled /\ ~f5 => ~host

\* Once every edge is dispatched, a running coordinator has a voice session
\* only while the button is held, unless an edge was lost, whatever becomes of
\* the recognizer's taps (apply_physical_mic_edge).
MicFollowsHold == Settled /\ ~f5 /\ state = "running" /\ (mic \/ voice) => edgeLost

\* Windows' audio policies are borrowed only while a voice session is open, or
\* after somebody has tried to give them back and failed: neither a failed
\* MIC_OPEN nor a lost link forgets them.  No session runs without them, and no
\* coordinator starts before what was left borrowed has been given back
\* (open_voice_session, close_voice_session, on_disconnected, recover_stale).
LeaseInSession ==
    /\ lease => unreturned \/ (voice /\ state \in {"running", "stopping"})
    /\ voice /\ state = "running" => lease
    /\ state = "starting" => ~lease

\* Samples are accepted only while there is a route to write them to: a
\* fragmented stop and start within a hold, and the end of the hold, keep flag
\* and route together (on_bytes, close_voice_session).
AudioIntoOpenRoute == audioStarted => route

\* A stopped coordinator holds nothing of the system, whatever had been
\* reached when it was stopped, but for policies it failed to return (stop).
StopReleasesAll ==
    state = "stopped" => /\ ~route /\ ~audioStarted /\ ~voice /\ ~mic
                         /\ lease => unreturned
                         /\ dispatcher = "off" /\ mutex = "free"

\* The event that makes the supervisor reconnect is not among those that a
\* full mailbox drops (push_event, _pump_events).
DisconnectKept ==
    phase = "up" /\ state = "faulted" =>
        reconnect \/ \E n \in 1..Len(mailbox) : mailbox[n] = "disconnected"

\* A lost link ends in a cleanup, and every cleanup ends: neither the worker
\* nor the dispatcher keeps it waiting (_cleanup_once, stop).
CleanupEnds ==
    /\ phase = "up" /\ state = "faulted" ~> phase = "ending"
    /\ phase = "ending" ~> phase = "down"

\* An edge that is queued is taken as long as the worker has not been told to
\* stop: it never dies on its own (_run_voice_edge_worker).
EdgesTaken == queue # <<>> ~> queue = <<>> \/ stopEvent

\* What the comment in _start_voice_edge_worker is about: a connection has a
\* worker, so that whatever is queued while it lasts is taken.
EdgesTakenWhileUp == queue # <<>> ~> queue = <<>> \/ phase # "up"

\* No start waits for ever (start_command, connect).
StartEnds == phase = "guarded" ~> phase \in {"up", "ending"}
=============================================================================
