-------------------------------- MODULE BleLink --------------------------------
(***************************************************************************)
(* One connection attempt after the other: ConnectionSupervisor.run_forever *)
(* drives RC003BleSession.connect and close (ble_transport_winrt.py), the   *)
(* session's worker thread feeds ATVVSession (atvv_session.py).             *)
(*                                                                          *)
(* Threads: the event loop runs the supervisor, connect and close, one      *)
(* await after the other, and between two awaits the callbacks other        *)
(* threads have posted to it; WinRT's threads report notifications and the  *)
(* link's status; the worker decodes.  Each attempt builds a session of its *)
(* own, so the session's variables are those of the current attempt, and a  *)
(* call that still refers to an older session carries its attempt.          *)
(* Abstracted: the contents of frames, of CAPS and of AUDIO_SYNC, and how   *)
(* long the supervisor sleeps.  A frame is two audio notifications.         *)
(***************************************************************************)
EXTENDS Naturals, Sequences, SequencesExt

CONSTANTS
    QueueMax,      \* _QUEUE_MAXSIZE (64 in the code)
    MaxAttempts,   \* bound: connection attempts
    MaxNotices,    \* bound: notifications of the remote
    MaxCalls,      \* bound: calls of send_mic_open_threadsafe and of stop
    MaxFaults      \* bound: failed calls, lost links, malformed frames, slow callbacks

ASSUME QueueAssumption == QueueMax \in Nat \ {0}
ASSUME BoundsAssumption ==
    /\ MaxAttempts \in Nat /\ MaxNotices \in Nat
    /\ MaxCalls \in Nat /\ MaxFaults \in Nat

VARIABLES
    link,        \* the radio connection is up
    stream,      \* the stream the remote is sending, 0 when its microphone is off
    streams,     \* the streams it has started
    loop,        \* where the event loop's coroutine is
    attempt,     \* attempt_count, which names the session
    event,       \* _disconnect_event
    stopping,    \* _stopping of the supervisor
    posted,      \* callbacks posted with call_soon_threadsafe, in order
    reports,     \* attempts whose status handler WinRT is still calling
    watching,    \* the status handler is attached
    subscribed,  \* the value handlers are attached
    closing,     \* _closing
    writes,      \* _mic_open_tasks in flight
    queue,       \* _event_queue
    worker,      \* where the worker thread is
    item,        \* the notification it took, while it holds one
    stop,        \* _worker_stop
    joinFailed,  \* worker_join_failed
    micOpen,     \* ATVVSession._mic_open
    guard,       \* less than LATE_AUDIO_GUARD_SECONDS since the last AUDIO_STOP
    pending,     \* the stream of the half frame in the accumulator, or 0
    decoder,     \* the stream the decoder's state comes from, or 0 when reset
    synced,      \* _pending_sync is set
    mixed,       \* history: a frame was decoded with another stream's state
    startLost,   \* history: an AUDIO_START was dropped from the full queue
    told,        \* history: close() has tried to write MIC_CLOSE
    notices, calls, faults   \* what is left of the bounds

remoteVars == <<link, stream, streams>>
supervisorVars == <<attempt, event, stopping>>
handlerVars == <<watching, subscribed>>
workerVars == <<worker, item>>
atvvVars == <<micOpen, guard, pending, decoder, synced, mixed>>
historyVars == <<startLost, told>>
budgetVars == <<notices, calls, faults>>
vars == <<remoteVars, loop, supervisorVars, posted, reports, handlerVars, closing,
          writes, queue, workerVars, stop, joinFailed, atvvVars, historyVars, budgetVars>>

(***************************************************************************)
(* The coroutine: finding -> opening -> discovering -> subscribing ->       *)
(* announcing -> waiting -> cancelling -> joining -> muting -> detaching -> *)
(* releasing -> sleeping, or ended.  Every step of connect may fail, to     *)
(* cancelling; a failed search has no session to close.                     *)
(***************************************************************************)
Connecting == {"finding", "opening", "discovering", "subscribing", "announcing"}
Live == Connecting \cup {"waiting"}
Teardown == {"cancelling", "joining", "muting", "detaching", "releasing"}

Streams == 1..MaxNotices
Notices == [kind : {"start", "stop", "sync", "audio", "malformed"}, stream : Streams]
NoItem == [kind |-> "none", stream |-> 0]
Reconnect == [call |-> "reconnect", of |-> 0]
MicOpenCall(k) == [call |-> "micOpen", of |-> k]
Callbacks == {Reconnect} \cup {MicOpenCall(k) : k \in 1..MaxAttempts}

LoopTypes ==
    /\ loop \in Live \cup Teardown \cup {"sleeping", "ended"}
    /\ attempt \in 0..MaxAttempts /\ event \in BOOLEAN /\ stopping \in BOOLEAN
    /\ posted \in Seq(Callbacks)
    /\ reports \subseteq 0..MaxAttempts
SessionTypes ==
    /\ watching \in BOOLEAN /\ subscribed \in BOOLEAN /\ closing \in BOOLEAN
    /\ writes \in Nat
    /\ queue \in Seq(Notices) /\ Len(queue) <= QueueMax
    /\ worker \in {"none", "polling", "holding", "calling", "done"}
    /\ item \in Notices \cup {NoItem}
    /\ stop \in BOOLEAN /\ joinFailed \in BOOLEAN
AtvvTypes ==
    /\ micOpen \in BOOLEAN /\ guard \in BOOLEAN /\ synced \in BOOLEAN
    /\ pending \in 0..MaxNotices /\ decoder \in 0..MaxNotices
RemoteTypes ==
    /\ link \in BOOLEAN /\ stream \in 0..MaxNotices /\ streams \in 0..MaxNotices
    /\ mixed \in BOOLEAN /\ startLost \in BOOLEAN /\ told \in BOOLEAN
    /\ notices \in 0..MaxNotices /\ calls \in 0..MaxCalls /\ faults \in 0..MaxFaults

TypeOK == LoopTypes /\ SessionTypes /\ AtvvTypes /\ RemoteTypes

\* A new RC003BleSession with its ATVVSession.
NewAtvv ==
    /\ micOpen' = FALSE /\ guard' = FALSE /\ synced' = FALSE
    /\ pending' = 0 /\ decoder' = 0
NewSession ==
    /\ closing' = FALSE /\ queue' = <<>> /\ writes' = 0
    /\ worker' = "none" /\ item' = NoItem /\ stop' = FALSE
    /\ joinFailed' = FALSE /\ told' = FALSE
    /\ NewAtvv

\* The bridge has started; noticed, called and failing bound what will happen.
InitFor(noticed, called, failing) ==
    /\ link = TRUE /\ stream = 0 /\ streams = 0
    /\ loop = "sleeping" /\ attempt = 0 /\ event = FALSE /\ stopping = FALSE
    /\ posted = <<>> /\ reports = {}
    /\ watching = FALSE /\ subscribed = FALSE
    /\ closing = TRUE /\ queue = <<>> /\ writes = 0
    /\ worker = "none" /\ item = NoItem /\ stop = FALSE
    /\ joinFailed = FALSE /\ told = FALSE
    /\ micOpen = FALSE /\ guard = FALSE /\ synced = FALSE
    /\ pending = 0 /\ decoder = 0
    /\ mixed = FALSE /\ startLost = FALSE
    /\ notices = noticed /\ calls = called /\ faults = failing
Init == InitFor(MaxNotices, MaxCalls, MaxFaults)

Spend == faults > 0 /\ faults' = faults - 1

-----------------------------------------------------------------------------
(* The supervisor and connect().                                            *)

\* One turn of run_forever, up to connect(): the event is cleared first.
StartAttempt ==
    /\ loop = "sleeping" /\ ~stopping /\ attempt < MaxAttempts
    /\ attempt' = attempt + 1
    /\ event' = FALSE
    /\ loop' = "finding"
    /\ UNCHANGED <<remoteVars, stopping, posted, reports, handlerVars, closing, writes, queue,
                   workerVars, stop, joinFailed, atvvVars, historyVars, budgetVars>>

\* What discover_candidates finds among the paired devices; it fails where the
\* WinRT packages are missing or a call of theirs does.
Discovery == {"none", "one", "several", "failed"}

\* select_single_candidate fails closed: it takes a remote only if it is alone.
Selected(found) == found = "one"

\* _connect_once up to the session it builds, with an ATVVSession of its own;
\* there is nothing to close if the search raises.
FindCandidate ==
    /\ loop = "finding"
    /\ \E found \in Discovery :
        \/ /\ Selected(found)
           /\ loop' = "opening"
           /\ NewSession /\ mixed' = FALSE /\ startLost' = FALSE
           /\ UNCHANGED faults
        \/ /\ ~Selected(found) /\ Spend
           /\ loop' = IF stopping THEN "ended" ELSE "sleeping"
           /\ UNCHANGED <<closing, writes, queue, workerVars, stop, joinFailed, atvvVars,
                          historyVars>>
    /\ UNCHANGED <<remoteVars, supervisorVars, posted, reports, handlerVars, notices, calls>>

\* stop() during the sleep is seen after it.
EndSleep ==
    /\ loop = "sleeping" /\ stopping
    /\ loop' = "ended"
    /\ UNCHANGED <<remoteVars, supervisorVars, posted, reports, handlerVars, closing, writes,
                   queue, workerVars, stop, joinFailed, atvvVars, historyVars, budgetVars>>

\* A step of connect goes on to the next one over a live link, or raises.
ConnectStep(from, to) ==
    /\ loop = from
    /\ \/ link /\ loop' = to /\ UNCHANGED faults
       \/ ~link /\ loop' = "cancelling" /\ UNCHANGED faults
       \/ link /\ Spend /\ loop' = "cancelling"

Connected == ~(loop' = "cancelling")

\* from_id_async, then the status handler.
OpenDevice ==
    /\ ConnectStep("opening", "discovering")
    /\ watching' = Connected
    /\ closing' = ~Connected
    /\ UNCHANGED <<remoteVars, supervisorVars, posted, reports, subscribed, writes, queue,
                   workerVars, stop, joinFailed, atvvVars, historyVars, notices, calls>>

\* The service, its three characteristics, then the value handlers.
Discover ==
    /\ ConnectStep("discovering", "subscribing")
    /\ subscribed' = Connected
    /\ closing' = ~Connected
    /\ UNCHANGED <<remoteVars, supervisorVars, posted, reports, watching, writes, queue,
                   workerVars, stop, joinFailed, atvvVars, historyVars, notices, calls>>

\* Both CCCD writes, then _start_worker.
Subscribe ==
    /\ ConnectStep("subscribing", "announcing")
    /\ worker' = IF Connected THEN "polling" ELSE "none"
    /\ closing' = ~Connected
    /\ UNCHANGED <<remoteVars, supervisorVars, posted, reports, handlerVars, writes, queue,
                   item, stop, joinFailed, atvvVars, historyVars, notices, calls>>

\* Mutant: the event is cleared when the wait begins, not before connect.
AnnounceClears ==
    /\ ConnectStep("announcing", "waiting")
    /\ closing' = ~Connected
    /\ event' = FALSE
    /\ UNCHANGED <<remoteVars, attempt, stopping, posted, reports, handlerVars, writes, queue,
                   workerVars, stop, joinFailed, atvvVars, historyVars, notices, calls>>

\* GET_CAPS is written; connect returns.
Announce ==
    /\ ConnectStep("announcing", "waiting")
    /\ closing' = ~Connected
    /\ UNCHANGED <<remoteVars, supervisorVars, posted, reports, handlerVars, writes, queue,
                   workerVars, stop, joinFailed, atvvVars, historyVars, notices, calls>>

\* _disconnect_event.wait() returns; close() shuts its gate before it awaits.
EndWait ==
    /\ loop = "waiting" /\ event
    /\ loop' = "cancelling"
    /\ closing' = TRUE
    /\ UNCHANGED <<remoteVars, supervisorVars, posted, reports, handlerVars, writes, queue,
                   workerVars, stop, joinFailed, atvvVars, historyVars, budgetVars>>

-----------------------------------------------------------------------------
(* close().                                                                 *)

\* _cancel_pending_mic_open_writes: a cancelled write may have reached the
\* remote, whose microphone may open.  Then _worker_stop.set().
CancelWrites ==
    /\ loop = "cancelling"
    /\ writes' = 0
    /\ stop' = TRUE
    /\ loop' = "joining"
    /\ UNCHANGED <<remoteVars, supervisorVars, posted, reports, handlerVars, closing, queue,
                   workerVars, joinFailed, atvvVars, historyVars, budgetVars>>

\* Mutant: the worker is told to stop and not joined.
WorkerGoneUnjoined == worker # "calling"

\* is_alive() after the join.
WorkerGone == worker \in {"none", "done"}

\* The join blocks the loop's thread.  It ends with the worker, or after two
\* seconds over a worker inside a callback; then the queue is drained.
JoinWorker ==
    /\ loop = "joining"
    /\ \/ WorkerGone /\ joinFailed' = FALSE /\ UNCHANGED faults
       \/ worker = "calling" /\ Spend /\ joinFailed' = TRUE
    /\ queue' = <<>>
    /\ loop' = "muting"
    /\ UNCHANGED <<remoteVars, supervisorVars, posted, reports, handlerVars, closing, writes,
                   workerVars, stop, atvvVars, historyVars, notices, calls>>

\* What mic_close_command does to the stream, if it is written and heard.
Muted == IF micOpen /\ link THEN {0, stream} ELSE {stream}

\* MIC_CLOSE, if this session saw the microphone open; a failure is swallowed.
Mute ==
    /\ loop = "muting"
    /\ told' = micOpen
    /\ stream' \in Muted
    /\ loop' = "detaching"
    /\ UNCHANGED <<link, streams, supervisorVars, posted, reports, handlerVars, closing, writes,
                   queue, workerVars, stop, joinFailed, atvvVars, startLost, budgetVars>>

\* Both value handlers; notifications came in until now.
Detach ==
    /\ loop = "detaching"
    /\ subscribed' = FALSE
    /\ loop' = "releasing"
    /\ UNCHANGED <<remoteVars, supervisorVars, posted, reports, watching, closing, writes, queue,
                   workerVars, stop, joinFailed, atvvVars, historyVars, budgetVars>>

\* Mutant: a join that timed out does not fail the cleanup.
AfterReleaseForgiving == IF stopping THEN "ended" ELSE "sleeping"

\* A failed join raises: _cleanup_once keeps the owner and run_forever ends.
AfterRelease == IF joinFailed \/ stopping THEN "ended" ELSE "sleeping"

\* The status handler, the service and the device.
Release ==
    /\ loop = "releasing"
    /\ watching' = FALSE
    /\ loop' = AfterRelease
    /\ UNCHANGED <<remoteVars, supervisorVars, posted, reports, subscribed, closing, writes, queue,
                   workerVars, stop, joinFailed, atvvVars, historyVars, budgetVars>>

-----------------------------------------------------------------------------
(* Calls from other threads, and what the loop does with them.              *)

\* send_mic_open_threadsafe on the session of attempt k, from any thread that
\* still refers to it.
SendMicOpen(k) ==
    /\ calls > 0 /\ (k = attempt => loop # "finding")
    /\ calls' = calls - 1
    /\ posted' = Append(posted, MicOpenCall(k))
    /\ UNCHANGED <<remoteVars, loop, supervisorVars, reports, handlerVars, closing, writes,
                   queue, workerVars, stop, joinFailed, atvvVars, historyVars, notices, faults>>

\* Mutant: the scheduled write does not look at the closing gate.
GateOpenAlways(k) == k = attempt

\* _schedule: a session that is closing, or was closed, writes nothing.
GateOpen(k) == k = attempt /\ ~closing

\* One ready callback of the loop, between two awaits of its coroutine.
RunPosted ==
    /\ posted # <<>> /\ loop \notin {"joining", "ended"}
    /\ posted' = Tail(posted)
    /\ LET c == Head(posted) IN
       /\ event' = (event \/ c.call = "reconnect")
       /\ writes' = IF c.call = "micOpen" /\ GateOpen(c.of) THEN writes + 1 ELSE writes
    /\ UNCHANGED <<remoteVars, loop, attempt, stopping, reports, handlerVars, closing, queue,
                   workerVars, stop, joinFailed, atvvVars, historyVars, budgetVars>>

\* A MIC_OPEN write returns and _observe_mic_open_result looks at it.
FinishWrite ==
    /\ writes > 0 /\ loop # "joining"
    /\ writes' = writes - 1
    /\ \/ link /\ loop \notin {"opening", "discovering"} /\ UNCHANGED <<posted, faults>>
       \/ /\ \/ ~link \/ loop \in {"opening", "discovering"}
             \/ faults > 0
          /\ faults' = IF link /\ loop \notin {"opening", "discovering"}
                       THEN faults - 1 ELSE faults
          /\ posted' = IF closing THEN posted ELSE Append(posted, Reconnect)
    /\ UNCHANGED <<remoteVars, loop, supervisorVars, reports, handlerVars, closing, queue,
                   workerVars, stop, joinFailed, atvvVars, historyVars, notices, calls>>

\* supervisor.stop(), on the loop.
Stop ==
    /\ ~stopping /\ loop \notin {"joining", "ended"} /\ calls > 0
    /\ calls' = calls - 1
    /\ stopping' = TRUE /\ event' = TRUE
    /\ UNCHANGED <<remoteVars, loop, attempt, posted, reports, handlerVars, closing, writes, queue,
                   workerVars, stop, joinFailed, atvvVars, historyVars, notices, faults>>

-----------------------------------------------------------------------------
(* The link and WinRT's threads.                                            *)

LoseLink ==
    /\ link /\ Spend
    /\ link' = FALSE /\ stream' = 0
    /\ reports' = IF watching THEN reports \cup {attempt} ELSE reports
    /\ UNCHANGED <<streams, loop, supervisorVars, posted, handlerVars, closing, writes, queue,
                   workerVars, stop, joinFailed, atvvVars, historyVars, notices, calls>>

RestoreLink ==
    /\ ~link
    /\ link' = TRUE
    /\ UNCHANGED <<stream, streams, loop, supervisorVars, posted, reports, handlerVars, closing,
                   writes, queue, workerVars, stop, joinFailed, atvvVars, historyVars, budgetVars>>

\* _handle_connection_status_changed of session k: the status is read now;
\* of a device that was released it cannot be read and counts as lost.
StatusChanged(k) ==
    /\ k \in reports
    /\ reports' = reports \ {k}
    /\ posted' = IF ~link \/ k # attempt \/ ~watching
                 THEN Append(posted, Reconnect) ELSE posted
    /\ UNCHANGED <<remoteVars, loop, supervisorVars, handlerVars, closing, writes, queue,
                   workerVars, stop, joinFailed, atvvVars, historyVars, budgetVars>>

\* _enqueue: a full queue drops its oldest notification, whatever it is.
Enqueue(n) ==
    IF Len(queue) < QueueMax
    THEN queue' = Append(queue, n) /\ UNCHANGED startLost
    ELSE /\ queue' = Append(Tail(queue), n)
         /\ startLost' = (startLost \/ Head(queue).kind = "start")

\* What the remote may send next: it starts a stream, stops it, and sends frames
\* and predictors of its last stream, late ones after the stop too; a malformed
\* frame can come at any time.
Sendable == {n \in Notices :
                /\ n.kind = "start" => stream = 0 /\ n.stream = streams + 1
                /\ n.kind = "stop" => n.stream = stream
                /\ n.kind \in {"sync", "audio"} => n.stream = streams
                /\ n.kind = "malformed" => n.stream = 1}

Notify(n) ==
    /\ link /\ subscribed /\ notices > 0 /\ n \in Sendable
    /\ notices' = notices - 1
    /\ stream' = CASE n.kind = "start" -> n.stream
                   [] n.kind = "stop" -> 0
                   [] OTHER -> stream
    /\ streams' = IF n.kind = "start" THEN n.stream ELSE streams
    /\ Enqueue(n)
    /\ IF n.kind = "malformed" THEN Spend ELSE UNCHANGED faults
    /\ UNCHANGED <<link, loop, supervisorVars, posted, reports, handlerVars, closing, writes,
                   workerVars, stop, joinFailed, atvvVars, told, calls>>

-----------------------------------------------------------------------------
(* The worker thread and ATVVSession.                                       *)

\* queue.get of _worker_loop, whose condition was tested before.
Take ==
    /\ worker = "polling" /\ ~stop /\ queue # <<>>
    /\ item' = Head(queue) /\ queue' = Tail(queue)
    /\ worker' = "holding"
    /\ UNCHANGED <<remoteVars, loop, supervisorVars, posted, reports, handlerVars, closing,
                   writes, stop, joinFailed, atvvVars, historyVars, budgetVars>>

\* Mutant: AUDIO_START leaves the decoder and the accumulator as they are.
HandleControlUnreset ==
    /\ micOpen' = (item.kind # "stop" /\ (micOpen \/ item.kind = "start"))
    /\ guard' = (guard \/ item.kind = "stop")
    /\ synced' = (synced \/ item.kind = "sync")
    /\ pending' = IF item.kind = "stop" THEN 0 ELSE pending
    /\ UNCHANGED <<decoder, mixed>>

\* ATVVSession.handle_control.
HandleControl ==
    /\ micOpen' = (item.kind # "stop" /\ (micOpen \/ item.kind = "start"))
    /\ guard' = (guard \/ item.kind = "stop")
    /\ synced' = (item.kind # "start" /\ (synced \/ item.kind = "sync"))
    /\ pending' = IF item.kind \in {"start", "stop"} THEN 0 ELSE pending
    /\ decoder' = IF item.kind = "start" THEN 0 ELSE decoder
    /\ UNCHANGED mixed

\* handle_audio drops what arrives shortly after AUDIO_STOP.
LateAudio == ~micOpen /\ guard

\* FrameAccumulator.append with less than a frame.
KeepHalf == pending' = item.stream /\ UNCHANGED <<decoder, synced, mixed>>

\* A whole frame goes through the decoder, the filter and the gain: from the
\* pending predictor if there is one, or else from where the last frame ended.
DecodeFrame ==
    /\ pending' = 0 /\ synced' = FALSE /\ decoder' = item.stream
    /\ mixed' = (mixed \/ pending # item.stream
                       \/ (~synced /\ decoder \notin {0, item.stream}))

\* ATVVSession.handle_audio.
HandleAudio ==
    /\ \/ LateAudio /\ UNCHANGED <<pending, decoder, synced, mixed>>
       \/ ~LateAudio /\ pending = 0 /\ KeepHalf
       \/ ~LateAudio /\ pending # 0 /\ DecodeFrame
    /\ UNCHANGED <<micOpen, guard>>

\* handle_control raises for an empty payload, for CAPS it cannot parse and for
\* CAPS of another rate than 16 kHz; the session is left as it was.
Refused(n) == n.kind = "malformed"

\* _process_control, _process_audio up to their callback.
Decode ==
    /\ worker = "holding"
    /\ CASE Refused(item) -> UNCHANGED atvvVars
         [] item.kind = "audio" -> HandleAudio
         [] OTHER -> HandleControl
    /\ worker' = "calling"
    /\ UNCHANGED <<remoteVars, loop, supervisorVars, posted, reports, handlerVars, closing,
                   writes, queue, item, stop, joinFailed, historyVars, budgetVars>>

\* The callback returns.  A malformed frame has called on_error; a frame whose
\* playback failed has requested a reconnect as well.
Return ==
    /\ worker = "calling"
    /\ worker' = "polling" /\ item' = NoItem
    /\ \/ /\ posted' = IF Refused(item) THEN Append(posted, Reconnect) ELSE posted
          /\ UNCHANGED faults
       \/ item.kind = "audio" /\ Spend /\ posted' = Append(posted, Reconnect)
    /\ UNCHANGED <<remoteVars, loop, supervisorVars, reports, handlerVars, closing, writes,
                   queue, stop, joinFailed, atvvVars, historyVars, notices, calls>>

ExitWorker ==
    /\ worker = "polling" /\ stop
    /\ worker' = "done"
    /\ UNCHANGED <<remoteVars, loop, supervisorVars, posted, reports, handlerVars, closing,
                   writes, queue, item, stop, joinFailed, atvvVars, historyVars, budgetVars>>

GuardEnds ==
    /\ guard
    /\ guard' = FALSE
    /\ UNCHANGED <<remoteVars, loop, supervisorVars, posted, reports, handlerVars, closing,
                   writes, queue, workerVars, stop, joinFailed, micOpen, pending, decoder,
                   synced, mixed, historyVars, budgetVars>>

-----------------------------------------------------------------------------
Coroutine ==
    \/ StartAttempt \/ EndSleep \/ FindCandidate \/ OpenDevice \/ Discover \/ Subscribe \/ Announce
    \/ EndWait \/ CancelWrites \/ JoinWorker \/ Mute \/ Detach \/ Release
Worker == Take \/ Decode \/ Return \/ ExitWorker
Environment ==
    \/ \E k \in 1..attempt : SendMicOpen(k)
    \/ \E n \in Notices : Notify(n)
    \/ LoseLink \/ RestoreLink \/ GuardEnds \/ Stop

Next ==
    \/ Coroutine \/ RunPosted \/ FinishWrite \/ Worker
    \/ \E k \in reports : StatusChanged(k)
    \/ Environment

Spec == Init /\ [][Next]_vars

\* The loop, its ready callbacks, the worker and WinRT's own calls all get
\* their turn; nothing is assumed of the remote, the radio or the user.
Fairness ==
    /\ WF_vars(Coroutine) /\ WF_vars(RunPosted) /\ WF_vars(Worker)
    /\ WF_vars(\E k \in reports : StatusChanged(k))
FairSpec == Spec /\ Fairness

-----------------------------------------------------------------------------
(* Correctness.                                                             *)

\* No MIC_OPEN is being written once close() has gone past its cancellation,
\* so none lands on a session that is torn down or on the next one
\* (send_mic_open_threadsafe, _cancel_pending_mic_open_writes).
WritesInsideSession ==
    writes > 0 => loop \in (Live \ {"finding"}) \cup {"cancelling"}

\* A session whose worker thread is still alive is the last one: no attempt
\* starts over it (close() raises, _cleanup_once keeps the owner).
NoAttemptOverWorker ==
    loop \in {"sleeping", "finding", "opening", "discovering", "subscribing"} =>
        worker \in {"none", "done"}

\* When a session has been closed and another may follow, the remote was told
\* to close a microphone this session had seen open (close(), MIC_CLOSE).
ClosesRemoteMic == loop \in {"sleeping", "finding"} /\ micOpen => told

\* Only the loss of an AUDIO_START from the full queue lets a frame be decoded
\* with another stream's bytes or predictor; the loss of AUDIO_STOP, of audio
\* or of AUDIO_SYNC does not (ATVVSession, _enqueue).
FramesOfOneStream == mixed => startLost

\* A reconnect asked for while an attempt is live ends that attempt, and so
\* does a link that is lost and stays lost (request_reconnect,
\* _handle_connection_status_changed, run_forever).
FaultEndsAttempt ==
    /\ event /\ loop \in Live ~> loop \notin Live
    /\ loop = "waiting" /\ ~link ~> link \/ loop # "waiting"
=============================================================================
