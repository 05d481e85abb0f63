-------------------------- MODULE NativeBridgeProofs --------------------------
(* What the coordinator holds of the system, and the event that a reconnect  *)
(* needs: for every queue and mailbox size, every failure and every timing.  *)
(* What the edges of a hold leave behind: nothing, wherever they are when a  *)
(* link is lost, a start fails or the bridge is stopped, unless one was lost. *)
EXTENDS NativeBridge, TLAPS

-----------------------------------------------------------------------------
(* The mailbox's operation.                                                  *)

MailTypes == mailbox \in Seq(Kinds) /\ Len(mailbox) <= EventMax

\* A pushed event is the last one of the mailbox.
LEMMA PushedTyped ==
    ASSUME MailTypes, NEW kind \in Kinds
    PROVE  /\ Pushed(kind) \in Seq(Kinds) /\ Len(Pushed(kind)) <= EventMax
           /\ \E n \in 1..Len(Pushed(kind)) : Pushed(kind)[n] = kind
<1> DEFINE kept == IF Len(mailbox) = EventMax THEN Tail(mailbox) ELSE mailbox
<1>1. EventMax \in Nat /\ EventMax > 0
  BY LimitsAssumption
<1>2. kept \in Seq(Kinds) /\ Len(kept) < EventMax
  <2>1. CASE Len(mailbox) = EventMax
    <3>1. mailbox # <<>>
      BY <1>1, <2>1
    <3> QED
      BY <1>1, <2>1, <3>1 DEF MailTypes
  <2>2. CASE Len(mailbox) # EventMax
    BY <1>1, <2>2 DEF MailTypes
  <2> QED
    BY <2>1, <2>2
<1>3. Pushed(kind) = Append(kept, kind)
  BY DEF Pushed
<1> HIDE DEF kept
<1>4. /\ Append(kept, kind) \in Seq(Kinds)
      /\ Len(Append(kept, kind)) = Len(kept) + 1
      /\ Append(kept, kind)[Len(kept) + 1] = kind
      /\ Len(kept) \in Nat
  BY <1>2
<1>5. Len(kept) + 1 \in 1..Len(Append(kept, kind))
  BY <1>4
<1> QED
  BY <1>1, <1>2, <1>3, <1>4, <1>5

-----------------------------------------------------------------------------
(* The inductive invariant.                                                  *)

StageTypes ==
    /\ phase \in Phases
    /\ mutex \in {"free", "start", "stop"}
    /\ state \in {"stopped", "starting", "running", "stopping", "faulted"}
    /\ dispatcher \in {"off", "idle"} \cup Callbacks

\* The mutex and the coordinator's state follow the supervisor's cycle.
Locked ==
    /\ mutex = "start" <=> phase \in {"starting", "linking", "aborting"}
    /\ mutex = "stop" <=> phase = "leaving"
    /\ state = "starting" <=> phase \in {"starting", "linking", "aborting"}
    /\ state = "stopping" <=> phase \in {"leaving", "releasing"}
    /\ phase \in {"down", "guarded"} => state = "stopped"
    /\ phase = "up" => state \in {"running", "faulted"}

\* The dispatcher runs from BleUp to LeaveBle only.
Dispatching ==
    /\ phase \in {"down", "guarded", "starting", "releasing"} => dispatcher = "off"
    /\ state = "stopped" => dispatcher = "off"

\* Only a running coordinator takes something of the system.
NothingHeld ==
    /\ state \in {"stopped", "starting"} =>
           ~route /\ ~audioStarted /\ ~voice /\ ~mic
    /\ LeaseInSession /\ AudioIntoOpenRoute

Stages == StageTypes /\ Locked /\ Dispatching
Safe == MailTypes /\ Stages /\ NothingHeld /\ DisconnectKept

-----------------------------------------------------------------------------
(* The cycle.                                                                *)

LEMMA StagesKept == Stages /\ [Next]_vars => Stages'
<1> SUFFICES ASSUME Stages, [Next]_vars PROVE Stages'
  OBVIOUS
<1> USE DEF Stages, StageTypes, Locked, Dispatching, Phases, Callbacks
<1>1. CASE Edges \/ Worker \/ LinkLost \/ Input \/ Pump \/ UNCHANGED vars
  <2>1. UNCHANGED <<phase, mutex, state, dispatcher>>
    BY <1>1 DEF Edges, PressButton, AutoRepeat, ReleaseButton, Fire, RunHandler, Worker,
       WorkerLoops, WorkerTake, WorkerOpens, WorkerCloses, WorkerTells, LinkLost, Input, Pump,
       vars, lifeVars, coreVars, bleVars
  <2> QED
    BY <2>1
<1>2. CASE EnterCallback
  BY <1>2 DEF EnterCallback, lifeVars, coreVars
<1>3. CASE RunCallback
  BY <1>3 DEF RunCallback, AudioStart, AudioStop, OtherBytes, Disconnected, Ignored, lifeVars
<1>4. CASE Connect \/ StartBegins
  BY <1>4 DEF Connect, StartBegins, bleVars
<1>5. CASE BleUp \/ StartDone \/ Abort
  BY <1>5 DEF BleUp, StartDone, Abort, StartFailed, bleVars
<1>6. CASE BeginCleanup \/ StopGuard \/ Shutdown \/ Drain \/ JoinWorker
  BY <1>6 DEF BeginCleanup, StopGuard, Shutdown, Drain, JoinWorker, coreVars, bleVars
<1>7. CASE StopBegins \/ LeaveBle \/ Release
  BY <1>7 DEF StopBegins, LeaveBle, Release, bleVars
<1> QED
  BY <1>1, <1>2, <1>3, <1>4, <1>5, <1>6, <1>7 DEF Next, Ble, Start, Stop

-----------------------------------------------------------------------------
(* What a session holds.                                                     *)

Held == <<mic, voice, lease, unreturned, route, audioStarted>>

LEMMA MicEdgeHolds ==
    ASSUME NothingHeld, state = "running", UNCHANGED state,
           NEW pressed \in BOOLEAN, MicEdge(pressed)
    PROVE  NothingHeld'
<1> USE DEF NothingHeld, LeaseInSession, AudioIntoOpenRoute
<1> USE DEF Returned, LeftBorrowed, GiveBack, leaseVars
<1>1. CASE UNCHANGED <<voiceVars, audioVars, faults>>
  BY <1>1 DEF voiceVars, audioVars
<1>2. CASE OpenVoice /\ UNCHANGED audioVars
  BY <1>2 DEF OpenVoice, audioVars
<1>3. CASE CloseVoice
  BY <1>3 DEF CloseVoice, audioVars
<1> QED
  BY <1>1, <1>2, <1>3 DEF MicEdge

LEMMA NothingHeldKept == Stages /\ NothingHeld /\ [Next]_vars => NothingHeld'
<1> SUFFICES ASSUME Stages, NothingHeld, [Next]_vars PROVE NothingHeld'
  OBVIOUS
<1>1. ASSUME UNCHANGED Held, UNCHANGED state \/ state' = "stopping"
      PROVE  NothingHeld'
  BY <1>1 DEF NothingHeld, LeaseInSession, AudioIntoOpenRoute, Held
<1>2. CASE Edges \/ (Worker /\ ~WorkerTells) \/ LinkLost \/ EnterCallback \/ Input \/ Pump
           \/ BeginCleanup \/ StopGuard \/ Shutdown \/ Drain \/ JoinWorker \/ LeaveBle
           \/ UNCHANGED vars
  <2>1. UNCHANGED <<Held, state>>
    BY <1>2 DEF Edges, PressButton, AutoRepeat, ReleaseButton, Fire, RunHandler, Worker,
       WorkerLoops, WorkerTake, WorkerOpens, WorkerCloses, LinkLost, EnterCallback, Input,
       Pump, BeginCleanup, StopGuard, Shutdown, Drain, JoinWorker, LeaveBle, vars, coreVars,
       voiceVars, leaseVars, audioVars, Held
  <2> QED
    BY <1>1, <2>1
<1>3. CASE WorkerTells
  <2>1. UNCHANGED state
    BY <1>3 DEF WorkerTells
  <2>2. CASE state = "running" /\ MicEdge(worker = "tellPress")
    <3>1. (worker = "tellPress") \in BOOLEAN
      OBVIOUS
    <3> QED
      BY <2>1, <2>2, <3>1, MicEdgeHolds
  <2>3. CASE UNCHANGED <<voiceVars, audioVars, mailbox, faults>>
    BY <1>1, <2>1, <2>3 DEF voiceVars, leaseVars, audioVars, Held
  <2> QED
    BY <1>3, <2>2, <2>3 DEF WorkerTells, HandleMicEdge
<1>4. CASE RunCallback
  <2>1. CASE state = "running" /\ (AudioStart \/ AudioStop \/ OtherBytes)
    BY <2>1 DEF AudioStart, AudioStop, OtherBytes, voiceVars, leaseVars, audioVars, NothingHeld,
       LeaseInSession, AudioIntoOpenRoute
  <2>3. CASE Ignored
    BY <1>1, <2>3 DEF Ignored, voiceVars, leaseVars, audioVars, Held
  <2>2. CASE Disconnected
    <3>1. state # "stopped" /\ state # "starting"
      BY <1>4, <2>2 DEF RunCallback, Disconnected, Stages, Locked, Dispatching
    <3> QED
      BY <2>2, <3>1 DEF Disconnected, GiveBack, Returned, LeftBorrowed, audioVars, NothingHeld,
         LeaseInSession, AudioIntoOpenRoute
  <2> QED
    BY <1>4, <2>1, <2>2, <2>3 DEF RunCallback
<1>5. CASE Connect \/ BleUp \/ StartDone \/ Abort
  <2>1. UNCHANGED Held
    BY <1>5 DEF Connect, BleUp, StartDone, Abort, voiceVars, leaseVars, audioVars, Held
  <2>2. /\ state \in {"stopped", "starting"} \/ (Connect /\ phase = "down")
        /\ state' = "starting" => state = "starting"
    BY <1>5 DEF Connect, BleUp, StartDone, Abort, StartFailed, Stages, Locked
  <2>3. state \in {"stopped", "starting"}
    BY <2>2 DEF Stages, Locked
  <2> QED
    BY <2>1, <2>2, <2>3 DEF NothingHeld, LeaseInSession, AudioIntoOpenRoute, Held
<1>8. CASE StartBegins
  <2>1. state = "stopped" /\ UNCHANGED <<mic, voice, route, audioStarted>>
    BY <1>8 DEF StartBegins, Stages, Locked, audioVars
  <2>2. \/ state' = "starting" /\ Returned
        \/ state' = "faulted" /\ (Returned \/ LeftBorrowed)
    BY <1>8 DEF StartBegins
  <2> QED
    BY <2>1, <2>2 DEF NothingHeld, LeaseInSession, AudioIntoOpenRoute, Returned, LeftBorrowed
<1>6. CASE StopBegins
  <2>1. CASE state = "stopped"
    <3>1. UNCHANGED <<mic, voice, route, audioStarted, state>> /\ GiveBack
      BY <1>6, <2>1 DEF StopBegins, audioVars
    <3> QED
      BY <2>1, <3>1 DEF GiveBack, Returned, LeftBorrowed, NothingHeld, LeaseInSession,
         AudioIntoOpenRoute
  <2>2. CASE state # "stopped"
    BY <1>1, <1>6, <2>2 DEF StopBegins, leaseVars, audioVars, Held
  <2> QED
    BY <2>1, <2>2
<1>7. CASE Release
  BY <1>7 DEF Release, GiveBack, Returned, LeftBorrowed, NothingHeld, LeaseInSession,
     AudioIntoOpenRoute
<1> QED
  BY <1>2, <1>3, <1>4, <1>5, <1>6, <1>7, <1>8 DEF Next, Worker, Ble, Start, Stop

-----------------------------------------------------------------------------
(* The mailbox.                                                              *)

LEMMA MailKept == MailTypes /\ Stages /\ [Next]_vars => MailTypes'
<1> SUFFICES ASSUME MailTypes, Stages, [Next]_vars PROVE MailTypes'
  OBVIOUS
<1>1. CASE UNCHANGED mailbox
  BY <1>1 DEF MailTypes
<1>2. ASSUME NEW kind \in Kinds, mailbox' = Pushed(kind) PROVE MailTypes'
  BY <1>2, PushedTyped DEF MailTypes
<1>3. CASE mailbox' = <<>>
  BY <1>3, LimitsAssumption DEF MailTypes
<1>4. CASE Pump
  BY <1>4, LimitsAssumption DEF Pump, MailTypes
<1>5. CASE ~Pump
  <2>1. \/ UNCHANGED mailbox \/ mailbox' = <<>>
        \/ mailbox' = Pushed("other") \/ mailbox' = Pushed("disconnected")
    BY <1>5 DEF Next, Edges, PressButton, AutoRepeat, ReleaseButton, Fire, RunHandler, Worker,
       WorkerLoops, WorkerTake, WorkerOpens, WorkerCloses, WorkerTells, HandleMicEdge, Ble,
       LinkLost, EnterCallback, RunCallback, AudioStart, AudioStop, OtherBytes, Disconnected,
       Ignored, Input, Start, Connect, StartBegins, BleUp, StartDone, Abort, StartFailed,
       BeginCleanup, Stop, StopGuard, Shutdown, Drain, JoinWorker, StopBegins, LeaveBle,
       Release, vars, coreVars
  <2> QED
    BY <1>1, <1>2, <1>3, <2>1 DEF Kinds
<1> QED
  BY <1>4, <1>5

\* What is pushed on a faulted coordinator's mailbox is the disconnect itself.
LEMMA DisconnectKeptStep ==
    MailTypes /\ Stages /\ DisconnectKept /\ [Next]_vars => DisconnectKept'
<1> SUFFICES ASSUME MailTypes, Stages, DisconnectKept, [Next]_vars,
                    phase' = "up", state' = "faulted"
             PROVE  reconnect' \/ \E n \in 1..Len(mailbox') : mailbox'[n] = "disconnected"
  BY DEF DisconnectKept
<1>1. CASE Pump
  <2>1. phase = "up" /\ state = "faulted" /\ ~reconnect /\ mailbox # <<>>
    BY <1>1 DEF Pump
  <2>2. PICK n \in 1..Len(mailbox) : mailbox[n] = "disconnected"
    BY <2>1 DEF DisconnectKept
  <2>3. CASE n = 1
    <3>1. Head(mailbox) = "disconnected"
      BY <2>1, <2>2, <2>3 DEF MailTypes
    <3>2. reconnect' = (Head(mailbox) = "disconnected")
      BY <1>1 DEF Pump
    <3> QED
      BY <3>1, <3>2
  <2>4. CASE n # 1
    <3>1. /\ n - 1 \in 1..Len(Tail(mailbox))
          /\ Tail(mailbox)[n - 1] = mailbox[n]
      BY <2>1, <2>2, <2>4 DEF MailTypes
    <3> QED
      BY <1>1, <2>2, <3>1 DEF Pump
  <2> QED
    BY <2>3, <2>4
<1>2. CASE Disconnected
  BY <1>2, PushedTyped DEF Disconnected, Kinds
<1>3. CASE UNCHANGED <<mailbox, reconnect, phase, state>>
  BY <1>3 DEF DisconnectKept
<1>4. CASE RunCallback /\ ~Disconnected
  <2>1. UNCHANGED state
    BY <1>4 DEF RunCallback, AudioStart, AudioStop, OtherBytes, Ignored
  <2>2. Ignored
    BY <1>4, <2>1 DEF RunCallback
  <2> QED
    BY <1>3, <1>4, <2>2 DEF RunCallback, Ignored, lifeVars
<1>5. CASE WorkerTells
  <2>1. UNCHANGED <<state, phase, reconnect>> /\ state # "running"
    BY <1>5 DEF WorkerTells, lifeVars
  <2> QED
    BY <1>3, <1>5, <2>1 DEF WorkerTells, HandleMicEdge
<1>6. CASE Input \/ Start \/ BeginCleanup \/ Stop
  <2>1. FALSE
    BY <1>6 DEF Input, Start, Connect, StartBegins, BleUp, StartDone, Abort, StartFailed,
       BeginCleanup, Stop, StopGuard, Shutdown, Drain, JoinWorker, StopBegins, LeaveBle,
       Release, Stages, Locked
  <2> QED
    BY <2>1
<1>7. CASE Edges \/ WorkerLoops \/ WorkerTake \/ WorkerOpens \/ WorkerCloses \/ LinkLost
           \/ EnterCallback \/ UNCHANGED vars
  <2>1. UNCHANGED <<mailbox, reconnect, phase, state>>
    BY <1>7 DEF Edges, PressButton, AutoRepeat, ReleaseButton, Fire, RunHandler, WorkerLoops,
       WorkerTake, WorkerOpens, WorkerCloses, LinkLost, EnterCallback, vars, lifeVars, coreVars
  <2> QED
    BY <1>3, <2>1
<1> QED
  BY <1>1, <1>2, <1>4, <1>5, <1>6, <1>7 DEF Next, Worker, Ble

-----------------------------------------------------------------------------
(* The theorems.                                                             *)

\* The inductive invariant holds in every behaviour: of the sizes, only that
\* the mailbox holds an event at all is needed.
THEOREM CoordinatorSafe == Spec => []Safe
<1>1. Init => Safe
  BY LimitsAssumption
  DEF Init, Safe, MailTypes, Stages, StageTypes, Locked, Dispatching, NothingHeld,
      LeaseInSession, AudioIntoOpenRoute, DisconnectKept, Phases
<1>2. Safe /\ [Next]_vars => Safe'
  BY StagesKept, NothingHeldKept, MailKept, DisconnectKeptStep DEF Safe
<1> QED
  BY <1>1, <1>2, PTL DEF Spec

\* Whatever fails: Windows' audio policies are borrowed only in a session or
\* after a return that was tried and failed, no session is without them, and a
\* start gives back what was left; samples only flow into an open route.
THEOREM PoliciesReturned == Spec => [](LeaseInSession /\ AudioIntoOpenRoute)
<1>1. Safe => LeaseInSession /\ AudioIntoOpenRoute
  BY DEF Safe, NothingHeld
<1> QED
  BY <1>1, CoordinatorSafe, PTL

\* Whatever a stop finds -- a session, a lost link, a start that failed half
\* way -- the stopped coordinator holds nothing, but for policies whose return
\* failed, and no thread of it runs.
THEOREM StoppedHoldsNothing == Spec => []StopReleasesAll
<1>1. Safe => StopReleasesAll
  BY DEF Safe, NothingHeld, LeaseInSession, Stages, StageTypes, Locked, Dispatching,
     StopReleasesAll
<1> QED
  BY <1>1, CoordinatorSafe, PTL

\* The event a reconnect depends on is never dropped.
THEOREM ReconnectAnnounced == Spec => []DisconnectKept
<1>1. Safe => DisconnectKept
  BY DEF Safe
<1> QED
  BY <1>1, CoordinatorSafe, PTL

\* Samples are accepted only while there is a route to write them to, whether a
\* hold ends, a link is lost, a start fails or the coordinator stops between two
\* callbacks of the transport (on_bytes, close_voice_session).
THEOREM RouteOpenForAudio == Spec => []AudioIntoOpenRoute
<1>1. Safe => AudioIntoOpenRoute
  BY DEF Safe, NothingHeld
<1> QED
  BY <1>1, CoordinatorSafe, PTL

-----------------------------------------------------------------------------
(* The edges on their way, as long as none is lost.                          *)

\* A press has been queued and its release has not.
Down == f5 \/ pending \/ handlers > 0

\* The edge that the worker takes next, whether it is queued yet or not.
NextEdge == IF queue # <<>> THEN queue[1] ELSE ~Down

EdgeTypes ==
    /\ remote \in BOOLEAN /\ f5 \in BOOLEAN /\ pending \in BOOLEAN
    /\ timers \in Nat /\ handlers \in Nat
    /\ queue \in Seq(BOOLEAN) /\ worker \in WorkerSteps /\ phase \in Phases

\* One release at a time passes the debouncer, after its hold.
OneRelease ==
    /\ \/ timers = 0 /\ ~pending /\ handlers = 0
       \/ timers = 1 /\ pending /\ handlers = 0
       \/ timers = 0 /\ ~pending /\ handlers = 1
    /\ f5 => remote /\ NoReleasePending
    /\ ~HookOn => ~f5 /\ (phase = "quiet" \/ ~pending)

\* The queue alternates and ends with the edge that was queued last.
Alternates ==
    /\ \A n \in 1..Len(queue) : n > 1 => queue[n] = ~queue[n - 1]
    /\ queue # <<>> => queue[Len(queue)] = Down

\* The worker's edge and the next one alternate as well.
WorkerAlternates ==
    /\ worker \in {"press", "tellPress"} => NextEdge = FALSE
    /\ worker \in {"release", "tellRelease"} => NextEdge = TRUE

Pipeline == EdgeTypes /\ OneRelease /\ Alternates /\ WorkerAlternates

\* Between two edges the recognizer listens exactly when the opening tap of the
\* hold worked and its release is still to come.
HostPaired ==
    /\ openTapOk \in BOOLEAN /\ host \in BOOLEAN
    /\ worker = "press" => ~host
    /\ worker = "release" => host = openTapOk
    /\ worker \notin {"press", "release"} => host = (openTapOk /\ NextEdge = FALSE)

\* The coordinator's microphone is down only when its release is still to come.
MicPaired ==
    state = "running" =>
        /\ voice => mic
        /\ mic => worker \notin {"press", "tellPress"}
        /\ mic /\ WorkerFree => NextEdge = FALSE

\* The sum of what one step does to the edges: nothing, queue the edge that is
\* due, or hand the first one to the worker.
Still == UNCHANGED <<queue, Down>>
Queues == queue' = Append(queue, ~Down) /\ Down' = ~Down
Hands == WorkerTake /\ UNCHANGED Down

LEMMA QueueSize == EdgeTypes => Len(queue) \in Nat /\ QueueMax \in Nat
BY LimitsAssumption DEF EdgeTypes

\* An edge that is queued while none is lost finds room, and no bounce.
LEMMA NotLost ==
    ASSUME NEW bounced, Loses(bounced), ~edgeLost'
    PROVE  ~bounced /\ ~(Len(queue) >= QueueMax)
BY Zenon DEF Loses

LEMMA CancelsNothing == ASSUME timers = 0, NEW rest, CancelTimer(rest) PROVE rest = 0
BY DEF CancelTimer

\* The user's and the debouncer's steps.
LEMMA HoldsPass ==
    ASSUME ~edgeLost', Pipeline, Edges
    PROVE  /\ EdgeTypes' /\ OneRelease' /\ UNCHANGED worker
           /\ Still \/ Queues
<1> USE DEF Pipeline, EdgeTypes, OneRelease, NoReleasePending
<1>1. UNCHANGED <<worker, phase>>
  BY DEF Edges, PressButton, AutoRepeat, ReleaseButton, Fire, RunHandler, workerVars, lifeVars
<1>2. HookOn' = HookOn
  BY <1>1 DEF HookOn
<1>3. ASSUME ~f5, remote', HookOn, OnKeyDown
      PROVE  EdgeTypes' /\ OneRelease' /\ Queues
  <2>6. NoReleasePending /\ ~(Len(queue) >= QueueMax)
    <3>1. Loses(~NoReleasePending)
      BY <1>3 DEF OnKeyDown
    <3> HIDE DEF NoReleasePending
    <3> QED
      BY <3>1, NotLost
  <2>1. f5' = TRUE /\ pending' = FALSE /\ handlers' = 0 /\ timers' = 0
    BY <1>3, <2>6, CancelsNothing DEF OnKeyDown
  <2>2. Len(queue) < QueueMax /\ queue' = Append(queue, TRUE)
    <3>1. Len(queue) < QueueMax
      BY <2>6, QueueSize
    <3>2. Enqueue(TRUE)
      BY <1>3 DEF OnKeyDown
    <3> QED
      BY <3>1, <3>2 DEF Enqueue
  <2>3. Down = FALSE /\ Down' = TRUE
    BY <1>3, <2>1, <2>6 DEF Down
  <2>4. queue' \in Seq(BOOLEAN)
    BY <2>2
  <2>5. remote' = TRUE => EdgeTypes' /\ OneRelease'
    BY <1>1, <1>2, <1>3, <2>1, <2>4
  <2> QED
    BY <1>3, <2>2, <2>3, <2>5 DEF Queues
<1>4. CASE PressButton
  <2>1. ~remote /\ ~f5 /\ remote' = TRUE
    BY <1>4 DEF PressButton
  <2>2. CASE HookOn
    BY <1>1, <1>3, <1>4, <2>1, <2>2 DEF PressButton
  <2>3. CASE ~HookOn
    BY <1>1, <1>2, <1>4, <2>1, <2>3 DEF PressButton, edgeVars, Still, Down
  <2> QED
    BY <2>2, <2>3
<1>5. CASE AutoRepeat
  BY <1>1, <1>3, <1>5 DEF AutoRepeat
<1>6. CASE ReleaseButton
  <2>1. remote /\ remote' = FALSE /\ UNCHANGED queue
    BY <1>6 DEF ReleaseButton, OnKeyUp
  <2>2. CASE f5
    <3>2. HookOn /\ timers = 0 /\ handlers = 0 /\ OnKeyUp
      BY <1>6, <2>2 DEF ReleaseButton
    <3>3. PICK rest \in 0..timers : CancelTimer(rest) /\ timers' = rest + 1
      BY <3>2 DEF OnKeyUp
    <3>4. rest = 0
      BY <3>2, <3>3, CancelsNothing
    <3>1. f5' = FALSE /\ timers' = 1 /\ pending' = TRUE /\ handlers' = 0
      BY <3>2, <3>3, <3>4 DEF OnKeyUp
    <3> QED
      BY <1>1, <1>2, <2>1, <2>2, <3>1, <3>2 DEF Still, Down
  <2>3. CASE ~f5
    BY <1>1, <1>2, <1>6, <2>1, <2>3 DEF ReleaseButton, edgeVars, Still, Down
  <2> QED
    BY <2>2, <2>3
<1>7. CASE Fire
  <2>1. timers = 1 /\ pending /\ handlers = 0 /\ ~f5
    BY <1>7 DEF Fire
  <2>2. /\ timers' = 0 /\ pending' = FALSE /\ handlers' = 1
        /\ UNCHANGED <<remote, f5, queue>>
    BY <1>7, <2>1 DEF Fire
  <2>3. UNCHANGED Down
    BY <2>1, <2>2 DEF Down
  <2>4. OneRelease'
    BY <1>2, <2>1, <2>2
  <2>5. EdgeTypes'
    BY <1>1, <2>2
  <2> QED
    BY <1>1, <2>2, <2>3, <2>4, <2>5 DEF Still
<1>8. CASE RunHandler
  <2>1. timers = 0 /\ ~pending /\ handlers = 1 /\ ~f5
    BY <1>8 DEF RunHandler
  <2>7. /\ handlers' = handlers - 1 /\ UNCHANGED <<remote, f5, timers, pending>>
        /\ Enqueue(FALSE)
    BY <1>8 DEF RunHandler
  <2>2. /\ handlers' = 0 /\ UNCHANGED <<remote, f5, timers, pending>>
    BY <2>1, <2>7
  <2>9. Len(queue) < QueueMax
    <3>1. Loses(FALSE)
      BY <1>8 DEF RunHandler
    <3>2. ~(Len(queue) >= QueueMax)
      BY <3>1, NotLost
    <3> QED
      BY <3>2, QueueSize
  <2>3. queue' = Append(queue, FALSE)
    BY <2>7, <2>9 DEF Enqueue
  <2>4. Down = TRUE /\ Down' = FALSE
    BY <2>1, <2>2 DEF Down
  <2>5. queue' \in Seq(BOOLEAN)
    BY <2>3
  <2>6. EdgeTypes' /\ OneRelease'
    BY <1>1, <1>2, <2>1, <2>2, <2>5
  <2> QED
    BY <1>1, <2>3, <2>4, <2>6 DEF Queues
<1> QED
  BY <1>4, <1>5, <1>6, <1>7, <1>8 DEF Edges

\* The worker's, the transport's and the supervisor's.
LEMMA OthersPass ==
    ASSUME ~edgeLost', Pipeline, Next, ~Edges
    PROVE  EdgeTypes' /\ OneRelease' /\ (Still \/ Hands)
<1> USE DEF Pipeline, EdgeTypes, OneRelease, NoReleasePending
<1>1. CASE Worker
  <2>1. UNCHANGED <<remote, edgeVars, phase>>
    BY <1>1 DEF Worker, WorkerLoops, WorkerTake, WorkerOpens, WorkerCloses, WorkerTells,
       lifeVars
  <2>2. UNCHANGED <<Down, HookOn>>
    BY <2>1 DEF Down, HookOn, edgeVars
  <2>3. WorkerTake \/ UNCHANGED queue
    BY <1>1 DEF Worker, WorkerLoops, WorkerOpens, WorkerCloses, WorkerTells
  <2>4. worker' \in WorkerSteps
    BY <1>1 DEF Worker, WorkerLoops, WorkerTake, WorkerOpens, WorkerCloses, WorkerTells,
       WorkerSteps
  <2>5. queue' \in Seq(BOOLEAN)
    <3>1. CASE WorkerTake
      <4>1. queue # <<>> /\ queue' = Tail(queue)
        BY <3>1 DEF WorkerTake
      <4> QED
        BY <4>1
    <3> QED
      BY <2>3, <3>1
  <2> QED
    BY <2>1, <2>2, <2>3, <2>4, <2>5 DEF edgeVars, Still, Hands
<1>2. CASE Ble \/ Pump
  <2>1. UNCHANGED <<remote, edgeVars, queue, worker, phase>>
    BY <1>2 DEF Ble, LinkLost, EnterCallback, RunCallback, Input, Pump, workerVars, lifeVars
  <2>2. UNCHANGED <<Down, HookOn>>
    BY <2>1 DEF Down, HookOn, edgeVars
  <2> QED
    BY <2>1, <2>2 DEF edgeVars, Still
<1>3. CASE Start \/ BeginCleanup
  <2>1. UNCHANGED <<remote, edgeVars, queue>> /\ worker' \in {worker, "top"}
    BY <1>3 DEF Start, Connect, StartBegins, BleUp, StartDone, Abort, BeginCleanup, workerVars
  <2>2. phase' \in {"guarded", "starting", "linking", "aborting", "up", "ending"}
    BY <1>3 DEF Start, Connect, StartBegins, BleUp, StartDone, Abort, StartFailed, BeginCleanup
  <2>3. UNCHANGED Down /\ HookOn'
    BY <2>1, <2>2 DEF Down, HookOn, edgeVars
  <2> QED
    BY <2>1, <2>2, <2>3 DEF edgeVars, Still, WorkerSteps, Phases
<1>4. CASE StopGuard
  <2>1. ~f5 /\ UNCHANGED <<remote, queue, worker>>
    BY <1>4 DEF StopGuard, workerVars
  <2>2. f5' = FALSE /\ UNCHANGED <<timers, pending, handlers>> /\ phase' = "quiet"
    BY <1>4 DEF StopGuard
  <2> QED
    BY <2>1, <2>2 DEF Still, Down, HookOn, Phases
<1>5. CASE Shutdown
  <2>1. /\ ~HookOn /\ phase' = "draining" /\ ~pending
        /\ UNCHANGED <<remote, f5, handlers, queue, worker>>
    BY <1>5 DEF Shutdown, HookOn, workerVars
  <2>2. timers' = 0 /\ pending' = FALSE
    BY <1>5, <2>1, CancelsNothing DEF Shutdown
  <2> QED
    BY <2>1, <2>2 DEF Still, Down, HookOn, Phases
<1>6. CASE Drain \/ JoinWorker \/ StopBegins \/ LeaveBle \/ Release
  <2>1. UNCHANGED <<remote, edgeVars, queue, worker>>
    BY <1>6 DEF Drain, JoinWorker, StopBegins, LeaveBle, Release, workerVars
  <2>2. ~HookOn /\ phase # "quiet" /\ phase' \in Phases
    BY <1>6 DEF Drain, JoinWorker, StopBegins, LeaveBle, Release, HookOn, Phases
  <2> QED
    BY <2>1, <2>2 DEF edgeVars, Still, Down
<1> QED
  BY <1>1, <1>2, <1>3, <1>4, <1>5, <1>6 DEF Next, Stop

\* Wherever in the queue or behind it: the edge that comes next stays the same
\* until the worker takes it, and then it is the opposite one.
LEMMA NextStill == ASSUME Alternates, Still PROVE Alternates' /\ NextEdge' = NextEdge
BY DEF Still, Alternates, NextEdge

LEMMA NextQueued ==
    ASSUME Alternates, queue \in Seq(BOOLEAN), Down \in BOOLEAN, Queues
    PROVE  Alternates' /\ NextEdge' = NextEdge /\ Len(queue') = Len(queue) + 1
<1> DEFINE edge == ~Down
<1>1. edge \in BOOLEAN
  OBVIOUS
<1>2. queue' = Append(queue, edge) /\ Down' = edge
  BY DEF Queues
<1> HIDE DEF edge
<1>3. /\ Len(queue') = Len(queue) + 1 /\ Len(queue) \in Nat
      /\ queue'[Len(queue) + 1] = edge
      /\ \A n \in 1..Len(queue) : queue'[n] = queue[n]
      /\ queue' # <<>>
  BY <1>1, <1>2
<1>4. NextEdge' = NextEdge
  <2>1. CASE queue = <<>>
    <3>1. queue'[1] = edge
      BY <1>3, <2>1
    <3> QED
      BY <1>3, <2>1, <3>1 DEF NextEdge, edge
  <2>2. CASE queue # <<>>
    <3>1. queue'[1] = queue[1]
      BY <1>3, <2>2
    <3> QED
      BY <1>3, <2>2, <3>1 DEF NextEdge
  <2> QED
    BY <2>1, <2>2
<1>5. queue'[Len(queue')] = Down'
  BY <1>2, <1>3
<1>6. ASSUME NEW n \in 1..Len(queue'), n > 1 PROVE queue'[n] = ~queue'[n - 1]
  <2>1. CASE n = Len(queue) + 1
    <3>1. /\ queue # <<>> /\ n - 1 = Len(queue) /\ n - 1 \in 1..Len(queue)
      BY <1>3, <1>6, <2>1
    <3>2. queue'[n - 1] = queue[Len(queue)] /\ queue'[n] = edge
      BY <1>3, <2>1, <3>1
    <3>3. queue[Len(queue)] = Down
      BY <3>1 DEF Alternates
    <3> QED
      BY <3>2, <3>3 DEF edge
  <2>2. CASE n # Len(queue) + 1
    <3>1. n \in 1..Len(queue) /\ n - 1 \in 1..Len(queue)
      BY <1>3, <1>6, <2>2
    <3>2. queue'[n] = queue[n] /\ queue'[n - 1] = queue[n - 1]
      BY <1>3, <3>1
    <3> QED
      BY <1>6, <3>1, <3>2 DEF Alternates
  <2> QED
    BY <2>1, <2>2
<1> QED
  BY <1>3, <1>4, <1>5, <1>6 DEF Alternates

LEMMA NextTaken ==
    ASSUME Alternates, queue \in Seq(BOOLEAN), queue # <<>>, queue' = Tail(queue),
           UNCHANGED Down
    PROVE  Alternates' /\ NextEdge = Head(queue) /\ NextEdge' = ~Head(queue)
<1>1. /\ Len(queue) \in Nat /\ Len(queue) > 0 /\ Head(queue) = queue[1]
      /\ Len(queue') = Len(queue) - 1
      /\ \A n \in 1..Len(queue') : queue'[n] = queue[n + 1]
  OBVIOUS
<1>2. NextEdge = Head(queue)
  BY <1>1 DEF NextEdge
<1>3. queue' # <<>> => queue'[Len(queue')] = Down'
  <2>1. SUFFICES ASSUME queue' # <<>> PROVE queue'[Len(queue')] = Down'
    OBVIOUS
  <2>2. Len(queue') \in 1..Len(queue') /\ Len(queue') + 1 = Len(queue)
    BY <1>1, <2>1
  <2>3. queue'[Len(queue')] = queue[Len(queue)]
    BY <1>1, <2>2
  <2> QED
    BY <2>3 DEF Alternates
<1>4. ASSUME NEW n \in 1..Len(queue'), n > 1 PROVE queue'[n] = ~queue'[n - 1]
  <2>1. /\ n - 1 \in 1..Len(queue') /\ (n - 1) + 1 = n
        /\ n + 1 \in 1..Len(queue) /\ n + 1 > 1 /\ (n + 1) - 1 = n
    BY <1>1, <1>4
  <2>2. queue'[n] = queue[n + 1] /\ queue'[n - 1] = queue[n]
    BY <1>1, <2>1
  <2>3. queue[n + 1] = ~queue[(n + 1) - 1]
    BY <2>1 DEF Alternates
  <2> QED
    BY <2>1, <2>2, <2>3
<1>5. NextEdge' = ~Head(queue)
  <2>1. CASE queue' = <<>>
    <3>1. Len(queue) = 1
      BY <1>1, <2>1
    <3>2. queue[1] = Down
      BY <3>1 DEF Alternates
    <3> QED
      BY <1>1, <2>1, <3>2 DEF NextEdge
  <2>2. CASE queue' # <<>>
    <3>1. 1 \in 1..Len(queue') /\ 2 \in 1..Len(queue) /\ 2 > 1 /\ 2 - 1 = 1
      BY <1>1, <2>2
    <3>2. queue'[1] = queue[2] /\ queue[2] = ~queue[2 - 1]
      BY <1>1, <3>1 DEF Alternates
    <3> QED
      BY <1>1, <2>2, <3>1, <3>2 DEF NextEdge
  <2> QED
    BY <2>1, <2>2
<1> QED
  BY <1>2, <1>3, <1>4, <1>5 DEF Alternates

LEMMA HeadTyped == queue \in Seq(BOOLEAN) /\ queue # <<>> => Head(queue) \in BOOLEAN
OBVIOUS

LEMMA PipelineKept ==
    ASSUME ~edgeLost', Pipeline, [Next]_vars
    PROVE  /\ Pipeline'
           /\ WorkerTake => NextEdge = Head(queue) /\ NextEdge' = ~Head(queue)
           /\ ~WorkerTake => NextEdge' = NextEdge
<1>1. /\ EdgeTypes' /\ OneRelease'
      /\ Still \/ Hands \/ (Queues /\ UNCHANGED worker)
  <2>1. CASE UNCHANGED vars
    <3>1. /\ UNCHANGED <<remote, edgeVars, queue, worker, phase>>
      BY <2>1 DEF vars, workerVars, lifeVars
    <3>2. UNCHANGED <<Down, HookOn, NoReleasePending>>
      BY <3>1 DEF edgeVars, Down, HookOn, NoReleasePending
    <3> QED
      BY <3>1, <3>2 DEF Pipeline, EdgeTypes, OneRelease, edgeVars, Still
  <2>2. CASE Next
    BY <2>2, HoldsPass, OthersPass
  <2> QED
    BY <2>1, <2>2
<1>2. Alternates /\ queue \in Seq(BOOLEAN) /\ Down \in BOOLEAN
  BY DEF Pipeline, EdgeTypes, Down
<1>3. /\ Alternates'
      /\ WorkerTake => NextEdge = Head(queue) /\ NextEdge' = ~Head(queue)
      /\ ~WorkerTake => NextEdge' = NextEdge
  <2>1. CASE WorkerTake
    <3>1. queue # <<>> /\ queue' = Tail(queue)
      BY <2>1 DEF WorkerTake
    <3>2. UNCHANGED Down
      BY <2>1 DEF WorkerTake, edgeVars, Down
    <3> QED
      BY <1>2, <2>1, <3>1, <3>2, NextTaken
  <2>2. CASE ~WorkerTake
    BY <1>1, <1>2, <2>2, NextStill, NextQueued DEF Hands
  <2> QED
    BY <2>1, <2>2
<1>4. WorkerAlternates'
  <2>1. CASE WorkerTake
    <3>1. Head(queue) \in BOOLEAN
      BY <1>2, <2>1, HeadTyped DEF WorkerTake
    <3>2. worker' = IF Head(queue) THEN "press" ELSE "release"
      BY <2>1 DEF WorkerTake
    <3> QED
      BY <1>3, <2>1, <3>1, <3>2 DEF WorkerAlternates
  <2>2. CASE ~WorkerTake
    <3>1. \/ worker' \in {worker, "off", "top", "get"}
          \/ worker = "press" /\ worker' = "tellPress"
          \/ worker = "release" /\ worker' = "tellRelease"
      BY <2>2 DEF Next, Edges, PressButton, AutoRepeat, ReleaseButton, Fire, RunHandler, Worker,
         WorkerLoops, WorkerOpens, WorkerCloses, WorkerTells, Ble, LinkLost, EnterCallback,
         RunCallback, Input, Start, Connect, StartBegins, BleUp, StartDone, Abort, Pump,
         BeginCleanup, Stop, StopGuard, Shutdown, Drain, JoinWorker, StopBegins, LeaveBle,
         Release, vars, workerVars
    <3> QED
      BY <1>3, <2>2, <3>1 DEF Pipeline, WorkerAlternates
  <2> QED
    BY <2>1, <2>2
<1> QED
  BY <1>1, <1>3, <1>4 DEF Pipeline

-----------------------------------------------------------------------------
(* The host's two taps.                                                      *)

LEMMA HostKept ==
    ASSUME ~edgeLost', ~tapLost', Pipeline, HostPaired, [Next]_vars
    PROVE  HostPaired'
<1>2. /\ WorkerTake => NextEdge = Head(queue) /\ NextEdge' = ~Head(queue)
      /\ ~WorkerTake => NextEdge' = NextEdge
  BY PipelineKept
<1>3. WorkerAlternates
  BY DEF Pipeline
<1>4. CASE WorkerTake
  <2>1. Head(queue) \in BOOLEAN
    BY <1>4, HeadTyped DEF Pipeline, EdgeTypes, WorkerTake
  <2>2. /\ worker = "get" /\ UNCHANGED <<openTapOk, host>>
        /\ worker' = IF Head(queue) THEN "press" ELSE "release"
    BY <1>4 DEF WorkerTake
  <2>3. host = (openTapOk /\ NextEdge = FALSE)
    BY <2>2 DEF HostPaired
  <2> QED
    BY <1>2, <1>4, <2>1, <2>2, <2>3 DEF HostPaired
<1>5. CASE WorkerOpens
  <2>1. /\ worker = "press" /\ worker' = "tellPress" /\ ~host
        /\ \/ openTapOk' = TRUE /\ host' = ~host
           \/ openTapOk' = FALSE /\ UNCHANGED host
    BY <1>5 DEF WorkerOpens, HostPaired
  <2>2. ~WorkerTake
    BY <2>1 DEF WorkerTake
  <2>3. NextEdge' = FALSE
    BY <1>2, <1>3, <2>1, <2>2 DEF WorkerAlternates
  <2> QED
    BY <2>1, <2>3 DEF HostPaired
<1>6. CASE WorkerCloses
  <2>1. /\ worker = "release" /\ worker' = "tellRelease" /\ host = openTapOk
        /\ UNCHANGED openTapOk
        /\ host' = IF openTapOk THEN ~host ELSE host
    BY <1>6 DEF WorkerCloses, TapsOnRelease, HostPaired
  <2>2. ~WorkerTake
    BY <2>1 DEF WorkerTake
  <2>3. NextEdge' = TRUE
    BY <1>2, <1>3, <2>1, <2>2 DEF WorkerAlternates
  <2>4. openTapOk \in BOOLEAN /\ host' = FALSE
    BY <2>1 DEF HostPaired
  <2> QED
    BY <2>1, <2>3, <2>4 DEF HostPaired
<1>7. CASE Drain
  <2>1. /\ phase = "draining" /\ openTapOk' = FALSE /\ UNCHANGED <<worker, host>>
        /\ ~(openTapOk /\ ClosingTapDue)
    BY <1>7 DEF Drain
  <2>2. Down = (handlers > 0)
    BY <2>1 DEF Pipeline, OneRelease, HookOn, Down
  <2>3. CASE worker \in {"press", "release"}
    BY <2>1, <2>3 DEF HostPaired, ClosingTapDue
  <2>4. CASE worker \notin {"press", "release"}
    <3>1. ClosingTapDue <=> IF queue = <<>> THEN handlers > 0 ELSE ~Head(queue)
      BY <2>4 DEF ClosingTapDue
    <3>2. CASE queue = <<>>
      <4>1. NextEdge = ~(handlers > 0)
        BY <2>2, <3>2 DEF NextEdge
      <4> QED
        BY <2>1, <2>4, <3>1, <3>2, <4>1 DEF HostPaired
    <3>3. CASE queue # <<>>
      <4>1. NextEdge = Head(queue)
        BY <3>3 DEF NextEdge, Pipeline, EdgeTypes
      <4> QED
        BY <2>1, <2>4, <3>1, <3>3, <4>1 DEF HostPaired
    <3> QED
      BY <3>2, <3>3
  <2> QED
    BY <2>3, <2>4
<1>8. CASE ~(WorkerTake \/ WorkerOpens \/ WorkerCloses \/ Drain)
  <2>1. /\ UNCHANGED <<openTapOk, host>>
        /\ \/ UNCHANGED worker
           \/ worker \notin {"press", "release"} /\ worker' \notin {"press", "release"}
    BY <1>8 DEF Next, Edges, PressButton, AutoRepeat, ReleaseButton, Fire, RunHandler, Worker,
       WorkerLoops, WorkerTells, Ble, LinkLost, EnterCallback,
       RunCallback, Input, Start, Connect, StartBegins, BleUp, StartDone, Abort, Pump,
       BeginCleanup, Stop, StopGuard, Shutdown, JoinWorker, StopBegins, LeaveBle,
       Release, vars, workerVars
  <2> QED
    BY <1>2, <1>8, <2>1 DEF HostPaired
<1> QED
  BY <1>4, <1>5, <1>6, <1>7, <1>8

-----------------------------------------------------------------------------
(* The coordinator's microphone edge.                                        *)

LEMMA MicKept ==
    ASSUME ~edgeLost', Safe, Pipeline, MicPaired, [Next]_vars
    PROVE  MicPaired'
<1>1. /\ WorkerTake => NextEdge = Head(queue) /\ NextEdge' = ~Head(queue)
      /\ ~WorkerTake => NextEdge' = NextEdge
  BY PipelineKept
<1>2. WorkerAlternates
  BY DEF Pipeline
<1>3. CASE WorkerTake
  <2>1. Head(queue) \in BOOLEAN
    BY <1>3, HeadTyped DEF Pipeline, EdgeTypes, WorkerTake
  <2>2. /\ worker = "get" /\ UNCHANGED <<state, mic, voice>>
        /\ worker' = IF Head(queue) THEN "press" ELSE "release"
    BY <1>3 DEF WorkerTake, coreVars, voiceVars
  <2>3. WorkerFree /\ ~WorkerFree'
    BY <2>2 DEF WorkerFree
  <2> QED
    BY <1>1, <1>3, <2>1, <2>2, <2>3 DEF MicPaired
<1>4. CASE WorkerTells
  <2>1. worker \in {"tellPress", "tellRelease"} /\ worker' = "top" /\ UNCHANGED state
    BY <1>4 DEF WorkerTells
  <2>2. ~WorkerTake /\ ~WorkerFree /\ WorkerFree'
    BY <2>1 DEF WorkerTake, WorkerFree
  <2>3. SUFFICES ASSUME state = "running"
                 PROVE  (voice' => mic') /\ (mic' => NextEdge = FALSE)
    BY <1>1, <2>1, <2>2, <2>3 DEF MicPaired
  <2>4. voice => mic
    BY <2>3 DEF MicPaired
  <2>5. HasService /\ mutex = "free"
    BY <2>3 DEF Safe, Stages, StageTypes, Locked, HasService, Phases
  <2>6. MicEdge(worker = "tellPress")
    BY <1>4, <2>3, <2>5 DEF WorkerTells, HandleMicEdge
  <2>7. CASE worker = "tellPress"
    <3>1. NextEdge = FALSE
      BY <1>2, <2>7 DEF WorkerAlternates
    <3>2. ~mic
      BY <2>3, <2>7 DEF MicPaired
    <3>3. mic' = TRUE
      BY <2>6, <2>7, <3>2 DEF MicEdge
    <3> QED
      BY <3>1, <3>3
  <2>8. CASE worker = "tellRelease"
    <3>1. ~mic' /\ ~voice'
      <4>1. CASE mic
        BY <2>6, <2>8, <4>1 DEF MicEdge, CloseVoice
      <4>2. CASE ~mic
        BY <2>4, <2>6, <2>8, <4>2 DEF MicEdge, CloseVoice, voiceVars
      <4> QED
        BY <4>1, <4>2
    <3> QED
      BY <3>1
  <2> QED
    BY <2>1, <2>7, <2>8
<1>5. CASE RunCallback
  <2>1. UNCHANGED worker /\ ~WorkerTake
    BY <1>5 DEF RunCallback, WorkerTake, workerVars, bleVars
  <2>2. CASE UNCHANGED <<state, mic, voice>>
    BY <1>1, <2>1, <2>2 DEF MicPaired, WorkerFree
  <2>3. CASE state' # "running"
    BY <2>3 DEF MicPaired
  <2> QED
    BY <1>5, <2>2, <2>3
    DEF RunCallback, AudioStart, AudioStop, OtherBytes, Disconnected, Ignored, voiceVars
<1>6. CASE Start \/ StopBegins \/ Release
  <2>1. CASE StartDone
    <3>1. ~mic /\ ~voice /\ UNCHANGED <<mic, voice>>
      BY <2>1 DEF StartDone, Safe, Stages, Locked, NothingHeld, voiceVars
    <3> QED
      BY <3>1 DEF MicPaired
  <2>2. CASE ~StartDone
    <3>1. state' # "running"
      BY <1>6, <2>2 DEF Start, Connect, StartBegins, BleUp, Abort, StartFailed, StopBegins,
         Release, Safe, Stages, Locked, StageTypes, Phases
    <3> QED
      BY <3>1 DEF MicPaired
  <2> QED
    BY <2>1, <2>2
<1>7. CASE ~(WorkerTake \/ WorkerTells \/ RunCallback \/ Start \/ StopBegins \/ Release)
  <2>1. /\ UNCHANGED <<state, mic, voice>>
        /\ worker' \in {"press", "tellPress"} => worker \in {"press", "tellPress"}
        /\ WorkerFree' => WorkerFree
    BY <1>7 DEF Next, Edges, PressButton, AutoRepeat, ReleaseButton, Fire, RunHandler, Worker,
       WorkerLoops, WorkerOpens, WorkerCloses, Ble, LinkLost, EnterCallback,
       Input, Pump, BeginCleanup, Stop, StopGuard, Shutdown, Drain, JoinWorker, LeaveBle,
       vars, workerVars, coreVars, voiceVars, WorkerFree
  <2> QED
    BY <1>1, <1>7, <2>1 DEF MicPaired
<1> QED
  BY <1>3, <1>4, <1>5, <1>6, <1>7

-----------------------------------------------------------------------------
(* The theorems about holds.                                                 *)

LEMMA HoldsInit == Init => Pipeline /\ HostPaired /\ MicPaired
<1> SUFFICES ASSUME Init PROVE Pipeline /\ HostPaired /\ MicPaired
  OBVIOUS
<1>1. EdgeTypes
  <2>1. /\ remote = FALSE /\ f5 = FALSE /\ pending = FALSE /\ timers = 0 /\ handlers = 0
        /\ worker = "off" /\ phase = "down"
    BY DEF Init
  <2>2. queue \in Seq(BOOLEAN)
    BY DEF Init
  <2> QED
    BY <2>1, <2>2 DEF EdgeTypes, WorkerSteps, Phases
<1>2. OneRelease
  BY DEF Init, OneRelease, NoReleasePending
<1>3. queue = <<>> /\ Len(queue) = 0 /\ worker = "off"
  BY DEF Init
<1>4. Alternates /\ WorkerAlternates
  BY <1>3 DEF Alternates, WorkerAlternates
<1>5. HostPaired /\ MicPaired
  BY DEF Init, HostPaired, MicPaired
<1> QED
  BY <1>1, <1>2, <1>4, <1>5 DEF Pipeline

LEMMA SettledUp == Pipeline /\ Settled /\ ~f5 => NextEdge = TRUE
BY DEF Pipeline, Settled, NoReleasePending, EdgeTypes, NextEdge, Down

\* What was lost stays on record.
LossTypes == edgeLost \in BOOLEAN /\ tapLost \in BOOLEAN
LEMMA LossesStay ==
    ASSUME LossTypes, [Next]_vars
    PROVE  LossTypes' /\ (edgeLost => edgeLost') /\ (tapLost => tapLost')
<1> USE DEF LossTypes
<1>1. CASE UNCHANGED losses
  BY <1>1 DEF losses
<1>2. CASE PressButton \/ AutoRepeat \/ RunHandler
  <2>1. UNCHANGED losses \/ Loses(TRUE) \/ Loses(FALSE)
    BY <1>2 DEF PressButton, AutoRepeat, OnKeyDown, RunHandler, Loses
  <2> QED
    BY <1>1, <2>1 DEF Loses
<1>3. CASE WorkerCloses
  BY <1>3 DEF WorkerCloses
<1>4. CASE StopGuard \/ Shutdown
  BY <1>4 DEF StopGuard, Shutdown
<1>5. CASE Drain
  BY <1>5 DEF Drain
<1>6. CASE ~(PressButton \/ AutoRepeat \/ RunHandler \/ WorkerCloses \/ StopGuard \/ Shutdown
             \/ Drain)
  <2>1. UNCHANGED losses
    BY <1>6 DEF Next, Edges, ReleaseButton, Fire, Worker, WorkerLoops, WorkerTake, WorkerOpens,
       WorkerTells, Ble, LinkLost, EnterCallback, RunCallback, Input, Start, Connect,
       StartBegins, BleUp, StartDone, Abort, Pump, BeginCleanup, Stop, JoinWorker, StopBegins,
       LeaveBle, Release, vars
  <2> QED
    BY <1>1, <2>1
<1> QED
  BY <1>2, <1>3, <1>4, <1>5, <1>6

\* Whatever fails, restarts or outlives its connection between a press and its
\* release: once both are dispatched, a running coordinator has no voice session,
\* unless an edge was lost (apply_physical_mic_edge, _run_voice_edge_worker).
THEOREM SessionsEndWithHolds == Spec => []MicFollowsHold
<1> DEFINE Inv == LossTypes /\ (edgeLost \/ (Pipeline /\ MicPaired))
<1>1. Init => Inv
  BY HoldsInit DEF Init, LossTypes
<1>2. Safe /\ Inv /\ [Next]_vars => Inv'
  <2> SUFFICES ASSUME Safe, Inv, [Next]_vars PROVE Inv'
    OBVIOUS
  <2>1. LossTypes' /\ (edgeLost => edgeLost')
    BY LossesStay
  <2>2. CASE ~edgeLost'
    BY <2>1, <2>2, PipelineKept, MicKept
  <2> QED
    BY <2>1, <2>2
<1>3. Inv => MicFollowsHold
  BY SettledUp DEF MicPaired, MicFollowsHold, Settled
<1> QED
  BY <1>1, <1>2, <1>3, CoordinatorSafe, PTL DEF Spec

\* The recognizer's two toggle taps stay paired over failed opening taps, lost
\* links, reconnects, deadlines that pass and workers that outlive their
\* connection, unless a hold has lost an edge or its closing tap
\* (_run_voice_edge_worker, _cleanup_once).
THEOREM TapsStayPaired == Spec => []HostFollowsHold
<1> DEFINE Inv == LossTypes /\ (edgeLost \/ (Pipeline /\ (tapLost \/ HostPaired)))
<1>1. Init => Inv
  BY HoldsInit DEF Init, LossTypes
<1>2. Inv /\ [Next]_vars => Inv'
  <2> SUFFICES ASSUME Inv, [Next]_vars PROVE Inv'
    OBVIOUS
  <2>1. LossTypes' /\ (edgeLost => edgeLost') /\ (tapLost => tapLost')
    BY LossesStay
  <2>2. CASE ~edgeLost' /\ tapLost'
    BY <2>1, <2>2, PipelineKept
  <2>3. CASE ~edgeLost' /\ ~tapLost'
    BY <2>1, <2>3, PipelineKept, HostKept
  <2> QED
    BY <2>1, <2>2, <2>3
<1>3. Inv => HostFollowsHold
  BY SettledUp DEF HostPaired, HostFollowsHold, Settled, WorkerFree
<1> QED
  BY <1>1, <1>2, <1>3, PTL DEF Spec
=============================================================================
