-------------------------- MODULE VoiceBridgeProofs --------------------------
(***************************************************************************)
(* Safety of VoiceBridge, for every value of its constants.                *)
(*                                                                         *)
(* Types come first, with one lemma per group of variables: the flags need *)
(* only the actions' definitions, the queue the bound tested by Enqueue,   *)
(* the budget that an operation only fails while the budget is not spent.  *)
(*                                                                         *)
(* The inductive invariant IInv ties the threads to the lifecycle (an edge *)
(* is only dispatched while the BLE session exists), says what each cleanup *)
(* step leaves for the next, that without the right-Alt transform the      *)
(* hook's flags stay clear, and, for a disciplined toggle preset, that the *)
(* ATVV announcement of the current hold still finds its latch set.        *)
(*                                                                         *)
(* On top of it come AltInv, about right-Alt, and Sides, about the edges   *)
(* of one hold on their two ways to the dispatch.                          *)
(*                                                                         *)
(* A worker that outlives the cleanup's two-second join dispatches its edge *)
(* at any time later, so these invariants hold until one does: Safe is      *)
(* outlived \/ IInv, and the lemmas about IInv are about the steps InTime.  *)
(***************************************************************************)
EXTENDS VoiceBridge, TLAPS

-----------------------------------------------------------------------------
(* Types.                                                                   *)

\* The button's and the tap's flags stay Boolean.
LEMMA EdgeFlagsKept == TypeOK /\ [Next]_vars => EdgeFlags'
<1> SUFFICES ASSUME TypeOK, [Next]_vars PROVE EdgeFlags'
  OBVIOUS
<1> USE DEF TypeOK, EdgeFlags, vars, envVars, hookVars, threadVars, latchVars,
            voiceVars, resourceVars, leaseVars, micVars, oldWorker, lifeVars
<1>1. CASE Environment
  BY <1>1 DEF Environment, PressButton, ReleaseButton, AutoRepeat, Report
<1>2. CASE HookThread
  BY <1>2 DEF HookThread, HookTransform, HookEmit, HookReport, LegacyKeyEvent, Duplicate,
     TransformDown, TransformUp, Enqueue, CanFail, Spend
<1>3. CASE WorkerThread
  BY <1>3 DEF WorkerThread, WorkerTake, WorkerPress, WorkerRelease,
     WorkerExit, NextWorker, StopIsSet, MicPress, MicRelease, OpenVoice, CloseVoice,
     Close, Apply, Sent, Delivered, Physical, CanFail, Spend
<1>4. CASE TapThread
  BY <1>4 DEF TapThread, TapReport, TapLost, TapPress, TapRelease, MicPress,
     MicRelease, OpenVoice, CloseVoice, Close, Apply, Sent, Delivered, Physical,
     CanFail, Spend
<1>5. CASE FinishOpening
  BY <1>5 DEF FinishOpening, OpenPlayback, OpenSink, Unresolved, NextWorker, StopIsSet,
     CanFail, Spend
<1>6. CASE BleThread
  BY <1>6 DEF BleThread, MicButtonEvent, AudioStartedEvent, AudioStoppedEvent, WriteFails,
     FrameLost, CloseSink, Disconnect, SendMicOpen, ControlArrives, OpensOnEvent,
     ConsumeLatch, TryPlayback, OpenPlayback, OpenSink, Unresolved, OpenVoice, CloseVoice,
     Close, Apply, Sent, Delivered, Physical, CanFail, Spend
<1>7. CASE Supervisor
  BY <1>7 DEF Supervisor, Connect, ConnectFails, StartListener, StartWorker,
     StopTap, StopEdges, JoinWorker, OutliveJoin, ResetVoice, StopHook, CloseBle,
     CloseAudio, NewPhase, Release, Close, Apply, Sent, Delivered, Physical, CanFail,
     Spend
<1>9. CASE LateThread
  BY <1>9 DEF LateThread, LatePress, LateRelease, LateTake, LateExit, NextWorker, StopIsSet,
     MicPress, MicRelease, OpenVoice, CloseVoice, GiveBack, Returned, LeftBorrowed,
     Close, Apply, Sent, Delivered, Physical, CanFail, Spend
<1>8. CASE Rest \/ UNCHANGED vars
  BY <1>8 DEF Rest
<1> QED
  BY <1>1, <1>2, <1>3, <1>4, <1>5, <1>6, <1>7, <1>8, <1>9 DEF Next

\* The flags the hook and the voice path share stay Boolean.
LEMMA HookFlagsKept == TypeOK /\ [Next]_vars => HookFlags'
<1> SUFFICES ASSUME TypeOK, [Next]_vars PROVE HookFlags'
  OBVIOUS
<1> USE DEF TypeOK, HookFlags, vars, envVars, hookVars, threadVars, latchVars,
            voiceVars, resourceVars, leaseVars, micVars, oldWorker, lifeVars
<1>1. CASE Environment
  BY <1>1 DEF Environment, PressButton, ReleaseButton, AutoRepeat, Report
<1>2. CASE HookThread
  BY <1>2 DEF HookThread, HookTransform, HookEmit, HookReport, LegacyKeyEvent, Duplicate,
     TransformDown, TransformUp, Enqueue, CanFail, Spend
<1>3. CASE WorkerThread
  BY <1>3 DEF WorkerThread, WorkerTake, WorkerPress, WorkerRelease,
     WorkerExit, NextWorker, StopIsSet, MicPress, MicRelease, OpenVoice, CloseVoice,
     Close, Apply, Sent, Delivered, Physical, CanFail, Spend
<1>4. CASE TapThread
  BY <1>4 DEF TapThread, TapReport, TapLost, TapPress, TapRelease, MicPress,
     MicRelease, OpenVoice, CloseVoice, Close, Apply, Sent, Delivered, Physical,
     CanFail, Spend
<1>5. CASE FinishOpening
  BY <1>5 DEF FinishOpening, OpenPlayback, OpenSink, Unresolved, NextWorker, StopIsSet,
     CanFail, Spend
<1>6. CASE BleThread
  BY <1>6 DEF BleThread, MicButtonEvent, AudioStartedEvent, AudioStoppedEvent, WriteFails,
     FrameLost, CloseSink, Disconnect, SendMicOpen, ControlArrives, OpensOnEvent,
     ConsumeLatch, TryPlayback, OpenPlayback, OpenSink, Unresolved, OpenVoice, CloseVoice,
     Close, Apply, Sent, Delivered, Physical, CanFail, Spend
<1>7. CASE Supervisor
  BY <1>7 DEF Supervisor, Connect, ConnectFails, StartListener, StartWorker,
     StopTap, StopEdges, JoinWorker, OutliveJoin, ResetVoice, StopHook, CloseBle,
     CloseAudio, NewPhase, Release, Close, Apply, Sent, Delivered, Physical, CanFail,
     Spend
<1>9. CASE LateThread
  BY <1>9 DEF LateThread, LatePress, LateRelease, LateTake, LateExit, NextWorker, StopIsSet,
     MicPress, MicRelease, OpenVoice, CloseVoice, GiveBack, Returned, LeftBorrowed,
     Close, Apply, Sent, Delivered, Physical, CanFail, Spend
<1>8. CASE Rest \/ UNCHANGED vars
  BY <1>8 DEF Rest
<1> QED
  BY <1>1, <1>2, <1>3, <1>4, <1>5, <1>6, <1>7, <1>8, <1>9 DEF Next

\* The pending latches, the controller and the host's view stay Boolean.
LEMMA VoiceFlagsKept == TypeOK /\ [Next]_vars => VoiceFlags'
<1> SUFFICES ASSUME TypeOK, [Next]_vars PROVE VoiceFlags'
  OBVIOUS
<1> USE DEF TypeOK, VoiceFlags, vars, envVars, hookVars, threadVars, latchVars,
            voiceVars, resourceVars, leaseVars, micVars, oldWorker, lifeVars
<1>1. CASE Environment
  BY <1>1 DEF Environment, PressButton, ReleaseButton, AutoRepeat, Report
<1>2. CASE HookThread
  BY <1>2 DEF HookThread, HookTransform, HookEmit, HookReport, LegacyKeyEvent, Duplicate,
     TransformDown, TransformUp, Enqueue, CanFail, Spend
<1>3. CASE WorkerThread
  BY <1>3 DEF WorkerThread, WorkerTake, WorkerPress, WorkerRelease,
     WorkerExit, NextWorker, StopIsSet, MicPress, MicRelease, OpenVoice, CloseVoice,
     Close, Apply, Sent, Delivered, Physical, CanFail, Spend
<1>4. CASE TapThread
  BY <1>4 DEF TapThread, TapReport, TapLost, TapPress, TapRelease, MicPress,
     MicRelease, OpenVoice, CloseVoice, Close, Apply, Sent, Delivered, Physical,
     CanFail, Spend
<1>5. CASE FinishOpening
  BY <1>5 DEF FinishOpening, OpenPlayback, OpenSink, Unresolved, NextWorker, StopIsSet,
     CanFail, Spend
<1>6. CASE BleThread
  <2>1. CASE MicButtonEvent
    BY <2>1 DEF MicButtonEvent, ControlArrives, ConsumeLatch, OpenVoice, Apply, Sent,
       Delivered, Physical, Spend, CanFail
  <2>2. CASE AudioStartedEvent
    BY <2>2 DEF AudioStartedEvent, ControlArrives, OpenVoice, Apply, Sent, Delivered,
       Physical, Spend, CanFail
  <2>3. CASE AudioStoppedEvent
    BY <2>3 DEF AudioStoppedEvent, ControlArrives, CloseVoice, Close, Apply, Sent,
       Delivered, Physical, Spend, CanFail
  <2>4. CASE WriteFails
    BY <2>4 DEF WriteFails
  <2>5. CASE Disconnect
    BY <2>5 DEF Disconnect
  <2>6. CASE SendMicOpen
    BY <2>6 DEF SendMicOpen
  <2> QED
    BY <1>6, <2>1, <2>2, <2>3, <2>4, <2>5, <2>6 DEF BleThread
<1>7. CASE Supervisor
  BY <1>7, ZenonT(40) DEF Supervisor, Connect, ConnectFails, StartListener, StartWorker,
     StopTap, StopEdges, JoinWorker, OutliveJoin, ResetVoice, StopHook, CloseBle,
     CloseAudio, NewPhase, Release, Close, Apply, Sent, Delivered, Physical, CanFail,
     Spend
<1>9. CASE LateThread
  BY <1>9 DEF LateThread, LatePress, LateRelease, LateTake, LateExit, NextWorker, StopIsSet,
     MicPress, MicRelease, OpenVoice, CloseVoice, GiveBack, Returned, LeftBorrowed,
     Close, Apply, Sent, Delivered, Physical, CanFail, Spend
<1>8. CASE Rest \/ UNCHANGED vars
  BY <1>8 DEF Rest
<1> QED
  BY <1>1, <1>2, <1>3, <1>4, <1>5, <1>6, <1>7, <1>8, <1>9 DEF Next

\* The owned resources and the supervisor's flags stay Boolean.
LEMMA OwnerFlagsKept == TypeOK /\ [Next]_vars => OwnerFlags'
<1> SUFFICES ASSUME TypeOK, [Next]_vars PROVE OwnerFlags'
  OBVIOUS
<1> USE DEF TypeOK, OwnerFlags, vars, envVars, hookVars, threadVars, latchVars,
            voiceVars, resourceVars, leaseVars, micVars, oldWorker, lifeVars
<1>1. CASE Environment
  BY <1>1 DEF Environment, PressButton, ReleaseButton, AutoRepeat, Report
<1>2. CASE HookThread
  BY <1>2 DEF HookThread, HookTransform, HookEmit, HookReport, LegacyKeyEvent, Duplicate,
     TransformDown, TransformUp, Enqueue, CanFail, Spend
<1>3. CASE WorkerThread
  <2>1. CASE WorkerTake
    BY <2>1 DEF WorkerTake
  <2>2. CASE WorkerPress
    BY <2>2 DEF WorkerPress, MicPress
  <2>3. CASE WorkerRelease
    BY <2>3 DEF WorkerRelease, MicRelease, CloseVoice, GiveBack, Returned, LeftBorrowed
  <2>4. CASE WorkerExit
    BY <2>4 DEF WorkerExit
  <2> QED
    BY <1>3, <2>1, <2>2, <2>3, <2>4 DEF WorkerThread
<1>4. CASE TapThread
  <2>1. CASE TapReport
    BY <2>1 DEF TapReport
  <2>2. CASE TapLost
    BY <2>2 DEF TapLost
  <2>3. CASE TapPress
    BY <2>3 DEF TapPress, MicPress
  <2>4. CASE TapRelease
    BY <2>4 DEF TapRelease, MicRelease, CloseVoice, GiveBack, Returned, LeftBorrowed
  <2> QED
    BY <1>4, <2>1, <2>2, <2>3, <2>4 DEF TapThread
<1>5. CASE FinishOpening
  BY <1>5 DEF FinishOpening, Acquire, Returned, LeftBorrowed, PostMicOpen, OpenPlayback,
     OpenSink, Unresolved, NextWorker, StopIsSet, CanFail, Spend
<1>6. CASE BleThread
  <2>1. CASE MicButtonEvent
    BY <2>1 DEF MicButtonEvent, ControlArrives, TryPlayback, OpenPlayback, OpenSink, Unresolved
  <2>2. CASE AudioStartedEvent
    BY <2>2 DEF AudioStartedEvent, ControlArrives, TryPlayback, OpenPlayback, OpenSink,
       Unresolved
  <2>3. CASE AudioStoppedEvent
    BY <2>3 DEF AudioStoppedEvent, ControlArrives, CloseVoice, GiveBack, Returned, LeftBorrowed,
       Close
  <2>4. CASE WriteFails
    BY <2>4 DEF WriteFails, FrameLost, CloseSink
  <2>5. CASE Disconnect
    BY <2>5 DEF Disconnect
  <2>6. CASE SendMicOpen
    BY <2>6 DEF SendMicOpen
  <2> QED
    BY <1>6, <2>1, <2>2, <2>3, <2>4, <2>5, <2>6 DEF BleThread
<1>7. CASE Supervisor
  <2>1. CASE Connect
    BY <2>1 DEF Connect
  <2>2. CASE ConnectFails
    BY <2>2 DEF ConnectFails
  <2>3. CASE StartListener
    BY <2>3 DEF StartListener
  <2>4. CASE StartWorker
    BY <2>4 DEF StartWorker
  <2>5. CASE StopTap
    BY <2>5 DEF StopTap
  <2>6. CASE StopEdges
    BY <2>6 DEF StopEdges
  <2>7. CASE JoinWorker
    BY <2>7 DEF JoinWorker
  <2>8. CASE ResetVoice
    BY <2>8 DEF ResetVoice, Close
  <2>9. CASE StopHook
    BY <2>9 DEF StopHook
  <2>10. CASE CloseBle
    BY <2>10 DEF CloseBle, Release
  <2>11. CASE CloseAudio
    BY <2>11 DEF CloseAudio, Release, GiveBack, Returned, LeftBorrowed
  <2> QED
    BY <1>7, <2>1, <2>2, <2>3, <2>4, <2>5, <2>6, <2>7, <2>8, <2>9, <2>10,
       <2>11 DEF Supervisor
<1>9. CASE LateThread
  <2>1. CASE LateTake
    BY <2>1 DEF LateTake
  <2>2. CASE LatePress
    BY <2>2 DEF LatePress, MicPress
  <2>3. CASE LateRelease
    BY <2>3 DEF LateRelease, MicRelease, CloseVoice, GiveBack, Returned, LeftBorrowed
  <2>4. CASE LateExit
    BY <2>4 DEF LateExit
  <2> QED
    BY <1>9, <2>1, <2>2, <2>3, <2>4 DEF LateThread
<1>8. CASE Rest \/ UNCHANGED vars
  BY <1>8 DEF Rest
<1> QED
  BY <1>1, <1>2, <1>3, <1>4, <1>5, <1>6, <1>7, <1>8, <1>9 DEF Next

-----------------------------------------------------------------------------
(* Threads and their steps.                                                 *)

\* Every thread stays within its steps and the lifecycle within its phases.
LEMMA ThreadTypesKept == TypeOK /\ [Next]_vars => ThreadTypes'
<1> SUFFICES ASSUME TypeOK, [Next]_vars PROVE ThreadTypes'
  OBVIOUS
<1> USE DEF TypeOK, ThreadTypes, HookSteps, WorkerSteps, Openers, Lifecycle, vars, envVars,
            hookVars, threadVars, latchVars, voiceVars, resourceVars, leaseVars, micVars, oldWorker,
            lifeVars
<1>1. CASE Environment
  BY <1>1 DEF Environment, PressButton, ReleaseButton, AutoRepeat
<1>2. CASE HookThread
  BY <1>2 DEF HookThread, HookTransform, HookEmit, HookReport, LegacyKeyEvent, Duplicate,
     TransformDown, TransformUp
<1>3. CASE WorkerThread
  <2>1. CASE WorkerTake
    BY <2>1 DEF WorkerTake
  <2>2. CASE WorkerPress
      <3>1. opening' \in Openers
        BY <2>2 DEF WorkerPress, MicPress, OpenVoice
      <3>2. worker' \in WorkerSteps
        BY <2>2 DEF WorkerPress, NextWorker
      <3>3. UNCHANGED <<hook, phase, late, tap>>
        BY <2>2 DEF WorkerPress, MicPress
      <3> QED
        BY <3>1, <3>2, <3>3
  <2>3. CASE WorkerRelease
    BY <2>3 DEF WorkerRelease, MicRelease, NextWorker, StopIsSet
  <2>4. CASE WorkerExit
    BY <2>4 DEF WorkerExit
  <2> QED
    BY <1>3, <2>1, <2>2, <2>3, <2>4 DEF WorkerThread
<1>4. CASE TapThread
  <2>1. CASE TapReport
    BY <2>1 DEF TapReport
  <2>2. CASE TapLost
    BY <2>2 DEF TapLost
  <2>3. CASE TapPress
      <3>1. opening' \in Openers /\ tap' \in {"idle", "press", "release"}
        BY <2>3 DEF TapPress, MicPress, OpenVoice
      <3>2. UNCHANGED <<hook, phase, worker, late>>
        BY <2>3 DEF TapPress, MicPress
      <3> QED
        BY <3>1, <3>2
  <2>4. CASE TapRelease
    BY <2>4 DEF TapRelease, MicRelease
  <2> QED
    BY <1>4, <2>1, <2>2, <2>3, <2>4 DEF TapThread
<1>5. CASE FinishOpening
  BY <1>5 DEF FinishOpening, OpenPlayback, OpenSink, Unresolved, NextWorker, StopIsSet
<1>6. CASE BleThread
  <2>1. CASE MicButtonEvent
      <3>1. opening' = opening \/ opening' \in {"control", "none"}
        BY <2>1 DEF MicButtonEvent, OpenVoice
      <3>2. UNCHANGED <<hook, phase, worker, late, tap>>
        BY <2>1 DEF MicButtonEvent, ControlArrives
      <3> QED
        BY <3>1, <3>2
  <2>2. CASE AudioStartedEvent
      <3>1. opening' = opening \/ opening' \in {"audio", "none"}
        BY <2>2 DEF AudioStartedEvent, OpenVoice
      <3>2. UNCHANGED <<hook, phase, worker, late, tap>>
        BY <2>2 DEF AudioStartedEvent, ControlArrives
      <3> QED
        BY <3>1, <3>2
  <2>3. CASE AudioStoppedEvent
    BY <2>3 DEF AudioStoppedEvent, CloseVoice, ControlArrives
  <2>4. CASE WriteFails
    BY <2>4 DEF WriteFails, FrameLost, CloseSink
  <2>5. CASE Disconnect
    BY <2>5 DEF Disconnect
  <2>6. CASE SendMicOpen
    BY <2>6 DEF SendMicOpen
  <2> QED
    BY <1>6, <2>1, <2>2, <2>3, <2>4, <2>5, <2>6 DEF BleThread
<1>7. CASE Supervisor
  <2>1. CASE Connect
    BY <2>1 DEF Connect, NewPhase
  <2>2. CASE ConnectFails
    BY <2>2 DEF ConnectFails, NewPhase
  <2>3. CASE StartListener
    BY <2>3 DEF StartListener, NewPhase
  <2>4. CASE StartWorker
    BY <2>4 DEF StartWorker, NewPhase
  <2>5. CASE StopTap
    BY <2>5 DEF StopTap, NewPhase
  <2>6. CASE StopEdges
    BY <2>6 DEF StopEdges, NewPhase
  <2>7. CASE JoinWorker
    BY <2>7 DEF JoinWorker, OutliveJoin, NewPhase
  <2>8. CASE ResetVoice
    BY <2>8 DEF ResetVoice, NewPhase
  <2>9. CASE StopHook
    BY <2>9 DEF StopHook, NewPhase
  <2>10. CASE CloseBle
    BY <2>10 DEF CloseBle, NewPhase
  <2>11. CASE CloseAudio
    BY <2>11 DEF CloseAudio
  <2> QED
    BY <1>7, <2>1, <2>2, <2>3, <2>4, <2>5, <2>6, <2>7, <2>8, <2>9, <2>10,
       <2>11 DEF Supervisor
<1>9. CASE LateThread
  <2>1. CASE LatePress
      <3>1. opening' \in Openers
        BY <2>1 DEF LatePress, MicPress, OpenVoice
      <3>2. late' \in WorkerSteps
        BY <2>1 DEF LatePress, NextWorker
      <3>3. UNCHANGED <<hook, phase, worker, tap>>
        BY <2>1 DEF LatePress, MicPress
      <3> QED
        BY <3>1, <3>2, <3>3
  <2>2. CASE LateRelease
    BY <2>2 DEF LateRelease, MicRelease, NextWorker
  <2>3. CASE LateTake
    BY <2>3 DEF LateTake
  <2>4. CASE LateExit
    BY <2>4 DEF LateExit
  <2> QED
    BY <1>9, <2>1, <2>2, <2>3, <2>4 DEF LateThread
<1>8. CASE Rest \/ UNCHANGED vars
  BY <1>8 DEF Rest
<1> QED
  BY <1>1, <1>2, <1>3, <1>4, <1>5, <1>6, <1>7, <1>8, <1>9 DEF Next

-----------------------------------------------------------------------------
(* The queues.                                                              *)

\* _enqueue of an edge keeps the queue within its maximal size.
LEMMA EnqueueTypes ==
    ASSUME QueueTypes, NEW press \in BOOLEAN, NEW handled \in BOOLEAN, Enqueue(press, handled)
    PROVE  queue' \in Seq(Edge) /\ Len(queue') <= QueueMax
<1> DEFINE edge == [press |-> press, handled |-> handled]
<1>1. edge \in Edge
  BY DEF Edge
<1>2. (Len(queue) < QueueMax /\ queue' = Append(queue, edge)) \/ queue' = queue
  BY DEF Enqueue
<1> HIDE DEF edge
<1>3. QueueMax \in Nat /\ queue \in Seq(Edge) /\ Len(queue) <= QueueMax
  BY BoundsAssumption DEF QueueTypes
<1>4. CASE Len(queue) < QueueMax /\ queue' = Append(queue, edge)
  BY <1>1, <1>3, <1>4
<1>5. CASE queue' = queue
  BY <1>3, <1>5
<1> QED
  BY <1>2, <1>4, <1>5

\* The hook's report appends at most one edge.
LEMMA HookReportQueue ==
    ASSUME TypeOK, HookReport
    PROVE  QueueTypes'
<1>1. toHook' = toHook /\ toTap' = toTap
  BY DEF HookReport, LegacyKeyEvent, envVars
<1>2. CASE Duplicate(hook = "reportDown")
  <2>1. queue' = queue
    BY <1>2, Zenon DEF HookReport, LegacyKeyEvent
  <2> QED
    BY <1>1, <2>1 DEF TypeOK, QueueTypes
<1>3. CASE ~(Duplicate(hook = "reportDown"))
  <2>1. session' \in BOOLEAN /\ Enqueue(hook = "reportDown", session')
    BY <1>3, Zenon DEF HookReport, LegacyKeyEvent, TypeOK, HookFlags
  <2>2. queue' \in Seq(Edge) /\ Len(queue') <= QueueMax
    BY <2>1, EnqueueTypes, Zenon DEF TypeOK
  <2> QED
    BY <1>1, <2>2 DEF TypeOK, QueueTypes
<1> QED
  BY <1>2, <1>3

\* Hardware edges and queued edges stay well formed, and bounded in the queue.
LEMMA QueueTypesKept == TypeOK /\ [Next]_vars => QueueTypes'
<1> SUFFICES ASSUME TypeOK, [Next]_vars PROVE QueueTypes'
  OBVIOUS
<1> USE DEF TypeOK, QueueTypes, Motion, Edge, vars, envVars, hookVars, threadVars,
            latchVars, voiceVars, resourceVars, leaseVars, micVars, oldWorker, lifeVars
<1>1. CASE Environment
  <2>1. CASE PressButton
    BY <2>1 DEF PressButton, Report
  <2>2. CASE ReleaseButton
    BY <2>2 DEF ReleaseButton, Report
  <2>3. CASE AutoRepeat
    BY <2>3 DEF AutoRepeat
  <2> QED
    BY <1>1, <2>1, <2>2, <2>3 DEF Environment
<1>2. CASE HookThread
  <2>1. CASE HookTransform
    BY <2>1 DEF HookTransform
  <2>2. CASE HookEmit
    BY <2>2 DEF HookEmit
  <2>3. CASE HookReport
    BY <2>3, HookReportQueue
  <2> QED
    BY <1>2, <2>1, <2>2, <2>3 DEF HookThread
<1>3. CASE WorkerThread
  <2>1. CASE WorkerTake
      <3>1. queue \in Seq(Edge) /\ queue # <<>> /\ Len(queue) <= QueueMax
        BY <2>1 DEF WorkerTake
      <3>2. Tail(queue) \in Seq(Edge) /\ Len(Tail(queue)) <= QueueMax
        BY <3>1, BoundsAssumption
      <3> QED
        BY <2>1, <3>2 DEF WorkerTake
  <2>2. CASE WorkerPress
    BY <2>2 DEF WorkerPress
  <2>3. CASE WorkerRelease
    BY <2>3 DEF WorkerRelease
  <2>4. CASE WorkerExit
    BY <2>4 DEF WorkerExit
  <2> QED
    BY <1>3, <2>1, <2>2, <2>3, <2>4 DEF WorkerThread
<1>4. CASE TapThread
  <2>1. CASE TapReport
    BY <2>1 DEF TapReport
  <2>2. CASE TapLost
    BY <2>2 DEF TapLost
  <2>3. CASE TapPress
    BY <2>3 DEF TapPress
  <2>4. CASE TapRelease
    BY <2>4 DEF TapRelease
  <2> QED
    BY <1>4, <2>1, <2>2, <2>3, <2>4 DEF TapThread
<1>5. CASE FinishOpening
  BY <1>5 DEF FinishOpening, OpenPlayback, OpenSink, Unresolved
<1>6. CASE BleThread
  BY <1>6 DEF BleThread, MicButtonEvent, AudioStartedEvent, AudioStoppedEvent,
     WriteFails, FrameLost, CloseSink, Disconnect, SendMicOpen, ControlArrives
<1>7. CASE Supervisor
  <2>1. CASE Connect
    BY <2>1 DEF Connect, NewPhase
  <2>2. CASE ConnectFails
    BY <2>2 DEF ConnectFails, NewPhase
  <2>3. CASE StartListener
    BY <2>3 DEF StartListener, NewPhase
  <2>4. CASE StartWorker
    BY <2>4 DEF StartWorker, NewPhase
  <2>5. CASE StopTap
    BY <2>5 DEF StopTap, NewPhase
  <2>6. CASE StopEdges
    BY <2>6 DEF StopEdges, NewPhase
  <2>7. CASE JoinWorker
    BY <2>7, BoundsAssumption DEF JoinWorker, OutliveJoin, NewPhase
  <2>8. CASE ResetVoice
    BY <2>8 DEF ResetVoice, NewPhase
  <2>9. CASE StopHook
    BY <2>9 DEF StopHook, NewPhase
  <2>10. CASE CloseBle
    BY <2>10 DEF CloseBle, NewPhase
  <2>11. CASE CloseAudio
    BY <2>11 DEF CloseAudio
  <2> QED
    BY <1>7, <2>1, <2>2, <2>3, <2>4, <2>5, <2>6, <2>7, <2>8, <2>9, <2>10,
       <2>11 DEF Supervisor
<1>9. CASE LateThread
  <2>1. CASE LatePress
    BY <2>1 DEF LatePress
  <2>2. CASE LateRelease
    BY <2>2 DEF LateRelease
  <2>3. CASE LateTake
      <3>1. queue \in Seq(Edge) /\ queue # <<>> /\ Len(queue) <= QueueMax
        BY <2>3 DEF LateTake
      <3>2. Tail(queue) \in Seq(Edge) /\ Len(Tail(queue)) <= QueueMax
        BY <3>1, BoundsAssumption
      <3> QED
        BY <2>3, <3>2 DEF LateTake
  <2>4. CASE LateExit
    BY <2>4 DEF LateExit
  <2> QED
    BY <1>9, <2>1, <2>2, <2>3, <2>4 DEF LateThread
<1>8. CASE Rest \/ UNCHANGED vars
  BY <1>8 DEF Rest
<1> QED
  BY <1>1, <1>2, <1>3, <1>4, <1>5, <1>6, <1>7, <1>8, <1>9 DEF Next

-----------------------------------------------------------------------------
(* The bounds.                                                              *)

\* A voice action fails only while the failure budget is not spent.
LEMMA ApplyBudget ==
    ASSUME BudgetTypes, NEW engage \in BOOLEAN, NEW ok \in BOOLEAN, Apply(engage, ok)
    PROVE  faults' \in 0..MaxFaults
<1>1. CASE ok
  BY <1>1, Zenon DEF BudgetTypes, Apply, Spend
<1>2. CASE ~ok
  <2>1. faults > 0
    BY <1>2 DEF Apply, Sent, CanFail
  <2>2. faults' = faults - 1
    BY <1>2 DEF Apply, Spend
  <2> QED
    BY <2>1, <2>2, BoundsAssumption DEF BudgetTypes
<1> QED
  BY <1>1, <1>2

\* So does the opening half of a session ...
LEMMA OpenBudget ==
    ASSUME BudgetTypes, NEW handled \in BOOLEAN, NEW who, OpenVoice(handled, who)
    PROVE  faults' \in 0..MaxFaults
  BY ApplyBudget, Zenon DEF OpenVoice, BudgetTypes

\* ... and its closing half,
LEMMA CloseBudget ==
    ASSUME TypeOK, Close
    PROVE  faults' \in 0..MaxFaults
<1>1. CASE ~active
  BY <1>1 DEF Close, TypeOK, BudgetTypes
<1>2. CASE active
  <2>1. PICK kept \in BOOLEAN : active' = kept /\ Apply(FALSE, ~kept)
    BY <1>2 DEF Close
  <2> QED
    BY <2>1, ApplyBudget DEF TypeOK
<1> QED
  BY <1>1, <1>2

\* hence a dispatched press
LEMMA MicPressBudget ==
    ASSUME TypeOK, NEW handled \in BOOLEAN, NEW who, MicPress(handled, who)
    PROVE  faults' \in 0..MaxFaults
  BY OpenBudget, Zenon DEF MicPress, TypeOK, BudgetTypes

\* and a dispatched release.
LEMMA MicReleaseBudget ==
    ASSUME TypeOK, MicRelease
    PROVE  faults' \in 0..MaxFaults
  BY CloseBudget, Zenon DEF MicRelease, CloseVoice, TypeOK, BudgetTypes


\* The three bounds are never overdrawn.
LEMMA BudgetTypesKept == TypeOK /\ [Next]_vars => BudgetTypes'
<1> SUFFICES ASSUME TypeOK, [Next]_vars PROVE BudgetTypes'
  OBVIOUS
<1> USE DEF TypeOK, BudgetTypes, vars, envVars, hookVars, threadVars, latchVars,
            voiceVars, resourceVars, leaseVars, micVars, oldWorker, lifeVars
<1>1. CASE Environment
  BY <1>1, BoundsAssumption DEF Environment, PressButton, ReleaseButton,
     AutoRepeat
<1>2. CASE HookThread
  <2>1. CASE HookTransform
    BY <2>1 DEF HookTransform
  <2>2. CASE HookEmit
    BY <2>2, BoundsAssumption DEF HookEmit, CanFail, Spend
  <2>3. CASE HookReport
    BY <2>3 DEF HookReport, LegacyKeyEvent
  <2> QED
    BY <1>2, <2>1, <2>2, <2>3 DEF HookThread
<1>3. CASE WorkerThread
  <2>1. CASE WorkerTake
    BY <2>1 DEF WorkerTake
  <2>2. CASE WorkerPress
    BY <2>2, MicPressBudget DEF WorkerPress
  <2>3. CASE WorkerRelease
    BY <2>3, MicReleaseBudget DEF WorkerRelease
  <2>4. CASE WorkerExit
    BY <2>4 DEF WorkerExit
  <2> QED
    BY <1>3, <2>1, <2>2, <2>3, <2>4 DEF WorkerThread
<1>4. CASE TapThread
  <2>1. CASE TapReport
    BY <2>1 DEF TapReport
  <2>2. CASE TapLost
    BY <2>2, BoundsAssumption DEF TapLost, CanFail, Spend
  <2>3. CASE TapPress
    BY <2>3, MicPressBudget DEF TapPress
  <2>4. CASE TapRelease
    BY <2>4, MicReleaseBudget DEF TapRelease
  <2> QED
    BY <1>4, <2>1, <2>2, <2>3, <2>4 DEF TapThread
<1>5. CASE FinishOpening
  BY <1>5, BoundsAssumption DEF FinishOpening, Acquire, OpenPlayback, OpenSink, Unresolved,
     CanFail, Spend
<1>6. CASE BleThread
  <2>1. CASE MicButtonEvent
      <3>1. presses' = presses /\ controls' \in 0..MaxControls
        BY <2>1, BoundsAssumption DEF MicButtonEvent, ControlArrives
      <3>2. CASE OpenVoice(FALSE, "control")
        BY <3>1, <3>2, OpenBudget
      <3>3. CASE ~OpenVoice(FALSE, "control")
        <4>1. faults' = faults \/ (faults > 0 /\ faults' = faults - 1)
          BY <2>1, <3>3 DEF MicButtonEvent, TryPlayback, OpenPlayback, OpenSink, Unresolved,
             CanFail, Spend
        <4> QED
          BY <3>1, <4>1, BoundsAssumption
      <3> QED
        BY <3>2, <3>3
  <2>2. CASE AudioStartedEvent
      <3>1. presses' = presses /\ controls' \in 0..MaxControls
        BY <2>2, BoundsAssumption DEF AudioStartedEvent, ControlArrives
      <3>2. CASE OpenVoice(FALSE, "audio")
        BY <3>1, <3>2, OpenBudget
      <3>3. CASE ~OpenVoice(FALSE, "audio")
        <4>1. faults' = faults \/ (faults > 0 /\ faults' = faults - 1)
          BY <2>2, <3>3 DEF AudioStartedEvent, TryPlayback, OpenPlayback, OpenSink,
             Unresolved, CanFail, Spend
        <4> QED
          BY <3>1, <4>1, BoundsAssumption
      <3> QED
        BY <3>2, <3>3
  <2>3. CASE AudioStoppedEvent
    BY <2>3, CloseBudget, BoundsAssumption DEF AudioStoppedEvent, CloseVoice,
       ControlArrives
  <2>4. CASE WriteFails
    BY <2>4, BoundsAssumption DEF WriteFails, FrameLost, CloseSink, CanFail, Spend
  <2>5. CASE Disconnect
    BY <2>5, BoundsAssumption DEF Disconnect, CanFail, Spend
  <2>6. CASE SendMicOpen
    BY <2>6, BoundsAssumption DEF SendMicOpen, CanFail, Spend
  <2> QED
    BY <1>6, <2>1, <2>2, <2>3, <2>4, <2>5, <2>6 DEF BleThread
<1>7. CASE Supervisor
  <2>1. CASE Connect
    BY <2>1 DEF Connect, NewPhase
  <2>2. CASE ConnectFails
    BY <2>2, BoundsAssumption DEF ConnectFails, NewPhase, CanFail, Spend
  <2>3. CASE StartListener
    BY <2>3 DEF StartListener, NewPhase
  <2>4. CASE StartWorker
    BY <2>4 DEF StartWorker, NewPhase
  <2>5. CASE StopTap
    BY <2>5 DEF StopTap, NewPhase
  <2>6. CASE StopEdges
    BY <2>6 DEF StopEdges, NewPhase
  <2>7. CASE JoinWorker
    BY <2>7, BoundsAssumption DEF JoinWorker, OutliveJoin, NewPhase, CanFail, Spend
  <2>8. CASE ResetVoice
    BY <2>8, CloseBudget DEF ResetVoice, NewPhase
  <2>9. CASE StopHook
    BY <2>9 DEF StopHook, NewPhase
  <2>10. CASE CloseBle
    BY <2>10, BoundsAssumption DEF CloseBle, NewPhase, Release, CanFail, Spend
  <2>11. CASE CloseAudio
    BY <2>11, BoundsAssumption DEF CloseAudio, Release, CanFail, Spend
  <2> QED
    BY <1>7, <2>1, <2>2, <2>3, <2>4, <2>5, <2>6, <2>7, <2>8, <2>9, <2>10,
       <2>11 DEF Supervisor
<1>9. CASE LateThread
  <2>1. CASE LatePress
    BY <2>1, MicPressBudget DEF LatePress
  <2>2. CASE LateRelease
    BY <2>2, MicReleaseBudget DEF LateRelease
  <2>3. CASE LateTake
    BY <2>3 DEF LateTake
  <2>4. CASE LateExit
    BY <2>4 DEF LateExit
  <2> QED
    BY <1>9, <2>1, <2>2, <2>3, <2>4 DEF LateThread
<1>8. CASE Rest \/ UNCHANGED vars
  BY <1>8 DEF Rest
<1> QED
  BY <1>1, <1>2, <1>3, <1>4, <1>5, <1>6, <1>7, <1>8, <1>9 DEF Next

-----------------------------------------------------------------------------

\* One step of the bridge keeps the types.
LEMMA TypeStep == TypeOK /\ [Next]_vars => TypeOK'
<1> SUFFICES ASSUME TypeOK, [Next]_vars PROVE TypeOK'
  OBVIOUS
<1>1. EdgeFlags' /\ HookFlags'
  BY EdgeFlagsKept, HookFlagsKept
<1>2. VoiceFlags' /\ OwnerFlags'
  BY VoiceFlagsKept, OwnerFlagsKept
<1>3. ThreadTypes' /\ QueueTypes' /\ BudgetTypes'
  BY ThreadTypesKept, QueueTypesKept, BudgetTypesKept
<1> QED
  BY <1>1, <1>2, <1>3 DEF TypeOK

\* The bridge starts well typed.
LEMMA TypeInit == Init => TypeOK
<1> SUFFICES ASSUME Init PROVE TypeOK
  OBVIOUS
<1>1. EdgeFlags /\ HookFlags
  BY DEF Init, EdgeFlags, HookFlags
<1>2. VoiceFlags
  BY DEF Init, VoiceFlags
<1>3. OwnerFlags
  BY DEF Init, OwnerFlags
<1>4. ThreadTypes
  BY DEF Init, ThreadTypes, HookSteps, WorkerSteps, Openers, Lifecycle
<1>5. QueueTypes /\ BudgetTypes
  BY BoundsAssumption DEF Init, QueueTypes, BudgetTypes
<1> QED
  BY <1>1, <1>2, <1>3, <1>4, <1>5 DEF TypeOK

\* Every variable keeps its type, the edge queue never exceeds its maximal
\* size (put_nowait on a bounded queue, app.py) and the threads stay within
\* their steps, whatever the preset, the faults and the bounds.
THEOREM TypeCorrect == Spec => []TypeOK
<1>1. Init => TypeOK
  BY TypeInit
<1>2. TypeOK /\ [Next]_vars => TypeOK'
  BY TypeStep
<1> QED
  BY <1>1, <1>2, PTL DEF Spec

-----------------------------------------------------------------------------
(* The inductive invariant.                                                 *)

\* The phases after the cleanup's reset, up to the next listener.
AfterResetPhases == {"reset", "unhooked", "closed", "down", "ble"}

\* No worker has outlived its join so far ...
NoLate == late = "off" /\ ~outlived /\ opening # "late"

\* ... and this step is not the first to be outlived.
InTime == ~LateThread /\ ~OutliveJoin

\* The worker and the tap only hold an edge while the session exists.
ThreadLife ==
    /\ worker # "off" => phase \in {"up", "untapping", "stopping"}
    /\ tap # "idle" => phase \in {"hooked", "up", "untapping"}
    /\ tapHeld => phase \in {"hooked", "up"}

\* A thread inside the second half of an opening keeps the session open and
\* the cleanup's reset out.
OpeningLocked ==
    opening # "none" => active /\ phase \notin AfterResetPhases \cup {"dead"}

\* The reset leaves no hold, and no session unless its closing action failed.
AfterReset ==
    /\ failed => phase \in {"reset", "unhooked", "closed", "dead"}
    /\ phase \in AfterResetPhases => ~physDown /\ (active => failed)
    /\ phase = "dead" => ~physDown

\* What the last steps release stays released until the next attempt.
OwnersReleased ==
    /\ phase \in {"closed", "down"} => ~micPosted /\ (micOpen => failed)
    /\ phase = "down" => ~playback /\ (lease => unreturned)

\* Only the transform preset touches right-Alt.
NoTransform ==
    Preset # "transform" =>
        /\ ~keyDown /\ ~session /\ ~emitted
        /\ hook \notin {"emitDown", "emitUp"}
        /\ worker # "handledPress"
        /\ \A i \in 1..Len(queue) : ~queue[i].handled

\* A disciplined toggle session is a physical hold whose announcement, as long
\* as it is outstanding, will be consumed by the pending latch.
Latched ==
    Disciplined /\ Preset = "toggle" =>
        /\ active = physDown
        /\ rawPending => active
        /\ active /\ ~announced => rawPending

IInv ==
    /\ TypeOK /\ NoLate /\ ThreadLife /\ OpeningLocked /\ AfterReset /\ OwnersReleased
    /\ OwedSessionReconnects /\ NoTransform /\ Latched /\ HostMatchesController

-----------------------------------------------------------------------------
(* A worker in time.                                                        *)

\* Until a worker is outlived, no step is one of an outlived worker.
LEMMA StillInTime == IInv /\ [Next]_vars /\ ~outlived' => InTime
  BY DEF InTime, IInv, NoLate, OutliveJoin, LateThread, LatePress, LateRelease, LateTake,
     LateExit

\* Steps in time leave it so.
LEMMA NoLateKept == IInv /\ InTime /\ [Next]_vars => NoLate'
<1> SUFFICES ASSUME IInv, [Next]_vars, ~LateThread, ~OutliveJoin PROVE NoLate'
  BY DEF InTime
<1> USE DEF vars, envVars, hookVars, threadVars, latchVars, voiceVars,
            resourceVars, leaseVars, micVars, oldWorker, lifeVars
<1>0. late = "off" /\ ~outlived /\ opening # "late"
  BY DEF IInv, NoLate
<1>1. CASE Environment
  <2>1. UNCHANGED oldWorker
    BY <1>1 DEF Environment, PressButton, ReleaseButton, AutoRepeat
  <2>2. opening' # "late"
    BY <1>0, <1>1 DEF Environment, PressButton, ReleaseButton, AutoRepeat
  <2> QED
    BY <1>0, <2>1, <2>2 DEF NoLate
<1>2. CASE HookThread
  <2>1. UNCHANGED oldWorker
    BY <1>2 DEF HookThread, HookTransform, HookEmit, HookReport
  <2>2. opening' # "late"
    BY <1>0, <1>2 DEF HookThread, HookTransform, HookEmit, HookReport
  <2> QED
    BY <1>0, <2>1, <2>2 DEF NoLate
<1>3. CASE WorkerThread
  <2>1. UNCHANGED oldWorker
    BY <1>3 DEF WorkerThread, WorkerTake, WorkerPress, WorkerRelease, WorkerExit
  <2>2. opening' # "late"
    BY <1>0, <1>3 DEF WorkerThread, WorkerTake, WorkerPress, WorkerRelease, WorkerExit,
       MicPress, MicRelease, OpenVoice
  <2> QED
    BY <1>0, <2>1, <2>2 DEF NoLate
<1>4. CASE TapThread
  <2>1. UNCHANGED oldWorker
    BY <1>4 DEF TapThread, TapReport, TapLost, TapPress, TapRelease
  <2>2. opening' # "late"
    BY <1>0, <1>4 DEF TapThread, TapReport, TapLost, TapPress, TapRelease,
       MicPress, MicRelease, OpenVoice
  <2> QED
    BY <1>0, <2>1, <2>2 DEF NoLate
<1>5. CASE FinishOpening
  <2>1. late' = "off" /\ outlived' = outlived
    BY <1>5, <1>0 DEF FinishOpening
  <2>2. opening' # "late"
    BY <1>0, <1>5 DEF FinishOpening
  <2> QED
    BY <1>0, <2>1, <2>2 DEF NoLate
<1>6. CASE BleThread
  <2>1. UNCHANGED oldWorker
    BY <1>6 DEF BleThread, MicButtonEvent, AudioStartedEvent, AudioStoppedEvent,
       WriteFails, Disconnect, SendMicOpen, ControlArrives
  <2>2. opening' # "late"
    BY <1>0, <1>6 DEF BleThread, MicButtonEvent, AudioStartedEvent, AudioStoppedEvent,
       WriteFails, Disconnect, SendMicOpen, ControlArrives,
       OpenVoice
  <2> QED
    BY <1>0, <2>1, <2>2 DEF NoLate
<1>7. CASE Supervisor
  <2>1. UNCHANGED oldWorker
    BY <1>7 DEF Supervisor, Connect, ConnectFails, StartListener, StartWorker,
       StopTap, StopEdges, JoinWorker, ResetVoice, StopHook, CloseBle, CloseAudio
  <2>2. opening' # "late"
    BY <1>0, <1>7 DEF Supervisor, Connect, ConnectFails, StartListener, StartWorker,
       StopTap, StopEdges, JoinWorker, ResetVoice, StopHook, CloseBle, CloseAudio
  <2> QED
    BY <1>0, <2>1, <2>2 DEF NoLate
<1>8. CASE Rest \/ UNCHANGED vars
  BY <1>0, <1>8 DEF Rest, NoLate
<1> QED
  BY <1>1, <1>2, <1>3, <1>4, <1>5, <1>6, <1>7, <1>8 DEF Next

\* That a worker was outlived is never forgotten.
LEMMA OutlivedStays == outlived /\ [Next]_vars => outlived'
<1> SUFFICES ASSUME outlived, [Next]_vars PROVE outlived'
  OBVIOUS
<1> USE DEF vars, envVars, hookVars, threadVars, latchVars, voiceVars,
            resourceVars, leaseVars, micVars, oldWorker, lifeVars
<1>1. CASE Environment
  BY <1>1 DEF Environment, PressButton, ReleaseButton, AutoRepeat, Report
<1>2. CASE HookThread
  BY <1>2 DEF HookThread, HookTransform, HookEmit, HookReport
<1>3. CASE WorkerThread
  BY <1>3 DEF WorkerThread, WorkerTake, WorkerPress, WorkerRelease, WorkerExit
<1>4. CASE TapThread
  BY <1>4 DEF TapThread, TapReport, TapLost, TapPress, TapRelease
<1>5. CASE FinishOpening
  BY <1>5 DEF FinishOpening
<1>6. CASE BleThread
  BY <1>6 DEF BleThread, MicButtonEvent, AudioStartedEvent, AudioStoppedEvent,
     WriteFails, Disconnect, SendMicOpen, ControlArrives
<1>7. CASE Supervisor
  BY <1>7 DEF Supervisor, Connect, ConnectFails, StartListener, StartWorker,
     StopTap, StopEdges, JoinWorker, OutliveJoin, ResetVoice, StopHook, CloseBle, CloseAudio
<1>9. CASE LateThread
  BY <1>9 DEF LateThread, LatePress, LateRelease, LateTake, LateExit
<1>8. CASE Rest \/ UNCHANGED vars
  BY <1>8 DEF Rest
<1> QED
  BY <1>1, <1>2, <1>3, <1>4, <1>5, <1>6, <1>7, <1>8, <1>9 DEF Next

-----------------------------------------------------------------------------
(* The lifecycle.                                                           *)

\* A thread ends before the phase that joins it is left.
LEMMA ThreadLifeKept == IInv /\ InTime /\ [Next]_vars => ThreadLife'
<1> SUFFICES ASSUME IInv, [Next]_vars, ~LateThread, ~OutliveJoin PROVE ThreadLife'
  BY DEF InTime
<1> USE DEF IInv, ThreadLife, TypeOK, ThreadTypes, Lifecycle, TapOn, vars,
            envVars, hookVars, threadVars, latchVars, voiceVars,
            resourceVars, leaseVars, micVars, oldWorker, lifeVars
<1>1. CASE Environment
  BY <1>1 DEF Environment, PressButton, ReleaseButton, AutoRepeat, Report
<1>2. CASE HookThread
  <2>1. CASE HookTransform
    BY <2>1 DEF HookTransform
  <2>2. CASE HookEmit
    BY <2>2 DEF HookEmit
  <2>3. CASE HookReport
    BY <2>3 DEF HookReport, LegacyKeyEvent
  <2> QED
    BY <1>2, <2>1, <2>2, <2>3 DEF HookThread
<1>3. CASE WorkerThread
  <2>1. CASE WorkerTake
    BY <2>1 DEF WorkerTake
  <2>2. CASE WorkerPress
    BY <2>2 DEF WorkerPress, MicPress, OpenVoice, NextWorker, StopIsSet
  <2>3. CASE WorkerRelease
    BY <2>3 DEF WorkerRelease, MicRelease, NextWorker, StopIsSet
  <2>4. CASE WorkerExit
    BY <2>4 DEF WorkerExit
  <2> QED
    BY <1>3, <2>1, <2>2, <2>3, <2>4 DEF WorkerThread
<1>4. CASE TapThread
  <2>1. CASE TapReport
    BY <2>1 DEF TapReport
  <2>2. CASE TapLost
    BY <2>2 DEF TapLost
  <2>3. CASE TapPress
    BY <2>3 DEF TapPress, MicPress, OpenVoice
  <2>4. CASE TapRelease
    BY <2>4 DEF TapRelease, MicRelease
  <2> QED
    BY <1>4, <2>1, <2>2, <2>3, <2>4 DEF TapThread
<1>5. CASE FinishOpening
  BY <1>5 DEF FinishOpening, OpenPlayback, OpenSink, Unresolved, NextWorker, StopIsSet
<1>6. CASE BleThread
  <2>1. CASE MicButtonEvent
    BY <2>1 DEF MicButtonEvent, OpensOnEvent, OpenVoice, ControlArrives
  <2>2. CASE AudioStartedEvent
    BY <2>2 DEF AudioStartedEvent, OpensOnEvent, OpenVoice, ControlArrives
  <2>3. CASE AudioStoppedEvent
    BY <2>3 DEF AudioStoppedEvent, CloseVoice, ControlArrives
  <2>4. CASE WriteFails
    BY <2>4 DEF WriteFails, FrameLost, CloseSink
  <2>5. CASE Disconnect
    BY <2>5 DEF Disconnect
  <2>6. CASE SendMicOpen
    BY <2>6 DEF SendMicOpen
  <2> QED
    BY <1>6, <2>1, <2>2, <2>3, <2>4, <2>5, <2>6 DEF BleThread
<1>7. CASE Supervisor
  <2>1. CASE Connect
    BY <2>1 DEF Connect, NewPhase
  <2>2. CASE ConnectFails
    BY <2>2 DEF ConnectFails, NewPhase
  <2>3. CASE StartListener
    BY <2>3 DEF StartListener, NewPhase
  <2>4. CASE StartWorker
    BY <2>4 DEF StartWorker, NewPhase
  <2>5. CASE StopTap
    BY <2>5 DEF StopTap, NewPhase
  <2>6. CASE StopEdges
    BY <2>6 DEF StopEdges, NewPhase
  <2>7. CASE JoinWorker
    BY <2>7 DEF JoinWorker, NewPhase
  <2>8. CASE ResetVoice
    BY <2>8 DEF ResetVoice, NewPhase
  <2>9. CASE StopHook
    BY <2>9 DEF StopHook, NewPhase
  <2>10. CASE CloseBle
    BY <2>10 DEF CloseBle, NewPhase
  <2>11. CASE CloseAudio
    BY <2>11 DEF CloseAudio
  <2> QED
    BY <1>7, <2>1, <2>2, <2>3, <2>4, <2>5, <2>6, <2>7, <2>8, <2>9, <2>10,
       <2>11 DEF Supervisor
<1>8. CASE Rest \/ UNCHANGED vars
  BY <1>8 DEF Rest
<1> QED
  BY <1>1, <1>2, <1>3, <1>4, <1>5, <1>6, <1>7, <1>8 DEF Next

\* Closing and resetting a session need the lock an opening thread holds.
LEMMA OpeningLockedKept == IInv /\ InTime /\ [Next]_vars => OpeningLocked'
<1> SUFFICES ASSUME IInv, [Next]_vars, ~LateThread, ~OutliveJoin PROVE OpeningLocked'
  BY DEF InTime
<1> USE DEF IInv, OpeningLocked, TypeOK, VoiceFlags, ThreadTypes, Openers,
            Lifecycle, AfterResetPhases, AfterReset, ThreadLife,
            LockFree, vars, envVars, hookVars, threadVars, latchVars,
            voiceVars, resourceVars, leaseVars, micVars, oldWorker, lifeVars
<1>1. CASE Environment
  BY <1>1 DEF Environment, PressButton, ReleaseButton, AutoRepeat, Report
<1>2. CASE HookThread
  <2>1. CASE HookTransform
    BY <2>1 DEF HookTransform
  <2>2. CASE HookEmit
    BY <2>2 DEF HookEmit
  <2>3. CASE HookReport
    BY <2>3 DEF HookReport, LegacyKeyEvent
  <2> QED
    BY <1>2, <2>1, <2>2, <2>3 DEF HookThread
<1>3. CASE WorkerThread
  BY <1>3 DEF WorkerThread, WorkerTake, WorkerPress, WorkerRelease,
     WorkerExit, NextWorker, StopIsSet, MicPress, MicRelease, OpenVoice, CloseVoice,
     Close
<1>4. CASE TapThread
  BY <1>4 DEF TapThread, TapReport, TapLost, TapPress, TapRelease, MicPress,
     MicRelease, OpenVoice, CloseVoice, Close
<1>5. CASE FinishOpening
  BY <1>5 DEF FinishOpening, OpenPlayback, OpenSink, Unresolved, NextWorker, StopIsSet
<1>6. CASE BleThread
  BY <1>6 DEF BleThread, MicButtonEvent, AudioStartedEvent, AudioStoppedEvent,
     WriteFails, FrameLost, CloseSink, Disconnect, SendMicOpen, ControlArrives, OpensOnEvent,
     ConsumeLatch, TryPlayback, OpenPlayback, OpenSink, Unresolved, OpenVoice, CloseVoice, Close
<1>7. CASE Supervisor
  BY <1>7 DEF Supervisor, Connect, ConnectFails, StartListener, StartWorker,
     StopTap, StopEdges, JoinWorker, ResetVoice, StopHook, CloseBle,
     CloseAudio, NewPhase, Release, Close
<1>8. CASE Rest \/ UNCHANGED vars
  BY <1>8 DEF Rest
<1> QED
  BY <1>1, <1>2, <1>3, <1>4, <1>5, <1>6, <1>7, <1>8 DEF Next

\* Nothing opens a session between a reset and the next listener.
LEMMA AfterResetKept == IInv /\ InTime /\ [Next]_vars => AfterReset'
<1> SUFFICES ASSUME IInv, [Next]_vars, ~LateThread, ~OutliveJoin PROVE AfterReset'
  BY DEF InTime
<1> USE DEF IInv, AfterReset, TypeOK, VoiceFlags, OwnerFlags, ThreadTypes,
            Lifecycle, AfterResetPhases, ThreadLife, OpeningLocked,
            vars, envVars, hookVars, threadVars, latchVars, voiceVars,
            resourceVars, leaseVars, micVars, oldWorker, lifeVars
<1>1. CASE Environment
  BY <1>1 DEF Environment, PressButton, ReleaseButton, AutoRepeat, Report
<1>2. CASE HookThread
  <2>1. CASE HookTransform
    BY <2>1 DEF HookTransform
  <2>2. CASE HookEmit
    BY <2>2 DEF HookEmit
  <2>3. CASE HookReport
    BY <2>3 DEF HookReport, LegacyKeyEvent
  <2> QED
    BY <1>2, <2>1, <2>2, <2>3 DEF HookThread
<1>3. CASE WorkerThread
  <2>1. CASE WorkerTake
    BY <2>1 DEF WorkerTake
  <2>2. CASE WorkerPress
    BY <2>2 DEF WorkerPress, MicPress, OpenVoice, NextWorker, StopIsSet
  <2>3. CASE WorkerRelease
    BY <2>3 DEF WorkerRelease, MicRelease, NextWorker, StopIsSet, CloseVoice, Close
  <2>4. CASE WorkerExit
    BY <2>4 DEF WorkerExit
  <2> QED
    BY <1>3, <2>1, <2>2, <2>3, <2>4 DEF WorkerThread
<1>4. CASE TapThread
  <2>1. CASE TapReport
    BY <2>1 DEF TapReport
  <2>2. CASE TapLost
    BY <2>2 DEF TapLost
  <2>3. CASE TapPress
    BY <2>3 DEF TapPress, MicPress, OpenVoice
  <2>4. CASE TapRelease
    BY <2>4 DEF TapRelease, MicRelease, CloseVoice, Close
  <2> QED
    BY <1>4, <2>1, <2>2, <2>3, <2>4 DEF TapThread
<1>5. CASE FinishOpening
  BY <1>5 DEF FinishOpening, OpenPlayback, OpenSink, Unresolved, NextWorker, StopIsSet
<1>6. CASE BleThread
  <2>1. CASE MicButtonEvent
      <3>1. active' => active \/ physDown
        BY <2>1 DEF MicButtonEvent, OpenVoice, OpensOnEvent
      <3>2. UNCHANGED <<physDown, phase, failed>>
        BY <2>1 DEF MicButtonEvent, ControlArrives
      <3> QED
        BY <3>1, <3>2
  <2>2. CASE AudioStartedEvent
      <3>1. active' => active \/ physDown
        BY <2>2 DEF AudioStartedEvent, OpenVoice, OpensOnEvent
      <3>2. UNCHANGED <<physDown, phase, failed>>
        BY <2>2 DEF AudioStartedEvent, ControlArrives
      <3> QED
        BY <3>1, <3>2
  <2>3. CASE AudioStoppedEvent
      <3>1. active' => active \/ physDown
        BY <2>3 DEF AudioStoppedEvent, CloseVoice, Close
      <3>2. UNCHANGED <<physDown, phase, failed>>
        BY <2>3 DEF AudioStoppedEvent, ControlArrives, CloseVoice
      <3> QED
        BY <3>1, <3>2
  <2>4. CASE WriteFails
    BY <2>4 DEF WriteFails, FrameLost, CloseSink
  <2>5. CASE Disconnect
    BY <2>5 DEF Disconnect
  <2>6. CASE SendMicOpen
    BY <2>6 DEF SendMicOpen
  <2> QED
    BY <1>6, <2>1, <2>2, <2>3, <2>4, <2>5, <2>6 DEF BleThread
<1>7. CASE Supervisor
  <2>1. CASE Connect
    BY <2>1 DEF Connect, NewPhase
  <2>2. CASE ConnectFails
    BY <2>2 DEF ConnectFails, NewPhase
  <2>3. CASE StartListener
    BY <2>3 DEF StartListener, NewPhase
  <2>4. CASE StartWorker
    BY <2>4 DEF StartWorker, NewPhase
  <2>5. CASE StopTap
    BY <2>5 DEF StopTap, NewPhase
  <2>6. CASE StopEdges
    BY <2>6 DEF StopEdges, NewPhase
  <2>7. CASE JoinWorker
    BY <2>7 DEF JoinWorker, NewPhase
  <2>8. CASE ResetVoice
    BY <2>8 DEF ResetVoice, NewPhase, Close
  <2>9. CASE StopHook
    BY <2>9 DEF StopHook, NewPhase
  <2>10. CASE CloseBle
      <3>1. UNCHANGED <<physDown, active>> /\ phase = "unhooked" /\ phase' = "closed"
        BY <2>10 DEF CloseBle, NewPhase
      <3>2. failed => failed'
        BY <2>10 DEF CloseBle, Release
      <3> QED
        BY <3>1, <3>2
  <2>11. CASE CloseAudio
      <3>1. /\ phase = "closed" /\ phase' = IF failed' THEN "dead" ELSE "down"
            /\ UNCHANGED <<physDown, active>>
        BY <2>11 DEF CloseAudio
      <3>2. failed' = failed \/ failed' = TRUE
        BY <2>11 DEF CloseAudio, Release
      <3> QED
        BY <3>1, <3>2
  <2> QED
    BY <1>7, <2>1, <2>2, <2>3, <2>4, <2>5, <2>6, <2>7, <2>8, <2>9, <2>10,
       <2>11 DEF Supervisor
<1>8. CASE Rest \/ UNCHANGED vars
  BY <1>8 DEF Rest
<1> QED
  BY <1>1, <1>2, <1>3, <1>4, <1>5, <1>6, <1>7, <1>8 DEF Next

\* Nothing acquires an owner after the step that released it.
LEMMA OwnersReleasedKept == IInv /\ InTime /\ [Next]_vars => OwnersReleased'
<1> SUFFICES ASSUME IInv, [Next]_vars, ~LateThread, ~OutliveJoin PROVE OwnersReleased'
  BY DEF InTime
<1> USE DEF IInv, OwnersReleased, TypeOK, VoiceFlags, OwnerFlags, ThreadTypes,
            Lifecycle, AfterResetPhases, ThreadLife, OpeningLocked,
            AfterReset, HookOn, BleOn, vars, envVars, hookVars,
            threadVars, latchVars, voiceVars, resourceVars, leaseVars, micVars, oldWorker, lifeVars
<1>1. CASE Environment
  BY <1>1 DEF Environment, PressButton, ReleaseButton, AutoRepeat, Report
<1>2. CASE HookThread
  <2>1. CASE HookTransform
    BY <2>1 DEF HookTransform
  <2>2. CASE HookEmit
    BY <2>2 DEF HookEmit
  <2>3. CASE HookReport
    BY <2>3 DEF HookReport, LegacyKeyEvent
  <2> QED
    BY <1>2, <2>1, <2>2, <2>3 DEF HookThread
<1>3. CASE WorkerThread
  BY <1>3 DEF WorkerThread, WorkerTake, WorkerPress, WorkerRelease,
     WorkerExit, NextWorker, StopIsSet, MicPress, MicRelease, OpenVoice, CloseVoice,
     Close
<1>4. CASE TapThread
  BY <1>4 DEF TapThread, TapReport, TapLost, TapPress, TapRelease, MicPress,
     MicRelease, OpenVoice, CloseVoice, Close
<1>5. CASE FinishOpening
  BY <1>5 DEF FinishOpening, OpenPlayback, OpenSink, Unresolved, NextWorker, StopIsSet
<1>6. CASE BleThread
  BY <1>6 DEF BleThread, MicButtonEvent, AudioStartedEvent, AudioStoppedEvent,
     WriteFails, FrameLost, CloseSink, Disconnect, SendMicOpen, ControlArrives, OpensOnEvent,
     ConsumeLatch, TryPlayback, OpenPlayback, OpenSink, Unresolved, OpenVoice, CloseVoice, Close
<1>7. CASE Supervisor
  <2>1. CASE Connect
    BY <2>1 DEF Connect, NewPhase
  <2>2. CASE ConnectFails
    BY <2>2 DEF ConnectFails, NewPhase
  <2>3. CASE StartListener
    BY <2>3 DEF StartListener, NewPhase
  <2>4. CASE StartWorker
    BY <2>4 DEF StartWorker, NewPhase
  <2>5. CASE StopTap
    BY <2>5 DEF StopTap, NewPhase
  <2>6. CASE StopEdges
    BY <2>6 DEF StopEdges, NewPhase
  <2>7. CASE JoinWorker
    BY <2>7 DEF JoinWorker, NewPhase
  <2>8. CASE ResetVoice
    BY <2>8 DEF ResetVoice, NewPhase, Close
  <2>9. CASE StopHook
    BY <2>9 DEF StopHook, NewPhase
  <2>10. CASE CloseBle
    BY <2>10 DEF CloseBle, NewPhase, Release
  <2>11. CASE CloseAudio
      <3>1. /\ phase = "closed" /\ phase' = IF failed' THEN "dead" ELSE "down"
            /\ UNCHANGED <<micPosted, micOpen>>
        BY <2>11 DEF CloseAudio
      <3>2. failed' = TRUE \/ (failed' = failed /\ playback' = FALSE)
        BY <2>11 DEF CloseAudio, Release
      <3>3. lease' = FALSE \/ unreturned' = TRUE
        BY <2>11 DEF CloseAudio, GiveBack, Returned, LeftBorrowed
      <3> QED
        BY <3>1, <3>2, <3>3
  <2> QED
    BY <1>7, <2>1, <2>2, <2>3, <2>4, <2>5, <2>6, <2>7, <2>8, <2>9, <2>10,
       <2>11 DEF Supervisor
<1>8. CASE Rest \/ UNCHANGED vars
  BY <1>8 DEF Rest
<1> QED
  BY <1>1, <1>2, <1>3, <1>4, <1>5, <1>6, <1>7, <1>8 DEF Next

\* A session only outlives its hold together with a request to reconnect.
LEMMA OwedSessionReconnectsKept == IInv /\ InTime /\ [Next]_vars => OwedSessionReconnects'
<1> SUFFICES ASSUME IInv, [Next]_vars, ~LateThread, ~OutliveJoin PROVE OwedSessionReconnects'
  BY DEF InTime
<1> USE DEF IInv, NoLate, OwedSessionReconnects, TypeOK, VoiceFlags, OwnerFlags,
            AfterReset, AfterResetPhases, vars, envVars, hookVars,
            threadVars, latchVars, voiceVars, resourceVars, leaseVars, micVars, oldWorker, lifeVars
<1>1. CASE Environment
  BY <1>1 DEF Environment, PressButton, ReleaseButton, AutoRepeat, Report
<1>2. CASE HookThread
  <2>1. CASE HookTransform
    BY <2>1 DEF HookTransform
  <2>2. CASE HookEmit
    BY <2>2 DEF HookEmit
  <2>3. CASE HookReport
    BY <2>3 DEF HookReport, LegacyKeyEvent
  <2> QED
    BY <1>2, <2>1, <2>2, <2>3 DEF HookThread
<1>3. CASE WorkerThread
  BY <1>3 DEF WorkerThread, WorkerTake, WorkerPress, WorkerRelease,
     WorkerExit, NextWorker, StopIsSet, MicPress, MicRelease, OpenVoice, CloseVoice,
     Close
<1>4. CASE TapThread
  BY <1>4 DEF TapThread, TapReport, TapLost, TapPress, TapRelease, MicPress,
     MicRelease, OpenVoice, CloseVoice, Close
<1>5. CASE FinishOpening
  BY <1>5 DEF FinishOpening, OpenPlayback, OpenSink, Unresolved, NextWorker, StopIsSet
<1>6. CASE BleThread
  BY <1>6 DEF BleThread, MicButtonEvent, AudioStartedEvent, AudioStoppedEvent,
     WriteFails, FrameLost, CloseSink, Disconnect, SendMicOpen, ControlArrives, OpensOnEvent,
     ConsumeLatch, TryPlayback, OpenPlayback, OpenSink, Unresolved, OpenVoice, CloseVoice, Close
<1>7. CASE Supervisor
  BY <1>7 DEF Supervisor, Connect, ConnectFails, StartListener, StartWorker,
     StopTap, StopEdges, JoinWorker, ResetVoice, StopHook, CloseBle,
     CloseAudio, NewPhase, Release, Close
<1>8. CASE Rest \/ UNCHANGED vars
  BY <1>8 DEF Rest
<1> QED
  BY <1>1, <1>2, <1>3, <1>4, <1>5, <1>6, <1>7, <1>8 DEF Next

-----------------------------------------------------------------------------
(* Without the transform, every voice action is the configured shortcut.    *)

\* No step of the other presets sets the transform's flags.
LEMMA NoTransformKept == IInv /\ InTime /\ [Next]_vars => NoTransform'
<1> SUFFICES ASSUME IInv, [Next]_vars, ~LateThread, ~OutliveJoin, Preset # "transform"
             PROVE  NoTransform'
  BY DEF InTime, NoTransform
<1> USE DEF IInv, NoTransform, vars, envVars, hookVars, threadVars, latchVars,
            voiceVars, resourceVars, leaseVars, micVars, oldWorker, lifeVars
<1>0. queue \in Seq(Edge)
  BY DEF TypeOK, QueueTypes
<1>1. CASE Environment
  <2>1. CASE PressButton
    BY <2>1 DEF PressButton, Report
  <2>2. CASE ReleaseButton
    BY <2>2 DEF ReleaseButton, Report
  <2>3. CASE AutoRepeat
    BY <2>3 DEF AutoRepeat
  <2> QED
    BY <1>1, <2>1, <2>2, <2>3 DEF Environment
<1>2. CASE HookThread
  <2>1. CASE HookTransform
    BY <2>1 DEF HookTransform, TransformDown, TransformUp
  <2>2. CASE HookEmit
    BY <2>2 DEF HookEmit
  <2>3. CASE HookReport
      <3>1. ~session' /\ ~emitted' /\ keyDown' = keyDown /\ worker' = worker
        BY <2>3, Zenon DEF HookReport, LegacyKeyEvent
      <3>2. hook' = "idle"
        BY <2>3 DEF HookReport, LegacyKeyEvent
      <3>3. \/ queue' = queue
            \/ queue' = Append(queue, [press |-> hook = "reportDown", handled |-> session'])
        BY <2>3, Zenon DEF HookReport, LegacyKeyEvent, Enqueue, Duplicate
      <3>4. queue \in Seq(Edge)
        BY DEF TypeOK, QueueTypes
      <3>5. \A i \in 1..Len(queue') : ~queue'[i].handled
        <4> DEFINE edge == [press |-> hook = "reportDown", handled |-> session']
        <4>1. ~edge.handled
          BY <3>1
        <4> HIDE DEF edge
        <4> QED
          BY <3>3, <3>4, <4>1 DEF edge
      <3> QED
        BY <3>1, <3>2, <3>5
  <2> QED
    BY <1>2, <2>1, <2>2, <2>3 DEF HookThread
<1>3. CASE WorkerThread
  <2>1. CASE WorkerTake
    BY <2>1, <1>0 DEF WorkerTake
  <2>2. CASE WorkerPress
    BY <2>2 DEF WorkerPress, MicPress, OpenVoice, NextWorker, StopIsSet
  <2>3. CASE WorkerRelease
    BY <2>3 DEF WorkerRelease, MicRelease, NextWorker, StopIsSet, CloseVoice
  <2>4. CASE WorkerExit
    BY <2>4 DEF WorkerExit
  <2> QED
    BY <1>3, <2>1, <2>2, <2>3, <2>4 DEF WorkerThread
<1>4. CASE TapThread
  <2>1. CASE TapReport
    BY <2>1 DEF TapReport
  <2>2. CASE TapLost
    BY <2>2 DEF TapLost
  <2>3. CASE TapPress
    BY <2>3 DEF TapPress, MicPress, OpenVoice
  <2>4. CASE TapRelease
    BY <2>4 DEF TapRelease, MicRelease, CloseVoice
  <2> QED
    BY <1>4, <2>1, <2>2, <2>3, <2>4 DEF TapThread
<1>5. CASE FinishOpening
  BY <1>5 DEF FinishOpening, OpenPlayback, OpenSink, Unresolved, NextWorker, StopIsSet
<1>6. CASE BleThread
  <2>1. CASE MicButtonEvent
    BY <2>1 DEF MicButtonEvent, OpensOnEvent, OpenVoice, ControlArrives
  <2>2. CASE AudioStartedEvent
    BY <2>2 DEF AudioStartedEvent, OpensOnEvent, OpenVoice, ControlArrives
  <2>3. CASE AudioStoppedEvent
    BY <2>3 DEF AudioStoppedEvent, CloseVoice, ControlArrives
  <2>4. CASE WriteFails
    BY <2>4 DEF WriteFails, FrameLost, CloseSink
  <2>5. CASE Disconnect
    BY <2>5 DEF Disconnect
  <2>6. CASE SendMicOpen
    BY <2>6 DEF SendMicOpen
  <2> QED
    BY <1>6, <2>1, <2>2, <2>3, <2>4, <2>5, <2>6 DEF BleThread
<1>7. CASE Supervisor
  <2>1. CASE Connect
    BY <2>1 DEF Connect, NewPhase
  <2>2. CASE ConnectFails
    BY <2>2 DEF ConnectFails, NewPhase
  <2>3. CASE StartListener
    BY <2>3 DEF StartListener, NewPhase
  <2>4. CASE StartWorker
    BY <2>4 DEF StartWorker, NewPhase
  <2>5. CASE StopTap
    BY <2>5 DEF StopTap, NewPhase
  <2>6. CASE StopEdges
    BY <2>6 DEF StopEdges, NewPhase
  <2>7. CASE JoinWorker
    BY <2>7 DEF JoinWorker, NewPhase
  <2>8. CASE ResetVoice
    BY <2>8 DEF ResetVoice, NewPhase, CloseVoice
  <2>9. CASE StopHook
    BY <2>9 DEF StopHook, NewPhase
  <2>10. CASE CloseBle
    BY <2>10 DEF CloseBle, NewPhase
  <2>11. CASE CloseAudio
    BY <2>11 DEF CloseAudio
  <2> QED
    BY <1>7, <2>1, <2>2, <2>3, <2>4, <2>5, <2>6, <2>7, <2>8, <2>9, <2>10,
       <2>11 DEF Supervisor
<1>8. CASE Rest \/ UNCHANGED vars
  BY <1>8 DEF Rest
<1> QED
  BY <1>1, <1>2, <1>3, <1>4, <1>5, <1>6, <1>7, <1>8 DEF Next

\* While a hold lasts the hook is there to make the taps look physical.
LEMMA HoldHooked == IInv /\ physDown => HookOn
  BY DEF IInv, AfterReset, AfterResetPhases, TypeOK, ThreadTypes, Lifecycle, HookOn

\* Delivered in step: the shortcut makes the host what the controller becomes.
LEMMA ApplyInStep ==
    ASSUME IInv, Disciplined, NEW engage \in BOOLEAN, engage = ~active,
           NEW ok \in BOOLEAN, Apply(engage, ok), Preset = "toggle" => HookOn
    PROVE  host' = (ok = engage) /\ (Preset = "toggle" => ok)
<1>1. Preset # "transform" /\ ~session
  BY DEF IInv, NoTransform, Disciplined
<1>2. host = active /\ host \in BOOLEAN
  BY DEF IInv, NoLate, HostMatchesController, TypeOK, VoiceFlags
<1>3. Sent(engage, ok)
  BY <1>1 DEF Apply
<1>4. CASE Preset = "toggle"
  <2>1. Delivered(engage) = ~host
    BY <1>4, Zenon DEF Delivered, Physical
  <2> QED
    BY <1>2, <1>3, <1>4, <2>1 DEF Sent, CanFail, Disciplined
<1>5. CASE Preset = "hold"
  BY <1>2, <1>3, <1>5 DEF Sent, Delivered, Physical
<1> QED
  BY <1>1, <1>4, <1>5, PresetAssumption

\* Opening a session keeps host and controller in step.
LEMMA OpenInStep ==
    ASSUME IInv, Disciplined, ~active, NEW who, OpenVoice(FALSE, who),
           Preset = "toggle" => HookOn
    PROVE  host' = active' /\ (Preset = "toggle" => active')
<1>1. active' \in BOOLEAN /\ Apply(TRUE, active')
  BY DEF OpenVoice
<1>2. PICK ok \in BOOLEAN : ok = active' /\ Apply(TRUE, ok)
  BY <1>1
<1>3. host' = (ok = TRUE) /\ (Preset = "toggle" => ok)
  BY <1>2, ApplyInStep
<1> QED
  BY <1>2, <1>3

\* So does closing one.
LEMMA CloseInStep ==
    ASSUME IInv, Disciplined, Close
    PROVE  host' = active' /\ (Preset = "toggle" => ~active')
<1>1. CASE ~active
  <2>1. active' = active /\ host' = host
    BY <1>1, Zenon DEF Close
  <2>2. host = active
    BY DEF IInv, NoLate, HostMatchesController
  <2> QED
    BY <1>1, <2>1, <2>2, Zenon
<1>2. CASE active
  <2>0. Preset = "toggle" => HookOn
    BY <1>2, HoldHooked DEF IInv, Latched
  <2>1. PICK kept \in BOOLEAN : kept = active' /\ Apply(FALSE, ~kept)
    BY <1>2 DEF Close
  <2>2. host' = (~kept = FALSE) /\ (Preset = "toggle" => ~kept)
    BY <1>2, <2>0, <2>1, ApplyInStep
  <2> QED
    BY <2>1, <2>2
<1> QED
  BY <1>1, <1>2

\* A dispatched press, of the worker or of the tap.
LEMMA MicPressInStep ==
    ASSUME IInv, Disciplined, NEW who, MicPress(FALSE, who), HookOn, BleOn
    PROVE  /\ host' = active'
           /\ Preset = "toggle" => active' /\ (announced' \/ rawPending')
<1>1. host = active
  BY DEF IInv, NoLate, HostMatchesController
<1>2. Preset = "toggle" =>
        active = physDown /\ (rawPending => active) /\ (active /\ ~announced => rawPending)
  BY DEF IInv, Latched
<1>3. CASE active \/ rawPending
  <2>1. UNCHANGED <<active, host, rawPending>> /\ announced' = (announced /\ physDown)
    BY <1>3, Zenon DEF MicPress, voiceVars
  <2>2. host' = active'
    BY <1>1, <2>1
  <2>3. ASSUME Preset = "toggle" PROVE active /\ physDown
    BY <1>2, <1>3, <2>3
  <2> QED
    BY <1>2, <2>1, <2>2, <2>3, Zenon
<1>4. CASE ~(active \/ rawPending)
  BY <1>4, OpenInStep, Zenon DEF MicPress
<1> QED
  BY <1>3, <1>4

\* A dispatched release.
LEMMA MicReleaseInStep ==
    ASSUME IInv, Disciplined, MicRelease
    PROVE  host' = active' /\ (Preset = "toggle" => ~active')
<1>1. CASE active
  BY <1>1, CloseInStep, Zenon DEF MicRelease, CloseVoice
<1>2. CASE ~active
  BY <1>2, Zenon DEF MicRelease, voiceVars, IInv, NoLate, HostMatchesController
<1> QED
  BY <1>1, <1>2

\* Every event of a disciplined hold finds its latch.
LEMMA LatchedKept == IInv /\ InTime /\ [Next]_vars => Latched'
<1> SUFFICES ASSUME IInv, [Next]_vars, ~LateThread, ~OutliveJoin,
                    Disciplined, Preset = "toggle"
             PROVE  Latched'
  BY DEF InTime, Latched, Disciplined
<1> USE DEF Latched, vars, envVars, hookVars, threadVars, latchVars, voiceVars,
            resourceVars, leaseVars, micVars, oldWorker, lifeVars
<1>0. /\ host = active /\ active = physDown /\ (rawPending => active)
      /\ (active /\ ~announced => rawPending)
  BY Zenon DEF IInv, Latched, NoLate, HostMatchesController
<1>10. active' \in BOOLEAN
  BY TypeStep DEF IInv, TypeOK, VoiceFlags
<1>1. CASE Environment
  <2>1. CASE PressButton
    BY <2>1, <1>0 DEF PressButton, Report
  <2>2. CASE ReleaseButton
    BY <2>2, <1>0 DEF ReleaseButton, Report
  <2>3. CASE AutoRepeat
    BY <2>3, <1>0 DEF AutoRepeat
  <2> QED
    BY <1>1, <2>1, <2>2, <2>3 DEF Environment
<1>2. CASE HookThread
  <2>1. CASE HookTransform
    BY <2>1, <1>0 DEF HookTransform
  <2>2. CASE HookEmit
    BY <2>2, <1>0 DEF HookEmit
  <2>3. CASE HookReport
    BY <2>3, <1>0 DEF HookReport, LegacyKeyEvent
  <2> QED
    BY <1>2, <2>1, <2>2, <2>3 DEF HookThread
<1>3. CASE WorkerThread
  <2>1. CASE WorkerTake
    BY <2>1, <1>0 DEF WorkerTake
  <2>2. CASE WorkerPress
      <3>1. MicPress(FALSE, "worker") /\ HookOn /\ BleOn
        BY <2>2 DEF WorkerPress, IInv, ThreadLife, NoTransform, HookOn, BleOn
      <3>2. active' /\ (announced' \/ rawPending')
        BY <3>1, MicPressInStep
      <3>3. physDown' = TRUE /\ active' \in BOOLEAN
        BY <3>1, <1>10 DEF MicPress
      <3> QED
        BY <3>2, <3>3
  <2>3. CASE WorkerRelease
    BY <2>3, <1>0, <1>10, MicReleaseInStep DEF WorkerRelease, MicRelease
  <2>4. CASE WorkerExit
    BY <2>4, <1>0 DEF WorkerExit
  <2> QED
    BY <1>3, <2>1, <2>2, <2>3, <2>4 DEF WorkerThread
<1>4. CASE TapThread
  <2>1. CASE TapReport
    BY <2>1, <1>0 DEF TapReport
  <2>2. CASE TapLost
    BY <2>2, <1>0 DEF TapLost
  <2>3. CASE TapPress
      <3>1. MicPress(FALSE, "tap") /\ HookOn /\ BleOn
        BY <2>3 DEF TapPress, IInv, ThreadLife, NoTransform, HookOn, BleOn
      <3>2. active' /\ (announced' \/ rawPending')
        BY <3>1, MicPressInStep
      <3>3. physDown' = TRUE /\ active' \in BOOLEAN
        BY <3>1, <1>10 DEF MicPress
      <3> QED
        BY <3>2, <3>3
  <2>4. CASE TapRelease
    BY <2>4, <1>0, <1>10, MicReleaseInStep DEF TapRelease, MicRelease
  <2> QED
    BY <1>4, <2>1, <2>2, <2>3, <2>4 DEF TapThread
<1>5. CASE FinishOpening
  BY <1>5, <1>0 DEF FinishOpening, OpenPlayback, OpenSink, Unresolved, NextWorker, StopIsSet
<1>6. CASE BleThread
  <2>1. CASE MicButtonEvent
    BY <2>1, <1>0 DEF MicButtonEvent, ControlArrives, OpensOnEvent,
       ConsumeLatch, InOrder, Disciplined
  <2>2. CASE AudioStartedEvent
    BY <2>2, <1>0 DEF AudioStartedEvent, ControlArrives, OpensOnEvent
  <2>3. CASE AudioStoppedEvent
    BY <2>3, <1>0 DEF AudioStoppedEvent, ControlArrives, CloseVoice, Close,
       InOrder, Disciplined
  <2>4. CASE WriteFails
    BY <2>4, <1>0 DEF WriteFails, FrameLost, CloseSink
  <2>5. CASE Disconnect
    BY <2>5, <1>0 DEF Disconnect
  <2>6. CASE SendMicOpen
    BY <2>6, <1>0 DEF SendMicOpen
  <2> QED
    BY <1>6, <2>1, <2>2, <2>3, <2>4, <2>5, <2>6 DEF BleThread
<1>7. CASE Supervisor
  <2>1. CASE Connect
    BY <2>1, <1>0 DEF Connect, NewPhase
  <2>2. CASE ConnectFails
    BY <2>2, <1>0 DEF ConnectFails, NewPhase
  <2>3. CASE StartListener
    BY <2>3, <1>0 DEF StartListener, NewPhase
  <2>4. CASE StartWorker
    BY <2>4, <1>0 DEF StartWorker, NewPhase
  <2>5. CASE StopTap
    BY <2>5, <1>0 DEF StopTap, NewPhase
  <2>6. CASE StopEdges
    BY <2>6, <1>0 DEF StopEdges, NewPhase
  <2>7. CASE JoinWorker
    BY <2>7, <1>0 DEF JoinWorker, NewPhase
  <2>8. CASE ResetVoice
    BY <2>8, <1>0, <1>10, CloseInStep DEF ResetVoice, NewPhase
  <2>9. CASE StopHook
    BY <2>9, <1>0 DEF StopHook, NewPhase
  <2>10. CASE CloseBle
    BY <2>10, <1>0 DEF CloseBle, NewPhase
  <2>11. CASE CloseAudio
    BY <2>11, <1>0 DEF CloseAudio
  <2> QED
    BY <1>7, <2>1, <2>2, <2>3, <2>4, <2>5, <2>6, <2>7, <2>8, <2>9, <2>10,
       <2>11 DEF Supervisor
<1>8. CASE Rest \/ UNCHANGED vars
  BY <1>8, <1>0 DEF Rest
<1> QED
  BY <1>1, <1>2, <1>3, <1>4, <1>5, <1>6, <1>7, <1>8 DEF Next

\* Every step keeps host and controller in step.
LEMMA HostKept == IInv /\ InTime /\ [Next]_vars => HostMatchesController'
<1> SUFFICES ASSUME IInv, [Next]_vars, ~LateThread, ~OutliveJoin, Disciplined
             PROVE  host' = active'
  BY DEF InTime, HostMatchesController, Disciplined
<1> USE DEF vars, envVars, hookVars, threadVars, latchVars, voiceVars,
            resourceVars, leaseVars, micVars, oldWorker, lifeVars
<1>0. host = active
  BY Zenon DEF IInv, NoLate, HostMatchesController
<1>10. Preset = "toggle" =>
        active = physDown /\ (rawPending => active) /\ (active /\ ~announced => rawPending)
  BY Zenon DEF IInv, Latched
<1>1. CASE Environment
  <2>1. CASE PressButton
    BY <2>1, <1>0 DEF PressButton, Report
  <2>2. CASE ReleaseButton
    BY <2>2, <1>0 DEF ReleaseButton, Report
  <2>3. CASE AutoRepeat
    BY <2>3, <1>0 DEF AutoRepeat
  <2> QED
    BY <1>1, <2>1, <2>2, <2>3 DEF Environment
<1>2. CASE HookThread
  <2>1. CASE HookTransform
    BY <2>1, <1>0 DEF HookTransform
  <2>2. CASE HookEmit
    BY <2>2, <1>0 DEF HookEmit, IInv, NoTransform, Disciplined
  <2>3. CASE HookReport
    BY <2>3, <1>0 DEF HookReport, LegacyKeyEvent
  <2> QED
    BY <1>2, <2>1, <2>2, <2>3 DEF HookThread
<1>3. CASE WorkerThread
  <2>1. CASE WorkerTake
    BY <2>1, <1>0 DEF WorkerTake
  <2>2. CASE WorkerPress
      <3>1. MicPress(FALSE, "worker") /\ HookOn /\ BleOn
        BY <2>2 DEF WorkerPress, IInv, ThreadLife, NoTransform, Disciplined, HookOn, BleOn
      <3> QED
        BY <3>1, MicPressInStep
  <2>3. CASE WorkerRelease
    BY <2>3, <1>0, MicReleaseInStep DEF WorkerRelease
  <2>4. CASE WorkerExit
    BY <2>4, <1>0 DEF WorkerExit
  <2> QED
    BY <1>3, <2>1, <2>2, <2>3, <2>4 DEF WorkerThread
<1>4. CASE TapThread
  <2>1. CASE TapReport
    BY <2>1, <1>0 DEF TapReport
  <2>2. CASE TapLost
    BY <2>2, <1>0 DEF TapLost
  <2>3. CASE TapPress
      <3>1. MicPress(FALSE, "tap") /\ HookOn /\ BleOn
        BY <2>3 DEF TapPress, IInv, ThreadLife, NoTransform, Disciplined, HookOn, BleOn
      <3> QED
        BY <3>1, MicPressInStep
  <2>4. CASE TapRelease
    BY <2>4, <1>0, MicReleaseInStep DEF TapRelease
  <2> QED
    BY <1>4, <2>1, <2>2, <2>3, <2>4 DEF TapThread
<1>5. CASE FinishOpening
  BY <1>5, <1>0 DEF FinishOpening, OpenPlayback, OpenSink, Unresolved, NextWorker, StopIsSet
<1>6. CASE BleThread
  <2>1. CASE MicButtonEvent
    BY <2>1, <1>0, <1>10 DEF MicButtonEvent, ControlArrives, OpensOnEvent,
       ConsumeLatch, InOrder, Disciplined
  <2>2. CASE AudioStartedEvent
    BY <2>2, <1>0, <1>10, OpenInStep, HoldHooked DEF AudioStartedEvent, ControlArrives,
       OpensOnEvent
  <2>3. CASE AudioStoppedEvent
    BY <2>3, <1>0, CloseInStep DEF AudioStoppedEvent, ControlArrives,
       CloseVoice
  <2>4. CASE WriteFails
    BY <2>4, <1>0 DEF WriteFails, FrameLost, CloseSink
  <2>5. CASE Disconnect
    BY <2>5, <1>0 DEF Disconnect
  <2>6. CASE SendMicOpen
    BY <2>6, <1>0 DEF SendMicOpen
  <2> QED
    BY <1>6, <2>1, <2>2, <2>3, <2>4, <2>5, <2>6 DEF BleThread
<1>7. CASE Supervisor
  <2>1. CASE Connect
    BY <2>1, <1>0 DEF Connect, NewPhase
  <2>2. CASE ConnectFails
    BY <2>2, <1>0 DEF ConnectFails, NewPhase
  <2>3. CASE StartListener
    BY <2>3, <1>0 DEF StartListener, NewPhase
  <2>4. CASE StartWorker
    BY <2>4, <1>0 DEF StartWorker, NewPhase
  <2>5. CASE StopTap
    BY <2>5, <1>0 DEF StopTap, NewPhase
  <2>6. CASE StopEdges
    BY <2>6, <1>0 DEF StopEdges, NewPhase
  <2>7. CASE JoinWorker
    BY <2>7, <1>0 DEF JoinWorker, NewPhase
  <2>8. CASE ResetVoice
    BY <2>8, <1>0, CloseInStep DEF ResetVoice, NewPhase
  <2>9. CASE StopHook
    BY <2>9, <1>0 DEF StopHook, NewPhase
  <2>10. CASE CloseBle
    BY <2>10, <1>0 DEF CloseBle, NewPhase
  <2>11. CASE CloseAudio
    BY <2>11, <1>0 DEF CloseAudio
  <2> QED
    BY <1>7, <2>1, <2>2, <2>3, <2>4, <2>5, <2>6, <2>7, <2>8, <2>9, <2>10,
       <2>11 DEF Supervisor
<1>8. CASE Rest \/ UNCHANGED vars
  BY <1>8, <1>0 DEF Rest
<1> QED
  BY <1>1, <1>2, <1>3, <1>4, <1>5, <1>6, <1>7, <1>8 DEF Next

-----------------------------------------------------------------------------
(* The theorems.                                                            *)

\* The bridge starts in the invariant.
LEMMA IInvInit == Init => IInv
<1> SUFFICES ASSUME Init PROVE IInv
  OBVIOUS
<1>1. TypeOK
  BY TypeInit
<1>2. NoLate /\ ThreadLife /\ OpeningLocked /\ AfterReset /\ OwnersReleased
  BY DEF Init, NoLate, ThreadLife, OpeningLocked, AfterReset, OwnersReleased
<1>3. OwedSessionReconnects /\ HostMatchesController
  BY DEF Init, OwedSessionReconnects, HostMatchesController
<1>4. NoTransform
  BY DEF Init, NoTransform
<1>5. Latched
  BY DEF Init, Latched
<1> QED
  BY <1>1, <1>2, <1>3, <1>4, <1>5 DEF IInv

\* Every step preserves it, or is the first to outlive a worker.
LEMMA IInvStep == IInv /\ [Next]_vars => outlived' \/ IInv'
<1> SUFFICES ASSUME IInv, [Next]_vars, ~outlived' PROVE IInv'
  OBVIOUS
<1>0. InTime
  BY StillInTime
<1>1. TypeOK'
  BY TypeStep DEF IInv
<1>2. NoLate' /\ ThreadLife' /\ OpeningLocked' /\ AfterReset' /\ OwnersReleased'
  BY <1>0, NoLateKept, ThreadLifeKept, OpeningLockedKept, AfterResetKept, OwnersReleasedKept
<1>3. OwedSessionReconnects' /\ NoTransform' /\ Latched' /\ HostMatchesController'
  BY <1>0, OwedSessionReconnectsKept, NoTransformKept, LatchedKept, HostKept
<1> QED
  BY <1>1, <1>2, <1>3 DEF IInv

Safe == outlived \/ IInv

\* Every run of every configuration stays in the inductive invariant, at least
\* until a worker outlives the two seconds the cleanup waits for it
\* (_stop_voice_edge_worker).
THEOREM Invariance == Spec => []Safe
<1>1. Init => Safe
  BY IInvInit DEF Safe
<1>2. Safe /\ [Next]_vars => Safe'
  BY IInvStep, OutlivedStays DEF Safe
<1> QED
  BY <1>1, <1>2, PTL DEF Spec

\* A session that outlived its hold is always on its way to the cleanup that
\* retries its closing action (_close_voice_host_session, _cleanup_once): for
\* every preset, fault and arrival order.
THEOREM OwedSessions == Spec => []OwedSessionReconnects
<1>1. Safe => OwedSessionReconnects
  BY DEF Safe, IInv, OwedSessionReconnects
<1> QED
  BY <1>1, Invariance, PTL

\* VoiceController.active is what the host really has, for a held chord under
\* every fault, and for two taps when the taps are delivered and a hold's ATVV
\* events arrive in order.
THEOREM HostInStep == Spec => []HostMatchesController
<1>1. Safe => HostMatchesController
  BY DEF Safe, IInv, HostMatchesController
<1> QED
  BY <1>1, Invariance, PTL

\* A new connection attempt starts from nothing the old connection held, but for
\* audio policies that could not be given back (_cleanup_once), under the
\* discipline that keeps the host in step.
THEOREM CleanRestart == Spec => [](Disciplined => CleanSlate)
<1>1. Safe => (Disciplined => CleanSlate)
  BY DEF Safe, IInv, NoLate, AfterReset, AfterResetPhases, OwnersReleased,
         HostMatchesController, CleanSlate
<1> QED
  BY <1>1, Invariance, PTL

-----------------------------------------------------------------------------
(* Right-Alt, which three threads share.                                    *)

\* The runs in which right-Alt has always somebody who releases it: the key is
\* delivered, the worker ends in time, and no edge meets a press that is not
\* dispatched yet, or a cleanup.
AltDisciplined ==
    /\ Preset = "transform" /\ ~Tap
    /\ Faults \cap {"host", "join"} = {}
    /\ Timings \cap {"repress", "cleanupEdge", "busyCleanup"} = {}

NoTap == tap = "idle" /\ ~tapHeld /\ ~tapActive

\* An edge waits for the worker or is being dispatched.
Busy == queue # <<>> \/ worker \notin {"off", "idle"}

\* Without a connection no edge is anywhere between the button and the worker ...
Resting ==
    phase \notin {"hooked", "up"} => toHook = <<>> /\ hook = "idle" /\ ~Busy

\* ... and the reset has left nothing of the transform.
Cleared == phase \in AfterResetPhases => ~keyDown /\ ~f5 /\ ~session /\ ~emitted

\* The edges of one hold: a release is the last of its edges, and a press is
\* only dispatched while the hook remembers it or after its release.
OneHold ==
    /\ \A i \in 1..Len(toHook) : toHook[i] = "up" => ~remote /\ i = Len(toHook)
    /\ hook \in {"emitUp", "reportUp"} => ~remote /\ toHook = <<>> /\ ~keyDown
    /\ Busy /\ ~f5 => ~remote /\ toHook = <<>> /\ hook = "idle"
    /\ worker = "release" \/ (\E i \in 1..Len(queue) : ~queue[i].press) => ~f5 /\ ~keyDown

\* What the hook's flags are at each of its steps.
AltSteps ==
    /\ hook = "emitDown" => keyDown /\ ~f5
    /\ hook = "emitUp" => f5
    /\ keyDown /\ hook = "idle" => f5
    /\ emitted /\ hook = "reportDown" => keyDown /\ ~f5
    /\ emitted => hook = "reportDown" \/ (hook = "reportUp" /\ f5)

\* A press the hook has reported opens a session, which the release will close.
KeyOpens == keyDown /\ f5 => active \/ Busy
OpenHeld == (active => physDown) /\ (rawPending => active)

\* A transformed session whose key the hook has taken back is over for the host.
AltClosed == session /\ ~keyDown /\ host => hook = "emitUp"

AltInv ==
    /\ IInv /\ NoTap /\ Resting /\ Cleared /\ OneHold /\ AltSteps
    /\ KeyOpens /\ OpenHeld /\ AltClosed /\ HostOwed

\* A closing action always ends the session; right-Alt goes up with it unless
\* the hook has released it.
LEMMA AltCloses ==
    ASSUME AltDisciplined, TypeOK, Close
    PROVE  /\ active' = FALSE
           /\ active /\ ~(session /\ ~keyDown) => host' = FALSE
           /\ ~active \/ (session /\ ~keyDown) => host' = host
<1>1. CASE ~active
  BY <1>1, Zenon DEF Close, TypeOK, VoiceFlags
<1>2. CASE active
  <2>1. PICK kept \in BOOLEAN : active' = kept /\ Apply(FALSE, ~kept)
    BY <1>2 DEF Close
  <2>2. ~kept
    BY <2>1 DEF Apply, Sent, CanFail, AltDisciplined
  <2>3. Delivered(FALSE) = FALSE
    BY DEF Delivered, AltDisciplined
  <2> QED
    BY <1>2, <2>1, <2>2, <2>3 DEF Apply, Sent, CanFail, AltDisciplined
<1> QED
  BY <1>1, <1>2

\* An opening action always opens one; it presses the key only outside of a
\* transformed session.
LEMMA AltOpens ==
    ASSUME AltDisciplined, TypeOK, NEW handled \in BOOLEAN, NEW who, OpenVoice(handled, who)
    PROVE  active' = TRUE /\ (host' = host \/ (~session /\ host' = TRUE))
<1>1. CASE handled
  BY <1>1, Zenon DEF OpenVoice
<1>2. CASE ~handled
  <2>1. PICK ok \in BOOLEAN : active' = ok /\ Apply(TRUE, ok)
    BY <1>2 DEF OpenVoice
  <2>2. ok
    BY <2>1 DEF Apply, Sent, CanFail, AltDisciplined
  <2>3. Delivered(TRUE) = TRUE
    BY DEF Delivered, AltDisciplined
  <2> QED
    BY <2>1, <2>2, <2>3 DEF Apply, Sent, CanFail, AltDisciplined
<1> QED
  BY <1>1, <1>2

\* A dispatched press ends in an open session.
LEMMA AltPress ==
    ASSUME AltDisciplined, AltInv, WorkerPress
    PROVE  /\ active' = TRUE /\ physDown' = TRUE
           /\ host' = host \/ (~session /\ host' = TRUE)
           /\ UNCHANGED <<remote, toHook, toTap, queue, tap, tapHeld, tapActive,
                          f5, keyDown, session, emitted, hook, phase, failed>>
<1> DEFINE handled == worker = "handledPress"
<1>0. handled \in BOOLEAN /\ MicPress(handled, "worker") /\ BleOn
  BY DEF WorkerPress, AltInv, IInv, ThreadLife, BleOn, HookOn
<1> HIDE DEF handled
<1>1. /\ physDown' = TRUE
      /\ UNCHANGED <<remote, toHook, toTap, queue, tap, tapHeld, tapActive,
                     f5, keyDown, session, emitted, hook, phase, failed>>
  BY <1>0 DEF WorkerPress, MicPress, lifeVars
<1>2. CASE active \/ rawPending
  BY <1>0, <1>1, <1>2 DEF MicPress, voiceVars, AltInv, OpenHeld, IInv, TypeOK, VoiceFlags
<1>3. CASE ~(active \/ rawPending)
  <2>1. OpenVoice(handled, "worker")
    BY <1>0, <1>3, Zenon DEF MicPress
  <2> QED
    BY <1>0, <1>1, <2>1, AltOpens, Zenon DEF AltInv, IInv
<1> QED
  BY <1>2, <1>3

\* A dispatched release meets a hook that is done with the hold.
LEMMA AltRelease ==
    ASSUME AltDisciplined, AltInv, WorkerRelease
    PROVE  /\ active' = FALSE /\ rawPending' = FALSE
           /\ ~keyDown /\ ~f5 /\ keyDown' = FALSE /\ hook = "idle"
           /\ host' = FALSE
           /\ session' = FALSE \/ session' = session
           /\ UNCHANGED <<remote, toHook, toTap, queue, tap, tapHeld, tapActive,
                          f5, emitted, hook, phase, failed>>
<1>0. ~keyDown /\ ~f5 /\ hook = "idle"
  BY DEF AltInv, OneHold, Busy, WorkerRelease
<1>1. /\ rawPending' = FALSE
      /\ UNCHANGED <<remote, toHook, toTap, queue, tap, tapHeld, tapActive,
                     f5, emitted, hook, phase, failed>>
  BY DEF WorkerRelease, MicRelease
<1>2. host => active
  BY <1>0 DEF AltInv, HostOwed
<1>3. session /\ host => FALSE
  BY <1>0 DEF AltInv, AltClosed
<1>4. host \in BOOLEAN /\ active \in BOOLEAN /\ keyDown \in BOOLEAN
  BY DEF AltInv, IInv, TypeOK, VoiceFlags, HookFlags
<1>5. CASE active
  <2>1. Close /\ keyDown' = (keyDown /\ ~(session /\ active /\ ~active')) /\ session' = FALSE
    BY <1>5 DEF WorkerRelease, MicRelease, CloseVoice
  <2>2. /\ active' = FALSE
        /\ active /\ ~(session /\ ~keyDown) => host' = FALSE
        /\ ~active \/ (session /\ ~keyDown) => host' = host
    BY <2>1, AltCloses DEF AltInv, IInv
  <2> QED
    BY <1>0, <1>1, <1>3, <1>4, <1>5, <2>1, <2>2
<1>6. CASE ~active
  <2>1. active' = active /\ host' = host /\ keyDown' = keyDown /\ session' = session
    BY <1>6, Zenon DEF WorkerRelease, MicRelease, voiceVars
  <2> QED
    BY <1>0, <1>1, <1>2, <1>4, <1>6, <2>1
<1> QED
  BY <1>5, <1>6

\* The ATVV events open nothing and close nothing: they only clear latches.
LEMMA AltEvents ==
    ASSUME AltDisciplined, AltInv, MicButtonEvent \/ AudioStartedEvent \/ AudioStoppedEvent
    PROVE  /\ active' = active /\ host' = host /\ keyDown' = keyDown /\ physDown' = physDown
           /\ rawPending' = FALSE \/ rawPending' = rawPending
           /\ session' = FALSE \/ session' = session
           /\ UNCHANGED <<remote, toHook, toTap, queue, worker, tap, tapHeld, tapActive,
                          f5, emitted, hook, phase, failed>>
<1>0. ~OpensOnEvent /\ Preset # "toggle"
  BY DEF OpensOnEvent, AltDisciplined
<1>1. CASE MicButtonEvent
  BY <1>0, <1>1 DEF MicButtonEvent, ControlArrives, ConsumeLatch, voiceVars, lifeVars
<1>2. CASE AudioStartedEvent
  BY <1>0, <1>2 DEF AudioStartedEvent, ControlArrives, voiceVars, lifeVars
<1>3. CASE AudioStoppedEvent
  <2>1. CASE physDown
    BY <1>3, <2>1 DEF AudioStoppedEvent, ControlArrives, voiceVars
  <2>2. CASE ~physDown
    <3>1. ~active /\ Close /\ session' = FALSE
          /\ keyDown' = (keyDown /\ ~(session /\ active /\ ~active'))
      BY <1>3, <2>2 DEF AudioStoppedEvent, CloseVoice, AltInv, OpenHeld
    <3>2. active' = active /\ host' = host /\ keyDown' = keyDown
      BY <3>1 DEF Close, AltInv, IInv, TypeOK, HookFlags
    <3> QED
      BY <1>3, <3>1, <3>2 DEF AudioStoppedEvent, ControlArrives
  <2> QED
    BY <2>1, <2>2
<1> QED
  BY <1>1, <1>2, <1>3

\* The reset meets nothing of the transform but the key of an open session.
LEMMA AltReset ==
    ASSUME AltDisciplined, AltInv, ResetVoice
    PROVE  /\ active' = FALSE /\ host' = FALSE /\ rawPending' = FALSE
           /\ ~keyDown' /\ ~f5' /\ ~session' /\ ~emitted'
           /\ phase' = "reset"
           /\ UNCHANGED <<remote, toHook, toTap, queue, worker, tap, tapHeld, tapActive, hook>>
<1>1. /\ Close /\ phase = "drained" /\ phase' = "reset" /\ rawPending' = FALSE
      /\ ~keyDown' /\ ~f5' /\ ~session' /\ ~emitted'
      /\ UNCHANGED <<remote, toHook, toTap, queue, worker, tap, tapHeld, tapActive, hook>>
  BY DEF ResetVoice, NewPhase, envVars, threadVars
<1>2. hook = "idle" /\ ~Busy
  BY <1>1 DEF AltInv, Resting
<1>3. keyDown => active
  BY <1>2 DEF AltInv, AltSteps, KeyOpens
<1>4. host => active
  BY <1>2, <1>3 DEF AltInv, HostOwed
<1>5. session /\ ~keyDown => ~host
  BY <1>2 DEF AltInv, AltClosed
<1>6. /\ active' = FALSE
      /\ active /\ ~(session /\ ~keyDown) => host' = FALSE
      /\ ~active \/ (session /\ ~keyDown) => host' = host
  BY <1>1, AltCloses DEF AltInv, IInv
<1>7. host \in BOOLEAN
  BY DEF AltInv, IInv, TypeOK, VoiceFlags
<1> QED
  BY <1>1, <1>4, <1>5, <1>6, <1>7


\* The hook's report: it remembers the edge, and a press it remembers for the
\* first time finds room in the queue.
LEMMA AltReports ==
    ASSUME AltDisciplined, AltInv, HookReport
    PROVE  /\ f5' = (hook = "reportDown") /\ hook' = "idle" /\ emitted' = FALSE
           /\ session' = session \/ (hook = "reportDown" /\ (emitted \/ keyDown))
           /\ \/ queue' = queue /\ f5' = f5
              \/ /\ f5' # f5
                 /\ \/ hook = "reportUp" /\ queue' = queue
                    \/ queue' = Append(queue, [press |-> hook = "reportDown", handled |-> session'])
           /\ hook = "reportDown" /\ ~f5 => queue' # <<>>
           /\ UNCHANGED <<remote, toHook, toTap, worker, tap, tapHeld, tapActive, keyDown,
                          active, host, physDown, rawPending, phase, failed>>
<1> DEFINE press == hook = "reportDown"
<1>0. press \in BOOLEAN /\ hook' = "idle" /\ LegacyKeyEvent(press) /\ ~tapActive
      /\ hook \in {"reportDown", "reportUp"}
      /\ UNCHANGED <<remote, toHook, toTap, worker, tap, tapHeld, tapActive, keyDown,
                     active, host, physDown, rawPending, phase, failed>>
  BY DEF HookReport, envVars, latchVars, voiceVars, lifeVars, AltInv, NoTap
<1>1. f5 \in BOOLEAN /\ queue \in Seq(Edge) /\ session \in BOOLEAN /\ emitted \in BOOLEAN
      /\ QueueMax \in Nat \ {0} /\ Len(<<>>) = 0 /\ keyDown \in BOOLEAN
  BY BoundsAssumption DEF AltInv, IInv, TypeOK, HookFlags, QueueTypes
<1>2. (press /\ emitted => ~f5) /\ (~press /\ emitted => f5)
  BY <1>0 DEF AltInv, AltSteps
<1>3. press /\ ~f5 => queue = <<>>
  BY <1>0 DEF AltInv, OneHold, Busy
<1>4. \A e \in {[press |-> press, handled |-> session']} : Append(queue, e) # <<>>
  BY <1>1
<1> HIDE DEF press
<1>5. CASE f5 = press
  BY <1>0, <1>1, <1>2, <1>5 DEF LegacyKeyEvent, Duplicate, press
<1>6. CASE f5 # press
  <2>1. /\ f5' = press
        /\ session' = (session \/ (press /\ (emitted \/ keyDown)))
        /\ Enqueue(press, session')
        /\ emitted' = FALSE
    BY <1>0, <1>6, Zenon DEF LegacyKeyEvent, Duplicate
  <2>2. press => Len(queue) < QueueMax
    <3>1. press => queue = <<>>
      BY <1>1, <1>3, <1>6, Zenon
    <3> QED
      BY <1>1, <3>1
  <2>3. \/ queue' = queue /\ ~press
        \/ queue' = Append(queue, [press |-> press, handled |-> session'])
    BY <2>1, <2>2, Zenon DEF Enqueue
  <2> QED
    BY <1>0, <1>1, <1>4, <1>6, <2>1, <2>3, Zenon DEF press
<1> QED
  BY <1>5, <1>6

\* The hook's key lands.
LEMMA AltEmits ==
    ASSUME AltDisciplined, HookEmit
    PROVE  /\ \/ hook = "emitDown" /\ hook' = "reportDown" /\ host' = TRUE
              \/ hook = "emitUp" /\ hook' = "reportUp" /\ host' = FALSE
           /\ emitted' = TRUE
           /\ UNCHANGED <<remote, toHook, toTap, queue, worker, tap, tapHeld, tapActive,
                          keyDown, f5, session, active, physDown, rawPending, phase, failed>>
<1>1. ~CanFail("host")
  BY DEF CanFail, AltDisciplined
<1>2. /\ host' = (hook = "emitDown") /\ emitted' = TRUE /\ keyDown' = keyDown
      /\ hook \in {"emitDown", "emitUp"}
      /\ hook' = IF hook = "emitDown" THEN "reportDown" ELSE "reportUp"
  BY <1>1, Zenon DEF HookEmit
<1>3. UNCHANGED <<remote, toHook, toTap, queue, worker, tap, tapHeld, tapActive, f5, session,
                  active, physDown, rawPending, phase, failed>>
  BY DEF HookEmit, envVars, threadVars, latchVars, lifeVars
<1>4. CASE hook = "emitDown"
  BY <1>2, <1>3, <1>4
<1>5. CASE hook = "emitUp"
  BY <1>2, <1>3, <1>5
<1> QED
  BY <1>2, <1>4, <1>5

\* What every other step leaves alone.
AltQuiet ==
    UNCHANGED <<active, host, keyDown, session, emitted, f5, physDown, rawPending, hook>>

\* Nobody but the hook, the worker and the reset touches right-Alt.
LEMMA AltSplit ==
    ASSUME AltDisciplined, AltInv, [Next]_vars,
           ~LateThread, ~OutliveJoin
    PROVE  \/ HookTransform \/ HookEmit \/ HookReport
           \/ WorkerPress \/ WorkerRelease \/ ResetVoice
           \/ MicButtonEvent \/ AudioStartedEvent \/ AudioStoppedEvent
           \/ AltQuiet /\ (Busy /\ ~active => Busy')
<1>0. ~TapThread
  BY DEF TapThread, TapReport, TapLost, TapPress, TapRelease, TapOn, AltDisciplined,
     AltInv, NoTap
<1>1. opening # "none" => active
  BY DEF AltInv, IInv, OpeningLocked
<1>2. phase \notin {"hooked", "up"} => ~Busy
  BY DEF AltInv, Resting
<1> USE DEF AltQuiet, vars, envVars, hookVars, threadVars, latchVars, voiceVars,
            resourceVars, leaseVars, micVars, oldWorker, lifeVars, Busy
<1>3. CASE Environment
  BY <1>3 DEF Environment, PressButton, ReleaseButton, AutoRepeat
<1>4. CASE WorkerTake \/ WorkerExit
  BY <1>4 DEF WorkerTake, WorkerExit
<1>5. CASE FinishOpening
  BY <1>1, <1>5 DEF FinishOpening
<1>6. CASE WriteFails \/ Disconnect \/ SendMicOpen
  BY <1>6 DEF WriteFails, Disconnect, SendMicOpen
<1>7. CASE Connect \/ ConnectFails \/ StartListener \/ StopTap \/ StopEdges \/ StopHook
           \/ CloseBle \/ CloseAudio
  BY <1>7 DEF Connect, ConnectFails, StartListener, StopTap, StopEdges, StopHook,
     CloseBle, CloseAudio
<1>9. CASE StartWorker \/ JoinWorker
  <2>1. phase = "hooked" => worker = "off"
    BY DEF AltInv, IInv, ThreadLife
  <2> QED
    BY <1>2, <1>9, <2>1 DEF StartWorker, JoinWorker, NewPhase
<1>8. CASE Rest \/ UNCHANGED vars
  BY <1>8 DEF Rest
<1> QED
  BY <1>0, <1>3, <1>4, <1>5, <1>6, <1>7, <1>8, <1>9
     DEF Next, HookThread, WorkerThread, BleThread, Supervisor

\* The hook's steps keep their flags.
LEMMA AltStepsKept == AltDisciplined /\ AltInv /\ InTime /\ [Next]_vars => AltSteps'
<1> SUFFICES ASSUME AltDisciplined, AltInv, [Next]_vars, ~LateThread, ~OutliveJoin
             PROVE  AltSteps'
  BY DEF InTime
<1>0. keyDown \in BOOLEAN /\ f5 \in BOOLEAN /\ emitted \in BOOLEAN
  BY DEF AltInv, IInv, TypeOK, HookFlags
<1>a. AltSteps
  BY DEF AltInv
<1>b. hook = "reportUp" => ~keyDown
  BY DEF AltInv, OneHold
<1>1. CASE HookTransform
  BY <1>0, <1>1, <1>a DEF HookTransform, TransformDown, TransformUp, AltSteps
<1>2. CASE HookEmit
  <2>1. /\ \/ hook = "emitDown" /\ hook' = "reportDown"
           \/ hook = "emitUp" /\ hook' = "reportUp"
        /\ UNCHANGED <<keyDown, f5>>
    BY <1>2, AltEmits
  <2> QED
    BY <1>0, <1>a, <2>1 DEF AltSteps
<1>3. CASE HookReport
  <2>1. hook \in {"reportDown", "reportUp"}
    BY <1>3 DEF HookReport
  <2> QED
    BY <1>0, <1>3, <1>b, <2>1, AltReports DEF AltSteps
<1>4. CASE WorkerPress
  <2>1. UNCHANGED <<f5, keyDown, emitted, hook>>
    BY <1>4, AltPress
  <2> QED
    BY <1>a, <2>1 DEF AltSteps
<1>5. CASE WorkerRelease
  <2>1. ~keyDown' /\ UNCHANGED <<f5, emitted, hook>> /\ ~keyDown
    BY <1>5, AltRelease
  <2> QED
    BY <1>a, <2>1 DEF AltSteps
<1>6. CASE ResetVoice
  <2>1. hook = "idle"
    BY <1>6 DEF ResetVoice, NewPhase, AltInv, Resting
  <2> QED
    BY <1>6, <2>1, AltReset DEF AltSteps
<1>7. CASE MicButtonEvent \/ AudioStartedEvent \/ AudioStoppedEvent
  <2>1. UNCHANGED <<f5, keyDown, emitted, hook>>
    BY <1>7, AltEvents
  <2> QED
    BY <1>a, <2>1 DEF AltSteps
<1>8. CASE AltQuiet
  BY <1>8, <1>a DEF AltQuiet, AltSteps
<1> QED
  BY <1>1, <1>2, <1>3, <1>4, <1>5, <1>6, <1>7, <1>8, AltSplit

\* A press the hook has reported stays queued until it has opened a session.
LEMMA KeyOpensKept == AltDisciplined /\ AltInv /\ InTime /\ [Next]_vars => KeyOpens' /\ OpenHeld'
<1> SUFFICES ASSUME AltDisciplined, AltInv, [Next]_vars, ~LateThread, ~OutliveJoin
             PROVE  KeyOpens' /\ OpenHeld'
  BY DEF InTime
<1>0. keyDown \in BOOLEAN /\ f5 \in BOOLEAN /\ active \in BOOLEAN
  BY DEF AltInv, IInv, TypeOK, HookFlags, VoiceFlags
<1>a. KeyOpens /\ OpenHeld
  BY DEF AltInv
<1>b. (hook = "reportUp" => ~keyDown) /\ (hook = "emitDown" => ~f5) /\ (hook = "emitUp" => ~keyDown)
  BY DEF AltInv, AltSteps, OneHold
<1>1. CASE HookTransform
  <2>1. UNCHANGED <<f5, active, physDown, rawPending, queue, worker>>
        /\ (keyDown' /\ f5 => keyDown)
    BY <1>0, <1>1 DEF HookTransform, TransformDown, threadVars, voiceVars, latchVars
  <2> QED
    BY <1>a, <2>1 DEF KeyOpens, OpenHeld, Busy
<1>2. CASE HookEmit
  BY <1>2, <1>a, AltEmits DEF KeyOpens, OpenHeld, Busy
<1>3. CASE HookReport
  <2>0. hook \in {"reportDown", "reportUp"}
    BY <1>3 DEF HookReport
  <2>1. /\ UNCHANGED <<keyDown, active, physDown, rawPending, worker>>
        /\ hook = "reportDown" /\ ~f5 => queue' # <<>>
        /\ hook = "reportDown" /\ f5 => queue' = queue
    BY <1>0, <1>3, AltReports
  <2>2. keyDown => active' \/ Busy'
    BY <1>0, <1>a, <1>b, <2>0, <2>1 DEF KeyOpens, Busy
  <2> QED
    BY <1>a, <2>1, <2>2 DEF KeyOpens, OpenHeld
<1>4. CASE WorkerPress
  BY <1>4, AltPress DEF KeyOpens, OpenHeld
<1>5. CASE WorkerRelease
  BY <1>5, AltRelease DEF KeyOpens, OpenHeld
<1>6. CASE ResetVoice
  BY <1>6, AltReset DEF KeyOpens, OpenHeld
<1>7. CASE MicButtonEvent \/ AudioStartedEvent \/ AudioStoppedEvent
  <2>1. /\ UNCHANGED <<f5, keyDown, active, physDown, queue, worker>>
        /\ rawPending' = FALSE \/ rawPending' = rawPending
    BY <1>7, AltEvents
  <2> QED
    BY <1>a, <2>1 DEF KeyOpens, OpenHeld, Busy
<1>8. CASE AltQuiet /\ (Busy /\ ~active => Busy')
  BY <1>8, <1>a DEF AltQuiet, KeyOpens, OpenHeld
<1> QED
  BY <1>1, <1>2, <1>3, <1>4, <1>5, <1>6, <1>7, <1>8, AltSplit

\* No step leaves the key down with nobody to release it.
LEMMA AltOwedKept == AltDisciplined /\ AltInv /\ InTime /\ [Next]_vars => AltClosed' /\ HostOwed'
<1> SUFFICES ASSUME AltDisciplined, AltInv, [Next]_vars, ~LateThread, ~OutliveJoin
             PROVE  AltClosed' /\ HostOwed'
  BY DEF InTime
<1> USE DEF AltClosed, HostOwed
<1>0. keyDown \in BOOLEAN /\ f5 \in BOOLEAN /\ active \in BOOLEAN /\ host \in BOOLEAN
      /\ session \in BOOLEAN /\ emitted \in BOOLEAN
  BY DEF AltInv, IInv, TypeOK, HookFlags, VoiceFlags
<1>a. AltSteps /\ (session /\ ~keyDown /\ host => hook = "emitUp")
      /\ (host => keyDown \/ hook = "emitUp" \/ active)
  BY DEF AltInv
<1>b. (hook = "emitDown" => keyDown) /\ (hook = "reportDown" /\ emitted => keyDown)
  BY <1>a DEF AltSteps
<1>1. CASE HookTransform
  BY <1>0, <1>1, <1>a DEF HookTransform, voiceVars
<1>2. CASE HookEmit
  BY <1>0, <1>2, <1>b, AltEmits
<1>3. CASE HookReport
  <2>1. hook \in {"reportDown", "reportUp"}
    BY <1>3 DEF HookReport
  <2>2. /\ session' = session \/ keyDown
        /\ UNCHANGED <<keyDown, host, active>>
    BY <1>0, <1>3, <1>b, AltReports
  <2> QED
    BY <1>a, <2>1, <2>2
<1>4. CASE WorkerPress
  <2>1. /\ active' = TRUE /\ (host' = host \/ ~session)
        /\ UNCHANGED <<keyDown, session, hook>>
    BY <1>4, AltPress
  <2> QED
    BY <1>a, <2>1
<1>5. CASE WorkerRelease
  BY <1>5, AltRelease
<1>6. CASE ResetVoice
  BY <1>6, AltReset
<1>7. CASE MicButtonEvent \/ AudioStartedEvent \/ AudioStoppedEvent
  <2>1. /\ UNCHANGED <<active, host, keyDown, hook>>
        /\ session' = FALSE \/ session' = session
    BY <1>7, AltEvents
  <2> QED
    BY <1>a, <2>1
<1>8. CASE AltQuiet
  BY <1>8, <1>a DEF AltQuiet
<1> QED
  BY <1>1, <1>2, <1>3, <1>4, <1>5, <1>6, <1>7, <1>8, AltSplit

\* The tap stays out of a configuration without it.
LEMMA NoTapKept == AltDisciplined /\ AltInv /\ InTime /\ [Next]_vars => NoTap'
<1> SUFFICES ASSUME AltDisciplined, AltInv, [Next]_vars, ~LateThread, ~OutliveJoin
             PROVE  NoTap'
  BY DEF InTime
<1> USE DEF vars, envVars, hookVars, threadVars, latchVars, voiceVars,
            resourceVars, leaseVars, micVars, oldWorker, lifeVars
<1>0. tap = "idle" /\ ~tapHeld /\ ~tapActive
  BY DEF AltInv, NoTap
<1>1. CASE Environment
  <2>1. UNCHANGED <<tap, tapHeld, tapActive>>
    BY <1>1 DEF Environment, PressButton, ReleaseButton, AutoRepeat
  <2> QED
    BY <1>0, <2>1 DEF NoTap
<1>2. CASE HookThread
  <2>1. UNCHANGED <<tap, tapHeld, tapActive>>
    BY <1>2 DEF HookThread, HookTransform, HookEmit, HookReport
  <2> QED
    BY <1>0, <2>1 DEF NoTap
<1>3. CASE WorkerThread
  <2>1. UNCHANGED <<tap, tapHeld, tapActive>>
    BY <1>3 DEF WorkerThread, WorkerTake, WorkerPress, WorkerRelease, WorkerExit
  <2> QED
    BY <1>0, <2>1 DEF NoTap
<1>4. CASE TapThread
  BY <1>0, <1>4 DEF NoTap, TapThread, TapReport, TapLost, TapPress, TapRelease, TapOn,
     AltDisciplined
<1>5. CASE FinishOpening
  BY <1>0, <1>5 DEF NoTap, FinishOpening
<1>6. CASE MicButtonEvent \/ AudioStartedEvent \/ AudioStoppedEvent
  <2>1. UNCHANGED <<tap, tapHeld, tapActive>>
    BY <1>6, AltEvents
  <2> QED
    BY <1>0, <2>1 DEF NoTap
<1>7. CASE WriteFails \/ Disconnect \/ SendMicOpen
  <2>1. UNCHANGED <<tap, tapHeld, tapActive>>
    BY <1>7 DEF WriteFails, Disconnect, SendMicOpen
  <2> QED
    BY <1>0, <2>1 DEF NoTap
<1>8. CASE ResetVoice
  <2>1. UNCHANGED <<tap, tapHeld, tapActive>>
    BY <1>8 DEF ResetVoice
  <2> QED
    BY <1>0, <2>1 DEF NoTap
<1>9. CASE StopTap \/ StopEdges
  BY <1>0, <1>9 DEF NoTap, StopTap, StopEdges
<1>10. CASE Supervisor /\ ~ResetVoice /\ ~StopTap /\ ~StopEdges
  <2>1. UNCHANGED <<tap, tapHeld, tapActive>>
    BY <1>10 DEF Supervisor, Connect, ConnectFails, StartListener, StartWorker,
       JoinWorker, StopHook, CloseBle, CloseAudio
  <2> QED
    BY <1>0, <2>1 DEF NoTap
<1>11. CASE Rest \/ UNCHANGED vars
  <2>1. UNCHANGED <<tap, tapHeld, tapActive>>
    BY <1>11 DEF Rest
  <2> QED
    BY <1>0, <2>1 DEF NoTap
<1> QED
  BY <1>1, <1>2, <1>3, <1>4, <1>5, <1>6, <1>7, <1>8, <1>9, <1>10, <1>11 DEF Next, BleThread

\* The cleanup begins when every edge is dispatched, and no edge comes in between.
LEMMA RestingKept == AltDisciplined /\ AltInv /\ InTime /\ [Next]_vars => Resting'
<1> SUFFICES ASSUME AltDisciplined, AltInv, [Next]_vars, ~LateThread, ~OutliveJoin
             PROVE  Resting'
  BY DEF InTime
<1> USE DEF vars, envVars, hookVars, threadVars, latchVars, voiceVars,
            resourceVars, leaseVars, micVars, oldWorker, lifeVars
<1>0. phase \notin {"hooked", "up"} =>
        /\ toHook = <<>> /\ hook = "idle"
        /\ queue = <<>> /\ worker \in {"off", "idle"}
  BY DEF AltInv, Resting, Busy
<1>a. phase \in Lifecycle /\ "cleanupEdge" \notin Timings /\ "busyCleanup" \notin Timings
  BY DEF AltInv, IInv, TypeOK, ThreadTypes, AltDisciplined
<1> USE DEF Resting, Busy
<1>1. CASE PressButton \/ ReleaseButton \/ AutoRepeat
  BY <1>0, <1>1, <1>a DEF PressButton, ReleaseButton, AutoRepeat, Report, MayMove, HookOn
<1>2. CASE HookTransform \/ HookEmit \/ HookReport
  BY <1>0, <1>2 DEF HookTransform, HookEmit, HookReport
<1>3. CASE WorkerTake \/ WorkerExit
  BY <1>0, <1>3 DEF WorkerTake, WorkerExit
<1>4. CASE WorkerPress
  BY <1>0, <1>4, AltPress DEF WorkerPress
<1>5. CASE WorkerRelease
  BY <1>0, <1>5, AltRelease DEF WorkerRelease
<1>6. CASE TapThread
  BY <1>0, <1>6 DEF TapThread, TapReport, TapLost, TapPress, TapRelease, TapOn, AltDisciplined,
     AltInv, NoTap
<1>7. CASE FinishOpening
  BY <1>0, <1>7 DEF FinishOpening, NextWorker, StopIsSet
<1>8. CASE MicButtonEvent \/ AudioStartedEvent \/ AudioStoppedEvent
  BY <1>0, <1>8, AltEvents
<1>9. CASE WriteFails \/ Disconnect \/ SendMicOpen
  BY <1>0, <1>9 DEF WriteFails, Disconnect, SendMicOpen
<1>10. CASE StopTap
  BY <1>0, <1>10, <1>a DEF StopTap
<1>11. CASE ResetVoice
  BY <1>0, <1>11, AltReset DEF ResetVoice, NewPhase
<1>12. CASE Supervisor /\ ~StopTap /\ ~ResetVoice
  BY <1>0, <1>12 DEF Supervisor, Connect, ConnectFails, StartListener, StartWorker,
     StopEdges, JoinWorker, StopHook, CloseBle, CloseAudio, NewPhase
<1>13. CASE Rest \/ UNCHANGED vars
  BY <1>0, <1>13 DEF Rest
<1> QED
  BY <1>1, <1>2, <1>3, <1>4, <1>5, <1>6, <1>7, <1>8, <1>9, <1>10, <1>11, <1>12, <1>13
     DEF Next, Environment, HookThread, WorkerThread, BleThread

\* What the reset cleared stays clear until the next listener.
LEMMA ClearedKept == AltDisciplined /\ AltInv /\ InTime /\ [Next]_vars => Cleared'
<1> SUFFICES ASSUME AltDisciplined, AltInv, [Next]_vars, ~LateThread, ~OutliveJoin
             PROVE  Cleared'
  BY DEF InTime
<1>0. Cleared /\ Resting
  BY DEF AltInv
<1>1. CASE HookTransform \/ HookEmit \/ HookReport
  BY <1>0, <1>1 DEF HookTransform, HookEmit, HookReport, Resting, Cleared, AfterResetPhases,
     lifeVars
<1>2. CASE WorkerPress
  BY <1>0, <1>2, AltPress DEF Cleared
<1>3. CASE WorkerRelease
  <2>1. /\ ~keyDown' /\ (session' = FALSE \/ session' = session)
        /\ UNCHANGED <<f5, emitted, phase>>
    BY <1>3, AltRelease
  <2> QED
    BY <1>0, <2>1 DEF Cleared
<1>4. CASE ResetVoice
  BY <1>4, AltReset DEF Cleared
<1>5. CASE MicButtonEvent \/ AudioStartedEvent \/ AudioStoppedEvent
  <2>1. /\ session' = FALSE \/ session' = session
        /\ UNCHANGED <<keyDown, f5, emitted, phase>>
    BY <1>5, AltEvents
  <2> QED
    BY <1>0, <2>1 DEF Cleared
<1>6. CASE AltQuiet /\ ~ResetVoice
  <2>1. phase' \in AfterResetPhases => phase \in AfterResetPhases
    <3> USE DEF vars, envVars, hookVars, threadVars, latchVars, voiceVars,
                resourceVars, leaseVars, micVars, oldWorker, lifeVars, AfterResetPhases
    <3>1. CASE Environment \/ HookThread \/ WorkerThread
      BY <3>1 DEF Environment, PressButton, ReleaseButton, AutoRepeat, HookThread,
         HookTransform, HookEmit, HookReport, WorkerThread, WorkerTake, WorkerPress,
         WorkerRelease, WorkerExit, MicPress, MicRelease
    <3>2. CASE TapThread \/ FinishOpening
      BY <3>2 DEF TapThread, TapReport, TapLost, TapPress, TapRelease, FinishOpening,
         MicPress, MicRelease
    <3>3. CASE BleThread
      BY <3>3, AltEvents DEF BleThread, WriteFails, Disconnect, SendMicOpen
    <3>4. CASE Supervisor
      BY <1>6, <3>4 DEF Supervisor, Connect, ConnectFails, StartListener, StartWorker,
         StopTap, StopEdges, JoinWorker, StopHook, CloseBle, CloseAudio, NewPhase
    <3>5. CASE Rest \/ UNCHANGED vars
      BY <3>5 DEF Rest
    <3> QED
      BY <3>1, <3>2, <3>3, <3>4, <3>5 DEF Next
  <2>2. UNCHANGED <<keyDown, f5, session, emitted>>
    BY <1>6 DEF AltQuiet
  <2> QED
    BY <1>0, <2>1, <2>2 DEF Cleared
<1> QED
  BY <1>1, <1>2, <1>3, <1>4, <1>5, <1>6, AltSplit

\* The release of a hold is its last edge, and the next press waits for it.
LEMMA OneHoldKept == AltDisciplined /\ AltInv /\ InTime /\ [Next]_vars => OneHold'
<1> SUFFICES ASSUME AltDisciplined, AltInv, [Next]_vars, ~LateThread, ~OutliveJoin
             PROVE  OneHold'
  BY DEF InTime
<1> USE DEF vars, envVars, hookVars, threadVars, latchVars, voiceVars,
            resourceVars, leaseVars, micVars, oldWorker, lifeVars
<1>0. toHook \in Seq(Motion) /\ queue \in Seq(Edge) /\ keyDown \in BOOLEAN /\ f5 \in BOOLEAN
  BY DEF AltInv, IInv, TypeOK, QueueTypes, HookFlags
<1>a. /\ \A i \in 1..Len(toHook) : toHook[i] = "up" => ~remote /\ i = Len(toHook)
      /\ hook \in {"emitUp", "reportUp"} => ~remote /\ toHook = <<>> /\ ~keyDown
      /\ Busy /\ ~f5 => ~remote /\ toHook = <<>> /\ hook = "idle"
      /\ worker = "release" \/ (\E i \in 1..Len(queue) : ~queue[i].press) => ~f5 /\ ~keyDown
  BY DEF AltInv, OneHold
<1>p. "repress" \notin Timings
  BY DEF AltDisciplined
<1>1. CASE PressButton
  <2>1. toHook = <<>> /\ hook = "idle" /\ ~Busy
    BY <1>1, <1>p DEF PressButton, Settled, Busy
  <2>2. toHook' = <<"down">> \/ toHook' = <<>>
    BY <1>1, <2>1 DEF PressButton, Report
  <2>3. UNCHANGED <<hook, keyDown, f5, queue, worker>>
    BY <1>1 DEF PressButton
  <2>4. \A i \in 1..Len(toHook') : toHook'[i] # "up"
    BY <2>2
  <2>5. ~Busy'
    BY <2>1, <2>3 DEF Busy
  <2> QED
    BY <1>a, <2>1, <2>3, <2>4, <2>5 DEF OneHold
<1>2. CASE ReleaseButton
  <2>1. remote /\ ~remote' /\ (toHook' = Append(toHook, "up") \/ toHook' = toHook)
        /\ UNCHANGED <<hook, keyDown, f5, queue, worker>>
    BY <1>2 DEF ReleaseButton, Report
  <2>2. \A i \in 1..Len(toHook') : toHook'[i] = "up" => i = Len(toHook')
    BY <1>0, <1>a, <2>1 DEF Motion
  <2>3. hook \notin {"emitUp", "reportUp"} /\ ~(Busy /\ ~f5)
    BY <1>a, <2>1
  <2>4. Busy' = Busy
    BY <2>1 DEF Busy
  <2> QED
    BY <1>a, <2>1, <2>2, <2>3, <2>4 DEF OneHold
<1>3. CASE AutoRepeat
  <2>1. remote /\ toHook' = Append(toHook, "down")
        /\ UNCHANGED <<remote, hook, keyDown, f5, queue, worker>>
    BY <1>3 DEF AutoRepeat
  <2>2. \A i \in 1..Len(toHook') : toHook'[i] # "up"
    BY <1>0, <1>a, <2>1 DEF Motion
  <2>3. hook \notin {"emitUp", "reportUp"} /\ ~(Busy /\ ~f5)
    BY <1>a, <2>1
  <2>4. Busy' = Busy
    BY <2>1 DEF Busy
  <2> QED
    BY <1>a, <2>1, <2>2, <2>3, <2>4 DEF OneHold
<1>4. CASE HookTransform
  <2>1. /\ toHook # <<>> /\ toHook' = Tail(toHook) /\ hook = "idle"
        /\ UNCHANGED <<remote, f5, queue, worker>>
        /\ \/ Head(toHook) = "down" /\ hook' \in {"emitDown", "reportDown"}
           \/ Head(toHook) = "up" /\ hook' \in {"emitUp", "reportUp"} /\ ~keyDown'
        /\ keyDown' /\ ~keyDown => ~f5 /\ Head(toHook) = "down"
    BY <1>0, <1>4 DEF HookTransform, TransformDown, TransformUp, AltDisciplined
  <2>2. /\ \A i \in 1..Len(toHook') : toHook'[i] = "up" => ~remote' /\ i = Len(toHook')
        /\ Head(toHook) = "up" => ~remote' /\ toHook' = <<>>
    BY <1>0, <1>a, <2>1 DEF Motion
  <2>3. Busy' = Busy
    BY <2>1 DEF Busy
  <2>4. ~(Busy /\ ~f5)
    BY <1>a, <2>1
  <2>5. ~keyDown' \/ keyDown' = keyDown \/ ~f5
    BY <1>0, <2>1, TypeStep DEF AltInv, IInv, TypeOK, HookFlags
  <2>6. worker = "release" \/ (\E i \in 1..Len(queue) : ~queue[i].press) => Busy
    BY <1>0 DEF Busy
  <2> QED
    BY <1>a, <2>1, <2>2, <2>3, <2>4, <2>5, <2>6 DEF OneHold
<1>5. CASE HookEmit
  <2>1. /\ \/ hook = "emitDown" /\ hook' = "reportDown"
           \/ hook = "emitUp" /\ hook' = "reportUp"
        /\ UNCHANGED <<remote, toHook, keyDown, f5, queue, worker>>
    BY <1>5, AltEmits
  <2>2. Busy' = Busy
    BY <2>1 DEF Busy
  <2> QED
    BY <1>a, <2>1, <2>2 DEF OneHold
<1>6. CASE HookReport
  <2>1. /\ f5' = (hook = "reportDown") /\ hook' = "idle" /\ hook \in {"reportDown", "reportUp"}
        /\ \/ queue' = queue /\ f5' = f5
           \/ /\ f5' # f5
              /\ \/ hook = "reportUp" /\ queue' = queue
                 \/ queue' = Append(queue, [press |-> hook = "reportDown", handled |-> session'])
        /\ UNCHANGED <<remote, toHook, keyDown, worker>>
    BY <1>6, AltReports DEF HookReport
  <2>2. CASE hook = "reportDown"
    <3>1. \A i \in 1..Len(queue') : ~queue'[i].press => \E j \in 1..Len(queue) : ~queue[j].press
      <4> DEFINE edge == [press |-> hook = "reportDown", handled |-> session']
      <4>1. edge.press /\ (queue' = queue \/ queue' = Append(queue, edge))
        BY <2>1, <2>2
      <4>2. edge \in Edge
        BY TypeStep DEF AltInv, IInv, TypeOK, HookFlags, Edge
      <4> HIDE DEF edge
      <4> SUFFICES ASSUME NEW i \in 1..Len(queue'), ~queue'[i].press
                   PROVE  \E j \in 1..Len(queue) : ~queue[j].press
        OBVIOUS
      <4>3. CASE queue' = queue
        BY <4>3
      <4>4. CASE queue' = Append(queue, edge)
        <5>1. i \in 1..Len(queue) \/ queue'[i] = edge
          BY <1>0, <4>2, <4>4
        <5>2. i \in 1..Len(queue)
          BY <4>1, <5>1
        <5>3. queue'[i] = queue[i]
          BY <1>0, <4>2, <4>4, <5>2
        <5> QED
          BY <5>2, <5>3
      <4> QED
        BY <4>1, <4>3, <4>4
    <3>2. ~f5 => ~Busy
      BY <1>a, <2>2
    <3>3. worker = "release" \/ (\E i \in 1..Len(queue) : ~queue[i].press) => FALSE
      BY <1>0, <1>a, <3>2 DEF Busy
    <3> QED
      BY <1>a, <2>1, <2>2, <3>1, <3>3 DEF OneHold
  <2>3. CASE hook = "reportUp"
    <3>1. ~remote /\ toHook = <<>> /\ ~keyDown /\ f5' = FALSE
      BY <1>a, <2>1, <2>3
    <3> QED
      BY <1>a, <2>1, <3>1 DEF OneHold
  <2> QED
    BY <2>1, <2>2, <2>3
<1>7. CASE WorkerTake
  <2>1. /\ queue # <<>> /\ queue' = Tail(queue)
        /\ worker' = "release" => ~queue[1].press
        /\ UNCHANGED <<remote, toHook, hook, keyDown, f5>>
    BY <1>0, <1>7 DEF WorkerTake
  <2>2. (\E i \in 1..Len(queue') : ~queue'[i].press) => \E i \in 1..Len(queue) : ~queue[i].press
    BY <1>0, <2>1
  <2>3. 1 \in 1..Len(queue) /\ Busy
    BY <1>0, <2>1 DEF Busy
  <2> QED
    BY <1>a, <2>1, <2>2, <2>3 DEF OneHold
<1>8. CASE WorkerPress
  <2>1. UNCHANGED <<remote, toHook, hook, keyDown, f5, queue>> /\ worker' # "release" /\ Busy
    BY <1>8, AltPress DEF WorkerPress, NextWorker, StopIsSet, Busy
  <2> QED
    BY <1>a, <2>1 DEF OneHold
<1>9. CASE WorkerRelease
  <2>1. /\ UNCHANGED <<remote, toHook, hook, f5, queue>> /\ ~keyDown' /\ Busy
        /\ ~f5 /\ hook = "idle"
    BY <1>9, AltRelease DEF WorkerRelease, Busy
  <2> QED
    BY <1>a, <2>1 DEF OneHold
<1>10. CASE ResetVoice
  <2>1. /\ UNCHANGED <<remote, toHook, hook, queue, worker>> /\ ~keyDown' /\ ~f5'
        /\ hook = "idle" /\ ~Busy
    BY <1>10, AltReset DEF ResetVoice, NewPhase, AltInv, Resting
  <2>2. ~Busy'
    BY <2>1 DEF Busy
  <2> QED
    BY <1>a, <2>1, <2>2 DEF OneHold
<1>11. CASE MicButtonEvent \/ AudioStartedEvent \/ AudioStoppedEvent
  <2>1. UNCHANGED <<remote, toHook, hook, keyDown, f5, queue, worker>>
    BY <1>11, AltEvents
  <2> QED
    BY <1>a, <2>1 DEF OneHold, Busy
<1>12. CASE StopHook \/ JoinWorker
  <2>1. /\ toHook = <<>> /\ ~Busy /\ hook = "idle" /\ toHook' = <<>>
        /\ ~Busy' /\ queue' = <<>> /\ worker' # "release"
        /\ UNCHANGED <<remote, hook, keyDown, f5>>
    BY <1>12 DEF StopHook, JoinWorker, NewPhase, AltInv, Resting, Busy
  <2> QED
    BY <1>a, <2>1 DEF OneHold
<1>13. CASE FinishOpening \/ WorkerExit \/ StartWorker
  <2>1. phase = "hooked" => worker = "off"
    BY DEF AltInv, IInv, ThreadLife
  <2>2. /\ UNCHANGED <<remote, toHook, hook, keyDown, f5, queue>>
        /\ worker' = worker \/ worker' \in {"off", "idle"}
    BY <1>13, <2>1 DEF FinishOpening, WorkerExit, StartWorker, NewPhase, NextWorker, StopIsSet
  <2>3. Busy' => Busy
    BY <2>2 DEF Busy
  <2> QED
    BY <1>a, <2>2, <2>3 DEF OneHold
<1>14. CASE \/ WriteFails \/ Disconnect \/ SendMicOpen \/ Connect \/ ConnectFails \/ StartListener
            \/ StopTap \/ StopEdges \/ CloseBle \/ CloseAudio \/ Rest \/ UNCHANGED vars
  <2>1. UNCHANGED <<remote, toHook, hook, keyDown, f5, queue, worker>>
    BY <1>14 DEF WriteFails, Disconnect, SendMicOpen, Connect, ConnectFails, StartListener,
       StopTap, StopEdges, CloseBle, CloseAudio, Rest
  <2> QED
    BY <1>a, <2>1 DEF OneHold, Busy
<1>15. ~TapThread
  BY DEF TapThread, TapReport, TapLost, TapPress, TapRelease, TapOn, AltDisciplined,
     AltInv, NoTap
<1> QED
  BY <1>1, <1>2, <1>3, <1>4, <1>5, <1>6, <1>7, <1>8, <1>9, <1>10, <1>11, <1>12, <1>13, <1>14,
     <1>15
     DEF Next, Environment, HookThread, WorkerThread, BleThread, Supervisor

\* Where no join fails, no worker is outlived.
LEMMA AltInTime == AltDisciplined /\ AltInv => InTime
  BY DEF AltDisciplined, AltInv, IInv, NoLate, InTime, OutliveJoin, CanFail,
     LateThread, LatePress, LateRelease, LateTake, LateExit

\* The invariant of right-Alt holds at the start and is kept.
LEMMA AltInvariance == AltDisciplined => (Spec => []AltInv)
<1> SUFFICES ASSUME AltDisciplined PROVE Spec => []AltInv
  OBVIOUS
<1>1. Init => AltInv
  <2> SUFFICES ASSUME Init PROVE AltInv
    OBVIOUS
  <2>1. NoTap /\ Resting /\ Cleared /\ OneHold /\ AltSteps
    BY DEF Init, NoTap, Resting, Busy, Cleared, AfterResetPhases, OneHold, AltSteps
  <2>2. KeyOpens /\ OpenHeld /\ AltClosed /\ HostOwed
    BY DEF Init, KeyOpens, OpenHeld, AltClosed, HostOwed
  <2> QED
    BY <2>1, <2>2, IInvInit DEF AltInv
<1>2. AltInv /\ [Next]_vars => AltInv'
  <2> SUFFICES ASSUME AltInv, [Next]_vars PROVE AltInv'
    OBVIOUS
  <2>0. InTime
    BY AltInTime
  <2>1. TypeOK' /\ NoLate' /\ ThreadLife' /\ OpeningLocked' /\ AfterReset' /\ OwnersReleased'
    BY <2>0, TypeStep, NoLateKept, ThreadLifeKept, OpeningLockedKept, AfterResetKept,
       OwnersReleasedKept DEF AltInv, IInv
  <2>2. OwedSessionReconnects' /\ NoTransform' /\ Latched' /\ HostMatchesController'
    BY <2>0, OwedSessionReconnectsKept, NoTransformKept, LatchedKept, HostKept DEF AltInv
  <2>3. IInv'
    BY <2>1, <2>2 DEF IInv
  <2> QED
    BY <2>0, <2>3, NoTapKept, RestingKept, ClearedKept, OneHoldKept, AltStepsKept,
       KeyOpensKept, AltOwedKept DEF AltInv
<1> QED
  BY <1>1, <1>2, PTL DEF Spec

\* Right-Alt is never down without somebody who will release it: the hook, which
\* still waits for the F5 key-up or is sending the release, or the session that
\* the worker or the cleanup closes (_transform_legacy_voice_key,
\* _dispatch_voice_mic_edge, _cleanup_once).
THEOREM AltOwned == ASSUME AltDisciplined PROVE Spec => []HostOwed
<1>1. AltInv => HostOwed
  BY DEF AltInv
<1> QED
  BY <1>1, AltInvariance, PTL

-----------------------------------------------------------------------------
(* One press, two observers that may act on it: whose it is, and that its    *)
(* release is still to come.                                                 *)

\* The runs in which the edges of two holds never mix: a hold begins when the
\* last one has been dispatched and no cleanup runs, and the tap reports an
\* edge before the hook does.
HoldByHold == Timings \cap {"repress", "tapLate", "cleanupEdge"} = {}

Has(edges, motion) == \E i \in 1..Len(edges) : edges[i] = motion
UpLast(edges) == \A i \in 1..Len(edges) : edges[i] = "up" => i = Len(edges)

\* A press, and a release, that the worker has still to dispatch.
PressInHand ==
    worker \in {"press", "handledPress"} \/ \E i \in 1..Len(queue) : queue[i].press
ReleaseQueued == \E i \in 1..Len(queue) : ~queue[i].press

\* The hook's side of a hold: its release is still to come while the hook
\* remembers its press, and the hook has seen all of it once the release waits
\* for the worker.
HookSide ==
    /\ UpLast(toHook) /\ (Has(toHook, "up") => ~remote)
    /\ hook \in {"emitUp", "reportUp"} => ~remote /\ toHook = <<>>
    /\ f5 \/ hook \in {"emitDown", "reportDown"} \/ Has(toHook, "down") =>
           remote \/ hook \in {"emitUp", "reportUp"} \/ Has(toHook, "up")
    /\ Busy /\ ~f5 => ~remote /\ toHook = <<>> /\ hook = "idle"
    /\ worker = "release" \/ ReleaseQueued => ~f5

\* Without a connection the hook's side rests.
HookRests ==
    /\ phase \notin {"hooked", "up"} => toHook = <<>> /\ hook = "idle"
    /\ phase \notin {"hooked", "up", "untapping", "stopping"} => ~Busy
    /\ phase \notin {"hooked", "up", "untapping", "stopping", "drained"} => ~f5

\* The tap's side: the hook has nothing in hand of a hold that is the tap's, and
\* a session of such a hold ends with it.
TapSide ==
    /\ UpLast(toTap) /\ (Has(toTap, "up") => ~remote)
    /\ tapHeld \/ Has(toTap, "down") => remote \/ Has(toTap, "up")
    /\ ~TapOn => toTap = <<>> /\ ~tapHeld
    /\ tap = "press" => tapHeld
    /\ opening = "tap" => tap = "press"
    /\ tapActive \/ Has(toTap, "down") => ~Busy /\ ~f5
    /\ Has(toTap, "down") => hook = "idle"
    /\ tapActive /\ physDown => tapHeld \/ tap = "release"

\* A queue that takes the two edges of a hold drops neither.
EdgesKept ==
    QueueMax >= 2 =>
        /\ \A i \in 1..Len(queue) : ~queue[i].press => i = Len(queue)
        /\ f5 => Len(queue) <= 1
        /\ PressInHand /\ ~f5 => ReleaseQueued

Sides == HookSide /\ HookRests /\ TapSide /\ EdgesKept

\* What an observer finds behind an edge that was added.
LEMMA EdgesAppend ==
    ASSUME NEW s \in Seq(Motion), NEW m \in Motion
    PROVE  /\ \A x : Has(Append(s, m), x) <=> Has(s, x) \/ x = m
           /\ ~Has(s, "up") => UpLast(Append(s, m))
<1>1. /\ Len(Append(s, m)) = Len(s) + 1 /\ Len(s) \in Nat
      /\ Append(s, m)[Len(s) + 1] = m
      /\ \A i \in 1..Len(s) : Append(s, m)[i] = s[i]
  OBVIOUS
<1>2. \A i \in 1..(Len(s) + 1) : i \in 1..Len(s) \/ i = Len(s) + 1
  BY <1>1
<1>3. (Len(s) + 1) \in 1..(Len(s) + 1) /\ \A i \in 1..Len(s) : i \in 1..(Len(s) + 1)
  BY <1>1
<1>4. ASSUME NEW x PROVE Has(Append(s, m), x) <=> Has(s, x) \/ x = m
  BY <1>1, <1>2, <1>3, Zenon DEF Has
<1>5. ~Has(s, "up") => UpLast(Append(s, m))
  BY <1>1, <1>2, Zenon DEF Has, UpLast
<1> QED
  BY <1>4, <1>5

\* ... and behind the one it takes.
LEMMA EdgesTail ==
    ASSUME NEW s \in Seq(Motion), s # <<>>
    PROVE  /\ \A x : Has(s, x) <=> Head(s) = x \/ Has(Tail(s), x)
           /\ UpLast(s) => UpLast(Tail(s)) /\ (Head(s) = "up" => Tail(s) = <<>>)
           /\ Head(s) \in Motion
<1>1. /\ Len(s) \in Nat /\ Len(s) > 0 /\ Len(Tail(s)) = Len(s) - 1 /\ Head(s) = s[1]
      /\ \A i \in 1..Len(Tail(s)) : Tail(s)[i] = s[i + 1]
      /\ Tail(s) \in Seq(Motion) /\ Head(s) \in Motion
  OBVIOUS
<1>2. ASSUME NEW x PROVE Has(s, x) <=> Head(s) = x \/ Has(Tail(s), x)
  <2>1. ASSUME Has(s, x), Head(s) # x PROVE Has(Tail(s), x)
    <3>1. PICK i \in 1..Len(s) : s[i] = x
      BY <2>1 DEF Has
    <3>2. i - 1 \in 1..Len(Tail(s)) /\ (i - 1) + 1 = i
      BY <1>1, <2>1, <3>1
    <3> QED
      BY <1>1, <3>1, <3>2 DEF Has
  <2>2. ASSUME Head(s) = x PROVE Has(s, x)
    BY <1>1, <2>2 DEF Has
  <2>3. ASSUME Has(Tail(s), x) PROVE Has(s, x)
    <3>1. PICK i \in 1..Len(Tail(s)) : Tail(s)[i] = x
      BY <2>3 DEF Has
    <3>2. i + 1 \in 1..Len(s)
      BY <1>1
    <3> QED
      BY <1>1, <3>1, <3>2 DEF Has
  <2> QED
    BY <2>1, <2>2, <2>3
<1>3. ASSUME UpLast(s) PROVE UpLast(Tail(s)) /\ (Head(s) = "up" => Tail(s) = <<>>)
  <2>1. ASSUME NEW i \in 1..Len(Tail(s)), Tail(s)[i] = "up" PROVE i = Len(Tail(s))
    <3>1. i + 1 \in 1..Len(s) /\ s[i + 1] = "up"
      BY <1>1, <2>1
    <3>2. i + 1 = Len(s)
      BY <1>3, <3>1 DEF UpLast
    <3>3. i \in Nat /\ Len(s) \in Nat /\ Len(Tail(s)) = Len(s) - 1
      BY <1>1
    <3>4. \A a, b \in Nat : a + 1 = b => a = b - 1
      OBVIOUS
    <3> QED
      BY <3>2, <3>3, <3>4, Zenon
  <2>2. ASSUME Head(s) = "up" PROVE Tail(s) = <<>>
    <3>1. 1 \in 1..Len(s) /\ s[1] = "up"
      BY <1>1, <2>2
    <3>2. Len(s) = 1
      BY <1>3, <3>1 DEF UpLast
    <3>3. Len(Tail(s)) = 0
      BY <1>1, <3>2
    <3>4. \A t \in Seq(Motion) : Len(t) = 0 => t = <<>>
      OBVIOUS
    <3> QED
      BY <1>1, <3>3, <3>4, Zenon
  <2> QED
    BY <2>1, <2>2 DEF UpLast
<1> QED
  BY <1>1, <1>2, <1>3

\* An observer that has seen everything.
LEMMA NoEdges == UpLast(<<>>) /\ \A x : ~Has(<<>>, x)
BY DEF UpLast, Has

\* What dispatching an edge, the ATVV events and the rest of the lifecycle leave
\* of the edges: the dispatching thread is done with its own.
Dispatches ==
    /\ UNCHANGED <<remote, toHook, toTap, hook, f5, queue, tapHeld, tapActive>>
    /\ worker' = worker \/ worker' \in {"off", "idle"}
    /\ \/ tap' = tap
       \/ tap = "press" /\ tap' = "idle"
       \/ tap = "release" /\ tap' = "idle" /\ ~physDown'
    /\ physDown' => physDown \/ tap = "press" \/ worker \in {"press", "handledPress"}
    /\ opening' = "tap" => tap' = "press"
    /\ \/ phase' = phase
       \/ phase = "down" /\ phase' \in {"ble", "untapping"}
       \/ phase = "ble" /\ phase' = "hooked"
       \/ phase = "hooked" /\ phase' = "up"
       \/ phase = "unhooked" /\ phase' = "closed"
       \/ phase = "closed" /\ phase' \in {"down", "dead"}

\* Steps that move an edge, or end a part of its way.
EdgeMoves ==
    \/ PressButton \/ ReleaseButton \/ AutoRepeat
    \/ HookTransform \/ HookEmit \/ HookReport
    \/ WorkerTake \/ TapReport \/ TapLost
    \/ StopTap \/ StopEdges \/ JoinWorker \/ ResetVoice \/ StopHook

\* Every step moves an edge or is one of the others.
LEMMA EdgeSplit ==
    ASSUME IInv, opening = "tap" => tap = "press", [Next]_vars,
           ~LateThread, ~OutliveJoin
    PROVE  EdgeMoves \/ Dispatches
<1> USE DEF vars, envVars, hookVars, threadVars, latchVars, voiceVars, resourceVars,
            leaseVars, micVars, oldWorker, lifeVars
<1>1. CASE WorkerPress
  <2>1. UNCHANGED <<remote, toHook, toTap, hook, f5, queue, tapHeld, tapActive, tap, phase>>
    BY <1>1 DEF WorkerPress, MicPress
  <2>2. opening' # "tap" /\ (worker' = worker \/ worker' \in {"off", "idle"})
    BY <1>1 DEF WorkerPress, MicPress, OpenVoice, NextWorker, StopIsSet, LockFree
  <2>3. worker \in {"press", "handledPress"}
    BY <1>1 DEF WorkerPress
  <2> QED
    BY <2>1, <2>2, <2>3 DEF Dispatches
<1>2. CASE WorkerRelease
  <2>1. UNCHANGED <<remote, toHook, toTap, hook, f5, queue, tapHeld, tapActive, tap, phase,
                    opening>>
    BY <1>2 DEF WorkerRelease, MicRelease
  <2>2. physDown' = FALSE /\ worker' \in {"off", "idle"}
    BY <1>2 DEF WorkerRelease, MicRelease, NextWorker, StopIsSet
  <2> QED
    BY <2>1, <2>2 DEF Dispatches
<1>3. CASE TapPress
  <2>1. UNCHANGED <<remote, toHook, toTap, hook, f5, queue, tapHeld, tapActive, worker, phase>>
    BY <1>3 DEF TapPress, MicPress
  <2>2. tap = "press" /\ (tap' = tap \/ tap' = "idle") /\ (opening' = "tap" => tap' = "press")
    BY <1>3 DEF TapPress
  <2> QED
    BY <2>1, <2>2 DEF Dispatches
<1>4. CASE TapRelease
  <2>1. UNCHANGED <<remote, toHook, toTap, hook, f5, queue, tapHeld, tapActive, worker, phase,
                    opening>>
    BY <1>4 DEF TapRelease, MicRelease
  <2>2. tap = "release" /\ tap' = "idle" /\ physDown' = FALSE
    BY <1>4 DEF TapRelease, MicRelease
  <2> QED
    BY <2>1, <2>2 DEF Dispatches
<1>5. CASE FinishOpening
  <2>1. UNCHANGED <<remote, toHook, toTap, hook, f5, queue, tapHeld, tapActive, phase, physDown>>
    BY <1>5 DEF FinishOpening
  <2>2. opening' = "none" /\ (worker' = worker \/ worker' \in {"off", "idle"})
    BY <1>5 DEF FinishOpening, NextWorker, StopIsSet
  <2>3. tap' = tap \/ (tap = "press" /\ tap' = "idle")
    BY <1>5 DEF FinishOpening
  <2> QED
    BY <2>1, <2>2, <2>3 DEF Dispatches
<1>6. CASE MicButtonEvent \/ AudioStartedEvent \/ AudioStoppedEvent
  <2>1. UNCHANGED <<remote, toHook, toTap, hook, f5, queue, tapHeld, tapActive, worker, tap>>
    BY <1>6 DEF MicButtonEvent, AudioStartedEvent, AudioStoppedEvent, ControlArrives
  <2>2. UNCHANGED <<phase, physDown>>
    BY <1>6 DEF MicButtonEvent, AudioStartedEvent, AudioStoppedEvent
  <2>3. LockFree /\ opening' # "tap"
    BY <1>6 DEF MicButtonEvent, AudioStartedEvent, AudioStoppedEvent, ControlArrives, OpenVoice,
       LockFree
  <2> QED
    BY <2>1, <2>2, <2>3 DEF Dispatches
<1>7. CASE WorkerExit \/ WriteFails \/ Disconnect \/ SendMicOpen \/ Rest \/ UNCHANGED vars
  BY <1>7 DEF WorkerExit, WriteFails, Disconnect, SendMicOpen, Rest, Dispatches
<1>8. CASE Connect \/ ConnectFails \/ StartListener \/ StartWorker \/ CloseBle \/ CloseAudio
  BY <1>8 DEF Connect, ConnectFails, StartListener, StartWorker, CloseBle, CloseAudio, NewPhase,
     Dispatches
<1> QED
  BY <1>1, <1>2, <1>3, <1>4, <1>5, <1>6, <1>7, <1>8 DEF Next, Environment, HookThread,
     WorkerThread, TapThread, BleThread, Supervisor, EdgeMoves

\* What the hook's report does to its own flag and to the queue.
LEMMA ReportKeeps ==
    ASSUME TypeOK, HookReport
    PROVE  /\ UNCHANGED <<remote, toHook, toTap, worker, tap, tapHeld, tapActive, opening,
                          physDown, phase>>
           /\ hook \in {"reportDown", "reportUp"} /\ hook' = "idle"
           /\ \/ (tapActive \/ f5 = (hook = "reportDown")) /\ UNCHANGED <<f5, queue>>
              \/ /\ ~tapActive /\ f5 = (hook = "reportUp") /\ f5' = (hook = "reportDown")
                 /\ \/ Len(queue) >= QueueMax /\ UNCHANGED queue
                    \/ \E e \in Edge : /\ e.press = (hook = "reportDown")
                                       /\ queue' = Append(queue, e)
<1>1. /\ UNCHANGED <<remote, toHook, toTap, worker, tap, tapHeld, tapActive, opening,
                     physDown, phase>>
      /\ hook \in {"reportDown", "reportUp"} /\ hook' = "idle"
  BY DEF HookReport, envVars, latchVars, lifeVars
<1> DEFINE press == hook = "reportDown"
<1>2. press \in BOOLEAN /\ LegacyKeyEvent(press) /\ f5 \in BOOLEAN /\ (~press <=> hook = "reportUp")
  BY <1>1 DEF HookReport, TypeOK, HookFlags
<1> HIDE DEF press
<1>3. CASE Duplicate(press)
  <2>1. UNCHANGED <<f5, queue>>
    BY <1>2, <1>3 DEF LegacyKeyEvent
  <2> QED
    BY <1>1, <1>3, <2>1 DEF Duplicate, press
<1>4. CASE ~Duplicate(press)
  <2>1. f5' = press /\ ~tapActive /\ f5 # press
    BY <1>2, <1>4 DEF LegacyKeyEvent, Duplicate
  <2>2. f5 = (hook = "reportUp")
    BY <1>2, <2>1
  <2>3. Enqueue(press, session')
    BY <1>2, <1>4 DEF LegacyKeyEvent
  <2>4. session' \in BOOLEAN
    BY TypeStep DEF HookReport, Next, HookThread, TypeOK, HookFlags
  <2>5. [press |-> press, handled |-> session'] \in Edge
    BY <1>2, <2>4 DEF Edge
  <2>6. \/ Len(queue) >= QueueMax /\ UNCHANGED queue
        \/ \E e \in Edge : e.press = press /\ queue' = Append(queue, e)
    <3>1. CASE Len(queue) < QueueMax
      BY <2>3, <2>5, <3>1 DEF Enqueue
    <3>2. CASE ~(Len(queue) < QueueMax)
      <4>1. Len(queue) \in Nat /\ QueueMax \in Nat
        BY BoundsAssumption DEF TypeOK, QueueTypes
      <4> QED
        BY <2>3, <3>2, <4>1 DEF Enqueue
    <3> QED
      BY <3>1, <3>2
  <2> QED
    BY <1>1, <2>1, <2>2, <2>6 DEF press
<1> QED
  BY <1>3, <1>4

\* What the hook remembers has its release still to come.
LEMMA HookSideKept ==
    ASSUME HoldByHold, IInv, Sides, [Next]_vars,
           ~LateThread, ~OutliveJoin
    PROVE  HookSide'
<1> USE DEF vars, envVars, hookVars, threadVars, latchVars, voiceVars, resourceVars,
            leaseVars, micVars, oldWorker, lifeVars
<1>0. /\ toHook \in Seq(Motion) /\ queue \in Seq(Edge)
      /\ f5 \in BOOLEAN /\ remote \in BOOLEAN /\ tapActive \in BOOLEAN
  BY DEF IInv, TypeOK, QueueTypes, HookFlags, EdgeFlags
<1>a. /\ UpLast(toHook) /\ (Has(toHook, "up") => ~remote)
      /\ hook \in {"emitUp", "reportUp"} => ~remote /\ toHook = <<>>
      /\ f5 \/ hook \in {"emitDown", "reportDown"} \/ Has(toHook, "down") =>
             remote \/ hook \in {"emitUp", "reportUp"} \/ Has(toHook, "up")
      /\ Busy /\ ~f5 => ~remote /\ toHook = <<>> /\ hook = "idle"
      /\ worker = "release" \/ ReleaseQueued => ~f5
  BY DEF Sides, HookSide
<1>b. tapActive => ~Busy /\ ~f5
  BY DEF Sides, TapSide
<1>c. phase \notin {"hooked", "up", "untapping", "stopping"} => ~Busy
  BY DEF Sides, HookRests
<1>1. CASE PressButton
  <2>1. toHook = <<>> /\ hook = "idle" /\ ~Busy /\ remote'
        /\ UNCHANGED <<hook, f5, queue, worker>>
    BY <1>1 DEF PressButton, Settled, Busy, HoldByHold
  <2>2. toHook' = <<>> \/ toHook' = Append(<<>>, "down")
    BY <1>1, <2>1 DEF PressButton, Report
  <2>3. UpLast(toHook') /\ ~Has(toHook', "up")
    <3>1. "down" \in Motion /\ <<>> \in Seq(Motion) /\ "down" # "up"
      BY DEF Motion
    <3>2. UpLast(Append(<<>>, "down")) /\ ~Has(Append(<<>>, "down"), "up")
      BY <3>1, NoEdges, EdgesAppend, Zenon
    <3> QED
      BY <2>2, <3>2, NoEdges, Zenon
  <2>4. ~Busy' /\ ReleaseQueued' = ReleaseQueued
    BY <2>1 DEF Busy, ReleaseQueued
  <2> QED
    BY <1>a, <2>1, <2>3, <2>4 DEF HookSide
<1>2. CASE ReleaseButton
  <2>1. remote /\ ~remote' /\ UNCHANGED <<hook, f5, queue, worker>>
    BY <1>2 DEF ReleaseButton
  <2>2. hook \notin {"emitUp", "reportUp"} /\ ~(Busy /\ ~f5) /\ ~Has(toHook, "up")
    BY <1>a, <2>1
  <2>3. Busy' = Busy /\ ReleaseQueued' = ReleaseQueued
    BY <2>1 DEF Busy, ReleaseQueued
  <2>4. CASE HookOn
    <3>1. toHook' = Append(toHook, "up") /\ "up" \in Motion
      BY <1>2, <2>4 DEF ReleaseButton, Report, Motion
    <3>2. UpLast(toHook') /\ Has(toHook', "up")
      BY <1>0, <2>2, <3>1, EdgesAppend
    <3> QED
      BY <1>a, <2>1, <2>2, <2>3, <3>2 DEF HookSide
  <2>5. CASE ~HookOn
    <3>1. toHook' = toHook /\ toHook = <<>> /\ hook = "idle" /\ ~f5
      BY <1>2, <2>5 DEF ReleaseButton, Report, Sides, HookRests, HookOn
    <3>2. UpLast(toHook) /\ ~Has(toHook, "up") /\ ~Has(toHook, "down")
      BY <3>1, NoEdges
    <3> QED
      BY <1>a, <2>1, <2>2, <2>3, <3>1, <3>2 DEF HookSide
  <2> QED
    BY <2>4, <2>5
<1>3. CASE AutoRepeat
  <2>1. /\ remote /\ remote' /\ toHook' = Append(toHook, "down")
        /\ UNCHANGED <<hook, f5, queue, worker>>
    BY <1>3 DEF AutoRepeat
  <2>2. hook \notin {"emitUp", "reportUp"} /\ ~(Busy /\ ~f5) /\ ~Has(toHook, "up")
    BY <1>a, <2>1
  <2>3. Busy' = Busy /\ ReleaseQueued' = ReleaseQueued
    BY <2>1 DEF Busy, ReleaseQueued
  <2>4. UpLast(toHook') /\ ~Has(toHook', "up")
    <3>1. "down" \in Motion
      BY DEF Motion
    <3> QED
      BY <1>0, <2>1, <2>2, <3>1, EdgesAppend
  <2> QED
    BY <1>a, <2>1, <2>2, <2>3, <2>4 DEF HookSide
<1>4. CASE HookTransform
  <2>1. /\ toHook # <<>> /\ toHook' = Tail(toHook) /\ hook = "idle"
        /\ UNCHANGED <<remote, f5, queue, worker>>
        /\ \/ Head(toHook) = "down" /\ hook' \in {"emitDown", "reportDown"}
           \/ Head(toHook) = "up" /\ hook' \in {"emitUp", "reportUp"}
    BY <1>4 DEF HookTransform
  <2>2. /\ UpLast(Tail(toHook)) /\ (Head(toHook) = "up" => Tail(toHook) = <<>>)
        /\ \A x : Has(toHook, x) <=> Head(toHook) = x \/ Has(Tail(toHook), x)
    BY <1>0, <1>a, <2>1, EdgesTail
  <2>3. ~(Busy /\ ~f5) /\ Busy' = Busy /\ ReleaseQueued' = ReleaseQueued
    BY <1>a, <2>1 DEF Busy, ReleaseQueued
  <2>4. CASE Head(toHook) = "down"
    <3>1. hook' \in {"emitDown", "reportDown"} /\ Has(toHook, "down")
      BY <2>1, <2>2, <2>4
    <3>2. Has(toHook', "up") <=> Has(toHook, "up")
      BY <2>1, <2>2, <2>4
    <3> QED
      BY <1>a, <2>1, <2>2, <2>3, <3>1, <3>2 DEF HookSide
  <2>5. CASE Head(toHook) = "up"
    <3>1. hook' \in {"emitUp", "reportUp"} /\ Has(toHook, "up") /\ toHook' = <<>>
      BY <2>1, <2>2, <2>5
    <3>2. UpLast(toHook') /\ ~Has(toHook', "up")
      BY <3>1, NoEdges
    <3> QED
      BY <1>a, <2>1, <2>3, <3>1, <3>2 DEF HookSide
  <2> QED
    BY <2>1, <2>4, <2>5
<1>5. CASE HookEmit
  <2>1. /\ \/ hook = "emitDown" /\ hook' = "reportDown"
           \/ hook = "emitUp" /\ hook' = "reportUp"
        /\ UNCHANGED <<remote, toHook, f5, queue, worker>>
    BY <1>5 DEF HookEmit
  <2>2. Busy' = Busy /\ ReleaseQueued' = ReleaseQueued
    BY <2>1 DEF Busy, ReleaseQueued
  <2> QED
    BY <1>a, <2>1, <2>2 DEF HookSide
<1>6. CASE HookReport
  <2>1. /\ UNCHANGED <<remote, toHook, worker>>
        /\ hook \in {"reportDown", "reportUp"} /\ hook' = "idle"
        /\ \/ (tapActive \/ f5 = (hook = "reportDown")) /\ UNCHANGED <<f5, queue>>
           \/ /\ ~tapActive /\ f5 = (hook = "reportUp") /\ f5' = (hook = "reportDown")
              /\ \/ UNCHANGED queue
                 \/ \E e \in Edge : /\ e.press = (hook = "reportDown")
                                    /\ queue' = Append(queue, e)
    BY <1>6, ReportKeeps DEF IInv
  <2>2. CASE hook = "reportDown"
    <3>1. remote \/ Has(toHook, "up")
      BY <1>a, <2>2
    <3>2. CASE UNCHANGED <<f5, queue>> /\ (tapActive \/ f5)
      <4>1. Busy' = Busy /\ ReleaseQueued' = ReleaseQueued
        BY <2>1, <3>2 DEF Busy, ReleaseQueued
      <4>2. ~(Busy /\ ~f5)
        BY <1>b, <3>2
      <4> QED
        BY <1>a, <2>1, <3>1, <3>2, <4>1, <4>2 DEF HookSide
    <3>3. CASE ~f5 /\ f5'
      <4>1. ~Busy
        BY <1>a, <2>2, <3>3
      <4>2. queue = <<>> /\ worker # "release"
        BY <4>1 DEF Busy
      <4>3. queue' = queue \/ \E e \in Edge : e.press /\ queue' = Append(queue, e)
        BY <2>1, <2>2, <3>3
      <4>4. ~ReleaseQueued'
        <5>1. CASE queue' = queue
          BY <4>2, <5>1 DEF ReleaseQueued
        <5>2. ASSUME NEW e \in Edge, e.press, queue' = Append(queue, e) PROVE ~ReleaseQueued'
          <6>1. queue' = <<e>>
            BY <4>2, <5>2
          <6> QED
            BY <5>2, <6>1 DEF ReleaseQueued
        <5> QED
          BY <4>3, <5>1, <5>2
      <4> QED
        BY <1>a, <2>1, <3>1, <3>3, <4>2, <4>4 DEF HookSide
    <3> QED
      BY <2>1, <2>2, <3>2, <3>3, <1>0
  <2>3. CASE hook = "reportUp"
    <3>1. ~remote /\ toHook = <<>>
      BY <1>a, <2>3
    <3>2. f5' = FALSE
      BY <1>0, <1>b, <2>1, <2>3
    <3>3. ~Has(toHook, "down") /\ ~Has(toHook, "up") /\ UpLast(toHook)
      BY <3>1, NoEdges
    <3> QED
      BY <2>1, <3>1, <3>2, <3>3 DEF HookSide
  <2> QED
    BY <2>1, <2>2, <2>3
<1>7. CASE WorkerTake
  <2>1. /\ queue # <<>> /\ queue' = Tail(queue)
        /\ worker' = "release" => ~queue[1].press
        /\ UNCHANGED <<remote, toHook, hook, f5>>
    BY <1>0, <1>7 DEF WorkerTake
  <2>2. ReleaseQueued' => ReleaseQueued
    BY <1>0, <2>1 DEF ReleaseQueued
  <2>3. 1 \in 1..Len(queue) /\ Busy
    BY <1>0, <2>1 DEF Busy
  <2>4. worker' = "release" => ReleaseQueued
    BY <2>1, <2>3 DEF ReleaseQueued
  <2> QED
    BY <1>a, <2>1, <2>2, <2>3, <2>4 DEF HookSide
<1>8. CASE TapReport \/ TapLost \/ StopTap \/ StopEdges
  <2>1. UNCHANGED <<remote, toHook, hook, f5, queue, worker>>
    BY <1>8 DEF TapReport, TapLost, StopTap, StopEdges
  <2> QED
    BY <1>a, <2>1 DEF HookSide, Busy, ReleaseQueued
<1>9. CASE JoinWorker
  <2>1. UNCHANGED <<remote, toHook, hook, f5, worker>> /\ queue' = <<>> /\ worker = "off"
    BY <1>9 DEF JoinWorker
  <2>2. ~Busy' /\ ~ReleaseQueued'
    BY <2>1 DEF Busy, ReleaseQueued
  <2> QED
    BY <1>a, <2>1, <2>2 DEF HookSide
<1>10. CASE ResetVoice
  <2>1. UNCHANGED <<remote, toHook, hook, queue, worker>> /\ f5' = FALSE /\ phase = "drained"
    BY <1>10 DEF ResetVoice, NewPhase
  <2>2. ~Busy /\ ~Busy'
    BY <1>c, <2>1 DEF Busy
  <2> QED
    BY <1>a, <2>1, <2>2 DEF HookSide
<1>11. CASE StopHook
  <2>1. UNCHANGED <<remote, hook, f5, queue, worker>> /\ toHook' = <<>> /\ hook = "idle"
        /\ phase = "reset"
    BY <1>11 DEF StopHook, NewPhase
  <2>2. ~f5 /\ ~Busy /\ ~Busy'
    BY <2>1 DEF Sides, HookRests, Busy
  <2>3. UpLast(toHook') /\ ~Has(toHook', "up") /\ ~Has(toHook', "down")
    BY <2>1, NoEdges
  <2> QED
    BY <2>1, <2>2, <2>3 DEF HookSide
<1>12. CASE Dispatches
  <2>1. UNCHANGED <<remote, toHook, hook, f5, queue>>
        /\ (worker' = worker \/ worker' \in {"off", "idle"})
    BY <1>12 DEF Dispatches
  <2>2. (Busy' => Busy) /\ ReleaseQueued' = ReleaseQueued
    BY <2>1 DEF Busy, ReleaseQueued
  <2> QED
    BY <1>a, <2>1, <2>2 DEF HookSide
<1>13. opening = "tap" => tap = "press"
  BY DEF Sides, TapSide
<1> QED
  BY <1>1, <1>2, <1>3, <1>4, <1>5, <1>6, <1>7, <1>8, <1>9, <1>10, <1>11, <1>12, <1>13, EdgeSplit
     DEF EdgeMoves

\* Without a connection the hook's side is at rest, from the first step of the
\* cleanup to the next listener.
LEMMA HookRestsKept ==
    ASSUME HoldByHold, IInv, Sides, [Next]_vars,
           ~LateThread, ~OutliveJoin
    PROVE  HookRests'
<1> USE DEF vars, envVars, hookVars, threadVars, latchVars, voiceVars, resourceVars,
            leaseVars, micVars, oldWorker, lifeVars
<1>a. /\ phase \notin {"hooked", "up"} => toHook = <<>> /\ hook = "idle"
      /\ phase \notin {"hooked", "up", "untapping", "stopping"} => ~Busy
      /\ phase \notin {"hooked", "up", "untapping", "stopping", "drained"} => ~f5
  BY DEF Sides, HookRests
<1>1. CASE PressButton \/ ReleaseButton \/ AutoRepeat
  <2>1. UNCHANGED <<hook, f5, queue, worker, phase>>
    BY <1>1 DEF PressButton, ReleaseButton, AutoRepeat
  <2>2. phase \notin {"hooked", "up"} => UNCHANGED toHook
    BY <1>1 DEF PressButton, ReleaseButton, AutoRepeat, Report, MayMove, HookOn, HoldByHold
  <2> QED
    BY <1>a, <2>1, <2>2 DEF HookRests, Busy
<1>2. CASE HookTransform
  <2>1. toHook # <<>> /\ UNCHANGED <<f5, queue, worker, phase>>
    BY <1>2 DEF HookTransform
  <2> QED
    BY <1>a, <2>1 DEF HookRests, Busy
<1>3. CASE HookEmit \/ HookReport
  <2>1. hook # "idle" /\ UNCHANGED phase
    BY <1>3 DEF HookEmit, HookReport
  <2> QED
    BY <1>a, <2>1 DEF HookRests
<1>4. CASE WorkerTake
  <2>1. queue # <<>> /\ UNCHANGED <<toHook, hook, f5, phase>>
    BY <1>4 DEF WorkerTake
  <2> QED
    BY <1>a, <2>1 DEF HookRests, Busy
<1>5. CASE TapReport \/ TapLost
  <2>1. UNCHANGED <<toHook, hook, f5, queue, worker, phase>>
    BY <1>5 DEF TapReport, TapLost
  <2> QED
    BY <1>a, <2>1 DEF HookRests, Busy
<1>6. CASE StopTap
  <2>1. phase' = "untapping" /\ toHook = <<>> /\ hook = "idle" /\ UNCHANGED <<toHook, hook>>
    BY <1>6 DEF StopTap, NewPhase, HoldByHold
  <2> QED
    BY <2>1 DEF HookRests
<1>7. CASE StopEdges
  <2>1. phase = "untapping" /\ phase' = "stopping" /\ UNCHANGED <<toHook, hook>>
    BY <1>7 DEF StopEdges, NewPhase
  <2> QED
    BY <1>a, <2>1 DEF HookRests
<1>8. CASE JoinWorker
  <2>1. /\ phase = "stopping" /\ phase' = "drained" /\ UNCHANGED <<toHook, hook>>
        /\ queue' = <<>> /\ worker' = "off"
    BY <1>8 DEF JoinWorker, NewPhase
  <2> QED
    BY <1>a, <2>1 DEF HookRests, Busy
<1>9. CASE ResetVoice
  <2>1. /\ phase = "drained" /\ phase' = "reset" /\ UNCHANGED <<toHook, hook, queue, worker>>
        /\ f5' = FALSE
    BY <1>9 DEF ResetVoice, NewPhase
  <2> QED
    BY <1>a, <2>1 DEF HookRests, Busy
<1>10. CASE StopHook
  <2>1. /\ phase = "reset" /\ toHook' = <<>> /\ hook = "idle"
        /\ UNCHANGED <<hook, f5, queue, worker>>
    BY <1>10 DEF StopHook, NewPhase
  <2> QED
    BY <1>a, <2>1 DEF HookRests, Busy
<1>11. CASE Dispatches
  <2>1. UNCHANGED <<toHook, hook, f5, queue>> /\ (worker' = worker \/ worker' \in {"off", "idle"})
    BY <1>11 DEF Dispatches
  <2>2. Busy' => Busy
    BY <2>1 DEF Busy
  <2>3. \/ phase' = phase
        \/ phase \in {"down", "ble", "unhooked", "closed"}
        \/ phase = "hooked" /\ phase' = "up"
    BY <1>11 DEF Dispatches
  <2> QED
    BY <1>a, <2>1, <2>2, <2>3 DEF HookRests
<1>12. opening = "tap" => tap = "press"
  BY DEF Sides, TapSide
<1> QED
  BY <1>1, <1>2, <1>3, <1>4, <1>5, <1>6, <1>7, <1>8, <1>9, <1>10, <1>11, <1>12, EdgeSplit
     DEF EdgeMoves

\* Whose a hold is, is decided before the hook can act on it.
LEMMA TapSideKept ==
    ASSUME HoldByHold, IInv, Sides, [Next]_vars,
           ~LateThread, ~OutliveJoin
    PROVE  TapSide'
<1> USE DEF vars, envVars, hookVars, threadVars, latchVars, voiceVars, resourceVars,
            leaseVars, micVars, oldWorker, lifeVars
<1>0. /\ toTap \in Seq(Motion) /\ queue \in Seq(Edge)
      /\ f5 \in BOOLEAN /\ remote \in BOOLEAN /\ tapActive \in BOOLEAN /\ tapHeld \in BOOLEAN
  BY DEF IInv, TypeOK, QueueTypes, HookFlags, EdgeFlags
<1>a. /\ UpLast(toTap) /\ (Has(toTap, "up") => ~remote)
      /\ tapHeld \/ Has(toTap, "down") => remote \/ Has(toTap, "up")
      /\ ~TapOn => toTap = <<>> /\ ~tapHeld
      /\ tap = "press" => tapHeld
      /\ opening = "tap" => tap = "press"
      /\ tapActive \/ Has(toTap, "down") => ~Busy /\ ~f5
      /\ Has(toTap, "down") => hook = "idle"
      /\ tapActive /\ physDown => tapHeld \/ tap = "release"
  BY DEF Sides, TapSide
<1>1. CASE PressButton
  <2>1. /\ toHook = <<>> /\ toTap = <<>> /\ hook = "idle" /\ ~Busy /\ ~remote /\ remote'
        /\ UNCHANGED <<hook, f5, queue, worker, tap, tapHeld, tapActive, opening, physDown, phase>>
    BY <1>1 DEF PressButton, Settled, Busy, HoldByHold
  <2>2. toTap' = IF TapOn THEN Append(<<>>, "down") ELSE <<>>
    BY <1>1, <2>1 DEF PressButton, Report
  <2>3. UpLast(toTap') /\ ~Has(toTap', "up")
    <3>1. "down" \in Motion /\ <<>> \in Seq(Motion) /\ "down" # "up"
      BY DEF Motion
    <3>2. UpLast(Append(<<>>, "down")) /\ ~Has(Append(<<>>, "down"), "up")
      BY <3>1, NoEdges, EdgesAppend, Zenon
    <3> QED
      BY <2>2, <3>2, NoEdges, Zenon
  <2>4. ~f5
    <3>1. ~Has(toHook, "up")
      BY <2>1, NoEdges
    <3> QED
      BY <2>1, <3>1 DEF Sides, HookSide
  <2>5. ~Busy' /\ TapOn' = TapOn
    BY <2>1 DEF Busy, TapOn
  <2>6. ~TapOn => toTap' = <<>> /\ ~tapHeld
    BY <1>a, <2>2
  <2> QED
    BY <1>a, <2>1, <2>3, <2>4, <2>5, <2>6 DEF TapSide
<1>2. CASE ReleaseButton
  <2>1. /\ remote /\ ~remote'
        /\ UNCHANGED <<hook, f5, queue, worker, tap, tapHeld, tapActive, opening, physDown, phase>>
    BY <1>2 DEF ReleaseButton
  <2>2. Busy' = Busy /\ TapOn' = TapOn
    BY <2>1 DEF Busy, TapOn
  <2>3. CASE TapOn
    <3>1. toTap' = Append(toTap, "up") /\ "up" \in Motion /\ ~Has(toTap, "up") /\ "up" # "down"
      BY <1>2, <1>a, <2>1, <2>3 DEF ReleaseButton, Report, Motion
    <3>2. UpLast(toTap') /\ Has(toTap', "up") /\ (Has(toTap', "down") <=> Has(toTap, "down"))
      BY <1>0, <3>1, EdgesAppend, Zenon
    <3> QED
      BY <1>a, <2>1, <2>2, <2>3, <3>2 DEF TapSide
  <2>4. CASE ~TapOn
    <3>1. toTap' = <<>> /\ ~tapHeld
      BY <1>2, <1>a, <2>4 DEF ReleaseButton, Report
    <3>2. UpLast(toTap') /\ ~Has(toTap', "up") /\ ~Has(toTap', "down")
      BY <3>1, NoEdges
    <3> QED
      BY <1>a, <2>1, <2>2, <3>1, <3>2 DEF TapSide
  <2> QED
    BY <2>3, <2>4
<1>3. CASE AutoRepeat
  <2>1. UNCHANGED <<remote, toTap, hook, f5, queue, worker, tap, tapHeld, tapActive, opening,
                    physDown, phase>>
    BY <1>3 DEF AutoRepeat
  <2> QED
    BY <1>a, <2>1 DEF TapSide, Busy, TapOn
<1>4. CASE HookTransform
  <2>1. /\ toTap = <<>>
        /\ UNCHANGED <<remote, toTap, f5, queue, worker, tap, tapHeld, tapActive, opening,
                       physDown, phase>>
    BY <1>4 DEF HookTransform, HoldByHold
  <2>2. ~Has(toTap, "down")
    BY <2>1, NoEdges
  <2>3. Busy' = Busy /\ TapOn' = TapOn
    BY <2>1 DEF Busy, TapOn
  <2> QED
    BY <1>a, <2>1, <2>2, <2>3 DEF TapSide
<1>5. CASE HookEmit
  <2>1. /\ hook # "idle"
        /\ UNCHANGED <<remote, toTap, f5, queue, worker, tap, tapHeld, tapActive, opening,
                       physDown, phase>>
    BY <1>5 DEF HookEmit
  <2>2. ~Has(toTap, "down")
    BY <1>a, <2>1
  <2>3. Busy' = Busy /\ TapOn' = TapOn
    BY <2>1 DEF Busy, TapOn
  <2> QED
    BY <1>a, <2>1, <2>2, <2>3 DEF TapSide
<1>6. CASE HookReport
  <2>1. /\ hook # "idle" /\ hook' = "idle"
        /\ tapActive => UNCHANGED <<f5, queue>>
        /\ UNCHANGED <<remote, toTap, worker, tap, tapHeld, tapActive, opening, physDown, phase>>
    BY <1>6, ReportKeeps DEF IInv
  <2>2. ~Has(toTap, "down")
    BY <1>a, <2>1
  <2>3. (tapActive => Busy' = Busy) /\ TapOn' = TapOn
    BY <2>1 DEF Busy, TapOn
  <2> QED
    BY <1>a, <2>1, <2>2, <2>3 DEF TapSide
<1>7. CASE WorkerTake
  <2>1. /\ queue # <<>>
        /\ UNCHANGED <<remote, toTap, hook, f5, tap, tapHeld, tapActive, opening, physDown, phase>>
    BY <1>7 DEF WorkerTake
  <2>2. Busy /\ TapOn' = TapOn
    BY <2>1 DEF Busy, TapOn
  <2> QED
    BY <1>a, <2>1, <2>2 DEF TapSide
<1>8. CASE TapReport
  <2>1. /\ TapOn /\ tap = "idle" /\ toTap # <<>> /\ toTap' = Tail(toTap)
        /\ tapHeld' = (Head(toTap) = "down")
        /\ UNCHANGED <<remote, hook, f5, queue, worker, opening, physDown, phase>>
    BY <1>8 DEF TapReport
  <2>2. /\ UpLast(Tail(toTap)) /\ (Head(toTap) = "up" => Tail(toTap) = <<>>)
        /\ \A x : Has(toTap, x) <=> Head(toTap) = x \/ Has(Tail(toTap), x)
        /\ Head(toTap) \in {"down", "up"}
    BY <1>0, <1>a, <2>1, EdgesTail DEF Motion
  <2>3. Busy' = Busy /\ TapOn' = TapOn
    BY <2>1 DEF Busy, TapOn
  <2>4. CASE Head(toTap) = "down"
    <3>1. tapHeld' = TRUE /\ tapActive' = TRUE /\ tap' \in {"idle", "press"}
      BY <1>8, <2>1, <2>4 DEF TapReport
    <3>2. Has(toTap, "down") /\ (Has(toTap', "up") <=> Has(toTap, "up"))
      BY <2>1, <2>2, <2>4
    <3>3. opening' # "tap"
      BY <1>a, <2>1
    <3> QED
      BY <1>a, <2>1, <2>2, <2>3, <3>1, <3>2, <3>3 DEF TapSide
  <2>5. CASE Head(toTap) = "up"
    <3>1. /\ tapHeld' = FALSE /\ tapActive' = tapActive
          /\ tap' = IF tapHeld THEN "release" ELSE "idle"
      BY <1>0, <1>8, <2>1, <2>5 DEF TapReport
    <3>2. toTap' = <<>> /\ opening' # "tap"
      BY <1>a, <2>1, <2>2, <2>5
    <3>3. UpLast(toTap') /\ ~Has(toTap', "up") /\ ~Has(toTap', "down")
      BY <3>2, NoEdges
    <3>4. tapActive /\ physDown => tap' = "release"
      BY <1>a, <2>1, <3>1
    <3> QED
      BY <1>a, <2>1, <2>3, <3>1, <3>2, <3>3, <3>4 DEF TapSide
  <2> QED
    BY <2>2, <2>4, <2>5
<1>9. CASE TapLost
  <2>1. /\ tap = "idle" /\ tap' = "release" /\ tapHeld' = FALSE /\ toTap' = <<>>
        /\ UNCHANGED <<remote, hook, f5, queue, worker, tapActive, opening, physDown, phase>>
    BY <1>9 DEF TapLost
  <2>2. UpLast(toTap') /\ ~Has(toTap', "up") /\ ~Has(toTap', "down")
    BY <2>1, NoEdges
  <2>3. Busy' = Busy
    BY <2>1 DEF Busy
  <2> QED
    BY <1>a, <2>1, <2>2, <2>3 DEF TapSide
<1>10. CASE StopTap
  <2>1. /\ tap = "idle" /\ tap' = IF tapHeld THEN "release" ELSE "idle"
        /\ tapHeld' = FALSE /\ toTap' = <<>>
        /\ UNCHANGED <<remote, hook, f5, queue, worker, tapActive, opening, physDown>>
    BY <1>10 DEF StopTap
  <2>2. UpLast(toTap') /\ ~Has(toTap', "up") /\ ~Has(toTap', "down")
    BY <2>1, NoEdges
  <2>3. Busy' = Busy
    BY <2>1 DEF Busy
  <2>4. tapActive /\ physDown => tap' = "release"
    BY <1>a, <2>1
  <2> QED
    BY <1>a, <2>1, <2>2, <2>3, <2>4 DEF TapSide
<1>11. CASE StopEdges
  <2>1. /\ tapActive' = FALSE /\ phase = "untapping" /\ phase' = "stopping"
        /\ UNCHANGED <<remote, toTap, hook, f5, queue, worker, tap, tapHeld, opening, physDown>>
    BY <1>11 DEF StopEdges, NewPhase
  <2>2. Busy' = Busy /\ ~TapOn /\ ~TapOn'
    BY <2>1 DEF Busy, TapOn
  <2> QED
    BY <1>a, <2>1, <2>2 DEF TapSide
<1>12. CASE JoinWorker
  <2>1. /\ phase = "stopping" /\ phase' = "drained" /\ queue' = <<>> /\ worker = "off"
        /\ UNCHANGED <<remote, toTap, hook, f5, worker, tap, tapHeld, tapActive, opening, physDown>>
    BY <1>12 DEF JoinWorker, NewPhase
  <2>2. ~Busy' /\ ~TapOn /\ ~TapOn'
    BY <2>1 DEF Busy, TapOn
  <2> QED
    BY <1>a, <2>1, <2>2 DEF TapSide
<1>13. CASE ResetVoice
  <2>1. /\ phase = "drained" /\ phase' = "reset" /\ f5' = FALSE /\ physDown' = FALSE
        /\ UNCHANGED <<remote, toTap, hook, queue, worker, tap, tapHeld, tapActive, opening>>
    BY <1>13 DEF ResetVoice, NewPhase
  <2>2. Busy' = Busy /\ ~TapOn /\ ~TapOn'
    BY <2>1 DEF Busy, TapOn
  <2> QED
    BY <1>a, <2>1, <2>2 DEF TapSide
<1>14. CASE StopHook
  <2>1. /\ phase = "reset" /\ phase' = "unhooked"
        /\ UNCHANGED <<remote, toTap, hook, f5, queue, worker, tap, tapHeld, tapActive, opening,
                       physDown>>
    BY <1>14 DEF StopHook, NewPhase
  <2>2. Busy' = Busy /\ ~TapOn /\ ~TapOn'
    BY <2>1 DEF Busy, TapOn
  <2> QED
    BY <1>a, <2>1, <2>2 DEF TapSide
<1>15. CASE Dispatches
  <2>1. /\ UNCHANGED <<remote, toTap, hook, f5, queue, tapHeld, tapActive>>
        /\ worker' = worker \/ worker' \in {"off", "idle"}
        /\ opening' = "tap" => tap' = "press"
    BY <1>15 DEF Dispatches
  <2>2. Busy' => Busy
    BY <2>1 DEF Busy
  <2>3. ~TapOn' => ~TapOn
    BY <1>15 DEF Dispatches, TapOn
  <2>4. tap' = "press" => tap = "press"
    BY <1>15 DEF Dispatches
  <2>5. tapActive /\ physDown' => tapHeld \/ tap' = "release"
    <3> SUFFICES ASSUME tapActive, physDown', ~tapHeld PROVE tap' = "release"
      OBVIOUS
    <3>1. tap # "press" /\ worker \notin {"press", "handledPress"}
      BY <1>a DEF Busy
    <3>2. physDown
      BY <1>15, <3>1 DEF Dispatches
    <3>3. tap = "release"
      BY <1>a, <3>2
    <3> QED
      BY <1>15, <3>3 DEF Dispatches
  <2> QED
    BY <1>a, <2>1, <2>2, <2>3, <2>4, <2>5 DEF TapSide
<1> QED
  BY <1>1, <1>2, <1>3, <1>4, <1>5, <1>6, <1>7, <1>8, <1>9, <1>10, <1>11, <1>12, <1>13, <1>14,
     <1>15,
     <1>a, EdgeSplit DEF EdgeMoves

\* An appended edge, and the first one taken.
LEMMA QueueAppend ==
    ASSUME NEW q \in Seq(Edge), NEW e \in Edge
    PROVE  /\ Len(Append(q, e)) = Len(q) + 1 /\ Len(q) \in Nat
           /\ Append(q, e)[Len(q) + 1] = e
           /\ \A i \in 1..(Len(q) + 1) :
                  i = Len(q) + 1 \/ (i \in 1..Len(q) /\ Append(q, e)[i] = q[i])
<1>1. \A i \in 1..Len(q) : Append(q, e)[i] = q[i]
  OBVIOUS
<1>2. \A i \in 1..(Len(q) + 1) : i = Len(q) + 1 \/ i \in 1..Len(q)
  OBVIOUS
<1>3. /\ Len(Append(q, e)) = Len(q) + 1 /\ Len(q) \in Nat
      /\ Append(q, e)[Len(q) + 1] = e
  OBVIOUS
<1> QED
  BY <1>1, <1>2, <1>3

\* A press in hand whose hook side is over has its release behind it.
LEMMA EdgesKeptKept ==
    ASSUME HoldByHold, IInv, Sides, [Next]_vars,
           ~LateThread, ~OutliveJoin
    PROVE  EdgesKept'
<1> USE DEF vars, envVars, hookVars, threadVars, latchVars, voiceVars, resourceVars,
            leaseVars, micVars, oldWorker, lifeVars
<1> SUFFICES ASSUME QueueMax >= 2
             PROVE  /\ \A i \in 1..Len(queue') : ~queue'[i].press => i = Len(queue')
                    /\ f5' => Len(queue') <= 1
                    /\ PressInHand' /\ ~f5' => ReleaseQueued'
  BY DEF EdgesKept
<1>0. queue \in Seq(Edge) /\ f5 \in BOOLEAN /\ Len(queue) \in Nat /\ QueueMax \in Nat
  BY BoundsAssumption DEF IInv, TypeOK, QueueTypes, HookFlags
<1>a. /\ \A i \in 1..Len(queue) : ~queue[i].press => i = Len(queue)
      /\ f5 => Len(queue) <= 1
      /\ PressInHand /\ ~f5 => ReleaseQueued
  BY DEF Sides, EdgesKept
<1>b. /\ hook \in {"emitDown", "reportDown"} => ~(Busy /\ ~f5)
      /\ f5 => ~ReleaseQueued
  BY DEF Sides, HookSide
<1>c. PressInHand => Busy
  BY <1>0 DEF PressInHand, Busy
<1>1. CASE UNCHANGED <<f5, queue>> /\ (PressInHand' => PressInHand)
  <2>1. ReleaseQueued' = ReleaseQueued
    BY <1>1 DEF ReleaseQueued
  <2> QED
    BY <1>a, <1>1, <2>1
<1>2. CASE UNCHANGED <<f5, queue, worker>>
  BY <1>1, <1>2 DEF PressInHand
<1>3. CASE PressButton \/ ReleaseButton \/ AutoRepeat \/ HookTransform \/ HookEmit
           \/ TapReport \/ TapLost \/ StopTap \/ StopEdges \/ StopHook
  <2>1. UNCHANGED <<f5, queue, worker>>
    BY <1>3 DEF PressButton, ReleaseButton, AutoRepeat, HookTransform, HookEmit, TapReport,
       TapLost, StopTap, StopEdges, StopHook
  <2> QED
    BY <1>2, <2>1
<1>4. CASE Dispatches
  <2>1. UNCHANGED <<f5, queue>> /\ (worker' = worker \/ worker' \in {"off", "idle"})
    BY <1>4 DEF Dispatches
  <2>2. PressInHand' => PressInHand
    BY <2>1 DEF PressInHand
  <2> QED
    BY <1>1, <2>1, <2>2
<1>5. CASE JoinWorker
  <2>1. queue' = <<>> /\ worker' = "off"
    BY <1>5 DEF JoinWorker
  <2>2. ~PressInHand' /\ Len(queue') = 0
    BY <2>1 DEF PressInHand
  <2> QED
    BY <2>1, <2>2
<1>6. CASE ResetVoice
  <2>1. UNCHANGED <<queue, worker>> /\ f5' = FALSE /\ phase = "drained"
    BY <1>6 DEF ResetVoice, NewPhase
  <2>2. ~PressInHand
    BY <1>c, <2>1 DEF Sides, HookRests
  <2>3. ~PressInHand'
    BY <2>1, <2>2 DEF PressInHand
  <2> QED
    BY <1>a, <2>1, <2>3
<1>7. CASE HookReport
  <2>1. /\ UNCHANGED worker
        /\ hook \in {"reportDown", "reportUp"}
        /\ \/ UNCHANGED <<f5, queue>>
           \/ /\ f5 = (hook = "reportUp") /\ f5' = (hook = "reportDown")
              /\ \/ Len(queue) >= QueueMax /\ UNCHANGED queue
                 \/ \E e \in Edge : /\ e.press = (hook = "reportDown")
                                    /\ queue' = Append(queue, e)
    BY <1>7, ReportKeeps DEF IInv
  <2>2. CASE hook = "reportDown" /\ ~f5 /\ f5'
    <3>1. queue = <<>>
      BY <1>b, <2>2 DEF Busy
    <3>2. queue' = queue \/ \E e \in Edge : e.press /\ queue' = Append(queue, e)
      BY <2>1, <2>2
    <3>3. CASE queue' = queue
      BY <1>a, <2>2, <3>1, <3>3
    <3>4. ASSUME NEW e \in Edge, e.press, queue' = Append(queue, e)
          PROVE  /\ \A i \in 1..Len(queue') : ~queue'[i].press => i = Len(queue')
                 /\ Len(queue') <= 1
      <4>1. queue' = <<e>>
        BY <3>1, <3>4
      <4> QED
        BY <3>4, <4>1
    <3> QED
      BY <2>2, <3>2, <3>3, <3>4
  <2>3. CASE hook = "reportUp" /\ f5 /\ ~f5'
    <3>1. ~(Len(queue) >= QueueMax)
      BY <1>0, <1>a, <2>3
    <3>2. PICK e \in Edge : ~e.press /\ queue' = Append(queue, e)
      BY <2>1, <2>3, <3>1
    <3>3. \A i \in 1..Len(queue) : queue[i].press
      BY <1>b, <2>3 DEF ReleaseQueued
    <3>4. \A i \in 1..Len(queue') : i = Len(queue') \/ queue'[i].press
      BY <1>0, <3>2, <3>3, QueueAppend
    <3>5. Len(queue') \in 1..Len(queue') /\ ~queue'[Len(queue')].press
      BY <1>0, <3>2, QueueAppend
    <3>6. ReleaseQueued'
      BY <3>5 DEF ReleaseQueued
    <3> QED
      BY <2>3, <3>4, <3>6
  <2>4. CASE UNCHANGED <<f5, queue>>
    BY <1>2, <2>1, <2>4
  <2> QED
    BY <1>0, <2>1, <2>2, <2>3, <2>4
<1>8. CASE WorkerTake
  <2>0. queue # <<>> /\ queue' = Tail(queue) /\ worker = "idle" /\ UNCHANGED f5
    BY <1>8 DEF WorkerTake
  <2>h. Head(queue) = queue[1]
    BY <1>0, <2>0
  <2>1. queue[1].press \/ worker' = "release"
    <3> SUFFICES ASSUME ~Head(queue).press PROVE worker' = "release"
      BY <2>h
    <3> QED
      BY <1>8 DEF WorkerTake
  <2>2. /\ Len(queue) > 0 /\ Len(queue') = Len(queue) - 1
        /\ \A i \in 1..Len(queue') : queue'[i] = queue[i + 1] /\ i + 1 \in 1..Len(queue)
    BY <1>0, <2>0
  <2>3. \A i \in 1..Len(queue') : ~queue'[i].press => i = Len(queue')
    <3> SUFFICES ASSUME NEW i \in 1..Len(queue'), ~queue'[i].press PROVE i = Len(queue')
      OBVIOUS
    <3>1. i + 1 = Len(queue)
      BY <1>a, <2>2
    <3> QED
      BY <1>0, <2>2, <3>1
  <2>4. f5' => Len(queue') <= 1
    <3> SUFFICES ASSUME f5 PROVE Len(queue) - 1 <= 1
      BY <2>0, <2>2
    <3>1. Len(queue) <= 1
      BY <1>a
    <3> QED
      BY <1>0, <3>1
  <2>5. ASSUME PressInHand', ~f5' PROVE ReleaseQueued'
    <3>1. PressInHand
      <4>1. CASE worker' = "release"
        <5>1. PICK i \in 1..Len(queue') : queue'[i].press
          BY <2>5, <4>1 DEF PressInHand
        <5> QED
          BY <2>2, <5>1 DEF PressInHand
      <4>2. CASE worker' # "release"
        <5>1. queue[1].press
          BY <2>1, <4>2
        <5>2. 1 \in 1..Len(queue)
          BY <1>0, <2>2
        <5> QED
          BY <5>1, <5>2 DEF PressInHand
      <4> QED
        BY <4>1, <4>2
    <3>2. PICK j \in 1..Len(queue) : ~queue[j].press
      BY <1>a, <2>0, <2>5, <3>1 DEF ReleaseQueued
    <3>3. j = Len(queue)
      BY <1>a, <3>2
    <3>4. j # 1
      <4> SUFFICES ASSUME j = 1 PROVE FALSE
        OBVIOUS
      <4>1. worker' = "release"
        BY <2>1, <3>2
      <4>2. Len(queue) = 1
        BY <3>3
      <4>3. Len(queue') = 0
        BY <2>2, <4>2
      <4>4. ~PressInHand'
        BY <4>1, <4>3 DEF PressInHand
      <4> QED
        BY <2>5, <4>4
    <3>5. j - 1 \in 1..Len(queue') /\ queue'[j - 1] = queue[j]
      BY <1>0, <2>2, <3>2, <3>4
    <3> QED
      BY <3>2, <3>5 DEF ReleaseQueued
  <2> QED
    BY <2>3, <2>4, <2>5
<1>9. opening = "tap" => tap = "press"
  BY DEF Sides, TapSide
<1> QED
  BY <1>3, <1>4, <1>5, <1>6, <1>7, <1>8, <1>9, EdgeSplit DEF EdgeMoves

\* Both sides of a hold, from the start on.
LEMMA SidesInvariance == HoldByHold => (Spec => [](outlived \/ (IInv /\ Sides)))
<1> SUFFICES ASSUME HoldByHold PROVE Spec => [](outlived \/ (IInv /\ Sides))
  OBVIOUS
<1>1. Init => IInv /\ Sides
  <2> SUFFICES ASSUME Init PROVE IInv /\ Sides
    OBVIOUS
  <2>1. HookSide
    BY NoEdges DEF Init, HookSide, Busy, ReleaseQueued
  <2>2. HookRests
    BY DEF Init, HookRests, Busy
  <2>3. TapSide
    BY NoEdges DEF Init, TapSide, Busy
  <2>4. EdgesKept
    BY DEF Init, EdgesKept, PressInHand
  <2> QED
    BY <2>1, <2>2, <2>3, <2>4, IInvInit DEF Sides
<1>2. IInv /\ Sides /\ [Next]_vars => (outlived \/ (IInv /\ Sides))'
  <2> SUFFICES ASSUME IInv, Sides, [Next]_vars, ~outlived' PROVE IInv' /\ Sides'
    OBVIOUS
  <2>1. ~LateThread /\ ~OutliveJoin
    BY StillInTime DEF InTime
  <2> QED
    BY <2>1, IInvStep, HookSideKept, HookRestsKept, TapSideKept, EdgesKeptKept DEF Sides
<1>3. outlived /\ [Next]_vars => outlived'
  BY OutlivedStays
<1> QED
  BY <1>1, <1>2, <1>3, PTL DEF Spec

\* Only a dispatched press and, for the toggle presets, an ATVV event of a hold
\* open a session.
LEMMA Opens ==
    ASSUME IInv, [Next]_vars, ~active, active'
    PROVE  \/ worker \in {"press", "handledPress"} /\ UNCHANGED tapActive
           \/ tap = "press"
           \/ Preset = "toggle" /\ physDown /\ UNCHANGED tapActive
<1>0. ~LateThread
  BY DEF IInv, NoLate, LateThread, LatePress, LateRelease, LateTake, LateExit
<1> USE DEF vars, envVars, hookVars, threadVars, latchVars, voiceVars, resourceVars,
            leaseVars, micVars, oldWorker, lifeVars
<1>1. CASE WorkerPress \/ TapPress
  BY <1>1 DEF WorkerPress, TapPress
<1>2. CASE MicButtonEvent
  BY <1>2 DEF MicButtonEvent, OpensOnEvent, ControlArrives
<1>3. CASE AudioStartedEvent
  BY <1>3 DEF AudioStartedEvent, OpensOnEvent, ControlArrives
<1>4. CASE Environment
  BY <1>4 DEF Environment, PressButton, ReleaseButton, AutoRepeat
<1>5. CASE HookThread
  BY <1>5 DEF HookThread, HookTransform, HookEmit, HookReport
<1>6. CASE WorkerTake \/ WorkerRelease \/ WorkerExit
  BY <1>6 DEF WorkerTake, WorkerRelease, WorkerExit, MicRelease, CloseVoice, Close
<1>7. CASE TapReport \/ TapLost \/ TapRelease \/ FinishOpening
  BY <1>7 DEF TapReport, TapLost, TapRelease, FinishOpening, MicRelease, CloseVoice, Close
<1>8. CASE AudioStoppedEvent \/ WriteFails \/ Disconnect \/ SendMicOpen
  BY <1>8 DEF AudioStoppedEvent, WriteFails, Disconnect, SendMicOpen, CloseVoice, Close
<1>9. CASE Supervisor
  BY <1>9 DEF Supervisor, Connect, ConnectFails, StartListener, StartWorker, StopTap, StopEdges,
     JoinWorker, ResetVoice, StopHook, CloseBle, CloseAudio, Close
<1>10. CASE Rest \/ UNCHANGED vars
  BY <1>10 DEF Rest
<1> QED
  BY <1>0, <1>1, <1>2, <1>3, <1>4, <1>5, <1>6, <1>7, <1>8, <1>9, <1>10
     DEF Next, WorkerThread, TapThread, BleThread

\* Once the tap supplies the edges, a session opens only while the tap's hold
\* lasts: the F5 of the same press is a duplicate (_on_legacy_key_event,
\* _on_direct_hid_report).
THEOREM TapOwnsItsHolds == ASSUME HoldByHold PROVE Spec => TapSuppliesEdges
<1>1. IInv /\ Sides /\ [Next]_vars
         => [~active /\ active' /\ tapActive /\ ~outlived => tapHeld \/ tap = "release"]_vars
  <2> SUFFICES ASSUME IInv, Sides, [Next]_vars, ~active, active', tapActive
               PROVE  tapHeld \/ tap = "release"
    OBVIOUS
  <2>1. ~Busy /\ (tap = "press" => tapHeld) /\ (physDown => tapHeld \/ tap = "release")
    BY DEF Sides, TapSide
  <2> QED
    BY <2>1, Opens DEF Busy
<1>2. outlived => [~active /\ active' /\ tapActive /\ ~outlived => tapHeld \/ tap = "release"]_vars
  OBVIOUS
<1> QED
  BY <1>1, <1>2, SidesInvariance, PTL DEF Spec, TapSuppliesEdges

\* Every shortcut reaches the host.
HostGetsKeys == Faults \cap {"host", "tapUp"} = {}

\* A hold that was dispatched has its session.
HoldsOpen == (physDown => active) /\ (rawPending => active)

\* An opening whose key is delivered opens the session ...
LEMMA OpensAlways ==
    ASSUME HostGetsKeys, NEW handled \in BOOLEAN, NEW who, OpenVoice(handled, who)
    PROVE  active' = TRUE
<1>1. CASE handled
  BY <1>1, Zenon DEF OpenVoice
<1>2. CASE ~handled
  <2>1. PICK ok \in BOOLEAN : active' = ok /\ Apply(TRUE, ok)
    BY <1>2 DEF OpenVoice
  <2>2. ok
    BY <2>1 DEF Apply, Sent, CanFail, HostGetsKeys
  <2> QED
    BY <2>1, <2>2
<1> QED
  BY <1>1, <1>2

\* ... and so does a dispatched press, unless the session is open already.
LEMMA PressOpens ==
    ASSUME HostGetsKeys, TypeOK, HoldsOpen, BleOn, NEW handled \in BOOLEAN, NEW who,
           MicPress(handled, who)
    PROVE  active' = TRUE
<1>1. CASE active \/ rawPending
  BY <1>1 DEF MicPress, voiceVars, HoldsOpen, TypeOK, VoiceFlags
<1>2. CASE ~(active \/ rawPending)
  <2>1. OpenVoice(handled, who)
    BY <1>2, Zenon DEF MicPress
  <2> QED
    BY <2>1, OpensAlways
<1> QED
  BY <1>1, <1>2

\* Only a dispatched release and the cleanup end the session of a hold.
LEMMA HoldsOpenKept ==
    ASSUME HostGetsKeys, IInv, HoldsOpen, [Next]_vars,
           ~LateThread, ~OutliveJoin
    PROVE  HoldsOpen'
<1> USE DEF vars, envVars, hookVars, threadVars, latchVars, voiceVars, resourceVars,
            leaseVars, micVars, oldWorker, lifeVars
<1>1. CASE WorkerPress
  <2> DEFINE handled == worker = "handledPress"
  <2>1. handled \in BOOLEAN /\ MicPress(handled, "worker") /\ BleOn
    BY <1>1 DEF WorkerPress, IInv, ThreadLife, BleOn, HookOn
  <2> HIDE DEF handled
  <2>2. active' = TRUE
    BY <2>1, PressOpens DEF IInv
  <2> QED
    BY <2>2 DEF HoldsOpen
<1>2. CASE TapPress
  <2>1. MicPress(FALSE, "tap") /\ BleOn
    BY <1>2 DEF TapPress, IInv, ThreadLife, BleOn, HookOn
  <2>2. active' = TRUE
    BY <2>1, PressOpens DEF IInv
  <2> QED
    BY <2>2 DEF HoldsOpen
<1>3. CASE WorkerRelease \/ TapRelease \/ ResetVoice
  BY <1>3 DEF WorkerRelease, TapRelease, ResetVoice, MicRelease, HoldsOpen
<1>4. CASE MicButtonEvent
  <2>1. physDown' = physDown /\ (rawPending' => rawPending)
    <3>1. physDown' = physDown
      BY <1>4 DEF MicButtonEvent
    <3>2. ConsumeLatch \/ rawPending' = rawPending
      BY <1>4 DEF MicButtonEvent
    <3>3. rawPending' = FALSE \/ rawPending' = rawPending
      BY <3>2 DEF ConsumeLatch
    <3> QED
      BY <3>1, <3>3
  <2>2. active' = active \/ OpenVoice(FALSE, "control")
    BY <1>4 DEF MicButtonEvent
  <2>3. active' = active \/ active' = TRUE
    BY <2>2, OpensAlways
  <2> QED
    BY <2>1, <2>3 DEF HoldsOpen
<1>5. CASE AudioStartedEvent
  <2>1. physDown' = physDown /\ rawPending' = rawPending
    BY <1>5 DEF AudioStartedEvent
  <2>2. active' = active \/ OpenVoice(FALSE, "audio")
    BY <1>5 DEF AudioStartedEvent
  <2>3. active' = active \/ active' = TRUE
    BY <2>2, OpensAlways
  <2> QED
    BY <2>1, <2>3 DEF HoldsOpen
<1>6. CASE AudioStoppedEvent
  <2>1. physDown' = physDown /\ rawPending' = FALSE /\ (physDown => active' = active)
    BY <1>6 DEF AudioStoppedEvent
  <2> QED
    BY <2>1 DEF HoldsOpen
<1>7. CASE Environment \/ HookThread
  <2>1. UNCHANGED <<physDown, rawPending, active>>
    BY <1>7 DEF Environment, PressButton, ReleaseButton, AutoRepeat, HookThread, HookTransform,
       HookEmit, HookReport
  <2> QED
    BY <2>1 DEF HoldsOpen
<1>8. CASE WorkerTake \/ WorkerExit \/ TapReport \/ TapLost \/ FinishOpening
           \/ WriteFails \/ Disconnect \/ SendMicOpen \/ Rest \/ UNCHANGED vars
  <2>1. UNCHANGED <<physDown, rawPending, active>>
    BY <1>8 DEF WorkerTake, WorkerExit, TapReport, TapLost, FinishOpening, WriteFails,
       Disconnect, SendMicOpen,
       Rest
  <2> QED
    BY <2>1 DEF HoldsOpen
<1>9. CASE Supervisor /\ ~ResetVoice
  <2>1. UNCHANGED <<physDown, rawPending, active>>
    BY <1>9 DEF Supervisor, Connect, ConnectFails, StartListener, StartWorker, StopTap,
       StopEdges, JoinWorker, StopHook, CloseBle, CloseAudio
  <2> QED
    BY <2>1 DEF HoldsOpen
<1> QED
  BY <1>1, <1>2, <1>3, <1>4, <1>5, <1>6, <1>7, <1>8, <1>9
     DEF Next, WorkerThread, TapThread, BleThread

\* A hold that was dispatched has its session, from the start on.
LEMMA HoldsOpenInvariance == HostGetsKeys => (Spec => [](outlived \/ (IInv /\ HoldsOpen)))
<1> SUFFICES ASSUME HostGetsKeys PROVE Spec => [](outlived \/ (IInv /\ HoldsOpen))
  OBVIOUS
<1>1. Init => IInv /\ HoldsOpen
  BY IInvInit DEF Init, HoldsOpen
<1>2. IInv /\ HoldsOpen /\ [Next]_vars => (outlived \/ (IInv /\ HoldsOpen))'
  <2> SUFFICES ASSUME IInv, HoldsOpen, [Next]_vars, ~outlived' PROVE IInv' /\ HoldsOpen'
    OBVIOUS
  <2>1. ~LateThread /\ ~OutliveJoin
    BY StillInTime DEF InTime
  <2> QED
    BY <2>1, IInvStep, HoldsOpenKept
<1>3. outlived /\ [Next]_vars => outlived'
  BY OutlivedStays
<1> QED
  BY <1>1, <1>2, <1>3, PTL DEF Spec

\* A session opens only for a press whose release will still be dispatched: no
\* late ATVV event and no stale edge opens the recognizer (_on_legacy_key_event,
\* _on_direct_hid_report, _on_control_event).
THEOREM SessionsHaveAnEnd ==
    ASSUME HoldByHold, QueueMax >= 2, Preset = "toggle" => HostGetsKeys
    PROVE  Spec => OpensForAHold
<1> DEFINE Open == Preset = "toggle" => HoldsOpen
<1>1. Spec => [](outlived \/ Open)
  <2>1. CASE Preset = "toggle"
    <3>1. HostGetsKeys
      BY <2>1
    <3>2. outlived \/ (IInv /\ HoldsOpen) => outlived \/ Open
      OBVIOUS
    <3> QED
      BY <3>1, <3>2, HoldsOpenInvariance, PTL
  <2>2. CASE Preset # "toggle"
    <3>1. Open
      BY <2>2
    <3> QED
      BY <3>1, PTL
  <2> QED
    BY <2>1, <2>2
<1>2. IInv /\ Sides /\ Open /\ [Next]_vars
         => [~active /\ active' /\ ~outlived => ReleaseUnderway]_vars
  <2> SUFFICES ASSUME IInv, Sides, Open, [Next]_vars, ~active, active' PROVE ReleaseUnderway
    OBVIOUS
  <2>0. toHook \in Seq(Motion) /\ toTap \in Seq(Motion) /\ queue \in Seq(Edge)
    BY DEF IInv, TypeOK, QueueTypes
  <2>1. DOMAIN toHook = 1..Len(toHook) /\ DOMAIN toTap = 1..Len(toTap)
        /\ DOMAIN queue = 1..Len(queue)
    BY <2>0
  <2>2. CASE worker \in {"press", "handledPress"} /\ f5
    <3>1. remote \/ hook \in {"emitUp", "reportUp"} \/ Has(toHook, "up")
      BY <2>2 DEF Sides, HookSide
    <3> QED
      BY <2>1, <3>1 DEF ReleaseUnderway, Has
  <2>3. CASE worker \in {"press", "handledPress"} /\ ~f5
    <3>1. ReleaseQueued
      BY <2>3 DEF Sides, EdgesKept, PressInHand
    <3> QED
      BY <2>1, <3>1 DEF ReleaseUnderway, ReleaseQueued
  <2>4. CASE tap = "press"
    <3>1. remote \/ Has(toTap, "up")
      BY <2>4 DEF Sides, TapSide
    <3> QED
      BY <2>1, <3>1 DEF ReleaseUnderway, Has
  <2>5. ~(Preset = "toggle" /\ physDown)
    BY DEF HoldsOpen
  <2> QED
    BY <2>2, <2>3, <2>4, <2>5, Opens
<1>3. outlived => [~active /\ active' /\ ~outlived => ReleaseUnderway]_vars
  OBVIOUS
<1> QED
  BY <1>1, <1>2, <1>3, SidesInvariance, PTL DEF Spec, OpensForAHold
=============================================================================
