----------------------------- MODULE BleLinkProofs -----------------------------
(* The gates of close(): what holds for every queue size, every number of     *)
(* attempts, notifications, calls and failures.                               *)
EXTENDS BleLink, TLAPS

-----------------------------------------------------------------------------
(* The inductive invariant.                                                  *)

\* Outside a live connect() or wait, and until a session is built, the gate is
\* shut.
GateShut == loop \notin Live \ {"finding"} => closing

\* From CancelWrites on the worker is told to stop.  Past the join it has
\* ended or is in a callback, and then the join has failed.
Past == {"muting", "detaching", "releasing"}
WorkerStops ==
    /\ loop \in Past \cup {"joining"} => stop
    /\ loop \in Past => worker # "holding" /\ (WorkerGone \/ joinFailed)

\* MIC_CLOSE is tried for a microphone the session saw open.
MicTold == loop \in {"detaching", "releasing", "sleeping", "finding"} /\ micOpen => told

Gates == GateShut /\ WorkerStops /\ MicTold /\ WritesInsideSession /\ NoAttemptOverWorker
Safe == TypeOK /\ Gates

-----------------------------------------------------------------------------
(* Types.                                                                    *)

LEMMA LoopTypesKept == TypeOK /\ [Next]_vars => LoopTypes'
<1> SUFFICES ASSUME TypeOK, [Next]_vars PROVE LoopTypes'
  OBVIOUS
<1> USE BoundsAssumption DEF TypeOK, LoopTypes, Live, Connecting, Teardown, vars, supervisorVars
<1>0. Reconnect \in Callbacks /\ \A k \in 1..attempt : MicOpenCall(k) \in Callbacks
  BY DEF Callbacks
<1>1. CASE StartAttempt
  <2>1. attempt' = attempt + 1 /\ attempt < MaxAttempts
    BY <1>1 DEF StartAttempt
  <2>2. attempt' \in 0..MaxAttempts
    BY <2>1
  <2>3. loop' = "finding" /\ event' = FALSE /\ UNCHANGED <<stopping, posted, reports>>
    BY <1>1 DEF StartAttempt
  <2> QED
    BY <2>2, <2>3
<1>2. CASE EndSleep
  BY <1>2 DEF EndSleep
<1>3. CASE FindCandidate \/ OpenDevice \/ Discover \/ Subscribe \/ Announce
  BY <1>3 DEF FindCandidate, OpenDevice, Discover, Subscribe, Announce, ConnectStep
<1>4. CASE EndWait \/ CancelWrites \/ JoinWorker \/ Mute \/ Detach
  BY <1>4 DEF EndWait, CancelWrites, JoinWorker, Mute, Detach
<1>5. CASE Release
  BY <1>5 DEF Release, AfterRelease
<1>6. CASE RunPosted
  BY <1>6 DEF RunPosted
<1>7. CASE FinishWrite
  BY <1>0, <1>7 DEF FinishWrite
<1>8. CASE Worker
  <2>1. UNCHANGED <<loop, supervisorVars, reports>>
    BY <1>8 DEF Worker, Take, Decode, Return, ExitWorker
  <2>2. posted' \in {posted, Append(posted, Reconnect)}
    BY <1>8 DEF Worker, Take, Decode, Return, ExitWorker
  <2> QED
    BY <1>0, <2>1, <2>2
<1>9. ASSUME NEW k \in reports, StatusChanged(k) PROVE LoopTypes'
  BY <1>0, <1>9 DEF StatusChanged
<1>10. ASSUME NEW k \in 1..attempt, SendMicOpen(k) PROVE LoopTypes'
  BY <1>0, <1>10 DEF SendMicOpen
<1>11. ASSUME NEW n \in Notices, Notify(n) PROVE LoopTypes'
  BY <1>11 DEF Notify
<1>12. CASE LoseLink
  BY <1>12 DEF LoseLink
<1>13. CASE RestoreLink \/ GuardEnds \/ Stop \/ UNCHANGED vars
  BY <1>13 DEF RestoreLink, GuardEnds, Stop
<1> QED
  BY <1>1, <1>2, <1>3, <1>4, <1>5, <1>6, <1>7, <1>8, <1>9, <1>10, <1>11, <1>12, <1>13
     DEF Next, Coroutine, Environment

LEMMA SessionTypesKept == TypeOK /\ [Next]_vars => SessionTypes'
<1> SUFFICES ASSUME TypeOK, [Next]_vars PROVE SessionTypes'
  OBVIOUS
<1> USE QueueAssumption DEF TypeOK, SessionTypes, vars, handlerVars, workerVars
<1>0. <<>> \in Seq(Notices) /\ Len(<<>>) <= QueueMax
  OBVIOUS
<1>1. CASE FindCandidate
  <2>1. CASE NewSession
    <3>1. /\ closing' = FALSE /\ queue' = <<>> /\ writes' = 0 /\ worker' = "none"
          /\ item' = NoItem /\ stop' = FALSE /\ joinFailed' = FALSE /\ UNCHANGED handlerVars
      BY <1>1, <2>1 DEF FindCandidate, NewSession
    <3>2. writes' \in Nat
      BY <3>1
    <3> QED
      BY <1>0, <3>1, <3>2
  <2>2. CASE ~NewSession
    <3>1. UNCHANGED <<closing, writes, queue, workerVars, stop, joinFailed, handlerVars>>
      BY <1>1, <2>2 DEF FindCandidate
    <3> QED
      BY <3>1
  <2> QED
    BY <2>1, <2>2
<1>2. CASE StartAttempt \/ EndSleep \/ EndWait \/ CancelWrites \/ JoinWorker \/ Mute \/ Detach \/ Release
  <2>1. /\ queue' \in {queue, <<>>} /\ UNCHANGED workerVars
        /\ writes' = writes \/ writes' = 0
    BY <1>2 DEF StartAttempt, EndSleep, EndWait, CancelWrites, JoinWorker, Mute, Detach, Release
  <2>2. /\ watching' \in BOOLEAN /\ subscribed' \in BOOLEAN /\ closing' \in BOOLEAN
        /\ stop' \in BOOLEAN /\ joinFailed' \in BOOLEAN
    BY <1>2 DEF StartAttempt, EndSleep, EndWait, CancelWrites, JoinWorker, Mute, Detach, Release
  <2>3. writes' \in Nat
    BY <2>1
  <2>4. queue' \in Seq(Notices) /\ Len(queue') <= QueueMax
    BY <1>0, <2>1
  <2> QED
    BY <2>1, <2>2, <2>3, <2>4
<1>3. CASE OpenDevice \/ Discover \/ Announce
  <2>1. UNCHANGED <<writes, queue, workerVars, stop, joinFailed>>
    BY <1>3 DEF OpenDevice, Discover, Announce
  <2>2. closing' \in BOOLEAN /\ watching' \in BOOLEAN /\ subscribed' \in BOOLEAN
    BY <1>3 DEF OpenDevice, Discover, Announce, Connected
  <2> QED
    BY <2>1, <2>2
<1>4. CASE Subscribe
  <2>1. UNCHANGED <<writes, queue, item, handlerVars, stop, joinFailed>>
    BY <1>4 DEF Subscribe
  <2>2. closing' \in BOOLEAN /\ worker' \in {"polling", "none"}
    BY <1>4 DEF Subscribe, Connected
  <2> QED
    BY <2>1, <2>2
<1>5. CASE RunPosted \/ FinishWrite
  <2>1. UNCHANGED <<handlerVars, closing, queue, workerVars, stop, joinFailed>>
    BY <1>5 DEF RunPosted, FinishWrite
  <2>2. writes' \in {writes, writes + 1} \/ (writes > 0 /\ writes' = writes - 1)
    BY <1>5 DEF RunPosted, FinishWrite
  <2> QED
    BY <2>1, <2>2
<1>6. CASE Take
  <2>1. queue # <<>> /\ item' = Head(queue) /\ queue' = Tail(queue) /\ worker' = "holding"
    BY <1>6 DEF Take
  <2>2. UNCHANGED <<handlerVars, closing, writes, stop, joinFailed>>
    BY <1>6 DEF Take
  <2>3. Head(queue) \in Notices /\ Tail(queue) \in Seq(Notices) /\ Len(Tail(queue)) <= QueueMax
    BY <2>1
  <2> QED
    BY <2>1, <2>2, <2>3
<1>7. CASE Decode \/ Return \/ ExitWorker
  BY <1>7 DEF Decode, Return, ExitWorker
<1>8. ASSUME NEW n \in Notices, Notify(n) PROVE SessionTypes'
  <2>1. UNCHANGED <<handlerVars, closing, writes, workerVars, stop, joinFailed>>
    BY <1>8 DEF Notify
  <2>2. queue' \in Seq(Notices) /\ Len(queue') <= QueueMax
    <3>1. CASE Len(queue) < QueueMax
      BY <1>8, <3>1 DEF Notify, Enqueue
    <3>2. CASE ~(Len(queue) < QueueMax)
      <4>1. queue' = Append(Tail(queue), n) /\ Len(queue) = QueueMax /\ queue # <<>>
        BY <1>8, <3>2 DEF Notify, Enqueue
      <4> QED
        BY <4>1
    <3> QED
      BY <3>1, <3>2
  <2> QED
    BY <2>1, <2>2
<1>9. ASSUME NEW k \in reports, StatusChanged(k) PROVE SessionTypes'
  BY <1>9 DEF StatusChanged
<1>10. ASSUME NEW k \in 1..attempt, SendMicOpen(k) PROVE SessionTypes'
  BY <1>10 DEF SendMicOpen
<1>11. CASE LoseLink \/ RestoreLink \/ GuardEnds \/ Stop \/ UNCHANGED vars
  BY <1>11 DEF LoseLink, RestoreLink, GuardEnds, Stop
<1> QED
  BY <1>1, <1>2, <1>3, <1>4, <1>5, <1>6, <1>7, <1>8, <1>9, <1>10, <1>11
     DEF Next, Coroutine, Worker, Environment

LEMMA AtvvTypesKept == TypeOK /\ [Next]_vars => AtvvTypes'
<1> SUFFICES ASSUME TypeOK, [Next]_vars PROVE AtvvTypes'
  OBVIOUS
<1> USE BoundsAssumption DEF TypeOK, AtvvTypes, vars, atvvVars
<1>1. CASE FindCandidate
  <2>1. CASE NewSession
    <3>1. /\ micOpen' = FALSE /\ guard' = FALSE /\ synced' = FALSE
          /\ pending' = 0 /\ decoder' = 0
      BY <2>1 DEF NewSession, NewAtvv
    <3>2. pending' \in 0..MaxNotices /\ decoder' \in 0..MaxNotices
      BY <3>1
    <3> QED
      BY <3>1, <3>2
  <2>2. CASE ~NewSession
    <3>1. UNCHANGED atvvVars
      BY <1>1, <2>2 DEF FindCandidate
    <3> QED
      BY <3>1
  <2> QED
    BY <2>1, <2>2
<1>2. CASE Coroutine /\ ~FindCandidate
  BY <1>2 DEF Coroutine, StartAttempt, EndSleep, OpenDevice, Discover, Subscribe, Announce, EndWait,
     CancelWrites, JoinWorker, Mute, Detach, Release
<1>3. CASE Decode
  <2>1. item.stream \in 0..MaxNotices
    BY DEF SessionTypes, Notices, NoItem, Streams
  <2>2. CASE item.kind = "malformed"
    BY <1>3, <2>2 DEF Decode, Refused
  <2>3. CASE item.kind = "audio"
    <3>1. HandleAudio
      BY <1>3, <2>3 DEF Decode, Refused
    <3>2. UNCHANGED <<micOpen, guard>>
      BY <3>1 DEF HandleAudio
    <3>3. synced' \in BOOLEAN
      BY <3>1 DEF HandleAudio, KeepHalf, DecodeFrame
    <3>4. pending' \in {0, pending, item.stream} /\ decoder' \in {decoder, item.stream}
      BY <3>1 DEF HandleAudio, KeepHalf, DecodeFrame
    <3> QED
      BY <2>1, <3>2, <3>3, <3>4
  <2>4. CASE item.kind \notin {"malformed", "audio"}
    <3>1. HandleControl
      BY <1>3, <2>4 DEF Decode, Refused
    <3>2. micOpen' \in BOOLEAN /\ guard' \in BOOLEAN /\ synced' \in BOOLEAN
      BY <3>1 DEF HandleControl
    <3>3. pending' \in {0, pending} /\ decoder' \in {0, decoder}
      BY <3>1 DEF HandleControl
    <3> QED
      BY <3>2, <3>3
  <2> QED
    BY <2>2, <2>3, <2>4
<1>4. CASE Take \/ Return \/ ExitWorker \/ RunPosted \/ FinishWrite
  BY <1>4 DEF Take, Return, ExitWorker, RunPosted, FinishWrite
<1>5. ASSUME NEW n \in Notices, Notify(n) PROVE AtvvTypes'
  BY <1>5 DEF Notify
<1>6. ASSUME NEW k \in reports, StatusChanged(k) PROVE AtvvTypes'
  BY <1>6 DEF StatusChanged
<1>7. ASSUME NEW k \in 1..attempt, SendMicOpen(k) PROVE AtvvTypes'
  BY <1>7 DEF SendMicOpen
<1>8. CASE LoseLink \/ RestoreLink \/ GuardEnds \/ Stop \/ UNCHANGED vars
  BY <1>8 DEF LoseLink, RestoreLink, GuardEnds, Stop
<1> QED
  BY <1>1, <1>2, <1>3, <1>4, <1>5, <1>6, <1>7, <1>8 DEF Next, Worker, Environment

LEMMA RemoteTypesKept == TypeOK /\ [Next]_vars => RemoteTypes'
<1> SUFFICES ASSUME TypeOK, [Next]_vars PROVE RemoteTypes'
  OBVIOUS
<1> USE BoundsAssumption
    DEF TypeOK, RemoteTypes, Spend, vars, remoteVars, historyVars, budgetVars, atvvVars
<1>1. CASE FindCandidate
  <2>1. UNCHANGED <<remoteVars, notices, calls>>
    BY <1>1 DEF FindCandidate
  <2>2. faults' = faults \/ (faults > 0 /\ faults' = faults - 1)
    BY <1>1 DEF FindCandidate
  <2>3. faults' \in 0..MaxFaults
    BY <2>2
  <2>4. mixed' \in BOOLEAN /\ startLost' \in BOOLEAN /\ told' \in BOOLEAN
    BY <1>1 DEF FindCandidate, NewSession
  <2> QED
    BY <2>1, <2>3, <2>4
<1>2. CASE StartAttempt \/ EndSleep \/ EndWait \/ CancelWrites \/ Detach \/ Release \/ RunPosted
  BY <1>2 DEF StartAttempt, EndSleep, EndWait, CancelWrites, Detach, Release, RunPosted
<1>3. CASE OpenDevice \/ Discover \/ Subscribe \/ Announce \/ JoinWorker
  <2>1. UNCHANGED <<remoteVars, mixed, startLost, told, notices, calls>>
    BY <1>3 DEF OpenDevice, Discover, Subscribe, Announce, JoinWorker
  <2>2. faults' = faults \/ (faults > 0 /\ faults' = faults - 1)
    BY <1>3 DEF OpenDevice, Discover, Subscribe, Announce, JoinWorker, ConnectStep
  <2>3. faults' \in 0..MaxFaults
    BY <2>2
  <2> QED
    BY <2>1, <2>3
<1>4. CASE Mute
  <2>1. stream' \in {0, stream} /\ told' = micOpen
    BY <1>4 DEF Mute, Muted
  <2>2. UNCHANGED <<link, streams, mixed, startLost, budgetVars>>
    BY <1>4 DEF Mute
  <2>3. stream' \in 0..MaxNotices
    BY <2>1
  <2> QED
    BY <2>1, <2>2, <2>3 DEF AtvvTypes
<1>5. CASE FinishWrite
  <2>1. UNCHANGED <<remoteVars, mixed, startLost, told, notices, calls>>
    BY <1>5 DEF FinishWrite
  <2>2. faults' = faults \/ (faults > 0 /\ faults' = faults - 1)
    BY <1>5 DEF FinishWrite
  <2>3. faults' \in 0..MaxFaults
    BY <2>2
  <2> QED
    BY <2>1, <2>3
<1>6. CASE Decode
  <2>1. UNCHANGED <<remoteVars, historyVars, budgetVars>>
    BY <1>6 DEF Decode
  <2>2. mixed' \in BOOLEAN
    BY <1>6 DEF Decode, HandleAudio, KeepHalf, DecodeFrame, HandleControl
  <2> QED
    BY <2>1, <2>2
<1>7. CASE Return
  <2>1. UNCHANGED <<remoteVars, mixed, historyVars, notices, calls>>
    BY <1>7 DEF Return
  <2>2. faults' = faults \/ (faults > 0 /\ faults' = faults - 1)
    BY <1>7 DEF Return
  <2>3. faults' \in 0..MaxFaults
    BY <2>2
  <2> QED
    BY <2>1, <2>3
<1>8. CASE Take \/ ExitWorker
  BY <1>8 DEF Take, ExitWorker
<1>9. ASSUME NEW n \in Notices, Notify(n) PROVE RemoteTypes'
  <2>1. n.stream \in 1..MaxNotices
    BY DEF Notices, Streams
  <2>2. stream' \in {0, stream, n.stream} /\ streams' \in {streams, n.stream}
    BY <1>9 DEF Notify
  <2>3. stream' \in 0..MaxNotices /\ streams' \in 0..MaxNotices
    BY <2>1, <2>2
  <2>4. notices' = notices - 1 /\ notices > 0 /\ UNCHANGED <<link, mixed, told, calls>>
    BY <1>9 DEF Notify
  <2>5. faults' = faults \/ (faults > 0 /\ faults' = faults - 1)
    BY <1>9 DEF Notify
  <2>6. notices' \in 0..MaxNotices /\ faults' \in 0..MaxFaults
    BY <2>4, <2>5
  <2>7. startLost' \in BOOLEAN
    BY <1>9 DEF Notify, Enqueue
  <2> QED
    BY <2>3, <2>4, <2>6, <2>7
<1>10. ASSUME NEW k \in reports, StatusChanged(k) PROVE RemoteTypes'
  BY <1>10 DEF StatusChanged
<1>11. ASSUME NEW k \in 1..attempt, SendMicOpen(k) PROVE RemoteTypes'
  BY <1>11 DEF SendMicOpen
<1>12. CASE LoseLink
  <2>1. link' = FALSE /\ stream' = 0 /\ UNCHANGED <<streams, mixed, historyVars, notices, calls>>
    BY <1>12 DEF LoseLink
  <2>2. faults' \in 0..MaxFaults /\ stream' \in 0..MaxNotices
    BY <1>12 DEF LoseLink
  <2> QED
    BY <2>1, <2>2
<1>13. CASE Stop
  BY <1>13 DEF Stop
<1>14. CASE RestoreLink \/ GuardEnds \/ UNCHANGED vars
  BY <1>14 DEF RestoreLink, GuardEnds
<1> QED
  BY <1>1, <1>2, <1>3, <1>4, <1>5, <1>6, <1>7, <1>8, <1>9, <1>10, <1>11, <1>12, <1>13, <1>14
     DEF Next, Coroutine, Worker, Environment

-----------------------------------------------------------------------------
(* The gates.                                                                *)

\* The steps of connect() go on with the gate open or leave with it shut.
LEMMA ConnectKeeps ==
    ASSUME TypeOK, Gates, OpenDevice \/ Discover \/ Subscribe \/ Announce
    PROVE  Gates'
<1> USE DEF TypeOK, LoopTypes, SessionTypes, Gates, GateShut, WorkerStops, MicTold,
       WritesInsideSession, NoAttemptOverWorker, Live, Connecting, Past, Teardown
<1>1. CASE OpenDevice
  BY <1>1 DEF OpenDevice, ConnectStep, Connected, workerVars, atvvVars, historyVars, supervisorVars
<1>2. CASE Discover
  BY <1>2 DEF Discover, ConnectStep, Connected, workerVars, atvvVars, historyVars, supervisorVars
<1>3. CASE Subscribe
  BY <1>3 DEF Subscribe, ConnectStep, Connected, atvvVars, historyVars, supervisorVars
<1>4. CASE Announce
  BY <1>4 DEF Announce, ConnectStep, Connected, workerVars, atvvVars, historyVars, supervisorVars
<1> QED
  BY <1>1, <1>2, <1>3, <1>4

LEMMA GatesKept == TypeOK /\ Gates /\ [Next]_vars => Gates'
<1> SUFFICES ASSUME TypeOK, Gates, [Next]_vars PROVE Gates'
  OBVIOUS
<1> USE DEF TypeOK, LoopTypes, SessionTypes, Gates, GateShut, WorkerStops, MicTold,
       WritesInsideSession, NoAttemptOverWorker, Live, Connecting, Past, Teardown, WorkerGone,
       vars, workerVars, atvvVars, historyVars, supervisorVars
<1>1. CASE StartAttempt
  BY <1>1 DEF StartAttempt
<1>16. CASE FindCandidate
  <2>1. CASE NewSession
    <3>1. loop' \in {"opening", "ended", "sleeping"} /\ UNCHANGED supervisorVars
      BY <1>16 DEF FindCandidate
    <3>2. loop' = "opening"
      BY <1>16, <2>1 DEF FindCandidate, NewSession
    <3>3. /\ writes' = 0 /\ worker' = "none" /\ stop' = FALSE /\ micOpen' = FALSE
      BY <2>1 DEF NewSession, NewAtvv
    <3> QED
      BY <3>2, <3>3
  <2>2. CASE ~NewSession
    <3>1. loop = "finding" /\ loop' \in {"ended", "sleeping"}
      BY <1>16, <2>2 DEF FindCandidate
    <3>2. UNCHANGED <<closing, writes, workerVars, stop, joinFailed, micOpen, told>>
      BY <1>16, <2>2 DEF FindCandidate
    <3> QED
      BY <3>1, <3>2
  <2> QED
    BY <2>1, <2>2
<1>2. CASE OpenDevice \/ Discover \/ Subscribe \/ Announce
  BY <1>2, ConnectKeeps
<1>3. CASE EndSleep \/ EndWait
  BY <1>3 DEF EndSleep, EndWait
<1>4. CASE CancelWrites
  BY <1>4 DEF CancelWrites
<1>5. CASE JoinWorker
  BY <1>5 DEF JoinWorker
<1>6. CASE Mute \/ Detach
  BY <1>6 DEF Mute, Detach
<1>7. CASE Release
  BY <1>7 DEF Release, AfterRelease
<1>8. CASE RunPosted
  <2>1. \/ writes' = writes
        \/ ~closing /\ attempt # 0
    <3>1. Head(posted) \in Callbacks
      BY <1>8 DEF RunPosted
    <3>2. Head(posted).call = "micOpen" => Head(posted).of \in 1..MaxAttempts
      BY <3>1 DEF Callbacks, Reconnect, MicOpenCall
    <3> QED
      BY <1>8, <3>2 DEF RunPosted, GateOpen
  <2>2. UNCHANGED <<loop, closing, attempt, stop, workerVars, joinFailed, atvvVars, told>>
    BY <1>8 DEF RunPosted
  <2> QED
    BY <2>1, <2>2
<1>9. CASE FinishWrite
  <2>1. writes > 0 /\ UNCHANGED <<loop, closing, attempt, stop, workerVars, joinFailed, atvvVars, told>>
    BY <1>9 DEF FinishWrite
  <2> QED
    BY <2>1
<1>10. CASE Decode
  <2>1. worker = "holding" /\ worker' = "calling"
        /\ UNCHANGED <<loop, closing, attempt, stop, writes, joinFailed, told>>
    BY <1>10 DEF Decode
  <2> QED
    BY <2>1
<1>11. CASE Take \/ Return \/ ExitWorker
  BY <1>11 DEF Take, Return, ExitWorker
<1>12. ASSUME NEW n \in Notices, Notify(n) PROVE Gates'
  BY <1>12 DEF Notify
<1>13. ASSUME NEW k \in reports, StatusChanged(k) PROVE Gates'
  BY <1>13 DEF StatusChanged
<1>14. ASSUME NEW k \in 1..attempt, SendMicOpen(k) PROVE Gates'
  BY <1>14 DEF SendMicOpen
<1>15. CASE LoseLink \/ RestoreLink \/ GuardEnds \/ Stop \/ UNCHANGED vars
  BY <1>15 DEF LoseLink, RestoreLink, GuardEnds, Stop
<1> QED
  BY <1>1, <1>2, <1>3, <1>4, <1>5, <1>6, <1>7, <1>8, <1>9, <1>10, <1>11, <1>12, <1>13, <1>14, <1>15, <1>16
     DEF Next, Coroutine, Worker, Environment

-----------------------------------------------------------------------------
(* Streams along the line from the remote to the decoder: lemmas about the     *)
(* operators the invariant of FramesOfOneStream is built from.                 *)

\* The streams of which something is at place i of the line s: the decoder
\* comes before its first notification, the remote after its last.
Tags(d, s, r, i) ==
    CASE i = 0 -> d
      [] i = Len(s) + 1 -> r
      [] OTHER -> IF s[i].kind = "audio" THEN {s[i].stream} ELSE {}

\* Where the line goes over to another stream there is an AUDIO_START.
StartsBetween(d, s, r) ==
    \A i, j \in 0..Len(s) + 1 : i < j =>
        \A x \in Tags(d, s, r, i), y \in Tags(d, s, r, j) :
            x = y \/ \E k \in i + 1..j - 1 : s[k].kind = "start"

\* A part of what both ends have is no further apart.
LEMMA PartOfEnds ==
    ASSUME NEW S, NEW s \in Seq(S), NEW d, NEW r, NEW d1 \in SUBSET d, NEW r1 \in SUBSET r,
           StartsBetween(d, s, r)
    PROVE  StartsBetween(d1, s, r1)
<1>1. \A i \in 0..Len(s) + 1 : Tags(d1, s, r1, i) \subseteq Tags(d, s, r, i)
  BY DEF Tags
<1> QED
  BY <1>1 DEF StartsBetween

LEMMA NothingHeard == ASSUME NEW r PROVE StartsBetween({}, <<>>, r)
<1>1. Len(<<>>) = 0 /\ Tags({}, <<>>, r, 0) = {}
  BY DEF Tags
<1>2. \A i, j \in 0..1 : i < j => i = 0
  OBVIOUS
<1> QED
  BY <1>1, <1>2 DEF StartsBetween

\* The remote sends a notification: audio is of the stream it is sending, and
\* another stream begins with its start.
LEMMA Sent ==
    ASSUME NEW S, NEW s \in Seq(S), NEW n \in S, NEW d, NEW r, NEW r1,
           StartsBetween(d, s, r), \A x, y \in r : x = y,
           n.kind = "audio" => n.stream \in r,
           n.kind = "start" \/ r1 \subseteq r
    PROVE  StartsBetween(d, Append(s, n), r1)
<1> DEFINE t == Append(s, n)
           L == Len(s)
<1>0. L \in Nat /\ Len(t) = L + 1 /\ t[L + 1] = n /\ \A k \in 1..L : t[k] = s[k]
  OBVIOUS
<1>1. \A i \in 0..L : Tags(d, t, r1, i) = Tags(d, s, r, i)
  <2> SUFFICES ASSUME NEW i \in 0..L PROVE Tags(d, t, r1, i) = Tags(d, s, r, i)
    OBVIOUS
  <2>1. CASE i = 0
    BY <2>1 DEF Tags
  <2>2. CASE i # 0
    <3>1. i \in 1..L /\ i # L + 1 /\ i # Len(t) + 1 /\ t[i] = s[i]
      BY <1>0, <2>2
    <3> QED
      BY <2>2, <3>1 DEF Tags
  <2> QED
    BY <2>1, <2>2
<1>2. Tags(d, t, r1, L + 1) \subseteq Tags(d, s, r, L + 1)
  <2>1. Tags(d, t, r1, L + 1) = IF n.kind = "audio" THEN {n.stream} ELSE {}
    BY <1>0 DEF Tags
  <2>2. Tags(d, s, r, L + 1) = r
    BY <1>0 DEF Tags
  <2> QED
    BY <2>1, <2>2
<1>3. Tags(d, t, r1, L + 2) = r1 /\ Tags(d, s, r, L + 1) = r
  BY <1>0 DEF Tags
<1> SUFFICES ASSUME NEW i \in 0..L + 2, NEW j \in 0..L + 2, i < j,
                    NEW x \in Tags(d, t, r1, i), NEW y \in Tags(d, t, r1, j)
             PROVE  x = y \/ \E k \in i + 1..j - 1 : t[k].kind = "start"
  BY <1>0 DEF StartsBetween
<1>4. CASE j <= L + 1
  <2>1. i \in 0..L /\ j \in 0..L + 1 /\ x \in Tags(d, s, r, i) /\ y \in Tags(d, s, r, j)
    BY <1>0, <1>1, <1>2, <1>4
  <2>2. x = y \/ \E k \in i + 1..j - 1 : s[k].kind = "start"
    BY <2>1, <1>0 DEF StartsBetween
  <2>3. \A k \in i + 1..j - 1 : t[k] = s[k]
    BY <1>0, <1>4
  <2> QED
    BY <2>2, <2>3
<1>5. CASE j = L + 2 /\ n.kind = "start"
  <2>1. CASE i = L + 1
    <3>1. Tags(d, t, r1, L + 1) = {}
      BY <1>0, <1>5 DEF Tags
    <3> QED
      BY <2>1, <3>1
  <2>2. CASE i # L + 1
    <3>1. L + 1 \in i + 1..j - 1
      BY <1>0, <1>5, <2>2
    <3> QED
      BY <3>1, <1>0, <1>5
  <2> QED
    BY <2>1, <2>2
<1>6. CASE j = L + 2 /\ n.kind # "start"
  <2>1. y \in r
    BY <1>3, <1>6
  <2>2. CASE i = L + 1
    BY <2>1, <2>2, <1>2, <1>3
  <2>3. CASE i # L + 1
    <3>1. i \in 0..L /\ L + 1 \in 0..L + 1 /\ i < L + 1 /\ x \in Tags(d, s, r, i)
      BY <1>0, <1>1, <1>6, <2>3
    <3>2. x = y \/ \E k \in i + 1..L : s[k].kind = "start"
      <4>1. x = y \/ \E k \in i + 1..(L + 1) - 1 : s[k].kind = "start"
        BY <2>1, <3>1, <1>3 DEF StartsBetween
      <4>2. (L + 1) - 1 = L
        BY <1>0
      <4> QED
        BY <4>1, <4>2
    <3>3. \A k \in i + 1..L : t[k] = s[k] /\ k \in i + 1..j - 1
      BY <1>0, <1>6
    <3> QED
      BY <3>2, <3>3
  <2> QED
    BY <2>2, <2>3
<1> QED
  BY <1>0, <1>4, <1>5, <1>6

\* A notification that is no start may be dropped from anywhere in the line.
LEMMA Dropped ==
    ASSUME NEW S, NEW s \in Seq(S), NEW t \in Seq(S), NEW d, NEW r, NEW m \in 1..Len(s),
           StartsBetween(d, s, r), s[m].kind # "start", Len(t) = Len(s) - 1,
           \A k \in 1..Len(t) : t[k] = IF k < m THEN s[k] ELSE s[k + 1]
    PROVE  StartsBetween(d, t, r)
<1> DEFINE L == Len(s)
           Was(k) == IF k < m THEN k ELSE k + 1
<1>0. L \in Nat /\ L > 0 /\ Len(t) = L - 1 /\ m \in 1..L
  OBVIOUS
<1> HIDE DEF L
<1>1. \A i \in 0..L : Was(i) \in 0..L + 1 /\ Tags(d, t, r, i) = Tags(d, s, r, Was(i))
  <2> SUFFICES ASSUME NEW i \in 0..L
               PROVE  Was(i) \in 0..L + 1 /\ Tags(d, t, r, i) = Tags(d, s, r, Was(i))
    OBVIOUS
  <2>1. CASE i = 0
    BY <1>0, <2>1 DEF Tags
  <2>2. CASE i = L
    <3>1. Was(i) = L + 1 /\ i = Len(t) + 1 /\ i # 0 /\ L + 1 # 0
      BY <1>0, <2>2
    <3> QED
      BY <1>0, <3>1 DEF Tags, L
  <2>3. CASE i # 0 /\ i # L
    <3>1. i \in 1..Len(t) /\ Was(i) \in 1..L
      BY <1>0, <2>3
    <3>2. t[i] = s[Was(i)]
      BY <3>1
    <3>3. i # Len(t) + 1 /\ i # 0 /\ Was(i) # 0 /\ Was(i) # L + 1
      BY <3>1, <1>0
    <3> QED
      BY <3>1, <3>2, <3>3, <1>0 DEF Tags, L
  <2> QED
    BY <2>1, <2>2, <2>3
<1> SUFFICES ASSUME NEW i \in 0..L, NEW j \in 0..L, i < j,
                    NEW x \in Tags(d, t, r, i), NEW y \in Tags(d, t, r, j),
                    x # y
             PROVE  \E k \in i + 1..j - 1 : t[k].kind = "start"
  <2>1. Len(t) + 1 = L
    BY <1>0
  <2> QED
    BY <2>1 DEF StartsBetween
<1>2. Was(i) < Was(j) /\ Was(i) \in 0..L + 1 /\ Was(j) \in 0..L + 1
  BY <1>0, <1>1
<1>3. x \in Tags(d, s, r, Was(i)) /\ y \in Tags(d, s, r, Was(j))
  BY <1>1
<1>4. PICK k \in Was(i) + 1..Was(j) - 1 : s[k].kind = "start"
  BY <1>2, <1>3 DEF StartsBetween, L
<1>5. k # m /\ k \in 1..L
  BY <1>0, <1>2, <1>4
<1>6. CASE k < m
  <2>1. k \in i + 1..j - 1 /\ k \in 1..Len(t)
    BY <1>0, <1>4, <1>5, <1>6
  <2>2. t[k] = s[k]
    BY <2>1, <1>6
  <2> QED
    BY <2>1, <2>2, <1>4
<1>7. CASE k > m
  <2>1. k - 1 \in i + 1..j - 1 /\ k - 1 \in 1..Len(t) /\ ~(k - 1 < m) /\ (k - 1) + 1 = k
    BY <1>0, <1>4, <1>5, <1>7
  <2>2. t[k - 1] = s[k]
    BY <2>1
  <2> QED
    BY <2>1, <2>2, <1>4
<1> QED
  BY <1>0, <1>5, <1>6, <1>7

\* In particular the oldest of a queue, behind a notification in hand.
LEMMA SecondDropped ==
    ASSUME NEW S, NEW q \in Seq(S), NEW e \in S, q # <<>>, NEW d, NEW r,
           StartsBetween(d, <<e>> \o q, r), Head(q).kind # "start"
    PROVE  StartsBetween(d, <<e>> \o Tail(q), r)
<1> DEFINE s == <<e>> \o q
           t == <<e>> \o Tail(q)
<1>1. /\ Len(q) \in Nat /\ Len(q) > 0 /\ Len(Tail(q)) = Len(q) - 1 /\ Head(q) = q[1]
      /\ Tail(q) \in Seq(S) /\ \A k \in 1..Len(q) - 1 : Tail(q)[k] = q[k + 1]
  OBVIOUS
<1>2. /\ s \in Seq(S) /\ Len(s) = Len(q) + 1 /\ s[1] = e
      /\ \A k \in 1..Len(q) : s[k + 1] = q[k]
  OBVIOUS
<1>3. /\ t \in Seq(S) /\ Len(t) = Len(q) /\ t[1] = e
      /\ \A k \in 1..Len(q) - 1 : t[k + 1] = Tail(q)[k]
  BY <1>1
<1> HIDE DEF s, t
<1>4. ASSUME NEW k \in 1..Len(t) PROVE t[k] = IF k < 2 THEN s[k] ELSE s[k + 1]
  <2>1. CASE k = 1
    BY <1>2, <1>3, <2>1
  <2>2. CASE k # 1
    <3>1. k - 1 \in 1..Len(q) - 1 /\ (k - 1) + 1 = k /\ k \in 1..Len(q) /\ ~(k < 2)
      BY <1>1, <1>3, <2>2
    <3>2. t[k] = Tail(q)[k - 1] /\ Tail(q)[k - 1] = q[k] /\ s[k + 1] = q[k]
      BY <1>1, <1>2, <1>3, <3>1
    <3> QED
      BY <3>1, <3>2
  <2> QED
    BY <2>1, <2>2
<1>5. 2 \in 1..Len(s) /\ s[2].kind # "start" /\ Len(t) = Len(s) - 1
  <2>1. 1 \in 1..Len(q) /\ s[1 + 1] = q[1]
    BY <1>1, <1>2
  <2> QED
    BY <1>1, <1>2, <1>3, <2>1
<1>6. StartsBetween(d, s, r)
  BY DEF s
<1>7. StartsBetween(d, t, r)
  BY <1>2, <1>3, <1>4, <1>5, <1>6, Dropped
<1> QED
  BY <1>7 DEF t

\* The decoder takes the first notification: a start makes it forget, audio
\* adds its stream.
LEMMA Decoded ==
    ASSUME NEW S, NEW s \in Seq(S), s # <<>>, NEW d, NEW r, NEW d1,
           StartsBetween(d, s, r),
           IF Head(s).kind = "start" THEN d1 = {}
           ELSE \A x \in d1 : x \in d \/ (Head(s).kind = "audio" /\ x = Head(s).stream)
    PROVE  StartsBetween(d1, Tail(s), r)
<1> DEFINE t == Tail(s)
           L == Len(s)
<1>0. /\ L \in Nat /\ L > 0 /\ Len(t) = L - 1 /\ Head(s) = s[1]
      /\ \A k \in 1..L - 1 : t[k] = s[k + 1]
  OBVIOUS
<1> HIDE DEF t, L
<1>1. \A j \in 1..L : Tags(d1, t, r, j) = Tags(d, s, r, j + 1)
  <2> SUFFICES ASSUME NEW j \in 1..L PROVE Tags(d1, t, r, j) = Tags(d, s, r, j + 1)
    OBVIOUS
  <2>1. CASE j = L
    BY <1>0, <2>1 DEF Tags, L
  <2>2. CASE j # L
    <3>1. j \in 1..L - 1 /\ j # 0 /\ j # Len(t) + 1 /\ j + 1 # 0 /\ j + 1 # L + 1
      BY <1>0, <2>2
    <3> QED
      BY <1>0, <3>1 DEF Tags, L
  <2> QED
    BY <2>1, <2>2
<1>2. /\ Tags(d1, t, r, 0) = d1 /\ Tags(d, s, r, 0) = d
      /\ Head(s).kind = "audio" => Tags(d, s, r, 1) = {Head(s).stream}
  BY <1>0 DEF Tags, L
<1> SUFFICES ASSUME NEW i \in 0..L, NEW j \in 0..L, i < j,
                    NEW x \in Tags(d1, t, r, i), NEW y \in Tags(d1, t, r, j),
                    x # y
             PROVE  \E k \in i + 1..j - 1 : t[k].kind = "start"
  <2>1. Len(t) + 1 = L
    BY <1>0
  <2> QED
    BY <2>1 DEF StartsBetween, t
<1>3. j \in 1..L /\ y \in Tags(d, s, r, j + 1) /\ j + 1 \in 0..L + 1
  BY <1>0, <1>1
<1>4. ASSUME NEW k \in i + 2..j, s[k].kind = "start"
      PROVE  \E h \in i + 1..j - 1 : t[h].kind = "start"
  <2>1. k - 1 \in i + 1..j - 1 /\ k - 1 \in 1..L - 1 /\ (k - 1) + 1 = k
    BY <1>0, <1>3
  <2> QED
    BY <2>1, <1>0, <1>4
<1>5. CASE i # 0
  <2>1. i + 1 \in 0..L + 1 /\ i + 1 < j + 1 /\ x \in Tags(d, s, r, i + 1)
    BY <1>0, <1>1, <1>5
  <2>2. PICK k \in (i + 1) + 1..(j + 1) - 1 : s[k].kind = "start"
    BY <2>1, <1>3 DEF StartsBetween, L
  <2>3. k \in i + 2..j
    BY <2>2, <1>3
  <2> QED
    BY <2>2, <2>3, <1>4
<1>6. CASE i = 0 /\ x \in d /\ Head(s).kind # "start"
  <2>1. 0 \in 0..L + 1 /\ 0 < j + 1 /\ x \in Tags(d, s, r, 0)
    BY <1>0, <1>2, <1>3, <1>6
  <2>2. PICK k \in 0 + 1..(j + 1) - 1 : s[k].kind = "start"
    BY <2>1, <1>3 DEF StartsBetween, L
  <2>3. k # 1
    BY <2>2, <1>0, <1>6
  <2>4. k \in i + 2..j
    BY <2>2, <2>3, <1>3, <1>6
  <2> QED
    BY <2>2, <2>4, <1>4
<1>7. CASE i = 0 /\ Head(s).kind = "audio" /\ x = Head(s).stream
  <2>1. 1 \in 0..L + 1 /\ 1 < j + 1 /\ x \in Tags(d, s, r, 1)
    BY <1>0, <1>2, <1>3, <1>7
  <2>2. PICK k \in 1 + 1..(j + 1) - 1 : s[k].kind = "start"
    BY <2>1, <1>3 DEF StartsBetween, L
  <2>3. k \in i + 2..j
    BY <2>2, <1>3, <1>7
  <2> QED
    BY <2>2, <2>3, <1>4
<1> QED
  BY <1>2, <1>5, <1>6, <1>7
-----------------------------------------------------------------------------
(* One stream to a frame: the worker's line keeps a start wherever it goes    *)
(* over to another stream, as long as no start is dropped from the full queue. *)

\* The notifications that still await the decoder, the one in hand first.
Line == IF worker = "holding" THEN <<item>> \o queue ELSE queue
\* The streams that the decoder has bytes or a predictor of.
Heard == {pending, decoder} \ {0}
Sending == {streams} \ {0}
\* The worker may take another notification, or has one to decode.
Decodes == ~stop \/ worker = "holding"

Apart == ~startLost => ~mixed /\ (Decodes => StartsBetween(Heard, Line, Sending))

LineItems == Notices \cup {NoItem}

LEMMA LineTyped == TypeOK => Line \in Seq(LineItems) /\ queue \in Seq(LineItems)
<1> SUFFICES ASSUME TypeOK PROVE Line \in Seq(LineItems) /\ queue \in Seq(LineItems)
  OBVIOUS
<1>1. queue \in Seq(Notices) /\ item \in LineItems
  BY DEF TypeOK, SessionTypes, LineItems
<1>2. queue \in Seq(LineItems)
  BY <1>1 DEF LineItems
<1>3. <<item>> \o queue \in Seq(LineItems)
  BY <1>1, <1>2
<1> QED
  BY <1>2, <1>3 DEF Line

\* Nothing that concerns the line changes; a stream may end.
LEMMA LineKept ==
    ASSUME TypeOK, Apart, UNCHANGED <<queue, worker, item, pending, decoder, mixed, startLost>>,
           stop => stop', UNCHANGED streams
    PROVE  Apart'
<1> SUFFICES ASSUME ~startLost PROVE ~mixed' /\ (Decodes' => StartsBetween(Heard, Line, Sending)')
  BY DEF Apart
<1>1. Heard' = Heard /\ Line' = Line /\ Sending' \subseteq Sending /\ (Decodes' => Decodes)
  BY DEF Heard, Line, Sending, Decodes
<1>2. Decodes => StartsBetween(Heard, Line, Sending')
  <2>1. Decodes => StartsBetween(Heard, Line, Sending)
    BY DEF Apart
  <2> QED
    BY <1>1, <2>1, LineTyped, PartOfEnds
<1>3. StartsBetween(Heard, Line, Sending)' <=> StartsBetween(Heard, Line, Sending')
  BY <1>1 DEF StartsBetween, Tags
<1> QED
  BY <1>1, <1>2, <1>3 DEF Apart

\* What the remote sends goes to the end of the line; a full queue drops its
\* oldest notification, which then is no start.
LEMMA NotifyApart ==
    ASSUME TypeOK, Apart, NEW n \in Notices, Notify(n)
    PROVE  Apart'
<1> SUFFICES ASSUME ~startLost', Decodes' PROVE ~mixed' /\ StartsBetween(Heard', Line', Sending')
  <2>1. UNCHANGED <<mixed, startLost>> \/ startLost' \/ (~startLost /\ UNCHANGED mixed)
    BY DEF Notify, Enqueue, TypeOK, RemoteTypes, atvvVars
  <2>2. ~startLost' => ~startLost
    BY DEF Notify, Enqueue
  <2>3. UNCHANGED mixed
    BY DEF Notify, atvvVars
  <2> QED
    BY <2>2, <2>3 DEF Apart
<1>1. /\ UNCHANGED <<worker, item, stop, mixed, pending, decoder>>
      /\ ~startLost
  BY DEF Notify, Enqueue, workerVars, atvvVars
<1>2. Heard' = Heard /\ Decodes /\ ~mixed /\ StartsBetween(Heard, Line, Sending)
  BY <1>1 DEF Heard, Decodes, Apart
<1>3. /\ Line \in Seq(LineItems) /\ queue \in Seq(LineItems) /\ n \in LineItems
      /\ item \in LineItems
  BY LineTyped DEF LineItems, TypeOK, SessionTypes
<1>4. /\ \A x, y \in Sending : x = y
      /\ n.kind = "audio" => n.stream \in Sending
      /\ n.kind = "start" \/ Sending' \subseteq Sending
  <2>1. n.stream # 0
    BY DEF Notices, Streams
  <2>2. n.kind = "audio" => n.stream = streams
    BY DEF Notify, Sendable
  <2>3. n.kind = "start" \/ UNCHANGED streams
    BY DEF Notify
  <2> QED
    BY <2>1, <2>2, <2>3 DEF Sending
<1>5. CASE Len(queue) < QueueMax
  <2>1. queue' = Append(queue, n)
    BY <1>5 DEF Notify, Enqueue
  <2>2. Line' = Append(Line, n)
    BY <1>1, <1>3, <2>1 DEF Line
  <2>3. StartsBetween(Heard, Append(Line, n), Sending')
    BY <1>2, <1>3, <1>4, Sent
  <2> QED
    BY <1>1, <1>2, <2>2, <2>3
<1>6. CASE ~(Len(queue) < QueueMax)
  <2>1. /\ queue' = Append(Tail(queue), n) /\ Head(queue).kind # "start"
    BY <1>6 DEF Notify, Enqueue
  <2>2. queue # <<>> /\ Len(queue) \in Nat /\ Len(queue) > 0
    BY <1>6, <1>3, QueueAssumption
  <2> DEFINE t == IF worker = "holding" THEN <<item>> \o Tail(queue) ELSE Tail(queue)
  <2>3. t \in Seq(LineItems) /\ Tail(queue) \in Seq(LineItems)
    BY <1>3, <2>2
  <2>4. StartsBetween(Heard, t, Sending)
    <3>1. CASE worker = "holding"
      BY <1>2, <1>3, <2>1, <2>2, <3>1, SecondDropped DEF Line
    <3>2. CASE worker # "holding"
      <4>1. Line = queue /\ t = Tail(queue) /\ Line[1] = Head(queue) /\ 1 \in 1..Len(Line)
        BY <1>3, <2>2, <3>2 DEF Line
      <4>2. /\ Len(t) = Len(Line) - 1
            /\ \A k \in 1..Len(t) : t[k] = IF k < 1 THEN Line[k] ELSE Line[k + 1]
        BY <1>3, <2>2, <4>1
      <4> HIDE DEF t
      <4>3. Line[1].kind # "start"
        BY <2>1, <4>1
      <4> QED
        BY <1>2, <1>3, <2>3, <4>1, <4>2, <4>3, Dropped
    <3> QED
      BY <3>1, <3>2
  <2>5. Line' = Append(t, n)
    BY <1>1, <1>3, <2>1, <2>3 DEF Line
  <2> HIDE DEF t
  <2>6. StartsBetween(Heard, Append(t, n), Sending')
    BY <1>3, <1>4, <2>3, <2>4, Sent
  <2> QED
    BY <1>1, <1>2, <2>5, <2>6
<1> QED
  BY <1>5, <1>6

\* What the worker takes from the queue stays first in the line.
LEMMA TakeApart == ASSUME TypeOK, Apart, Take PROVE Apart'
<1>1. /\ worker = "polling" /\ worker' = "holding" /\ ~stop /\ queue # <<>>
      /\ item' = Head(queue) /\ queue' = Tail(queue)
      /\ UNCHANGED <<streams, stop, pending, decoder, mixed, startLost>>
  BY DEF Take, remoteVars, atvvVars, historyVars
<1>2. Line' = Line
  <2>1. <<Head(queue)>> \o Tail(queue) = queue
    BY <1>1 DEF TypeOK, SessionTypes
  <2> QED
    BY <1>1, <2>1 DEF Line
<1>3. Heard' = Heard /\ Sending' = Sending /\ Decodes
  BY <1>1 DEF Heard, Sending, Decodes
<1> QED
  BY <1>1, <1>2, <1>3 DEF Apart

\* Between the decoder and the notification in hand there is no start: they are
\* of the same stream, unless that notification is one and resets the decoder.
LEMMA DecodeApart == ASSUME TypeOK, Apart, Decode PROVE Apart'
<1>1. /\ worker = "holding" /\ worker' = "calling"
      /\ UNCHANGED <<streams, stop, startLost, queue>>
  BY DEF Decode, remoteVars, historyVars
<1> SUFFICES ASSUME ~startLost PROVE ~mixed' /\ StartsBetween(Heard', Line', Sending')
  BY <1>1 DEF Apart
<1>2. /\ Line \in Seq(LineItems) /\ queue \in Seq(LineItems)
      /\ item \in LineItems /\ Line = <<item>> \o queue
  BY <1>1, LineTyped DEF LineItems, TypeOK, SessionTypes, Line
<1>3. Line # <<>> /\ Head(Line) = item /\ Tail(Line) = queue
  BY <1>2
<1>4. Line' = Tail(Line) /\ Sending' = Sending
  BY <1>1, <1>3 DEF Line, Sending
<1>5. ~mixed /\ StartsBetween(Heard, Line, Sending)
  BY <1>1 DEF Apart, Decodes
<1>6. /\ ~mixed'
      /\ IF item.kind = "start" THEN Heard' = {}
         ELSE \A x \in Heard' : x \in Heard \/ (item.kind = "audio" /\ x = item.stream)
  <2>1. CASE item.kind = "malformed"
    BY <1>5, <2>1 DEF Decode, Refused, Heard, atvvVars
  <2>2. CASE item.kind = "audio"
    <3>1. HandleAudio
      BY <2>2 DEF Decode, Refused
    <3>2. \A x \in Heard : x = item.stream
      <4>1. /\ 0 \in 0..Len(Line) + 1 /\ 1 \in 0..Len(Line) + 1 /\ 0 < 1
            /\ \A k \in 0 + 1..1 - 1 : FALSE
        BY <1>2
      <4>2. Tags(Heard, Line, Sending, 0) = Heard
        BY DEF Tags
      <4>3. Tags(Heard, Line, Sending, 1) = {item.stream}
        <5>1. 1 # Len(Line) + 1 /\ Line[1] = item
          BY <1>2
        <5> QED
          BY <2>2, <5>1 DEF Tags
      <4> QED
        BY <1>5, <4>1, <4>2, <4>3 DEF StartsBetween
    <3>3. ~mixed'
      BY <1>5, <3>1, <3>2 DEF HandleAudio, KeepHalf, DecodeFrame, Heard
    <3>4. Heard' \subseteq Heard \cup {item.stream}
      BY <3>1 DEF HandleAudio, KeepHalf, DecodeFrame, Heard
    <3> QED
      BY <2>2, <3>3, <3>4
  <2>3. CASE item.kind \notin {"malformed", "audio"}
    <3>1. HandleControl
      BY <2>3 DEF Decode, Refused
    <3>2. UNCHANGED mixed
      BY <3>1 DEF HandleControl
    <3>3. /\ item.kind = "start" => pending' = 0 /\ decoder' = 0
          /\ pending' \in {0, pending} /\ decoder' \in {0, decoder}
      BY <3>1 DEF HandleControl
    <3> QED
      BY <1>5, <3>2, <3>3 DEF Heard
  <2> QED
    BY <2>1, <2>2, <2>3
<1>7. StartsBetween(Heard', Tail(Line), Sending)
  BY <1>2, <1>3, <1>5, <1>6, Decoded
<1> QED
  BY <1>4, <1>6, <1>7

LEMMA ApartKept == Safe /\ Apart /\ [Next]_vars => Apart'
<1> SUFFICES ASSUME Safe, Apart, [Next]_vars PROVE Apart'
  OBVIOUS
<1>0. TypeOK /\ WorkerStops /\ NoAttemptOverWorker
  BY DEF Safe, Gates
<1> USE DEF vars, remoteVars, workerVars, atvvVars, historyVars
<1>1. CASE FindCandidate
  <2>1. CASE loop' = "opening"
    <3>1. NewSession /\ mixed' = FALSE
      BY <1>1, <2>1 DEF FindCandidate
    <3>2. Heard' = {} /\ Line' = <<>>
      BY <3>1 DEF NewSession, NewAtvv, Heard, Line
    <3> QED
      BY <3>1, <3>2, NothingHeard DEF Apart
  <2>2. CASE loop' # "opening"
    BY <1>0, <1>1, <2>2, LineKept DEF FindCandidate
  <2> QED
    BY <2>1, <2>2
<1>2. CASE StartAttempt \/ EndSleep \/ OpenDevice \/ Discover \/ Announce \/ EndWait \/ Detach \/ Release
  BY <1>0, <1>2, LineKept
     DEF StartAttempt, EndSleep, OpenDevice, Discover, Announce, EndWait, Detach, Release
<1>3. CASE Subscribe
  <2>1. /\ worker # "holding" /\ worker' # "holding"
        /\ UNCHANGED <<queue, item, stop, streams, pending, decoder, mixed, startLost>>
    BY <1>0, <1>3 DEF Subscribe, ConnectStep, NoAttemptOverWorker
  <2>2. UNCHANGED <<Heard, Line, Sending, Decodes>>
    BY <2>1 DEF Heard, Line, Sending, Decodes
  <2> QED
    BY <2>1, <2>2 DEF Apart
<1>4. CASE CancelWrites \/ Mute
  BY <1>0, <1>4, LineKept DEF CancelWrites, Mute, Muted
<1>5. CASE JoinWorker
  <2>1. /\ stop /\ worker # "holding" /\ UNCHANGED <<stop, worker, mixed, startLost>>
    BY <1>0, <1>5 DEF JoinWorker, WorkerStops, WorkerGone
  <2>2. ~Decodes'
    BY <2>1 DEF Decodes
  <2> QED
    BY <2>1, <2>2 DEF Apart
<1>6. CASE RunPosted \/ FinishWrite
  BY <1>0, <1>6, LineKept DEF RunPosted, FinishWrite
<1>7. CASE Take
  BY <1>0, <1>7, TakeApart
<1>8. CASE Decode
  BY <1>0, <1>8, DecodeApart
<1>9. CASE Return \/ ExitWorker
  <2>1. /\ worker # "holding" /\ worker' # "holding"
        /\ UNCHANGED <<queue, stop, streams, pending, decoder, mixed, startLost>>
    BY <1>9 DEF Return, ExitWorker
  <2>2. UNCHANGED <<Heard, Line, Sending, Decodes>>
    BY <2>1 DEF Heard, Line, Sending, Decodes
  <2> QED
    BY <2>1, <2>2 DEF Apart
<1>10. ASSUME NEW n \in Notices, Notify(n) PROVE Apart'
  BY <1>0, <1>10, NotifyApart
<1>11. ASSUME NEW k \in reports, StatusChanged(k) PROVE Apart'
  BY <1>0, <1>11, LineKept DEF StatusChanged
<1>12. ASSUME NEW k \in 1..attempt, SendMicOpen(k) PROVE Apart'
  BY <1>0, <1>12, LineKept DEF SendMicOpen
<1>13. CASE LoseLink \/ RestoreLink \/ GuardEnds \/ Stop \/ UNCHANGED vars
  BY <1>0, <1>13, LineKept DEF LoseLink, RestoreLink, GuardEnds, Stop
<1> QED
  BY <1>1, <1>2, <1>3, <1>4, <1>5, <1>6, <1>7, <1>8, <1>9, <1>10, <1>11, <1>12, <1>13
     DEF Next, Coroutine, Worker, Environment

-----------------------------------------------------------------------------
(* The theorems.                                                             *)

LEMMA SafeInit == Init => Safe
<1> SUFFICES ASSUME Init PROVE Safe
  OBVIOUS
<1> USE QueueAssumption, BoundsAssumption DEF Init, InitFor
<1>1. LoopTypes
  <2>1. attempt \in 0..MaxAttempts /\ posted \in Seq(Callbacks) /\ reports \subseteq 0..MaxAttempts
    OBVIOUS
  <2> QED
    BY <2>1, Zenon DEF LoopTypes, Live, Teardown
<1>2. SessionTypes
  <2>1. writes \in Nat /\ queue \in Seq(Notices) /\ Len(queue) <= QueueMax
    OBVIOUS
  <2> QED
    BY <2>1, Zenon DEF SessionTypes
<1>3. AtvvTypes /\ RemoteTypes
  <2>1. /\ pending \in 0..MaxNotices /\ decoder \in 0..MaxNotices /\ stream \in 0..MaxNotices
        /\ streams \in 0..MaxNotices /\ notices \in 0..MaxNotices /\ calls \in 0..MaxCalls
        /\ faults \in 0..MaxFaults
    OBVIOUS
  <2> QED
    BY <2>1, Zenon DEF AtvvTypes, RemoteTypes
<1>4. Gates
  BY DEF Gates, GateShut, WorkerStops, MicTold, WritesInsideSession, NoAttemptOverWorker, Past
<1> QED
  BY <1>1, <1>2, <1>3, <1>4 DEF Safe, TypeOK

\* The gates of close() hold in every reachable state.
THEOREM SafetyInvariant == Spec => []Safe
<1>1. Safe /\ [Next]_vars => Safe'
  BY LoopTypesKept, SessionTypesKept, AtvvTypesKept, RemoteTypesKept, GatesKept
     DEF Safe, TypeOK
<1> QED
  BY <1>1, SafeInit, PTL DEF Spec

\* Every variable has its type, and the queue its limit (_QUEUE_MAXSIZE).
THEOREM TypeCorrect == Spec => []TypeOK
<1>1. Safe => TypeOK
  BY DEF Safe, Gates
<1> QED
  BY <1>1, SafetyInvariant, PTL

\* No MIC_OPEN is in flight past the cancellation of close()
\* (_cancel_pending_mic_open_writes).
THEOREM WritesCancelled == Spec => []WritesInsideSession
<1>1. Safe => WritesInsideSession
  BY DEF Safe, Gates
<1> QED
  BY <1>1, SafetyInvariant, PTL

\* No attempt begins over a worker that outlived its session (close()).
THEOREM WorkerJoined == Spec => []NoAttemptOverWorker
<1>1. Safe => NoAttemptOverWorker
  BY DEF Safe, Gates
<1> QED
  BY <1>1, SafetyInvariant, PTL

\* A session that saw the microphone open tried to close it before the next
\* one (close(), MIC_CLOSE).
THEOREM MicClosed == Spec => []ClosesRemoteMic
<1>1. Safe => ClosesRemoteMic
  BY DEF Safe, Gates, MicTold, ClosesRemoteMic
<1> QED
  BY <1>1, SafetyInvariant, PTL
\* A frame is only decoded with another stream's bytes or predictor if the full
\* queue has dropped an AUDIO_START: for every queue size, whatever else it
\* drops, however often streams begin and end and the link is lost, late audio
\* included (handle_control, handle_audio, _enqueue).
THEOREM OneStreamToAFrame == Spec => []FramesOfOneStream
<1>1. Init => Apart
  <2> SUFFICES ASSUME Init PROVE Apart
    OBVIOUS
  <2>1. Heard = {} /\ Line = <<>> /\ ~mixed
    BY DEF Init, InitFor, Heard, Line
  <2> QED
    BY <2>1, NothingHeard DEF Apart
<1>2. Apart => FramesOfOneStream
  BY DEF Apart, FramesOfOneStream
<1> QED
  BY <1>1, <1>2, ApartKept, SafetyInvariant, PTL DEF Spec
=============================================================================
