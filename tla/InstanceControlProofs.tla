------------------------- MODULE InstanceControlProofs -------------------------
(* The mutexes and the stop event, the statistics and the settings files, for *)
(* any number of launches, any bounds and any failures.                        *)
EXTENDS InstanceControl, TLAPS

-----------------------------------------------------------------------------
(* The inductive invariant.                                                  *)

\* A process holds a handle of its kind's mutex from Enter or Refuse until it
\* closes it; only a handle that could not be closed stays until the end.
Locks ==
    /\ \A k \in {"bridge", "settings"} : \A p \in mutex[k] : p \in Procs /\ Kind(p) = k
    /\ \A p \in Procs : pc[p] \in Inside \cup {"refused"} => p \in mutex[Kind(p)]
    /\ \A p \in Procs : p \in mutex[Kind(p)] =>
           \/ pc[p] \in Inside \cup {"refused"}
           \/ pc[p] \in {"unlocked", "notice"} /\ p \in leaked

\* A bridge holds the event from before it takes the mutex to after it.
Events ==
    \A b \in Bridges : b \in event <=> pc[b] \in Inside \cup {"locking", "refused", "unlocked"}

\* While a fresh bridge has not been asked to stop, the event, if there is
\* one, is not set.
Quiet ==
    /\ \A b \in fresh : pc[b] # "absent"
    /\ (\E b \in fresh : b \notin asked) /\ EventExists => ~signalled

\* Only the bridge that holds the lock, or one whose threads outlived their
\* cleanup, has a total to write; without such a thread the total is current.
Counted ==
    /\ \A b \in Bridges : counting[b] # NoTotal => pc[b] \in Inside \/ b \in outlived
    /\ \A b \in Bridges : counting[b] # NoTotal =>
           unread \/ outlived # {} \/ counting[b] = usage
    /\ UsageKept

\* What a window writes over is its own or what it knows.
Current(w, file, number) ==
    file.by \in {w, None, "capture"} \/ number = file.number
Edited ==
    /\ \A w \in Windows : pc[w] \in Inside =>
           Current(w, config, known[w].config) /\ Current(w, bindings, known[w].bindings)
    /\ \A w \in Windows : pc[w] = "savedConfig" => config.by = w

\* No total is more than what was recorded.
Tallied ==
    /\ usage <= recorded
    /\ \A b \in Bridges : counting[b] # NoTotal => counting[b] <= recorded

Safe ==
    /\ ProcessTypes /\ FileTypes /\ Locks /\ SingleInstance
    /\ Events /\ Quiet /\ Counted /\ Tallied /\ Edited

-----------------------------------------------------------------------------
(* Types.                                                                    *)

\* What every step needs to know of the types of processes.
LEMMA ProcessTypesKept == ProcessTypes /\ [Next]_vars => ProcessTypes'
<1> SUFFICES ASSUME ProcessTypes, [Next]_vars PROVE ProcessTypes'
  OBVIOUS
<1> USE DEF ProcessTypes, Alive, Inside, Procs, Kind, Go, Spend, vars, kernelVars, exitVars,
       historyVars, fileVars, usageVars
<1>1. ASSUME NEW b \in Bridges, BridgeStep(b) PROVE ProcessTypes'
  <2>1. CASE Launch(b) \/ SelectDevice(b) \/ OpenEvent(b) \/ OpenEventFails(b)
    BY <2>1 DEF Launch, SelectDevice, OpenEvent, OpenEventFails
  <2>2. CASE Enter(b) \/ Refuse(b)
    BY <2>2 DEF Enter, Refuse
  <2>3. CASE CloseRefused(b) \/ HearStop(b) \/ Unlock(b) \/ Leave(b)
    BY <2>3 DEF CloseRefused, CloseMutex, HearStop, Unlock, Leave
  <2>4. CASE Counting(b)
    BY <2>4 DEF Counting, ReadUsage, WriteUsage, WriteUsageFails
  <2> QED
    BY <1>1, <2>1, <2>2, <2>3, <2>4 DEF BridgeStep, Starting, Leaving
<1>2. ASSUME NEW w \in Windows, WindowStep(w) PROVE ProcessTypes'
  <2>1. CASE OpenWindow(w) \/ Enter(w) \/ Refuse(w)
    BY <2>1 DEF OpenWindow, Enter, Refuse
  <2>2. CASE CloseRefused(w) \/ Unlock(w) \/ Leave(w)
    BY <2>2 DEF CloseRefused, CloseMutex, Unlock, Leave
  <2>3. CASE SaveConfig(w) \/ SaveBindings(w) \/ SaveBindingsFails(w) \/ SaveEndpoint(w)
    BY <2>3 DEF SaveConfig, SaveBindings, SaveBindingsFails, SaveEndpoint
  <2> QED
    BY <1>2, <2>1, <2>2, <2>3 DEF WindowStep
<1>3. ASSUME NEW p \in Procs, EndMain(p) \/ LockFails(p) \/ Dismiss(p) \/ Kill(p)
      PROVE  ProcessTypes'
  BY <1>3 DEF EndMain, LockFails, Dismiss, Kill, End
<1>4. CASE CallerOpens \/ CallerSets \/ CallerCloses \/ Assign
  BY <1>4 DEF CallerOpens, CallerSets, CallerCloses, Assign
<1>5. CASE UNCHANGED vars
  BY <1>5
<1> QED
  BY <1>1, <1>2, <1>3, <1>4, <1>5 DEF Next

-----------------------------------------------------------------------------
(* The mutexes.                                                              *)

LEMMA LocksKept == ProcessTypes /\ Locks /\ [Next]_vars => Locks'
<1> SUFFICES ASSUME ProcessTypes, Locks, [Next]_vars PROVE Locks'
  OBVIOUS
<1> USE ProcessAssumption DEF ProcessTypes, Locks, Alive, Inside, Procs, Kind, Go, Spend, vars,
       kernelVars, exitVars
<1>1. ASSUME NEW b \in Bridges, BridgeStep(b) PROVE Locks'
  <2>1. CASE Launch(b) \/ SelectDevice(b) \/ OpenEvent(b) \/ OpenEventFails(b)
    BY <2>1 DEF Launch, SelectDevice, OpenEvent, OpenEventFails
  <2>2. CASE Enter(b) \/ Refuse(b)
    BY <2>2 DEF Enter, Refuse
  <2>3. CASE HearStop(b)
    BY <2>3 DEF HearStop
  <2>4. CASE CloseRefused(b)
    BY <2>4 DEF CloseRefused, CloseMutex
  <2>5. CASE Unlock(b)
    BY <2>5 DEF Unlock, CloseMutex
  <2>6. CASE Leave(b)
    BY <2>6 DEF Leave
  <2>7. CASE Counting(b)
    BY <2>7 DEF Counting, ReadUsage, WriteUsage, WriteUsageFails
  <2> QED
    BY <1>1, <2>1, <2>2, <2>3, <2>4, <2>5, <2>6, <2>7 DEF BridgeStep, Starting, Leaving
<1>2. ASSUME NEW w \in Windows, WindowStep(w) PROVE Locks'
  <2>1. CASE OpenWindow(w)
    BY <2>1 DEF OpenWindow
  <2>2. CASE Enter(w) \/ Refuse(w)
    BY <2>2 DEF Enter, Refuse
  <2>3. CASE CloseRefused(w)
    BY <2>3 DEF CloseRefused, CloseMutex
  <2>4. CASE Unlock(w)
    BY <2>4 DEF Unlock, CloseMutex
  <2>5. CASE Leave(w)
    BY <2>5 DEF Leave
  <2>6. CASE SaveConfig(w) \/ SaveBindings(w) \/ SaveBindingsFails(w) \/ SaveEndpoint(w)
    BY <2>6 DEF SaveConfig, SaveBindings, SaveBindingsFails, SaveEndpoint
  <2> QED
    BY <1>2, <2>1, <2>2, <2>3, <2>4, <2>5, <2>6 DEF WindowStep
<1>3. ASSUME NEW p \in Procs, EndMain(p) \/ LockFails(p) PROVE Locks'
  BY <1>3 DEF EndMain, LockFails
<1>4. ASSUME NEW p \in Procs, Dismiss(p) \/ Kill(p) PROVE Locks'
  BY <1>4 DEF Dismiss, Kill, End
<1>5. CASE CallerOpens \/ CallerSets \/ CallerCloses \/ Assign \/ UNCHANGED vars
  BY <1>5 DEF CallerOpens, CallerSets, CallerCloses, Assign
<1> QED
  BY <1>1, <1>2, <1>3, <1>4, <1>5 DEF Next

\* Who is inside holds a handle, and Enter asks for a mutex nobody holds.
LEMMA SingleKept ==
    ProcessTypes /\ Locks /\ SingleInstance /\ [Next]_vars => SingleInstance'
<1> SUFFICES ASSUME ProcessTypes, Locks, SingleInstance, [Next]_vars PROVE SingleInstance'
  OBVIOUS
<1> USE DEF Inside
<1>1. ASSUME NEW p \in Procs, Enter(p) PROVE SingleInstance'
  BY <1>1 DEF Enter, Go, ProcessTypes, Locks, SingleInstance
<1>2. ASSUME NEW p \in Procs, pc'[p] \in Inside => pc[p] \in Inside,
             pc' = [pc EXCEPT ![p] = pc'[p]]
      PROVE  SingleInstance'
  BY <1>2 DEF SingleInstance, ProcessTypes
<1>3. ASSUME UNCHANGED pc PROVE SingleInstance'
  BY <1>3 DEF SingleInstance
<1>4. ASSUME NEW b \in Bridges, BridgeStep(b) PROVE SingleInstance'
  <2>1. b \in Procs
    BY DEF Procs
  <2>2. CASE Launch(b) \/ SelectDevice(b) \/ OpenEvent(b) \/ OpenEventFails(b) \/ Refuse(b)
             \/ Leaving(b)
    BY <1>2, <2>1, <2>2 DEF ProcessTypes, Launch, SelectDevice, OpenEvent, OpenEventFails, Refuse,
       Leaving, CloseRefused, HearStop, Unlock, Leave, Go
  <2>3. CASE Counting(b)
    BY <1>3, <2>3 DEF Counting, ReadUsage, WriteUsage, WriteUsageFails
  <2> QED
    BY <1>1, <1>4, <2>1, <2>2, <2>3 DEF BridgeStep, Starting
<1>5. ASSUME NEW w \in Windows, WindowStep(w) PROVE SingleInstance'
  <2>1. w \in Procs
    BY DEF Procs
  <2>2. CASE OpenWindow(w) \/ Refuse(w) \/ CloseRefused(w) \/ Unlock(w) \/ Leave(w)
             \/ SaveConfig(w) \/ SaveBindings(w) \/ SaveBindingsFails(w)
    BY <1>2, <2>1, <2>2 DEF ProcessTypes, OpenWindow, Refuse, CloseRefused, Unlock, Leave,
       SaveConfig, SaveBindings, SaveBindingsFails, Go
  <2>3. CASE SaveEndpoint(w)
    BY <1>3, <2>3 DEF SaveEndpoint
  <2> QED
    BY <1>1, <1>5, <2>1, <2>2, <2>3 DEF WindowStep
<1>6. ASSUME NEW p \in Procs, EndMain(p) \/ LockFails(p) \/ Dismiss(p) \/ Kill(p)
      PROVE  SingleInstance'
  BY <1>2, <1>6 DEF ProcessTypes, EndMain, LockFails, Dismiss, Kill, End, Go
<1>7. CASE CallerOpens \/ CallerSets \/ CallerCloses \/ Assign \/ UNCHANGED vars
  BY <1>3, <1>7 DEF CallerOpens, CallerSets, CallerCloses, Assign, vars
<1> QED
  BY <1>4, <1>5, <1>6, <1>7 DEF Next

-----------------------------------------------------------------------------
(* The stop event.                                                           *)

LEMMA EventsKept == ProcessTypes /\ Events /\ [Next]_vars => Events'
<1> SUFFICES ASSUME ProcessTypes, Events, [Next]_vars PROVE Events'
  OBVIOUS
<1> USE ProcessAssumption DEF ProcessTypes, Events, Alive, Inside, Procs, Go, vars, kernelVars
<1>1. ASSUME NEW b \in Bridges, BridgeStep(b) PROVE Events'
  <2>1. CASE Launch(b) \/ SelectDevice(b) \/ OpenEvent(b) \/ OpenEventFails(b)
    BY <2>1 DEF Launch, SelectDevice, OpenEvent, OpenEventFails
  <2>2. CASE Enter(b) \/ Refuse(b)
    BY <2>2 DEF Enter, Refuse
  <2>3. CASE Leaving(b)
    BY <2>3 DEF Leaving, HearStop, CloseRefused, Unlock, Leave
  <2>4. CASE Counting(b)
    BY <2>4 DEF Counting, ReadUsage, WriteUsage, WriteUsageFails
  <2> QED
    BY <1>1, <2>1, <2>2, <2>3, <2>4 DEF BridgeStep, Starting
<1>2. ASSUME NEW w \in Windows, WindowStep(w) PROVE Events'
  <2>1. CASE OpenWindow(w) \/ Enter(w) \/ Refuse(w)
    BY <2>1 DEF OpenWindow, Enter, Refuse
  <2>2. CASE CloseRefused(w) \/ Unlock(w) \/ Leave(w)
    BY <2>2 DEF CloseRefused, Unlock, Leave
  <2>3. CASE SaveConfig(w) \/ SaveBindings(w) \/ SaveBindingsFails(w) \/ SaveEndpoint(w)
    BY <2>3 DEF SaveConfig, SaveBindings, SaveBindingsFails, SaveEndpoint
  <2> QED
    BY <1>2, <2>1, <2>2, <2>3 DEF WindowStep
<1>3. ASSUME NEW p \in Procs, EndMain(p) \/ LockFails(p) \/ Dismiss(p) \/ Kill(p) PROVE Events'
  BY <1>3 DEF EndMain, LockFails, Dismiss, Kill, End
<1>4. CASE CallerOpens \/ CallerSets \/ CallerCloses \/ Assign \/ UNCHANGED vars
  BY <1>4 DEF CallerOpens, CallerSets, CallerCloses, Assign
<1> QED
  BY <1>1, <1>2, <1>3, <1>4 DEF Next

\* A signal needs an event that somebody has open, and a request sees every
\* bridge that was launched before it.
LEMMA QuietKept == ProcessTypes /\ Events /\ Quiet /\ [Next]_vars => Quiet'
<1> SUFFICES ASSUME ProcessTypes, Events, Quiet, [Next]_vars PROVE Quiet'
  OBVIOUS
<1> USE ProcessAssumption DEF ProcessTypes, Quiet, EventExists, Alive, Inside, Procs, Go, vars,
       kernelVars, historyVars
<1>1. ASSUME NEW b \in Bridges, BridgeStep(b) PROVE Quiet'
  <2>1. CASE Launch(b)
    <3>1. CASE caller = "idle" /\ \A q \in Bridges : pc[q] \in {"absent", "gone", "notice"}
      <4>1. event = {} /\ event' = {} /\ caller' = "idle"
        BY <2>1, <3>1 DEF Launch, Events
      <4> QED
        BY <2>1, <4>1 DEF Launch
    <3>2. CASE ~(caller = "idle" /\ \A q \in Bridges : pc[q] \in {"absent", "gone", "notice"})
      BY <2>1, <3>2 DEF Launch
    <3> QED
      BY <3>1, <3>2
  <2>2. CASE OpenEvent(b)
    BY <2>2 DEF OpenEvent
  <2>3. CASE SelectDevice(b) \/ OpenEventFails(b)
    BY <2>3 DEF SelectDevice, OpenEventFails
  <2>4. CASE Enter(b) \/ Refuse(b)
    BY <2>4 DEF Enter, Refuse
  <2>5. CASE Leaving(b)
    BY <2>5 DEF Leaving, HearStop, CloseRefused, Unlock, Leave
  <2>6. CASE Counting(b)
    BY <2>6 DEF Counting, ReadUsage, WriteUsage, WriteUsageFails
  <2> QED
    BY <1>1, <2>1, <2>2, <2>3, <2>4, <2>5, <2>6 DEF BridgeStep, Starting
<1>2. ASSUME NEW w \in Windows, WindowStep(w) PROVE Quiet'
  <2>1. CASE OpenWindow(w) \/ Enter(w) \/ Refuse(w)
    BY <2>1 DEF OpenWindow, Enter, Refuse
  <2>2. CASE CloseRefused(w) \/ Unlock(w) \/ Leave(w)
    BY <2>2 DEF CloseRefused, Unlock, Leave
  <2>3. CASE SaveConfig(w) \/ SaveBindings(w) \/ SaveBindingsFails(w) \/ SaveEndpoint(w)
    BY <2>3 DEF SaveConfig, SaveBindings, SaveBindingsFails, SaveEndpoint
  <2> QED
    BY <1>2, <2>1, <2>2, <2>3 DEF WindowStep
<1>3. ASSUME NEW p \in Procs, EndMain(p) \/ LockFails(p) \/ Dismiss(p) \/ Kill(p) PROVE Quiet'
  BY <1>3 DEF EndMain, LockFails, Dismiss, Kill, End
<1>4. CASE CallerSets
  BY <1>4 DEF CallerSets
<1>5. CASE CallerOpens \/ CallerCloses \/ Assign \/ UNCHANGED vars
  BY <1>5 DEF CallerOpens, CallerCloses, Assign
<1> QED
  BY <1>1, <1>2, <1>3, <1>4, <1>5 DEF Next

-----------------------------------------------------------------------------
(* The statistics.                                                           *)

LEMMA CountedKept ==
    ProcessTypes /\ FileTypes /\ SingleInstance /\ Counted /\ [Next]_vars => Counted'
<1> SUFFICES ASSUME ProcessTypes, FileTypes, SingleInstance, Counted, [Next]_vars
             PROVE  Counted'
  OBVIOUS
<1> USE ProcessAssumption, BoundsAssumption
    DEF ProcessTypes, Counted, UsageKept, Alive, Inside, Procs, Go, vars, usageVars
<1>1. counting \in [Bridges -> 0..NoTotal]
  BY DEF FileTypes
<1>2. ASSUME NEW b \in Bridges, BridgeStep(b) PROVE Counted'
  <2>1. CASE Launch(b) \/ SelectDevice(b) \/ OpenEvent(b) \/ OpenEventFails(b)
    BY <1>1, <2>1 DEF Launch, SelectDevice, OpenEvent, OpenEventFails
  <2>2. CASE Enter(b) \/ Refuse(b)
    BY <1>1, <2>2 DEF Enter, Refuse
  <2>3. CASE Leaving(b)
    BY <1>1, <2>3 DEF Leaving, HearStop, CloseRefused, Unlock, LeaveThreads, Leave, DropCounts
  <2>4. CASE ReadUsage(b)
    BY <1>1, <2>4 DEF ReadUsage, Records
  <2>5. CASE WriteUsage(b)
    <3>1. CASE outlived = {}
      <4>1. \A c \in Bridges : counting[c] # NoTotal => c = b
        BY <2>5, <3>1 DEF WriteUsage, SingleInstance, Kind
      <4>2. usage' = counting[b] + 1 /\ recorded' = recorded + 1 /\ unread' = unread
        BY <2>5 DEF WriteUsage
      <4>3. unread \/ counting[b] = usage
        BY <2>5, <3>1 DEF WriteUsage
      <4>4. \A c \in Bridges : counting'[c] = NoTotal
        BY <1>1, <2>5, <4>1 DEF WriteUsage
      <4> QED
        BY <2>5, <3>1, <4>2, <4>3, <4>4 DEF WriteUsage
    <3>2. CASE outlived # {}
      BY <1>1, <2>5, <3>2 DEF WriteUsage
    <3> QED
      BY <3>1, <3>2
  <2>6. CASE WriteUsageFails(b)
    BY <1>1, <2>6 DEF WriteUsageFails
  <2> QED
    BY <1>2, <2>1, <2>2, <2>3, <2>4, <2>5, <2>6 DEF BridgeStep, Starting, Counting
<1>3. ASSUME NEW w \in Windows, WindowStep(w) PROVE Counted'
  <2>1. CASE OpenWindow(w) \/ Enter(w) \/ Refuse(w)
    BY <1>1, <2>1 DEF OpenWindow, Enter, Refuse
  <2>2. CASE CloseRefused(w) \/ Unlock(w) \/ Leave(w)
    BY <1>1, <2>2 DEF CloseRefused, Unlock, LeaveThreads, Leave, DropCounts
  <2>3. CASE SaveConfig(w) \/ SaveBindings(w) \/ SaveBindingsFails(w) \/ SaveEndpoint(w)
    BY <1>1, <2>3 DEF SaveConfig, SaveBindings, SaveBindingsFails, SaveEndpoint
  <2> QED
    BY <1>3, <2>1, <2>2, <2>3 DEF WindowStep
<1>4. ASSUME NEW p \in Procs, EndMain(p) \/ LockFails(p) PROVE Counted'
  BY <1>1, <1>4 DEF EndMain, LockFails
<1>5. ASSUME NEW p \in Procs, Dismiss(p) \/ Kill(p) PROVE Counted'
  BY <1>1, <1>5 DEF Dismiss, Kill, End, DropCounts
<1>6. CASE CallerOpens \/ CallerSets \/ CallerCloses \/ Assign \/ UNCHANGED vars
  BY <1>6 DEF CallerOpens, CallerSets, CallerCloses, Assign
<1> QED
  BY <1>2, <1>3, <1>4, <1>5, <1>6 DEF Next

-----------------------------------------------------------------------------
(* The settings files.                                                       *)

LEMMA EditedKept ==
    ProcessTypes /\ FileTypes /\ SingleInstance /\ Edited /\ [Next]_vars => Edited'
<1> SUFFICES ASSUME ProcessTypes, FileTypes, SingleInstance, Edited, [Next]_vars PROVE Edited'
  OBVIOUS
<1> USE ProcessAssumption DEF ProcessTypes, Edited, Current, Alive, Inside, Procs, Go, vars,
       fileVars
<1>1. known \in [Windows -> [config : 0..MaxSaves, bindings : 0..MaxSaves]]
  BY DEF FileTypes
<1>2. ASSUME NEW b \in Bridges, BridgeStep(b) PROVE Edited'
  <2>1. CASE Launch(b) \/ SelectDevice(b) \/ OpenEvent(b) \/ OpenEventFails(b)
    BY <2>1 DEF Launch, SelectDevice, OpenEvent, OpenEventFails
  <2>2. CASE Enter(b) \/ Refuse(b)
    BY <2>2 DEF Enter, Loaded, Refuse
  <2>3. CASE Leaving(b)
    BY <2>3 DEF Leaving, HearStop, CloseRefused, Unlock, Leave
  <2>4. CASE Counting(b)
    BY <2>4 DEF Counting, ReadUsage, WriteUsage, WriteUsageFails
  <2> QED
    BY <1>2, <2>1, <2>2, <2>3, <2>4 DEF BridgeStep, Starting
<1>3. ASSUME NEW w \in Windows, WindowStep(w) PROVE Edited'
  <2>1. CASE OpenWindow(w) \/ Refuse(w) \/ CloseRefused(w) \/ Unlock(w) \/ Leave(w)
    BY <2>1 DEF OpenWindow, Refuse, CloseRefused, Unlock, Leave
  <2>2. CASE Enter(w)
    <3>1. known'[w] = [config |-> config.number, bindings |-> bindings.number]
      BY <1>1, <2>2 DEF Enter, Loaded, LoadConfig, LoadBindings
    <3>2. \A v \in Windows : v # w => known'[v] = known[v] /\ pc'[v] = pc[v]
      BY <1>1, <2>2 DEF Enter, Loaded
    <3>3. pc'[w] = "running" /\ UNCHANGED <<config, bindings>>
      BY <2>2 DEF Enter
    <3> QED
      BY <3>1, <3>2, <3>3
  <2>3. ASSUME pc[w] \in Inside PROVE \A v \in Windows : pc[v] \in Inside => v = w
    BY <2>3 DEF SingleInstance, Kind
  <2>4. CASE SaveConfig(w)
    BY <1>1, <2>3, <2>4 DEF SaveConfig, NextVersion
  <2>5. CASE SaveBindings(w)
    BY <1>1, <2>3, <2>5 DEF SaveBindings
  <2>6. CASE SaveBindingsFails(w)
    BY <1>1, <2>3, <2>6 DEF SaveBindingsFails
  <2>7. CASE SaveEndpoint(w)
    <3>1. pc[w] = "running" /\ config'.by = w /\ UNCHANGED <<pc, bindings>>
      BY <2>7 DEF SaveEndpoint, NextVersion
    <3>2. known'[w].bindings = known[w].bindings
      BY <1>1, <2>7 DEF SaveEndpoint
    <3> QED
      BY <2>3, <3>1, <3>2
  <2> QED
    BY <1>3, <2>1, <2>2, <2>4, <2>5, <2>6, <2>7 DEF WindowStep
<1>4. ASSUME NEW p \in Procs, EndMain(p) \/ LockFails(p) \/ Dismiss(p) \/ Kill(p) PROVE Edited'
  BY <1>4 DEF EndMain, LockFails, Dismiss, Kill, End
<1>5. CASE Assign
  BY <1>5 DEF Assign, NextVersion
<1>6. CASE CallerOpens \/ CallerSets \/ CallerCloses \/ UNCHANGED vars
  BY <1>6 DEF CallerOpens, CallerSets, CallerCloses
<1> QED
  BY <1>2, <1>3, <1>4, <1>5, <1>6 DEF Next

-----------------------------------------------------------------------------
(* The types of the files and of the bounds.                                 *)

LEMMA FileTypesKept ==
    /\ ProcessTypes /\ FileTypes /\ SingleInstance /\ Counted /\ Tallied /\ [Next]_vars
    => FileTypes' /\ Tallied'
<1> SUFFICES ASSUME ProcessTypes, FileTypes, SingleInstance, Counted, Tallied, [Next]_vars
             PROVE  FileTypes' /\ Tallied'
  OBVIOUS
<1> USE ProcessAssumption, BoundsAssumption
    DEF FileTypes, Tallied, Version, NoTotal, Spend, vars, fileVars, usageVars, Procs
<1>1. ASSUME NEW b \in Bridges, BridgeStep(b) PROVE FileTypes' /\ Tallied'
  <2>1. CASE Launch(b) \/ SelectDevice(b) \/ OpenEvent(b) \/ OpenEventFails(b)
    BY <2>1 DEF Launch, SelectDevice, OpenEvent, OpenEventFails
  <2>2. CASE Enter(b) \/ Refuse(b)
    BY <2>2 DEF Enter, Loaded, Refuse
  <2>3. CASE Leaving(b)
    BY <2>3 DEF Leaving, HearStop, CloseRefused, CloseMutex, Unlock, LeaveThreads, Leave, DropCounts
  <2>4. CASE ReadUsage(b)
    <3>1. PICK n \in {0, usage} : counting' = [counting EXCEPT ![b] = n]
      BY <2>4 DEF ReadUsage
    <3>2. n \in 0..NoTotal /\ n <= recorded
      BY <3>1
    <3>3. UNCHANGED <<fileVars, usage, recorded, outlived, requests>>
      BY <2>4 DEF ReadUsage
    <3>4. unread' \in BOOLEAN
      BY <2>4, Zenon DEF ReadUsage
    <3>5. faults' = faults \/ (faults > 0 /\ faults' = faults - 1)
      BY <2>4, Zenon DEF ReadUsage
    <3>6. faults' \in 0..MaxFaults
      BY <3>5
    <3>7. counting' \in [Bridges -> 0..NoTotal]
      BY <3>1, <3>2
    <3>8. \A c \in Bridges : counting'[c] # NoTotal => counting'[c] <= recorded
      BY <3>1, <3>2
    <3> QED
      BY <3>3, <3>4, <3>7, <3>8, <3>6
  <2>5. CASE WriteUsage(b)
    <3>1. counting[b] \in 0..NoTotal /\ counting[b] <= recorded /\ recorded < MaxRecords
      BY <2>5 DEF WriteUsage
    <3>2. usage' \in 0..MaxRecords /\ recorded' \in 0..MaxRecords /\ usage' <= recorded'
      BY <2>5, <3>1 DEF WriteUsage
    <3>3. counting' \in [Bridges -> 0..NoTotal]
      BY <2>5 DEF WriteUsage
    <3>4. \A c \in Bridges : counting'[c] # NoTotal => counting'[c] <= recorded'
      BY <2>5, <3>1 DEF WriteUsage
    <3> QED
      BY <2>5, <3>2, <3>3, <3>4 DEF WriteUsage
  <2>6. CASE WriteUsageFails(b)
    BY <2>6 DEF WriteUsageFails
  <2> QED
    BY <1>1, <2>1, <2>2, <2>3, <2>4, <2>5, <2>6 DEF BridgeStep, Starting, Counting
<1>2. ASSUME NEW w \in Windows, WindowStep(w) PROVE FileTypes' /\ Tallied'
  <2>1. CASE OpenWindow(w) \/ Refuse(w)
    BY <2>1 DEF OpenWindow, Refuse
  <2>2. CASE Enter(w)
    BY <2>2 DEF Enter, Loaded, LoadConfig, LoadBindings
  <2>3. CASE CloseRefused(w) \/ Unlock(w) \/ Leave(w)
    BY <2>3 DEF CloseRefused, CloseMutex, Unlock, LeaveThreads, Leave, DropCounts
  <2>4. CASE SaveConfig(w)
    BY <2>4 DEF SaveConfig, NextVersion
  <2>5. CASE SaveBindings(w) \/ SaveBindingsFails(w)
    BY <2>5 DEF SaveBindings, SaveBindingsFails
  <2>6. CASE SaveEndpoint(w)
    BY <2>6 DEF SaveEndpoint, NextVersion
  <2> QED
    BY <1>2, <2>1, <2>2, <2>3, <2>4, <2>5, <2>6 DEF WindowStep
<1>3. ASSUME NEW p \in Procs, EndMain(p) \/ LockFails(p) PROVE FileTypes' /\ Tallied'
  BY <1>3 DEF EndMain, LockFails
<1>4. ASSUME NEW p \in Procs, Dismiss(p) \/ Kill(p) PROVE FileTypes' /\ Tallied'
  BY <1>4 DEF Dismiss, Kill, End, DropCounts
<1>5. CASE CallerOpens \/ CallerSets \/ CallerCloses \/ Assign \/ UNCHANGED vars
  BY <1>5 DEF CallerOpens, CallerSets, CallerCloses, Assign, NextVersion
<1> QED
  BY <1>1, <1>2, <1>3, <1>4, <1>5 DEF Next

-----------------------------------------------------------------------------
(* The theorems.                                                             *)

LEMMA SafeInit == Init => Safe
<1> SUFFICES ASSUME Init PROVE Safe
  OBVIOUS
<1> USE ProcessAssumption, BoundsAssumption DEF Init, InitFor
<1>1. ProcessTypes /\ Locks /\ SingleInstance /\ Events /\ Quiet
  BY DEF ProcessTypes, Locks, SingleInstance, Events, Quiet, EventExists, Alive, Inside, Procs, Kind
<1>2. config \in Version /\ bindings \in Version
  BY DEF Version
<1>3. unread \in BOOLEAN
  BY Zenon
<1>4. counting \in [Bridges -> 0..NoTotal]
  BY DEF NoTotal
<1>5. known \in [Windows -> [config : 0..MaxSaves, bindings : 0..MaxSaves]]
  <2>1. 0 \in 0..MaxSaves
    OBVIOUS
  <2>2. [config |-> 0, bindings |-> 0] \in [config : 0..MaxSaves, bindings : 0..MaxSaves]
    BY <2>1
  <2> QED
    BY <2>2, Zenon
<1>6. FileTypes
  BY <1>2, <1>3, <1>4, <1>5 DEF FileTypes
<1>7. Counted /\ Tallied /\ Edited
  BY DEF Counted, UsageKept, Tallied, Edited, Inside, NoTotal, Procs
<1> QED
  BY <1>1, <1>7, <1>6 DEF Safe

LEMMA SafeKept == Safe /\ [Next]_vars => Safe'
  BY ProcessTypesKept, LocksKept, SingleKept, EventsKept, QuietKept, CountedKept, EditedKept,
     FileTypesKept DEF Safe

\* Processes, handles and files have the types they are declared with.
THEOREM SafetyInvariant == Spec => []Safe
  BY SafeInit, SafeKept, PTL DEF Spec

\* Types (see TypeOK).
THEOREM TypeCorrect == Spec => []TypeOK
<1>1. Safe => TypeOK
  BY DEF Safe, TypeOK
<1> QED
  BY <1>1, SafetyInvariant, PTL

\* At most one bridge and one settings window are inside their guard's block,
\* however processes start, fail, are killed or leave (BridgeInstanceGuard).
THEOREM OneInstance == Spec => []SingleInstance
<1>1. Safe => SingleInstance
  BY DEF Safe
<1> QED
  BY <1>1, SafetyInvariant, PTL

\* The stop event outlives the mutex of the bridge that holds both
\* (_run_bridge).
THEOREM LockFirst == Spec => []EventOutlivesLock
<1>1. Safe => EventOutlivesLock
  BY ProcessAssumption DEF Safe, Locks, Events, EventOutlivesLock, Inside, Procs, Kind, ProcessTypes
<1> QED
  BY <1>1, SafetyInvariant, PTL

\* No press that was counted is lost, unless the statistics could not be read
\* or a thread outlived its bridge's cleanup (UsageStatisticsStore._update).
THEOREM NoPressLost == Spec => []UsageKept
<1>1. Safe => UsageKept
  BY DEF Safe, Counted
<1> QED
  BY <1>1, SafetyInvariant, PTL

\* A bridge that started alone stops only for a request made after its launch
\* (BridgeStopSignal).
THEOREM StopsForARequest == Spec => NoStaleStop
<1>1. Safe /\ [Next]_vars => [\A b \in fresh : HearStop(b) => b \in asked]_vars
  <2> SUFFICES ASSUME Safe, NEW b \in fresh, HearStop(b) PROVE b \in asked
    OBVIOUS
  <2>1. b \in event
    BY DEF Safe, HearStop, Go, Events, Inside, ProcessTypes
  <2> QED
    BY <2>1 DEF Safe, Quiet, EventExists, HearStop
<1> QED
  BY <1>1, SafetyInvariant, PTL DEF Spec, NoStaleStop

\* A settings window overwrites nothing of another window's that it has not
\* read (SettingsInstanceGuard).
THEOREM EditsKept == Spec => NoLostEdit
<1> DEFINE Kept ==
      \A w \in Windows :
        /\ config' # config /\ config'.by = w =>
               config.by \in {w, None, "capture"} \/ known[w].config = config.number
        /\ bindings' # bindings /\ bindings'.by = w =>
               bindings.by \in {w, None, "capture"} \/ known[w].bindings = bindings.number
<1>1. Safe /\ [Next]_vars => [Kept]_vars
  <2> SUFFICES ASSUME Safe, Next PROVE Kept
    OBVIOUS
  <2>1. \A v \in Windows : pc[v] \in Inside => Current(v, config, known[v].config)
                                            /\ Current(v, bindings, known[v].bindings)
    BY DEF Safe, Edited
  <2>2. ASSUME UNCHANGED <<config, bindings>> PROVE Kept
    BY <2>2
  <2>3. ASSUME NEW v \in Windows, pc[v] \in Inside, config' = config \/ config'.by = v,
               bindings' = bindings \/ bindings'.by = v
        PROVE  Kept
    BY <2>1, <2>3 DEF Current
  <2>4. ASSUME NEW v \in Windows, WindowStep(v) PROVE Kept
    <3>1. CASE OpenWindow(v) \/ Enter(v) \/ Refuse(v) \/ CloseRefused(v) \/ Unlock(v) \/ Leave(v)
      BY <2>2, <3>1 DEF OpenWindow, Enter, Refuse, CloseRefused, Unlock, Leave, fileVars
    <3>2. CASE SaveConfig(v) \/ SaveEndpoint(v)
      BY <2>3, <3>2 DEF SaveConfig, SaveEndpoint, NextVersion, Go, Inside
    <3>3. CASE SaveBindings(v) \/ SaveBindingsFails(v)
      <4>1. pc[v] = "savedConfig" /\ config.by = v
        BY <3>3 DEF SaveBindings, SaveBindingsFails, Go, Safe, Edited
      <4> QED
        BY <2>3, <3>3, <4>1 DEF SaveBindings, SaveBindingsFails, Inside
    <3> QED
      BY <2>4, <3>1, <3>2, <3>3 DEF WindowStep
  <2>5. ASSUME NEW b \in Bridges, BridgeStep(b) PROVE Kept
    BY <2>2, <2>5 DEF BridgeStep, Launch, Starting, SelectDevice, OpenEvent, Enter, Refuse,
       OpenEventFails, Leaving, CloseRefused, HearStop, Unlock, LeaveThreads, Leave, DropCounts, Counting, ReadUsage,
       WriteUsage, WriteUsageFails, fileVars
  <2>6. CASE (\E p \in Procs : EndMain(p) \/ LockFails(p) \/ Dismiss(p) \/ Kill(p))
             \/ CallerOpens \/ CallerSets \/ CallerCloses
    BY <2>2, <2>6 DEF EndMain, LockFails, Dismiss, Kill, End, CallerOpens, CallerSets,
       CallerCloses, fileVars
  <2>7. CASE Assign
    BY <2>7, ProcessAssumption DEF Assign, NextVersion
  <2> QED
    BY <2>4, <2>5, <2>6, <2>7 DEF Next
<1> QED
  BY <1>1, SafetyInvariant, PTL DEF Spec, NoLostEdit
=============================================================================
