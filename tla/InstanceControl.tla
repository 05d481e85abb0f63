---------------------------- MODULE InstanceControl ----------------------------
(***************************************************************************)
(* The processes of one Windows logon session: bridges and settings windows, *)
(* each kind guarded by a named mutex (single_instance.py), the manual-reset *)
(* stop event of the bridges (bridge_control_windows.py), the launch and the *)
(* exit paths of __main__.py, and the files they share: config.json,         *)
(* key_bindings.json (config.py) and usage-statistics.json                   *)
(* (usage_statistics.py).                                                    *)
(*                                                                           *)
(* A named kernel object exists while some process has a handle of it; a     *)
(* mutex or an event created anew is unowned and unsignalled, and a process  *)
(* that ends closes its handles.  A process is launched once.  Abstracted:   *)
(* the settings themselves (a file is the number of its version), windows,   *)
(* message boxes (a process in "notice" waits for its box to be dismissed),  *)
(* and the grace period in which the launcher polls the new process.         *)
(***************************************************************************)
EXTENDS Naturals, FiniteSets

CONSTANTS
    Bridges,      \* launches of the bridge
    Windows,      \* launches of the settings window
    MaxRequests,  \* bound: openings of the stop event by another process
    MaxSaves,     \* bound: versions of the settings files
    MaxRecords,   \* bound: usage records
    MaxFaults     \* bound: failed calls, killed processes

\* Neither kind is the other, and "none" and "capture" are not windows.
ASSUME ProcessAssumption ==
    Bridges \cap Windows = {} /\ Windows \cap {"none", "capture"} = {}
ASSUME BoundsAssumption ==
    /\ MaxRequests \in Nat /\ MaxSaves \in Nat
    /\ MaxRecords \in Nat /\ MaxFaults \in Nat

Procs == Bridges \cup Windows
Kind(p) == IF p \in Bridges THEN "bridge" ELSE "settings"

VARIABLES
    pc,         \* where each process is
    mutex,      \* for each kind, the processes with a handle of its mutex
    event,      \* the bridges with a handle of the stop event
    signalled,  \* the stop event is set
    caller,     \* the process in request_bridge_stop or bridge_is_running
    blocked,    \* processes whose exit shows a notice
    leaked,     \* processes that failed to close their mutex handle
    fresh,      \* history: bridges launched when no other one was starting,
                \* running or leaving
    asked,      \* history: bridges launched before the latest SetEvent
    config,     \* the version of config.json and who saved it
    bindings,   \* the version of key_bindings.json and who saved it
    known,      \* for each window, the versions it has loaded or saved
    versions,   \* versions made
    usage,      \* the total of usage-statistics.json
    counting,   \* for each bridge, the total it has read and not yet written
    recorded,   \* history: records that were written
    unread,     \* history: a read of the statistics failed
    outlived,   \* the bridges with a recording thread that outlived the cleanup
    requests, faults   \* what is left of the bounds

kernelVars == <<mutex, event, signalled, caller>>
exitVars == <<blocked, leaked>>
historyVars == <<fresh, asked>>
fileVars == <<config, bindings, known, versions>>
usageVars == <<usage, counting, recorded, unread, outlived>>
vars == <<pc, kernelVars, exitVars, historyVars, fileVars, usageVars, requests, faults>>

None == "none"
NoTotal == MaxRecords + 1

\* Inside the guard's with block: app.main, or the settings window.
Inside == {"running", "stopping", "savedConfig"}
Alive == Inside \cup {"launched", "opening", "locking", "refused", "unlocked", "notice"}

ProcessTypes ==
    /\ pc \in [Procs -> Alive \cup {"absent", "gone"}]
    /\ mutex \in [{"bridge", "settings"} -> SUBSET Procs]
    /\ event \subseteq Bridges /\ signalled \in BOOLEAN
    /\ caller \in {"idle", "opened", "set"}
    /\ blocked \subseteq Procs /\ leaked \subseteq Procs
    /\ fresh \subseteq Bridges /\ asked \subseteq Bridges
Version == [number : 0..MaxSaves, by : Windows \cup {None, "capture"}]
FileTypes ==
    /\ config \in Version /\ bindings \in Version /\ versions \in 0..MaxSaves
    /\ known \in [Windows -> [config : 0..MaxSaves, bindings : 0..MaxSaves]]
    /\ usage \in 0..MaxRecords /\ recorded \in 0..MaxRecords /\ unread \in BOOLEAN
    /\ counting \in [Bridges -> 0..NoTotal] /\ outlived \subseteq Bridges
    /\ requests \in 0..MaxRequests /\ faults \in 0..MaxFaults

TypeOK == ProcessTypes /\ FileTypes

\* The processes of launches are yet to be launched; so many versions were made
\* and so many presses counted before.
InitFor(launches, made, counted) ==
    /\ pc = [p \in Procs |-> IF p \in launches THEN "absent" ELSE "gone"]
    /\ mutex = [k \in {"bridge", "settings"} |-> {}]
    /\ event = {} /\ signalled = FALSE /\ caller = "idle"
    /\ blocked = {} /\ leaked = {} /\ fresh = {} /\ asked = {}
    /\ config = [number |-> 0, by |-> None] /\ bindings = [number |-> 0, by |-> None]
    /\ known = [w \in Windows |-> [config |-> 0, bindings |-> 0]]
    /\ versions = made
    /\ usage = counted /\ recorded = counted /\ unread = FALSE
    /\ counting = [b \in Bridges |-> NoTotal] /\ outlived = {}
    /\ requests = MaxRequests /\ faults = MaxFaults

Init == InitFor(Procs, 0, 0)

Go(p, from, to) == pc[p] = from /\ pc' = [pc EXCEPT ![p] = to]
Spend == faults > 0 /\ faults' = faults - 1

-----------------------------------------------------------------------------
(* Starting.                                                                *)

\* launch_bridge, a shortcut or the autostart: a new process.
Launch(b) ==
    /\ Go(b, "absent", "launched")
    /\ fresh' = IF caller = "idle" /\ \A q \in Bridges : pc[q] \in {"absent", "gone", "notice"}
                THEN fresh \cup {b} ELSE fresh
    /\ UNCHANGED <<kernelVars, exitVars, asked, fileVars, usageVars, requests, faults>>

\* _run_bridge reads the selected device: for DJI Mic 2 it shows a notice.
SelectDevice(b) ==
    /\ \/ Go(b, "launched", "opening")
       \/ Go(b, "launched", "notice")
    /\ UNCHANGED <<kernelVars, exitVars, historyVars, fileVars, usageVars, requests, faults>>

EventExists == event # {} \/ caller # "idle"

\* Mutant: a bridge clears a signal it finds.
OpenEventReset(b) ==
    /\ Go(b, "opening", "locking")
    /\ event' = event \cup {b}
    /\ signalled' = FALSE
    /\ UNCHANGED <<mutex, caller, exitVars, historyVars, fileVars, usageVars, requests, faults>>

\* BridgeStopSignal.__enter__: creates the event or opens the one there is.
OpenEvent(b) ==
    /\ Go(b, "opening", "locking")
    /\ event' = event \cup {b}
    /\ signalled' = (signalled /\ EventExists)
    /\ UNCHANGED <<mutex, caller, exitVars, historyVars, fileVars, usageVars, requests, faults>>

\* CreateEventW fails: nothing in _run_bridge catches that.
OpenEventFails(b) ==
    /\ Go(b, "opening", "gone") /\ Spend
    /\ UNCHANGED <<kernelVars, exitVars, historyVars, fileVars, usageVars, requests>>

OpenWindow(w) ==
    /\ Go(w, "absent", "locking")
    /\ UNCHANGED <<kernelVars, exitVars, historyVars, fileVars, usageVars, requests, faults>>

\* load_config, load_key_bindings: the version a file is at.
LoadConfig == config.number
LoadBindings == bindings.number

\* What a window reads when it opens (SettingsController.__init__).
Loaded(p) ==
    IF p \in Windows
    THEN [known EXCEPT ![p] = [config |-> LoadConfig, bindings |-> LoadBindings]]
    ELSE known

\* Mutant: an existing mutex is taken for the own one.
EnterAnyway(p) ==
    /\ Go(p, "locking", "running")
    /\ mutex' = [mutex EXCEPT ![Kind(p)] = @ \cup {p}]
    /\ known' = Loaded(p)
    /\ UNCHANGED <<event, signalled, caller, exitVars, historyVars, config, bindings, versions,
                   usageVars, requests, faults>>

\* BridgeInstanceGuard.__enter__: this process created the mutex.
Enter(p) ==
    /\ Go(p, "locking", "running")
    /\ mutex[Kind(p)] = {}
    /\ mutex' = [mutex EXCEPT ![Kind(p)] = @ \cup {p}]
    /\ known' = Loaded(p)
    /\ UNCHANGED <<event, signalled, caller, exitVars, historyVars, config, bindings, versions,
                   usageVars, requests, faults>>

\* ERROR_ALREADY_EXISTS: it now has a handle of the other one's mutex.
Refuse(p) ==
    /\ Go(p, "locking", "refused")
    /\ mutex[Kind(p)] # {}
    /\ mutex' = [mutex EXCEPT ![Kind(p)] = @ \cup {p}]
    /\ UNCHANGED <<event, signalled, caller, exitVars, historyVars, fileVars, usageVars,
                   requests, faults>>

\* CreateMutexW fails: SingleInstanceUnavailableError, handled like a duplicate.
LockFails(p) ==
    /\ Go(p, "locking", "unlocked") /\ Spend
    /\ blocked' = blocked \cup {p}
    /\ UNCHANGED <<kernelVars, leaked, historyVars, fileVars, usageVars, requests>>

-----------------------------------------------------------------------------
(* Leaving.                                                                 *)

\* CloseHandle of the mutex, which may fail.
CloseMutex(p) ==
    \/ /\ mutex' = [mutex EXCEPT ![Kind(p)] = @ \ {p}]
       /\ UNCHANGED <<leaked, faults>>
    \/ /\ leaked' = leaked \cup {p} /\ Spend
       /\ UNCHANGED mutex

\* The duplicate path of __enter__.  A duplicate bridge shows a notice, a window
\* only if it cannot activate the other one.
CloseRefused(p) ==
    /\ Go(p, "refused", "unlocked")
    /\ CloseMutex(p)
    /\ \/ blocked' = blocked \cup {p}
       \/ p \in Windows /\ UNCHANGED blocked
    /\ UNCHANGED <<event, signalled, caller, historyVars, fileVars, usageVars, requests>>

\* _wait_for_stop: the event is polled every 250 ms.
HearStop(b) ==
    /\ signalled
    /\ Go(b, "running", "stopping")
    /\ UNCHANGED <<kernelVars, exitVars, historyVars, fileVars, usageVars, requests, faults>>

\* app.main ends by itself, or the user closes the window.
EndMain(p) ==
    /\ Go(p, "running", "stopping")
    /\ UNCHANGED <<kernelVars, exitVars, historyVars, fileVars, usageVars, requests, faults>>

\* Whether the threads that record usage have ended with the cleanup: timers are
\* not joined, and the worker's join gives up.  (One with nothing left to record
\* within the bound is not followed.)
LeaveThreads(p) ==
    \/ (p \in Bridges => counting[p] = NoTotal) /\ UNCHANGED outlived
    \/ /\ p \in Bridges /\ (counting[p] # NoTotal \/ recorded < MaxRecords)
       /\ outlived' = outlived \cup {p}

\* Mutant: the event is closed before the mutex.
UnlockEventFirst(p) ==
    /\ Go(p, "stopping", "unlocked")
    /\ LeaveThreads(p)
    /\ event' = event \ {p}
    /\ UNCHANGED <<mutex, signalled, caller, exitVars, historyVars, fileVars, usage, counting,
                   recorded, unread, requests, faults>>

\* BridgeInstanceGuard.__exit__: ReleaseMutex, then CloseHandle; a failure shows
\* a notice.  It waits for no thread.
Unlock(p) ==
    /\ Go(p, "stopping", "unlocked")
    /\ LeaveThreads(p)
    /\ CloseMutex(p)
    /\ blocked' = IF p \in leaked' THEN blocked \cup {p} ELSE blocked
    /\ UNCHANGED <<event, signalled, caller, historyVars, fileVars, usage, counting,
                   recorded, unread, requests>>

\* A process that ends drops what its daemon threads held.
DropCounts(p) == IF p \in Bridges THEN [counting EXCEPT ![p] = NoTotal] ELSE counting

\* Mutant: the notice is shown before the event is closed.
LeaveAfterNotice(p) ==
    /\ Go(p, "unlocked", IF p \in blocked THEN "notice" ELSE "gone")
    /\ event' = IF p \in blocked THEN event ELSE event \ {p}
    /\ mutex' = IF p \in blocked THEN mutex ELSE [mutex EXCEPT ![Kind(p)] = @ \ {p}]
    /\ counting' = IF p \in blocked THEN counting ELSE DropCounts(p)
    /\ UNCHANGED <<signalled, caller, exitVars, historyVars, fileVars, usage, recorded, unread,
                   outlived, requests, faults>>

\* BridgeStopSignal.__exit__, then the notice, if any, or the end.
Leave(p) ==
    /\ Go(p, "unlocked", IF p \in blocked THEN "notice" ELSE "gone")
    /\ event' = event \ {p}
    /\ mutex' = IF p \in blocked THEN mutex ELSE [mutex EXCEPT ![Kind(p)] = @ \ {p}]
    /\ counting' = IF p \in blocked THEN counting ELSE DropCounts(p)
    /\ UNCHANGED <<signalled, caller, exitVars, historyVars, fileVars, usage, recorded, unread,
                   outlived, requests, faults>>

\* The end of a process closes its handles as well.
End(p) ==
    /\ pc' = [pc EXCEPT ![p] = "gone"]
    /\ mutex' = [mutex EXCEPT ![Kind(p)] = @ \ {p}]
    /\ event' = event \ {p}
    /\ counting' = DropCounts(p)
    /\ UNCHANGED <<signalled, caller, exitVars, historyVars, fileVars, usage, recorded, unread,
                   outlived, requests>>

Dismiss(p) == pc[p] = "notice" /\ End(p) /\ UNCHANGED faults
Kill(p) == pc[p] \in Alive /\ End(p) /\ Spend

-----------------------------------------------------------------------------
(* Another process asks the bridge to stop, or whether there is one.        *)

CallerOpens ==
    /\ caller = "idle" /\ event # {} /\ requests > 0
    /\ caller' = "opened"
    /\ requests' = requests - 1
    /\ UNCHANGED <<pc, mutex, event, signalled, exitVars, historyVars, fileVars, usageVars, faults>>

\* request_bridge_stop: SetEvent.
CallerSets ==
    /\ caller = "opened"
    /\ caller' = "set"
    /\ signalled' = TRUE
    /\ asked' = {b \in Bridges : pc[b] # "absent"}
    /\ UNCHANGED <<pc, mutex, event, exitVars, fresh, fileVars, usageVars, requests, faults>>

\* CloseHandle, of bridge_is_running right after its OpenEventW.
CallerCloses ==
    /\ caller # "idle"
    /\ caller' = "idle"
    /\ UNCHANGED <<pc, mutex, event, signalled, exitVars, historyVars, fileVars, usageVars,
                   requests, faults>>

-----------------------------------------------------------------------------
(* The settings files.                                                      *)

NextVersion(who) == [number |-> versions + 1, by |-> who]

\* _save: config.json first.  os.replace is atomic; when it fails, neither the
\* file nor what the window knows changes.
SaveConfig(w) ==
    /\ Go(w, "running", "savedConfig") /\ versions < MaxSaves
    /\ config' = NextVersion(w) /\ versions' = versions + 1
    /\ UNCHANGED <<kernelVars, exitVars, historyVars, bindings, known, usageVars, requests, faults>>

\* Then key_bindings.json; both are read back.
SaveBindings(w) ==
    /\ Go(w, "savedConfig", "running")
    /\ bindings' = config
    /\ known' = [known EXCEPT ![w] = [config |-> config.number, bindings |-> config.number]]
    /\ UNCHANGED <<kernelVars, exitVars, historyVars, config, versions, usageVars, requests, faults>>

\* The second write, or the reading back, fails: the window goes on with what
\* it knew.
SaveBindingsFails(w) ==
    /\ Go(w, "savedConfig", "running") /\ Spend
    /\ bindings' \in {bindings, config}
    /\ UNCHANGED <<kernelVars, exitVars, historyVars, config, known, versions, usageVars, requests>>

\* selectAndPersistOutputEndpoint: config.json alone, not read back.
SaveEndpoint(w) ==
    /\ pc[w] = "running" /\ versions < MaxSaves
    /\ config' = NextVersion(w) /\ versions' = versions + 1
    /\ known' = [known EXCEPT ![w] = [config |-> versions + 1, bindings |-> @.bindings]]
    /\ UNCHANGED <<pc, kernelVars, exitVars, historyVars, bindings, usageVars, requests, faults>>

\* rc003_key_test capture --assign: reads and rewrites key_bindings.json, and
\* takes no mutex.
Assign ==
    /\ versions < MaxSaves
    /\ bindings' = NextVersion("capture") /\ versions' = versions + 1
    /\ UNCHANGED <<pc, kernelVars, exitVars, historyVars, config, known, usageVars, requests, faults>>

-----------------------------------------------------------------------------
(* The usage statistics: _update under the lock of the process's store.     *)

\* The threads of a bridge that records: until its cleanup, or one that
\* outlives it, until the process ends.
Records(b) == pc[b] \in {"running", "stopping"} \/ (b \in outlived /\ pc[b] \in Alive)

ReadUsage(b) ==
    /\ Records(b) /\ counting[b] = NoTotal /\ recorded < MaxRecords
    /\ \/ counting' = [counting EXCEPT ![b] = usage] /\ UNCHANGED <<unread, faults>>
       \/ counting' = [counting EXCEPT ![b] = 0] /\ unread' = TRUE /\ Spend
    /\ UNCHANGED <<pc, kernelVars, exitVars, historyVars, fileVars, usage, recorded, outlived,
                   requests>>

\* The total is replaced by an atomic rename.
WriteUsage(b) ==
    /\ counting[b] # NoTotal /\ recorded < MaxRecords
    /\ usage' = counting[b] + 1
    /\ recorded' = recorded + 1
    /\ counting' = [counting EXCEPT ![b] = NoTotal]
    /\ UNCHANGED <<pc, kernelVars, exitVars, historyVars, fileVars, unread, outlived, requests,
                   faults>>

\* The rename fails: app.py logs it, and the press goes uncounted.
WriteUsageFails(b) ==
    /\ counting[b] # NoTotal /\ Spend
    /\ counting' = [counting EXCEPT ![b] = NoTotal]
    /\ UNCHANGED <<pc, kernelVars, exitVars, historyVars, fileVars, usage, recorded, unread,
                   outlived, requests>>

-----------------------------------------------------------------------------
Leaving(b) == CloseRefused(b) \/ HearStop(b) \/ Unlock(b) \/ Leave(b)
Starting(b) == SelectDevice(b) \/ OpenEvent(b) \/ Enter(b) \/ Refuse(b)
Counting(b) == ReadUsage(b) \/ WriteUsage(b) \/ WriteUsageFails(b)

BridgeStep(b) ==
    Launch(b) \/ Starting(b) \/ OpenEventFails(b) \/ Leaving(b) \/ Counting(b)
WindowStep(w) ==
    \/ OpenWindow(w) \/ Enter(w) \/ Refuse(w) \/ CloseRefused(w) \/ Unlock(w) \/ Leave(w)
    \/ SaveConfig(w) \/ SaveBindings(w) \/ SaveBindingsFails(w) \/ SaveEndpoint(w)

Next ==
    \/ \E b \in Bridges : BridgeStep(b)
    \/ \E w \in Windows : WindowStep(w)
    \/ \E p \in Procs : EndMain(p) \/ LockFails(p) \/ Dismiss(p) \/ Kill(p)
    \/ CallerOpens \/ CallerSets \/ CallerCloses \/ Assign

Spec == Init /\ [][Next]_vars

\* A process that starts or leaves goes on by itself; nobody has to launch one,
\* to dismiss a notice or to record anything.
Fairness ==
    \A b \in Bridges :
        WF_vars(Leaving(b)) /\ WF_vars(Starting(b))

FairSpec == Spec /\ Fairness

-----------------------------------------------------------------------------
(* Correctness.                                                             *)

\* At most one bridge runs the application, and at most one settings window
\* is open (BridgeInstanceGuard, SettingsInstanceGuard).
SingleInstance ==
    \A p, q \in Procs :
        Kind(p) = Kind(q) /\ pc[p] \in Inside /\ pc[q] \in Inside => p = q

\* The stop event disappears only after the mutex of the bridge that made it,
\* so whoever waited for the event to be gone is not refused by the old bridge
\* (_run_bridge); the exception is a handle that could not be closed.
EventOutlivesLock == mutex["bridge"] \subseteq event \cup leaked

\* A bridge launched when no other one was starting, running or leaving stops
\* only for a request made after its launch: the signal of an earlier request
\* does not survive, not even in a process that shows its notice.
NoStaleStop ==
    [][\A b \in fresh : HearStop(b) => b \in asked]_vars

\* A bridge that has the signalled event open ends (_wait_for_stop).
StopEnds ==
    \A b \in Bridges : (signalled /\ b \in event) ~> (b \notin event)

\* No settings window overwrites settings another window has saved and it has
\* not read: the reason SettingsInstanceGuard gives for its mutex.
NoLostEdit ==
    [][\A w \in Windows :
        /\ config' # config /\ config'.by = w =>
               config.by \in {w, None, "capture"} \/ known[w].config = config.number
        /\ bindings' # bindings /\ bindings'.by = w =>
               bindings.by \in {w, None, "capture"} \/ known[w].bindings = bindings.number]_vars

\* Every press that was counted stays counted, over restarts and killed bridges:
\* two bridges never count on the same total.  Two exceptions: the statistics
\* could not be read once and start from nothing (_load_unlocked), or a thread
\* went on recording beside the next bridge (WithoutOutliving states it without
\* this one).
UsageKept == usage = recorded \/ unread \/ outlived # {}
WithoutOutliving == usage = recorded \/ unread
=============================================================================
