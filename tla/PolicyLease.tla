------------------------------ MODULE PolicyLease ------------------------------
(***************************************************************************)
(* WindowsVoiceAudioPolicyLease: a voice session borrows the default       *)
(* capture endpoint of every role and the communications ducking           *)
(* preference, and gives them back -- also when the process dies, from a   *)
(* marker in the registry that the next process finds.                     *)
(*                                                                         *)
(* Each registry write and each endpoint call is a step of its own, so the *)
(* process may be killed between any two of them.  The user may change a   *)
(* setting as well; choice is what the user last chose.                    *)
(***************************************************************************)
EXTENDS Naturals, Sequences

CONSTANTS
    RoleOrder,      \* the capture roles, in the order of the code's array
    Mics,           \* capture endpoints of the user
    Cable,          \* the virtual cable's capture endpoint
    Duckings,       \* values of UserDuckingPreference at the start
    Faults,         \* the calls that may fail
    UserMayRace,    \* TRUE: the user may act while the lease is working
    MaxCrashes, MaxChanges, MaxFaults    \* bounds

\* write: RegSetValueExW; delete: RegDeleteTreeW; set: an endpoint or ducking
\* change; look: a query of the restore; read: a query of an endpoint in acquire;
\* unread: acquire's query of the ducking preference; com: COM in a restore;
\* ignored: a change that reports success.
FaultKinds == {"write", "delete", "set", "look", "read", "unread", "com", "ignored"}
DuckingValues == {"unset", "low", "nothing"}
Roles == {RoleOrder[n] : n \in DOMAIN RoleOrder}
Settings == Roles \cup {"Ducking"}
Fields == {"Version", "DuckingExists", "DuckingValue", "Target"} \cup Roles

ASSUME RolesAssumption ==
    /\ RoleOrder \in Seq(Roles) /\ Len(RoleOrder) > 0
    /\ Roles \cap {"Ducking", "Version", "DuckingExists", "DuckingValue", "Target"} = {}
    /\ \A m, n \in DOMAIN RoleOrder : RoleOrder[m] = RoleOrder[n] => m = n
ASSUME EndpointsAssumption ==
    /\ Cable \notin Mics /\ Mics # {}
    /\ ({Cable} \cup Mics) \cap (DuckingValues \cup {"yes", "no", "absent", "1"}) = {}
ASSUME EnvAssumption ==
    /\ Duckings \subseteq DuckingValues /\ Faults \subseteq FaultKinds
    /\ UserMayRace \in BOOLEAN
    /\ MaxCrashes \in Nat /\ MaxChanges \in Nat /\ MaxFaults \in Nat

Endpoints == {Cable} \cup Mics
ValuesOf(s) == IF s = "Ducking" THEN DuckingValues ELSE Endpoints

VARIABLES
    value,     \* per setting: what Windows has
    choice,    \* per setting: what the user last chose
    marker,    \* per registry value: its data, or "absent"
    pc,        \* where the process is
    i,         \* which of the steps of that kind
    then,      \* who called restore_marker_state
    ok,        \* its result, or the result of the changes, so far
    snap,      \* the snapshot acquire took
    active,    \* active_
    session,   \* a voice session runs: acquire has returned TRUE for it
    lost,      \* history: settings that a failing query has made the lease misjudge
    crashes, changes, faults   \* what is left of the bounds

vars == <<value, choice, marker, pc, i, then, ok, snap, active, session, lost,
          crashes, changes, faults>>

\* off: no process; closed: stale settings not recovered yet; idle: no call
\* runs; the rest are the steps of acquire and of restore_marker_state.
Steps == {"off", "closed", "idle", "read", "write", "apply", "verify", "conclude",
          "look", "set", "delete"}
Callers == {"none", "recover", "acquire", "undo", "restore"}
NoMarker == [f \in Fields |-> "absent"]

\* The steps of both directions: a setting after the other.
NRoles == Len(RoleOrder)
ApplyOrder(n) == IF n = 1 THEN "Ducking" ELSE RoleOrder[n - 1]
RestoreOrder(n) == IF n <= NRoles THEN RoleOrder[n] ELSE "Ducking"
NSettings == NRoles + 1

\* The value the lease gives to a setting.
Owned(s) == IF s = "Ducking" THEN "nothing" ELSE Cable

DataOf(f) == CASE f = "Version" -> {"absent", "1"}
               [] f = "DuckingExists" -> {"absent", "yes", "no"}
               [] f = "DuckingValue" -> {"absent"} \cup DuckingValues
               [] f = "Target" -> {"absent", Cable}
               [] OTHER -> {"absent"} \cup Endpoints

TypeOK ==
    /\ \A f \in {value, choice, snap} :
           /\ f \in [Settings -> Endpoints \cup DuckingValues]
           /\ \A s \in Settings : f[s] \in ValuesOf(s)
    /\ marker \in [Fields -> {"absent", "1", "yes", "no"} \cup DuckingValues \cup Endpoints]
    /\ \A f \in Fields : marker[f] \in DataOf(f)
    /\ pc \in Steps /\ i \in 1..(NRoles + 4) /\ then \in Callers
    /\ ok \in BOOLEAN /\ active \in BOOLEAN /\ session \in BOOLEAN
    /\ lost \subseteq Settings
    /\ crashes \in 0..MaxCrashes /\ changes \in 0..MaxChanges /\ faults \in 0..MaxFaults

Init ==
    /\ value \in [Settings -> Endpoints \cup DuckingValues]
    /\ \A s \in Roles : value[s] \in Endpoints
    /\ value["Ducking"] \in Duckings
    /\ choice = value /\ snap = value /\ marker = NoMarker
    /\ pc = "off" /\ i = 1 /\ then = "none" /\ ok = TRUE /\ active = FALSE
    /\ session = FALSE /\ lost = {}
    /\ crashes = MaxCrashes /\ changes = MaxChanges /\ faults = MaxFaults

CanFail(kind) == kind \in Faults /\ faults > 0 /\ faults' = faults - 1
Marked == marker["Version"] # "absent"

-----------------------------------------------------------------------------
(* restore_marker_state, called by recover_stale, acquire and restore.      *)

BeginRestore(caller) ==
    pc' = "look" /\ i' = 1 /\ then' = caller /\ ok' = TRUE

\* What restoring a setting writes back, from the marker.  Ducking whose value
\* is missing counts as unset.
Original(s) ==
    IF s # "Ducking" THEN marker[s]
    ELSE IF marker["DuckingExists"] = "yes" /\ marker["DuckingValue"] # "absent"
         THEN marker["DuckingValue"] ELSE "unset"

\* Mutant: the setting is given back even if the user has changed it.
LeaseOwnsAll(s) == IF s = "Ducking" THEN marker["DuckingExists"] # "absent"
                   ELSE marker[s] # "absent" /\ marker["Target"] # "absent"

\* The setting still has the lease's value, and the marker knows another.
LeaseOwns(s) ==
    /\ value[s] = Owned(s)
    /\ IF s = "Ducking" THEN marker["DuckingExists"] # "absent"
       ELSE marker[s] # "absent" /\ marker["Target"] # "absent"

\* On to the next setting; after the last one the marker is deleted if every
\* change went well.
NextSetting ==
    \/ i < NSettings /\ pc' = "look" /\ i' = i + 1
    \/ i = NSettings /\ pc' = "delete" /\ i' = 1

\* A query that fails looks like a setting that the user has changed.
Look ==
    /\ pc = "look"
    /\ LET s == RestoreOrder(i) IN
       \/ LeaseOwns(s) /\ pc' = "set" /\ UNCHANGED <<i, lost, faults>>
       \/ ~LeaseOwns(s) /\ NextSetting /\ UNCHANGED <<lost, faults>>
       \/ /\ CanFail("look") /\ NextSetting
          /\ lost' = IF LeaseOwns(s) THEN lost \cup {s} ELSE lost
    /\ UNCHANGED <<value, choice, marker, then, ok, snap, active, session, crashes, changes>>

\* Without COM the restore gives up before it has looked at anything.
NoCom ==
    /\ pc = "look" /\ i = 1 /\ CanFail("com")
    /\ ok' = FALSE /\ pc' = "delete"
    /\ UNCHANGED <<value, choice, marker, i, then, snap, active, session, lost,
                   crashes, changes>>

GiveBack ==
    /\ pc = "set"
    /\ LET s == RestoreOrder(i) IN
       \/ value' = [value EXCEPT ![s] = Original(s)] /\ UNCHANGED <<ok, faults>>
       \/ CanFail("set") /\ ok' = FALSE /\ UNCHANGED value
    /\ NextSetting
    /\ UNCHANGED <<choice, marker, then, snap, active, session, lost, crashes, changes>>

\* Mutant: the marker is deleted although a setting was not given back.
DeletesAlways == TRUE

Deletes == ok

\* Mutant: a restore that went well leaves the lease active.
ActiveKept == active

StillActive == active /\ ~(ok /\ then \in {"recover", "acquire", "restore"})

\* delete_marker's own failure is not noticed.  The caller's rest: a stale
\* marker that cannot be recovered keeps the lease from being created or
\* acquired.
FinishRestore ==
    /\ pc = "delete"
    /\ \/ Deletes /\ marker' = NoMarker /\ UNCHANGED faults
       \/ Deletes /\ CanFail("delete") /\ UNCHANGED marker
       \/ ~Deletes /\ UNCHANGED <<marker, faults>>
    /\ active' = StillActive
    /\ \/ then = "acquire" /\ ok /\ pc' = "read"
       \/ then = "recover" /\ ~ok /\ pc' = "closed"
       \/ ~(then = "acquire" /\ ok) /\ ~(then = "recover" /\ ~ok) /\ pc' = "idle"
    /\ then' = "none" /\ i' = 1 /\ ok' = TRUE
    /\ UNCHANGED <<value, choice, snap, session, lost, crashes, changes>>

-----------------------------------------------------------------------------
(* acquire.                                                                 *)

\* A lease that is still active is taken as it is, whatever the endpoints are;
\* otherwise recover_stale comes first.
Acquire ==
    /\ pc = "idle" /\ ~session
    /\ \/ active /\ session' = TRUE /\ UNCHANGED <<pc, i, then, ok>>
       \/ ~active /\ Marked /\ BeginRestore("acquire") /\ UNCHANGED session
       \/ ~active /\ ~Marked /\ pc' = "read" /\ i' = 1 /\ UNCHANGED <<then, ok, session>>
    /\ UNCHANGED <<value, choice, marker, snap, active, lost, crashes, changes, faults>>

\* The snapshot, a setting after the other, the roles first.  A role whose query
\* fails ends acquire; a ducking preference that cannot be read counts as unset.
Snapshot ==
    /\ pc = "read"
    /\ LET s == RestoreOrder(i)
           Read(v) == /\ snap' = [snap EXCEPT ![s] = v]
                      /\ \/ i < NSettings /\ i' = i + 1 /\ UNCHANGED pc
                         \/ i = NSettings /\ i' = 1 /\ pc' = "write"
       IN  \/ Read(value[s]) /\ UNCHANGED <<lost, faults>>
           \/ /\ s = "Ducking" /\ CanFail("unread") /\ Read("unset")
              /\ lost' = IF value[s] = "unset" THEN lost ELSE lost \cup {s}
           \/ /\ s \in Roles /\ CanFail("read") /\ pc' = "idle" /\ i' = 1
              /\ UNCHANGED <<snap, lost>>
    /\ UNCHANGED <<value, choice, marker, then, ok, active, session, crashes, changes>>

\* The marker's values in the order they are written.
FieldOrder(n) == CASE n = 1 -> "Version"
                   [] n = 2 -> "DuckingExists"
                   [] n = 3 -> "DuckingValue"
                   [] n = 4 -> "Target"
                   [] OTHER -> RoleOrder[n - 4]

Data(f) == CASE f = "Version" -> "1"
             [] f = "DuckingExists" -> IF snap["Ducking"] = "unset" THEN "no" ELSE "yes"
             [] f = "DuckingValue" -> snap["Ducking"]
             [] f = "Target" -> Cable
             [] OTHER -> snap[f]

LastField == NRoles + 4

\* A write that fails ends acquire; the marker is deleted, unless that fails too.
WriteMarker ==
    /\ pc = "write"
    /\ \/ /\ marker' = [marker EXCEPT ![FieldOrder(i)] = Data(FieldOrder(i))]
          /\ \/ i < LastField /\ i' = i + 1 /\ UNCHANGED pc
             \/ i = LastField /\ i' = 1 /\ pc' = "apply"
          /\ UNCHANGED faults
       \/ CanFail("write") /\ pc' = "idle" /\ i' = 1 /\ marker' = NoMarker
       \/ /\ {"write", "delete"} \subseteq Faults /\ faults > 1 /\ faults' = faults - 2
          /\ pc' = "idle" /\ i' = 1 /\ UNCHANGED marker
    /\ ok' = TRUE
    /\ UNCHANGED <<value, choice, then, snap, active, session, lost, crashes, changes>>

Apply ==
    /\ pc = "apply"
    /\ LET s == ApplyOrder(i) IN
       \/ value' = [value EXCEPT ![s] = Owned(s)] /\ UNCHANGED <<ok, faults>>
       \/ CanFail("set") /\ ok' = FALSE /\ UNCHANGED value
       \/ CanFail("ignored") /\ s \in Roles /\ UNCHANGED <<value, ok>>
    /\ \/ i < NSettings /\ i' = i + 1 /\ UNCHANGED pc
       \/ i = NSettings /\ i' = 1 /\ pc' = "verify"
    /\ UNCHANGED <<choice, marker, then, snap, active, session, lost, crashes, changes>>

\* The endpoints are queried again, a role after the other.
Verify ==
    /\ pc = "verify"
    /\ \/ ok' = (ok /\ value[RoleOrder[i]] = Cable) /\ UNCHANGED faults
       \/ ok' = FALSE /\ CanFail("read")
    /\ \/ i < NRoles /\ i' = i + 1 /\ UNCHANGED pc
       \/ i = NRoles /\ i' = 1 /\ pc' = "conclude"
    /\ UNCHANGED <<value, choice, marker, then, snap, active, session, lost, crashes, changes>>

\* Either the lease is active, or what was changed is given back.
Conclude ==
    /\ pc = "conclude"
    /\ \/ ok /\ active' = TRUE /\ session' = TRUE /\ pc' = "idle" /\ UNCHANGED <<i, then, ok>>
       \/ ~ok /\ BeginRestore("undo") /\ UNCHANGED <<active, session>>
    /\ UNCHANGED <<value, choice, marker, snap, lost, crashes, changes, faults>>

-----------------------------------------------------------------------------
(* The callers, the process and the user.                                   *)

\* Every connection attempt creates the lease unless there is one.
Recover ==
    /\ pc = "closed"
    /\ \/ Marked /\ BeginRestore("recover")
       \/ ~Marked /\ pc' = "idle" /\ UNCHANGED <<i, then, ok>>
    /\ UNCHANGED <<value, choice, marker, snap, active, session, lost, crashes, changes, faults>>

\* The native coordinator recovers at every start, with the lease it has.
RecoverAgain ==
    /\ pc = "idle" /\ ~session /\ Marked /\ BeginRestore("recover")
    /\ UNCHANGED <<value, choice, marker, snap, active, session, lost, crashes, changes, faults>>

\* The end of a session, and every cleanup.
Restore ==
    /\ pc = "idle" /\ (active \/ Marked)
    /\ BeginRestore("restore") /\ session' = FALSE
    /\ UNCHANGED <<value, choice, marker, snap, active, lost, crashes, changes, faults>>

Start ==
    /\ pc = "off" /\ pc' = "closed"
    /\ UNCHANGED <<value, choice, marker, i, then, ok, snap, active, session, lost,
                   crashes, changes, faults>>

Crash ==
    /\ pc # "off" /\ crashes > 0 /\ crashes' = crashes - 1
    /\ pc' = "off" /\ i' = 1 /\ then' = "none" /\ ok' = TRUE
    /\ active' = FALSE /\ session' = FALSE
    /\ UNCHANGED <<value, choice, marker, snap, lost, changes, faults>>

\* The user does not choose the lease's own value: the code could not tell it
\* from the lease's.
UserChanges(s, v) ==
    /\ changes > 0 /\ changes' = changes - 1
    /\ pc \in {"off", "closed", "idle"} \/ UserMayRace
    /\ v # Owned(s)
    /\ value' = [value EXCEPT ![s] = v]
    /\ choice' = [choice EXCEPT ![s] = v]
    /\ lost' = lost \ {s}
    /\ UNCHANGED <<marker, pc, i, then, ok, snap, active, session, crashes, faults>>

LeaseStep == \/ Look \/ NoCom \/ GiveBack \/ FinishRestore
             \/ Snapshot \/ WriteMarker \/ Apply \/ Verify \/ Conclude

User == \E s \in Settings : \E v \in ValuesOf(s) : UserChanges(s, v)

Next == \/ LeaseStep \/ Acquire \/ Recover \/ RecoverAgain \/ Restore
        \/ Start \/ Crash \/ User

Spec == Init /\ [][Next]_vars

\* A running process goes on, a connection is attempted again, and a session
\* ends.  Nobody has to open a session, nor to call restore without one.
FairSpec == /\ Spec /\ WF_vars(LeaseStep) /\ WF_vars(Recover)
            /\ WF_vars(session /\ Restore)

-----------------------------------------------------------------------------
(* Safety.                                                                  *)

\* A setting that is not the user's own has the lease's value and a marker that
\* can undo it.
Undoable(s) == value[s] # choice[s] => Marked /\ LeaseOwns(s) /\ Original(s) = choice[s]

\* No crash at any point loses the user's choice, except of a setting whose own
\* query failed in acquire or in a restore.
Recoverable == \A s \in Settings \ lost : Undoable(s)

\* The strict form, for README: of no setting at all.
AllRecoverable == \A s \in Settings : Undoable(s)

\* Restoring never takes a setting away from the user, unless its query failed.
GivesBackOnly ==
    [][pc = "set" => \A s \in Settings \ lost :
                         value'[s] # value[s] => value'[s] = choice[s]]_vars

\* A session runs on a lease that the next process can undo, although acquire
\* takes a lease that a failed restore has left active without a look at the
\* marker.
SessionLeased == pc = "idle" /\ session => active /\ Marked

\* The strict form, for README: a session starts with every role on the cable.
SessionOnCable == [][session' /\ ~session => \A r \in Roles : value[r] = Cable]_vars

-----------------------------------------------------------------------------
(* Liveness.                                                                *)

\* As long as voice sessions come, the settings are the user's again and again,
\* whatever restore has failed in between.
SettingsReturn ==
    []<><<Acquire>>_vars =>
        []<>(pc = "off" \/ \A s \in Settings \ lost : value[s] = choice[s])
=============================================================================
