--------------------------- MODULE PolicyLeaseProofs ---------------------------
(* No crash and no failing call loses a setting of the user, except one     *)
(* whose own query failed (lost), for every number of roles, set of endpoints *)
(* and bound -- when the user does not act while the lease works, and the     *)
(* user's own ducking preference is not the lease's.                          *)
EXTENDS PolicyLease, TLAPS

Undisturbed == ~UserMayRace /\ "nothing" \notin Duckings

-----------------------------------------------------------------------------
(* The inductive invariant.                                                  *)

\* What the marker would give back is what the user chose.
Exact == \A s \in Settings \ lost : LeaseOwns(s) => Original(s) = choice[s]

\* A changed setting is one that the marker can give back.
Covered == \A s \in Settings \ lost : value[s] # choice[s] => Marked /\ LeaseOwns(s)

\* Roles are written after the target, and the marker is deleted as a whole.
TargetFirst == \A r \in Roles : marker[r] # "absent" => marker["Target"] # "absent"

Untouched == \A s \in Settings \ lost : value[s] = choice[s]

SnapIsChoice == \A s \in Settings \ lost : snap[s] = choice[s]

Written(n) == \A m \in 1..n : marker[FieldOrder(m)] = Data(FieldOrder(m))

\* What acquire has done so far.
Acquiring ==
    /\ pc \in {"read", "write"} => Untouched
    /\ pc = "read" => /\ i \in 1..NSettings
                      /\ \A n \in 1..(i - 1) : RestoreOrder(n) \notin lost =>
                             snap[RestoreOrder(n)] = choice[RestoreOrder(n)]
    /\ pc \in {"write", "apply"} => SnapIsChoice
    /\ pc = "write" => Written(i - 1)
    /\ pc = "apply" => Written(LastField) /\ i \in 1..NSettings

\* What restore_marker_state has done so far: with no failure yet, the settings
\* it is past are the user's own.
Restoring ==
    /\ pc \in {"look", "set"} => i \in 1..NSettings
    /\ pc \in {"look", "set"} /\ ok =>
           \A n \in 1..(i - 1) : RestoreOrder(n) \notin lost =>
               value[RestoreOrder(n)] = choice[RestoreOrder(n)]
    /\ pc = "set" => LeaseOwns(RestoreOrder(i))
    /\ pc = "delete" /\ ok => Untouched

Safe ==
    /\ TypeOK /\ choice["Ducking"] # "nothing"
    /\ Exact /\ Covered /\ TargetFirst /\ Acquiring /\ Restoring

-----------------------------------------------------------------------------
(* Settings, fields and their order.                                         *)

LEMMA Counting ==
    /\ NRoles \in Nat /\ NRoles > 0 /\ DOMAIN RoleOrder = 1..NRoles
    /\ NSettings \in Nat /\ NSettings = NRoles + 1 /\ LastField = NRoles + 4
    /\ \A n \in 1..NRoles : RoleOrder[n] \in Roles
    /\ \A r \in Roles : \E n \in 1..NRoles : RoleOrder[n] = r
  BY RolesAssumption DEF NRoles, NSettings, LastField, Roles

LEMMA Names ==
    /\ "Ducking" \notin Roles /\ "Version" \notin Roles /\ "DuckingExists" \notin Roles
    /\ "DuckingValue" \notin Roles /\ "Target" \notin Roles
    /\ Roles \subseteq Settings /\ Roles \subseteq Fields
    /\ "absent" \notin Endpoints /\ "absent" \notin DuckingValues
    /\ Endpoints \cap DuckingValues = {} /\ Cable \in Endpoints
  BY RolesAssumption, EndpointsAssumption DEF Settings, Fields, Endpoints, DuckingValues

LEMMA SettingOrders ==
    /\ \A n \in 1..NSettings : ApplyOrder(n) \in Settings /\ RestoreOrder(n) \in Settings
    /\ \A s \in Settings : \E n \in 1..NSettings : RestoreOrder(n) = s
<1>1. ASSUME NEW n \in 1..NSettings
      PROVE  ApplyOrder(n) \in Settings /\ RestoreOrder(n) \in Settings
  BY <1>1, Counting DEF ApplyOrder, RestoreOrder, Settings
<1>2. ASSUME NEW s \in Settings PROVE \E n \in 1..NSettings : RestoreOrder(n) = s
  <2>1. CASE s = "Ducking"
    <3>1. NSettings \in 1..NSettings /\ ~(NSettings <= NRoles)
      BY Counting
    <3> QED
      BY <2>1, <3>1 DEF RestoreOrder
  <2>2. CASE s \in Roles
    <3>1. PICK n \in 1..NRoles : RoleOrder[n] = s
      BY <2>2, Counting
    <3>2. n \in 1..NSettings /\ n <= NRoles
      BY Counting
    <3> QED
      BY <3>1, <3>2 DEF RestoreOrder
  <2> QED
    BY <1>2, <2>1, <2>2 DEF Settings
<1> QED
  BY <1>1, <1>2

LEMMA FieldOrders ==
    /\ \A n \in 1..LastField : FieldOrder(n) \in Fields
    /\ \A f \in Fields : \E n \in 1..LastField : FieldOrder(n) = f
<1>1. ASSUME NEW n \in 1..LastField PROVE FieldOrder(n) \in Fields
  <2>1. n > 4 => n - 4 \in 1..NRoles
    BY Counting
  <2> QED
    BY <2>1, Counting DEF FieldOrder, Fields
<1>2. ASSUME NEW f \in Fields PROVE \E n \in 1..LastField : FieldOrder(n) = f
  <2>1. CASE f \in Roles
    <3>1. PICK n \in 1..NRoles : RoleOrder[n] = f
      BY <2>1, Counting
    <3>2. n + 4 \in 1..LastField /\ FieldOrder(n + 4) = RoleOrder[n]
      BY Counting DEF FieldOrder
    <3> QED
      BY <3>1, <3>2
  <2>2. /\ 1 \in 1..LastField /\ 2 \in 1..LastField /\ 3 \in 1..LastField /\ 4 \in 1..LastField
        /\ FieldOrder(1) = "Version" /\ FieldOrder(2) = "DuckingExists"
        /\ FieldOrder(3) = "DuckingValue" /\ FieldOrder(4) = "Target"
    BY Counting DEF FieldOrder
  <2> QED
    BY <1>2, <2>1, <2>2 DEF Fields
<1> QED
  BY <1>1, <1>2

\* The part of TypeOK that is about a map from settings to their values.
Mapped(f) ==
    /\ f \in [Settings -> Endpoints \cup DuckingValues]
    /\ \A s \in Settings : f[s] \in ValuesOf(s)

LEMMA MapsAre == TypeOK => Mapped(value) /\ Mapped(choice) /\ Mapped(snap)
  BY DEF TypeOK, Mapped

LEMMA DataTyped ==
    ASSUME TypeOK, NEW f \in Fields
    PROVE  Data(f) \in DataOf(f) /\ Data(f) # "absent"
<1>1. CASE f \in Roles
  <2>1. /\ f # "Version" /\ f # "DuckingExists" /\ f # "DuckingValue" /\ f # "Target"
        /\ f # "Ducking" /\ f \in Settings
    BY <1>1, Names
  <2>2. Data(f) = snap[f] /\ DataOf(f) = {"absent"} \cup Endpoints
    BY <2>1 DEF Data, DataOf
  <2> QED
    BY <2>1, <2>2, Names, MapsAre DEF Mapped, ValuesOf
<1>2. CASE f \in {"Version", "DuckingExists", "DuckingValue", "Target"}
  <2>1. snap["Ducking"] \in DuckingValues
    BY Names, MapsAre DEF Mapped, Settings, ValuesOf
  <2> QED
    BY <1>2, <2>1, Names DEF Data, DataOf
<1> QED
  BY <1>1, <1>2 DEF Fields

-----------------------------------------------------------------------------
(* Types.                                                                    *)

LEMMA MapChanged ==
    ASSUME NEW f, Mapped(f), NEW s \in Settings, NEW v \in ValuesOf(s)
    PROVE  Mapped([f EXCEPT ![s] = v])
<1>1. v \in Endpoints \cup DuckingValues
  BY DEF ValuesOf
<1> QED
  BY <1>1 DEF Mapped

LEMMA MarkerChanged ==
    ASSUME TypeOK, NEW f \in Fields, NEW d \in DataOf(f)
    PROVE  LET m == [marker EXCEPT ![f] = d] IN
           /\ m \in [Fields -> {"absent", "1", "yes", "no"} \cup DuckingValues \cup Endpoints]
           /\ \A g \in Fields : m[g] \in DataOf(g)
<1>1. d \in {"absent", "1", "yes", "no"} \cup DuckingValues \cup Endpoints
  <2>1. CASE f \in Roles
    <3>1. f # "Version" /\ f # "DuckingExists" /\ f # "DuckingValue" /\ f # "Target"
      BY <2>1, Names
    <3> QED
      BY <3>1 DEF DataOf
  <2>2. CASE f \notin Roles
    BY <2>2, Names DEF Fields, DataOf
  <2> QED
    BY <2>1, <2>2
<1> QED
  BY <1>1 DEF TypeOK

LEMMA NoMarkerTyped ==
    /\ NoMarker \in [Fields -> {"absent", "1", "yes", "no"} \cup DuckingValues \cup Endpoints]
    /\ \A f \in Fields : NoMarker[f] = "absent" /\ NoMarker[f] \in DataOf(f)
<1>1. ASSUME NEW f \in Fields PROVE "absent" \in DataOf(f)
  <2>1. CASE f \in Roles
    <3>1. f # "Version" /\ f # "DuckingExists" /\ f # "DuckingValue" /\ f # "Target"
      BY <2>1, Names
    <3> QED
      BY <3>1 DEF DataOf
  <2>2. CASE f \notin Roles
    BY <2>2 DEF Fields, DataOf
  <2> QED
    BY <2>1, <2>2
<1> QED
  BY <1>1 DEF NoMarker

\* What the lease writes into a setting is a value of it.
LEMMA WritesTyped ==
    ASSUME TypeOK, NEW s \in Settings
    PROVE  /\ Owned(s) \in ValuesOf(s)
           /\ LeaseOwns(s) => Original(s) \in ValuesOf(s)
<1>1. CASE s = "Ducking"
  <2>1. marker["DuckingValue"] \in {"absent"} \cup DuckingValues
    BY DEF TypeOK, Fields, DataOf
  <2> QED
    BY <1>1, <2>1 DEF Owned, Original, ValuesOf, DuckingValues
<1>2. CASE s \in Roles /\ s # "Ducking"
  <2>1. s # "Version" /\ s # "DuckingExists" /\ s # "DuckingValue" /\ s # "Target"
    BY <1>2, Names
  <2>2. marker[s] \in {"absent"} \cup Endpoints
    BY <1>2, <2>1, Names DEF TypeOK, DataOf
  <2> QED
    BY <1>2, <2>2, Names DEF Owned, Original, LeaseOwns, ValuesOf
<1> QED
  BY <1>1, <1>2, Names DEF Settings

\* The part of TypeOK that is not about the settings and the marker.
ControlTypes ==
    /\ pc \in Steps /\ i \in 1..(NRoles + 4) /\ then \in Callers
    /\ crashes \in 0..MaxCrashes /\ changes \in 0..MaxChanges /\ faults \in 0..MaxFaults

Flags == ok \in BOOLEAN /\ active \in BOOLEAN /\ session \in BOOLEAN

LostTypes == lost \subseteq Settings

MarkerTypes ==
    /\ marker \in [Fields -> {"absent", "1", "yes", "no"} \cup DuckingValues \cup Endpoints]
    /\ \A f \in Fields : marker[f] \in DataOf(f)

LEMMA TypeParts ==
    TypeOK <=> /\ Mapped(value) /\ Mapped(choice) /\ Mapped(snap)
               /\ MarkerTypes /\ ControlTypes /\ Flags /\ LostTypes
  BY DEF TypeOK, Mapped, MarkerTypes, ControlTypes, Flags, LostTypes

LEMMA TypeInit == Init => TypeOK
<1> SUFFICES ASSUME Init PROVE TypeOK
  OBVIOUS
<1>1. Mapped(value)
  <2>1. \A s \in Settings : value[s] \in ValuesOf(s)
    BY Names, EnvAssumption DEF Init, Settings, ValuesOf
  <2> QED
    BY <2>1 DEF Init, Mapped
<1>2. Mapped(choice) /\ Mapped(snap)
  BY <1>1 DEF Init
<1>3. MarkerTypes
  BY NoMarkerTyped DEF Init, MarkerTypes
<1>4. ControlTypes
  BY Counting, EnvAssumption DEF Init, ControlTypes, Steps, Callers
<1>5. Flags /\ LostTypes
  BY DEF Init, Flags, LostTypes
<1> QED
  BY <1>1, <1>2, <1>3, <1>4, <1>5, TypeParts

LEMMA FlagStep ==
    ASSUME Flags, [Next]_vars
    PROVE  Flags'
<1>1. CASE Look \/ NoCom \/ GiveBack \/ Snapshot \/ Start
  BY <1>1 DEF Flags, Look, NoCom, GiveBack, Snapshot, Start
<1>2. CASE FinishRestore
  BY <1>2 DEF Flags, FinishRestore, StillActive
<1>3. CASE WriteMarker
  BY <1>3 DEF Flags, WriteMarker
<1>4. CASE Apply
  BY <1>4 DEF Flags, Apply
<1>5. CASE Verify
  BY <1>5 DEF Flags, Verify
<1>6. CASE Conclude
  BY <1>6 DEF Flags, Conclude, BeginRestore
<1>7. CASE Acquire
  BY <1>7 DEF Flags, Acquire, BeginRestore
<1>8. CASE Recover \/ RecoverAgain
  BY <1>8 DEF Flags, Recover, RecoverAgain, BeginRestore
<1>9. CASE Restore
  BY <1>9 DEF Flags, Restore, BeginRestore
<1>10. CASE Crash
  BY <1>10 DEF Flags, Crash
<1>11. CASE User
  BY <1>11 DEF Flags, User, UserChanges
<1>12. CASE UNCHANGED vars
  BY <1>12 DEF Flags, vars
<1> QED
  BY <1>1, <1>2, <1>3, <1>4, <1>5, <1>6, <1>7, <1>8, <1>9, <1>10, <1>11, <1>12
     DEF Next, LeaseStep

LEMMA LostStep ==
    ASSUME Safe, [Next]_vars
    PROVE  LostTypes'
<1>0. LostTypes
  BY TypeParts DEF Safe
<1>1. CASE Look
  <2>1. RestoreOrder(i) \in Settings
    BY <1>1, SettingOrders DEF Look, Safe, Restoring
  <2> QED
    BY <1>0, <1>1, <2>1 DEF Look, LostTypes
<1>2. CASE Snapshot
  BY <1>0, <1>2 DEF Snapshot, LostTypes, Settings
<1>3. CASE User
  BY <1>0, <1>3 DEF User, UserChanges, LostTypes
<1>4. CASE NoCom \/ GiveBack \/ FinishRestore \/ WriteMarker \/ Apply \/ Verify \/ Conclude
  BY <1>0, <1>4 DEF NoCom, GiveBack, FinishRestore, WriteMarker, Apply, Verify, Conclude, LostTypes
<1>5. CASE Acquire \/ Recover \/ RecoverAgain \/ Restore \/ Start \/ Crash \/ UNCHANGED vars
  BY <1>0, <1>5 DEF Acquire, Recover, RecoverAgain, Restore, Start, Crash, vars, LostTypes
<1> QED
  BY <1>1, <1>2, <1>3, <1>4, <1>5 DEF Next, LeaseStep

LEMMA TypeStep ==
    ASSUME Safe, [Next]_vars
    PROVE  TypeOK'
<1> USE EnvAssumption, Counting
<1>t. Mapped(value) /\ Mapped(choice) /\ Mapped(snap) /\ MarkerTypes /\ ControlTypes /\ Flags
  BY TypeParts DEF Safe
<1>q. ASSUME Mapped(value)', Mapped(choice)', Mapped(snap)', MarkerTypes', ControlTypes'
      PROVE  TypeOK'
  <2>1. Flags' /\ LostTypes'
    BY <1>t, FlagStep, LostStep
  <2> QED
    BY <1>q, <2>1 DEF TypeOK, Mapped, MarkerTypes, ControlTypes, Flags, LostTypes
<1>m. UNCHANGED marker => MarkerTypes'
  BY <1>t DEF MarkerTypes
<1>1. CASE Look
  <2>1. ControlTypes'
    BY <1>1, <1>t DEF Look, NextSetting, CanFail, ControlTypes, Steps, Safe, Restoring
  <2> QED
    BY <1>1, <1>t, <1>q, <1>m, <2>1 DEF Look, Mapped
<1>2. CASE GiveBack
  <2>1. ControlTypes'
    BY <1>2, <1>t DEF GiveBack, NextSetting, CanFail, ControlTypes, Steps, Safe, Restoring
  <2>2. Mapped(value')
    <3>1. RestoreOrder(i) \in Settings /\ LeaseOwns(RestoreOrder(i))
      BY <1>2, SettingOrders DEF GiveBack, Safe, Restoring
    <3>2. Original(RestoreOrder(i)) \in ValuesOf(RestoreOrder(i))
      BY <3>1, WritesTyped DEF Safe
    <3>3. Mapped([value EXCEPT ![RestoreOrder(i)] = Original(RestoreOrder(i))])
      BY <1>t, <3>1, <3>2, MapChanged
    <3> QED
      BY <1>2, <1>t, <3>3 DEF GiveBack
  <2> QED
    BY <1>2, <1>t, <1>q, <1>m, <2>1, <2>2 DEF GiveBack, Mapped
<1>3. CASE FinishRestore
  <2>1. ControlTypes'
    BY <1>3, <1>t DEF FinishRestore, StillActive, CanFail, ControlTypes, Steps, Callers
  <2>2. MarkerTypes'
    BY <1>3, <1>m, NoMarkerTyped DEF FinishRestore, MarkerTypes
  <2> QED
    BY <1>3, <1>t, <1>q, <2>1, <2>2 DEF FinishRestore, Mapped
<1>4. CASE Snapshot
  <2>1. ControlTypes'
    <3>1. i \in 1..NSettings
      BY <1>4 DEF Snapshot, Safe, Acquiring
    <3>2. /\ faults' = faults \/ (faults > 0 /\ faults' = faults - 1)
          /\ i' \in {1, i + 1} /\ (i' = i + 1 => i < NSettings \/ i = 0)
          /\ pc' \in {"read", "write", "idle"} /\ UNCHANGED <<then, crashes, changes>>
      BY <1>4, <3>1 DEF Snapshot, CanFail
    <3>3. pc' \in Steps
      BY <3>2 DEF Steps
    <3> QED
      BY <1>t, <3>1, <3>2, <3>3 DEF ControlTypes
  <2>2. Mapped(snap')
    <3> DEFINE s == RestoreOrder(i)
    <3>1. s \in Settings
      BY <1>4, SettingOrders DEF Snapshot, Safe, Acquiring
    <3>2. value[s] \in ValuesOf(s) /\ (s = "Ducking" => "unset" \in ValuesOf(s))
      BY <1>t, <3>1 DEF Mapped, ValuesOf, DuckingValues
    <3>3. \/ snap' = [snap EXCEPT ![s] = value[s]] \/ snap' = snap
          \/ s = "Ducking" /\ snap' = [snap EXCEPT ![s] = "unset"]
      BY <1>4 DEF Snapshot
    <3> HIDE DEF s
    <3> QED
      BY <1>t, <3>1, <3>2, <3>3, MapChanged
  <2> QED
    BY <1>4, <1>t, <1>q, <1>m, <2>1, <2>2 DEF Snapshot, Mapped
<1>5. CASE WriteMarker
  <2>1. ControlTypes'
    BY <1>5, <1>t DEF WriteMarker, CanFail, ControlTypes, Steps
  <2>2. MarkerTypes'
    <3>1. FieldOrder(i) \in Fields
      BY <1>t, FieldOrders DEF ControlTypes
    <3>2. CASE marker' = [marker EXCEPT ![FieldOrder(i)] = Data(FieldOrder(i))]
      BY <3>1, <3>2, DataTyped, MarkerChanged DEF MarkerTypes, Safe
    <3>3. CASE marker' = NoMarker
      BY <3>3, NoMarkerTyped DEF MarkerTypes
    <3> QED
      BY <1>5, <1>m, <3>2, <3>3 DEF WriteMarker
  <2> QED
    BY <1>5, <1>t, <1>q, <2>1, <2>2 DEF WriteMarker, Mapped
<1>6. CASE Apply
  <2>1. ControlTypes'
    BY <1>6, <1>t DEF Apply, CanFail, ControlTypes, Steps, Safe, Acquiring
  <2>2. Mapped(value')
    <3>1. ApplyOrder(i) \in Settings
      BY <1>6, SettingOrders DEF Apply, Safe, Acquiring
    <3>2. Mapped([value EXCEPT ![ApplyOrder(i)] = Owned(ApplyOrder(i))])
      BY <1>t, <3>1, WritesTyped, MapChanged DEF Safe
    <3> QED
      BY <1>6, <1>t, <3>2 DEF Apply
  <2> QED
    BY <1>6, <1>t, <1>q, <1>m, <2>1, <2>2 DEF Apply, Mapped
<1>7. CASE Verify \/ Conclude
  <2>1. ControlTypes'
    <3>1. CASE Verify
      BY <1>t, <3>1 DEF Verify, CanFail, ControlTypes, Steps
    <3>2. CASE Conclude
      BY <1>t, <3>2 DEF Conclude, BeginRestore, ControlTypes, Steps, Callers
    <3> QED
      BY <1>7, <3>1, <3>2
  <2> QED
    BY <1>7, <1>t, <1>q, <1>m, <2>1 DEF Verify, Conclude, Mapped
<1>8. CASE Acquire \/ Recover \/ RecoverAgain \/ Restore \/ Start
  <2>1. ControlTypes'
    BY <1>8, <1>t DEF Acquire, Recover, RecoverAgain, Restore, Start, BeginRestore,
                      ControlTypes, Steps, Callers
  <2> QED
    BY <1>8, <1>t, <1>q, <1>m, <2>1 DEF Acquire, Recover, RecoverAgain, Restore, Start, Mapped
<1>12. CASE NoCom
  <2>1. ControlTypes'
    BY <1>12, <1>t DEF NoCom, CanFail, ControlTypes, Steps
  <2> QED
    BY <1>12, <1>t, <1>q, <1>m, <2>1 DEF NoCom, Mapped
<1>9. CASE Crash
  <2>1. ControlTypes'
    BY <1>9, <1>t DEF Crash, ControlTypes, Steps, Callers
  <2> QED
    BY <1>9, <1>t, <1>q, <1>m, <2>1 DEF Crash, Mapped
<1>10. CASE User
  <2>1. PICK s \in Settings : \E v \in ValuesOf(s) : UserChanges(s, v)
    BY <1>10 DEF User
  <2>2. PICK v \in ValuesOf(s) : UserChanges(s, v)
    BY <2>1
  <2>3. ControlTypes'
    BY <2>2, <1>t DEF UserChanges, ControlTypes
  <2>4. Mapped(value') /\ Mapped(choice')
    BY <2>2, <1>t, MapChanged DEF UserChanges
  <2> QED
    BY <2>2, <1>t, <1>q, <1>m, <2>3, <2>4 DEF UserChanges, Mapped
<1>11. CASE UNCHANGED vars
  BY <1>11, <1>t, <1>q, <1>m DEF vars, Mapped, ControlTypes
<1> QED
  BY <1>1, <1>2, <1>3, <1>4, <1>5, <1>6, <1>7, <1>8, <1>9, <1>10, <1>11, <1>12
     DEF Next, LeaseStep

-----------------------------------------------------------------------------
(* What the lease has to give back.                                          *)

\* Exact, Covered and TargetFirst are about the settings and the marker only.
Returnable ==
    /\ choice["Ducking"] # "nothing"
    /\ Exact /\ Covered /\ TargetFirst

LEMMA Parts == Safe <=> TypeOK /\ Returnable /\ Acquiring /\ Restoring
  BY DEF Safe, Returnable

LEMMA Frame ==
    ASSUME Returnable, UNCHANGED <<value, choice, marker>>, lost \subseteq lost'
    PROVE  Returnable'
<1>1. \A s \in Settings : (LeaseOwns(s)' <=> LeaseOwns(s)) /\ Original(s)' = Original(s)
  BY DEF LeaseOwns, Original
<1> QED
  BY <1>1 DEF Returnable, Exact, Covered, TargetFirst, Marked

\* Nothing to return: with no change to undo, any marker with its roles' values
\* right will do.
LEMMA Harmless ==
    ASSUME Untouched', choice'["Ducking"] # "nothing", Exact', TargetFirst'
    PROVE  Returnable'
  BY DEF Untouched, Returnable, Covered

\* A complete marker gives everything back.
LEMMA Complete ==
    ASSUME TypeOK, SnapIsChoice, Written(LastField), NEW s \in Settings
    PROVE  /\ Marked /\ (s \notin lost => Original(s) = choice[s])
           /\ IF s = "Ducking" THEN marker["DuckingExists"] # "absent"
              ELSE marker[s] # "absent" /\ marker["Target"] # "absent"
<1>1. \A f \in Fields : marker[f] = Data(f) /\ Data(f) # "absent"
  BY FieldOrders, DataTyped DEF Written
<1>2. Marked
  BY <1>1 DEF Marked, Fields
<1>3. CASE s = "Ducking"
  <2>1. marker["DuckingExists"] = IF snap["Ducking"] = "unset" THEN "no" ELSE "yes"
    BY <1>1 DEF Fields, Data
  <2>2. marker["DuckingValue"] = snap["Ducking"] /\ marker["DuckingValue"] # "absent"
    BY <1>1 DEF Fields, Data
  <2>3. s \notin lost => snap["Ducking"] = choice["Ducking"]
    BY <1>3 DEF SnapIsChoice
  <2> QED
    BY <1>2, <1>3, <2>1, <2>2, <2>3 DEF Original, LeaseOwns
<1>4. CASE s \in Roles /\ s # "Ducking"
  <2>1. s # "Version" /\ s # "DuckingExists" /\ s # "DuckingValue" /\ s # "Target"
    BY <1>4, Names
  <2>2. Data(s) = snap[s]
    BY <1>4, <2>1 DEF Data
  <2>3. /\ s \notin lost => marker[s] = choice[s]
        /\ marker[s] # "absent" /\ marker["Target"] # "absent"
    BY <1>1, <1>4, <2>2, Names DEF SnapIsChoice, Fields
  <2> QED
    BY <1>2, <1>4, <2>3 DEF Original, LeaseOwns
<1> QED
  BY <1>3, <1>4, Names DEF Settings

-----------------------------------------------------------------------------
(* The steps of restore_marker_state.                                        *)

LEMMA LookSafe ==
    ASSUME Safe, Look
    PROVE  Returnable' /\ Acquiring' /\ Restoring'
<1> DEFINE s == RestoreOrder(i)
<1>0. i \in 1..NSettings /\ s \in Settings /\ i \in Nat
  BY Counting, SettingOrders DEF Safe, Restoring, Look
<1>l. lost \subseteq lost' /\ UNCHANGED <<value, choice, marker, ok>>
  BY DEF Look
<1>1. Returnable'
  BY <1>l, Parts, Frame
<1>2. \/ LeaseOwns(s) /\ pc' = "set" /\ i' = i
      \/ (s \notin lost' => ~LeaseOwns(s)) /\ NextSetting
  BY DEF Look
<1>3. Acquiring'
  BY <1>2 DEF Acquiring, NextSetting
<1>p. ok => \A n \in 1..(i - 1) : RestoreOrder(n) \notin lost' =>
                value[RestoreOrder(n)] = choice[RestoreOrder(n)]
  BY <1>l DEF Look, Safe, Restoring
<1>4. CASE LeaseOwns(s) /\ pc' = "set" /\ i' = i
  <2>1. LeaseOwns(RestoreOrder(i))'
    BY <1>4, <1>l DEF LeaseOwns, RestoreOrder
  <2>2. Restoring'
    BY <1>0, <1>4, <1>l, <1>p, <2>1 DEF Restoring
  <2> QED
    BY <1>1, <1>3, <2>2
<1>5. CASE (s \notin lost' => ~LeaseOwns(s)) /\ NextSetting
  <2>1. s \notin lost' => value[s] = choice[s]
    BY <1>0, <1>5, <1>l DEF Safe, Covered
  <2>2. ok => \A n \in 1..i : RestoreOrder(n) \notin lost' =>
                  value[RestoreOrder(n)] = choice[RestoreOrder(n)]
    BY <1>0, <1>p, <2>1
  <2>3. CASE i < NSettings /\ pc' = "look" /\ i' = i + 1
    <3>1. Restoring'
      BY <1>0, <1>l, <2>2, <2>3, Counting DEF Restoring
    <3> QED
      BY <1>1, <1>3, <3>1
  <2>4. CASE i = NSettings /\ pc' = "delete" /\ i' = 1
    <3>1. ok => \A t \in Settings \ lost' : value[t] = choice[t]
      BY <2>2, <2>4, SettingOrders
    <3>2. ok' => Untouched'
      BY <1>l, <3>1 DEF Untouched
    <3>3. Restoring'
      BY <2>4, <3>2 DEF Restoring
    <3> QED
      BY <1>1, <1>3, <3>3
  <2> QED
    BY <1>5, <2>3, <2>4 DEF NextSetting
<1> QED
  BY <1>2, <1>4, <1>5

LEMMA GiveBackSafe ==
    ASSUME Safe, GiveBack
    PROVE  Returnable' /\ Acquiring' /\ Restoring'
<1> DEFINE s == RestoreOrder(i)
<1>0. i \in 1..NSettings /\ s \in Settings /\ i \in Nat /\ LeaseOwns(s)
  BY Counting, SettingOrders DEF Safe, Restoring, GiveBack
<1>a. Acquiring'
  BY DEF Acquiring, GiveBack, NextSetting
<1>b. choice' = choice /\ marker' = marker /\ lost' = lost /\ NextSetting
  BY DEF GiveBack
<1>1. CASE value' = [value EXCEPT ![s] = Original(s)] /\ UNCHANGED ok
  <2>1. s \notin lost => Original(s) = choice[s]
    BY <1>0 DEF Safe, Exact
  <2>2. (s \notin lost => value'[s] = choice[s]) /\ \A t \in Settings : t # s => value'[t] = value[t]
    BY <1>0, <1>1, <2>1 DEF Safe, TypeOK
  <2>3. \A t \in Settings : Original(t)' = Original(t) /\ (t # s => (LeaseOwns(t)' <=> LeaseOwns(t)))
    BY <1>b, <2>2 DEF LeaseOwns, Original
  <2>4. Exact'
    BY <1>0, <1>b, <2>1, <2>3 DEF Safe, Exact
  <2>5. Covered'
    BY <1>b, <2>2, <2>3 DEF Safe, Covered, Marked
  <2>6. Returnable'
    BY <1>b, <2>4, <2>5 DEF Safe, Returnable, TargetFirst
  <2>7. ok => \A n \in 1..i : RestoreOrder(n) \notin lost =>
                  value'[RestoreOrder(n)] = choice'[RestoreOrder(n)]
    <3>1. SUFFICES ASSUME ok, NEW n \in 1..i, RestoreOrder(n) \notin lost
                   PROVE  value'[RestoreOrder(n)] = choice[RestoreOrder(n)]
      BY <1>b
    <3>2. RestoreOrder(n) \in Settings
      BY <1>0, Counting, SettingOrders
    <3>3. CASE n \in 1..(i - 1)
      BY <2>2, <3>1, <3>2, <3>3 DEF Safe, Restoring, GiveBack
    <3>4. CASE n = i
      BY <2>2, <3>1, <3>4
    <3> QED
      BY <1>0, <3>3, <3>4
  <2>8. Restoring'
    <3>1. CASE i < NSettings /\ pc' = "look" /\ i' = i + 1
      BY <1>0, <1>1, <1>b, <2>7, <3>1, Counting DEF Restoring
    <3>2. CASE i = NSettings /\ pc' = "delete" /\ i' = 1
      <4>1. ok => Untouched'
        BY <1>b, <2>7, <3>2, SettingOrders DEF Untouched
      <4> QED
        BY <1>1, <3>2, <4>1 DEF Restoring
    <3> QED
      BY <1>b, <3>1, <3>2 DEF NextSetting
  <2> QED
    BY <1>a, <2>6, <2>8
<1>2. CASE ok' = FALSE /\ UNCHANGED value
  <2>1. Returnable'
    BY <1>2, <1>b, Parts, Frame
  <2>2. ~ok' /\ (pc' = "look" => i' \in 1..NSettings) /\ pc' # "set"
    BY <1>0, <1>2, <1>b, Counting DEF NextSetting
  <2> QED
    BY <1>a, <2>1, <2>2 DEF Restoring
<1> QED
  BY <1>1, <1>2 DEF GiveBack

LEMMA FinishRestoreSafe ==
    ASSUME Safe, FinishRestore
    PROVE  Returnable' /\ Acquiring' /\ Restoring'
<1>1. /\ value' = value /\ choice' = choice /\ lost' = lost /\ i' = 1
      /\ pc' \in {"read", "closed", "idle"}
  BY DEF FinishRestore
<1>2. Restoring'
  BY <1>1 DEF Restoring
<1>3. ok => Untouched /\ Untouched'
  BY <1>1 DEF FinishRestore, Safe, Restoring, Untouched
<1>4. pc' = "read" => ok
  BY <1>1 DEF FinishRestore
<1>5. Acquiring'
  BY <1>1, <1>3, <1>4, Counting DEF Acquiring
<1>6. CASE ok /\ marker' = NoMarker
  <2>1. \A t \in Settings : ~LeaseOwns(t)'
    <3>1. SUFFICES ASSUME NEW t \in Settings PROVE ~LeaseOwns(t)'
      OBVIOUS
    <3>2. marker'["DuckingExists"] = "absent" /\ (t # "Ducking" => marker'[t] = "absent")
      BY <1>6, NoMarkerTyped, Names DEF Settings, Fields
    <3> QED
      BY <3>2 DEF LeaseOwns
  <2>2. TargetFirst'
    BY <1>6, NoMarkerTyped, Names DEF TargetFirst
  <2>3. Exact'
    BY <2>1 DEF Exact
  <2> QED
    BY <1>1, <1>2, <1>3, <1>5, <1>6, <2>2, <2>3, Harmless DEF Safe
<1>7. CASE UNCHANGED marker
  BY <1>1, <1>2, <1>5, <1>7, Parts, Frame
<1> QED
  BY <1>6, <1>7 DEF FinishRestore, Deletes

-----------------------------------------------------------------------------
(* The steps of acquire.                                                     *)

LEMMA WriteMarkerSafe ==
    ASSUME Safe, WriteMarker
    PROVE  Returnable' /\ Acquiring' /\ Restoring'
<1>0. /\ value' = value /\ choice' = choice /\ snap' = snap /\ lost' = lost /\ Untouched /\ SnapIsChoice
      /\ pc' \in {"write", "apply", "idle"} /\ i \in 1..LastField /\ i \in Nat
  BY Counting, TypeParts DEF WriteMarker, Safe, Acquiring, ControlTypes
<1>1. Restoring'
  BY <1>0 DEF Restoring
<1>2. Untouched' /\ SnapIsChoice' /\ choice'["Ducking"] # "nothing"
  BY <1>0 DEF Untouched, SnapIsChoice, Safe
<1>3. CASE UNCHANGED marker /\ pc' = "idle"
  <2>1. Returnable'
    BY <1>0, <1>3, Parts, Frame
  <2> QED
    BY <1>1, <1>3, <2>1 DEF Acquiring
<1>4. CASE marker' = NoMarker /\ pc' = "idle"
  <2>1. \A t \in Settings : ~LeaseOwns(t)'
    <3>1. SUFFICES ASSUME NEW t \in Settings PROVE ~LeaseOwns(t)'
      OBVIOUS
    <3>2. marker'["DuckingExists"] = "absent" /\ (t # "Ducking" => marker'[t] = "absent")
      BY <1>4, NoMarkerTyped, Names DEF Settings, Fields
    <3> QED
      BY <3>2 DEF LeaseOwns
  <2>2. TargetFirst' /\ Exact'
    BY <1>4, <2>1, NoMarkerTyped, Names DEF TargetFirst, Exact
  <2> QED
    BY <1>1, <1>2, <1>4, <2>2, Harmless DEF Acquiring
<1>5. CASE /\ marker' = [marker EXCEPT ![FieldOrder(i)] = Data(FieldOrder(i))]
           /\ \/ i < LastField /\ i' = i + 1 /\ UNCHANGED pc
              \/ i = LastField /\ i' = 1 /\ pc' = "apply"
  <2> DEFINE g == FieldOrder(i)
  <2>1. g \in Fields /\ Data(g) # "absent"
    BY <1>0, FieldOrders, DataTyped DEF Safe
  <2>2. marker'[g] = Data(g) /\ \A f \in Fields : f # g => marker'[f] = marker[f]
    BY <1>5, <2>1 DEF Safe, TypeOK
  <2>3. \A m \in 1..i : marker'[FieldOrder(m)] = Data(FieldOrder(m))
    <3>1. SUFFICES ASSUME NEW m \in 1..i PROVE marker'[FieldOrder(m)] = Data(FieldOrder(m))
      OBVIOUS
    <3>2. FieldOrder(m) \in Fields
      BY <1>0, FieldOrders, Counting
    <3>3. CASE FieldOrder(m) = g
      BY <2>2, <3>3
    <3>4. CASE FieldOrder(m) # g
      <4>1. m \in 1..(i - 1)
        BY <1>0, <3>4
      <4> QED
        BY <2>2, <3>2, <3>4, <4>1 DEF WriteMarker, Safe, Acquiring, Written
    <3> QED
      BY <3>3, <3>4
  <2>4. \A m : FieldOrder(m)' = FieldOrder(m) /\ Data(FieldOrder(m))' = Data(FieldOrder(m))
    BY <1>0 DEF Data
  <2>5. Acquiring'
    <3>1. CASE i < LastField /\ i' = i + 1 /\ UNCHANGED pc
      <4>1. i' - 1 = i /\ pc' = "write"
        BY <1>0, <3>1 DEF WriteMarker
      <4>2. Written(i - 1)'
        BY <2>3, <2>4, <4>1 DEF Written
      <4> QED
        BY <1>2, <4>1, <4>2 DEF Acquiring
    <3>2. CASE i = LastField /\ i' = 1 /\ pc' = "apply"
      <4>1. Written(LastField)'
        BY <2>3, <2>4, <3>2 DEF Written
      <4> QED
        BY <1>2, <3>2, <4>1, Counting DEF Acquiring
    <3> QED
      BY <1>5, <3>1, <3>2
  <2>6. TargetFirst'
    <3>1. SUFFICES ASSUME NEW r \in Roles, marker'[r] # "absent"
                   PROVE  marker'["Target"] # "absent"
      BY DEF TargetFirst
    <3>2. r \in Fields /\ "Target" \in Fields /\ r # "Target"
      BY Names DEF Fields
    <3>3. CASE g = "Target"
      BY <2>1, <2>2, <3>3
    <3>4. CASE g # r /\ g # "Target"
      BY <2>2, <3>1, <3>2, <3>4 DEF Safe, TargetFirst
    <3>5. CASE g = r
      <4>1. ~(i \in 1..4)
        BY <3>5, Names DEF FieldOrder
      <4>2. 4 \in 1..i /\ FieldOrder(4) = "Target"
        BY <1>0, <4>1 DEF FieldOrder
      <4>3. Data("Target") # "absent"
        BY <3>2, DataTyped DEF Safe
      <4> QED
        BY <2>3, <4>2, <4>3
    <3> QED
      BY <3>3, <3>4, <3>5
  <2>7. Exact'
    <3>1. SUFFICES ASSUME NEW t \in Settings \ lost, LeaseOwns(t)' PROVE Original(t)' = choice[t]
      BY <1>0 DEF Exact
    <3>2. value'[t] = choice[t] /\ value'[t] = Owned(t)
      BY <1>0, <3>1 DEF LeaseOwns, Untouched
    <3>3. t \in Roles /\ t # "Ducking"
      <4>1. t # "Ducking"
        BY <3>2 DEF Owned, Safe
      <4> QED
        BY <4>1 DEF Settings
    <3>4. t \in Fields /\ t # "Version" /\ t # "DuckingExists" /\ t # "DuckingValue" /\ t # "Target"
      BY <3>3, Names
    <3>5. Original(t)' = marker'[t] /\ marker'[t] # "absent"
      BY <3>1, <3>3 DEF Original, LeaseOwns
    <3>6. CASE g = t
      <4>1. Data(t) = snap[t]
        BY <3>4 DEF Data
      <4> QED
        BY <1>0, <2>2, <3>5, <3>6, <4>1 DEF SnapIsChoice
    <3>7. CASE g # t
      <4>1. marker[t] = marker'[t] /\ marker["Target"] # "absent"
        BY <2>2, <3>3, <3>4, <3>5, <3>7 DEF Safe, TargetFirst
      <4>2. LeaseOwns(t)
        BY <1>0, <3>2, <3>3, <3>5, <4>1 DEF LeaseOwns
      <4>3. Original(t) = marker[t]
        BY <3>3 DEF Original
      <4> QED
        BY <3>5, <4>1, <4>2, <4>3 DEF Safe, Exact
    <3> QED
      BY <3>6, <3>7
  <2> QED
    BY <1>1, <1>2, <2>5, <2>6, <2>7, Harmless
<1> QED
  BY <1>3, <1>4, <1>5 DEF WriteMarker

LEMMA ApplySafe ==
    ASSUME Safe, Apply
    PROVE  Returnable' /\ Acquiring' /\ Restoring'
<1> DEFINE s == ApplyOrder(i)
<1>0. /\ choice' = choice /\ marker' = marker /\ snap' = snap /\ lost' = lost
      /\ s \in Settings /\ i \in 1..NSettings /\ i \in Nat
      /\ SnapIsChoice /\ Written(LastField)
  BY SettingOrders, Counting DEF Apply, Safe, Acquiring
<1>1. /\ pc' \in {"apply", "verify"} /\ (pc' = "apply" => i' \in 1..NSettings)
  BY <1>0, Counting DEF Apply
<1>2. Restoring'
  BY <1>1 DEF Restoring
<1>3. SnapIsChoice' /\ Written(LastField)'
  BY <1>0 DEF SnapIsChoice, Written, Data, LastField
<1>4. Acquiring'
  BY <1>1, <1>3 DEF Acquiring
<1>5. CASE UNCHANGED value
  BY <1>0, <1>2, <1>4, <1>5, Parts, Frame
<1>6. CASE value' = [value EXCEPT ![s] = Owned(s)]
  <2>1. value'[s] = Owned(s) /\ \A t \in Settings : t # s => value'[t] = value[t]
    BY <1>0, <1>6 DEF Safe, TypeOK
  <2>2. \A t \in Settings \ lost : Marked /\ Original(t) = choice[t]
    BY <1>0, Complete DEF Safe
  <2>3. \A t \in Settings \ lost : /\ Marked' /\ Original(t)' = choice'[t]
                                   /\ value'[t] = Owned(t) => LeaseOwns(t)'
    <3>1. SUFFICES ASSUME NEW t \in Settings \ lost
                   PROVE  /\ Marked' /\ Original(t)' = choice'[t]
                          /\ value'[t] = Owned(t) => LeaseOwns(t)'
      OBVIOUS
    <3>2. Marked' /\ Original(t)' = choice'[t]
      BY <1>0, <2>2, <3>1 DEF Marked, Original
    <3>3. value'[t] = Owned(t) => LeaseOwns(t)'
      BY <1>0, <3>1, Complete DEF LeaseOwns, Owned, Safe
    <3> QED
      BY <3>2, <3>3
  <2>4. Exact'
    BY <1>0, <2>3 DEF Exact
  <2>5. Covered'
    <3>1. SUFFICES ASSUME NEW t \in Settings \ lost, value'[t] # choice'[t]
                   PROVE  Marked' /\ LeaseOwns(t)'
      BY <1>0 DEF Covered
    <3>2. CASE t = s
      BY <2>1, <2>3, <3>2
    <3>3. CASE t # s
      <4>1. LeaseOwns(t)
        BY <1>0, <2>1, <3>1, <3>3 DEF Safe, Covered
      <4> QED
        BY <1>0, <2>1, <2>3, <3>3, <4>1 DEF LeaseOwns
    <3> QED
      BY <3>2, <3>3
  <2> QED
    BY <1>0, <1>2, <1>4, <2>4, <2>5 DEF Returnable, Safe, TargetFirst
<1> QED
  BY <1>5, <1>6 DEF Apply

-----------------------------------------------------------------------------
(* The other steps, and the theorems.                                        *)

\* The snapshot holds what the user chose, as far as it goes.
LEMMA SnapshotSafe ==
    ASSUME Safe, Snapshot
    PROVE  Returnable' /\ Acquiring' /\ Restoring'
<1> DEFINE s == RestoreOrder(i)
<1>0. /\ i \in 1..NSettings /\ s \in Settings /\ i \in Nat /\ Untouched
      /\ \A n \in 1..(i - 1) : RestoreOrder(n) \notin lost =>
             snap[RestoreOrder(n)] = choice[RestoreOrder(n)]
  BY Counting, SettingOrders DEF Safe, Acquiring, Snapshot
<1>l. lost \subseteq lost' /\ UNCHANGED <<value, choice, marker>>
  BY DEF Snapshot
<1>1. Returnable' /\ Untouched'
  BY <1>0, <1>l, Parts, Frame DEF Untouched
<1>2. CASE pc' = "idle"
  BY <1>1, <1>2 DEF Acquiring, Restoring
<1>3. CASE /\ snap'[s] = value[s] \/ s \in lost'
           /\ \A t \in Settings : t # s => snap'[t] = snap[t]
           /\ \/ i < NSettings /\ i' = i + 1 /\ pc' = "read"
              \/ i = NSettings /\ i' = 1 /\ pc' = "write"
  <2>1. \A n \in 1..i : RestoreOrder(n) \notin lost' => snap'[RestoreOrder(n)] = choice[RestoreOrder(n)]
    <3>1. SUFFICES ASSUME NEW n \in 1..i, RestoreOrder(n) \notin lost'
                   PROVE  snap'[RestoreOrder(n)] = choice[RestoreOrder(n)]
      OBVIOUS
    <3>2. RestoreOrder(n) \in Settings \ lost
      BY <1>0, <1>l, <3>1, Counting, SettingOrders
    <3>3. CASE RestoreOrder(n) = s
      BY <1>0, <1>3, <3>1, <3>2, <3>3 DEF Untouched
    <3>4. CASE RestoreOrder(n) # s
      <4>1. n \in 1..(i - 1)
        BY <1>0, <3>4
      <4> QED
        BY <1>0, <1>3, <3>2, <3>4, <4>1
    <3> QED
      BY <3>3, <3>4
  <2>2. CASE i < NSettings /\ i' = i + 1 /\ pc' = "read"
    <3>1. i' \in 1..NSettings /\ i' - 1 = i
      BY <1>0, <2>2, Counting
    <3>2. Acquiring'
      BY <1>1, <1>l, <2>1, <2>2, <3>1 DEF Acquiring
    <3> QED
      BY <1>1, <2>2, <3>2 DEF Restoring
  <2>3. CASE i = NSettings /\ i' = 1 /\ pc' = "write"
    <3>1. SnapIsChoice'
      BY <1>l, <2>1, <2>3, SettingOrders DEF SnapIsChoice
    <3>2. Written(i - 1)'
      <4>1. 1..(i' - 1) = {}
        BY <2>3
      <4> QED
        BY <4>1 DEF Written
    <3>3. Acquiring'
      BY <1>1, <2>3, <3>1, <3>2 DEF Acquiring
    <3> QED
      BY <1>1, <2>3, <3>3 DEF Restoring
  <2> QED
    BY <1>3, <2>2, <2>3
<1>4. \/ pc' = "idle"
      \/ /\ \/ snap' = [snap EXCEPT ![s] = value[s]]
            \/ snap' = [snap EXCEPT ![s] = "unset"] /\ (value[s] = "unset" \/ s \in lost')
         /\ \/ i < NSettings /\ i' = i + 1 /\ pc' = "read"
            \/ i = NSettings /\ i' = 1 /\ pc' = "write"
  BY DEF Snapshot
<1>5. DOMAIN snap = Settings
  BY DEF Safe, TypeOK
<1> HIDE DEF s
<1>6. pc' # "idle" => /\ snap'[s] = value[s] \/ s \in lost'
                      /\ \A t \in Settings : t # s => snap'[t] = snap[t]
  BY <1>0, <1>4, <1>5
<1> QED
  BY <1>2, <1>3, <1>4, <1>6

LEMMA OthersSafe ==
    ASSUME Safe, Undisturbed, [Next]_vars,
           ~Look, ~GiveBack, ~FinishRestore, ~Snapshot, ~WriteMarker, ~Apply
    PROVE  Returnable' /\ Acquiring' /\ Restoring'
<1>1. CASE NoCom
  <2>1. /\ UNCHANGED <<value, choice, marker>> /\ lost \subseteq lost'
        /\ pc' = "delete" /\ ~ok'
    BY <1>1 DEF NoCom
  <2> QED
    BY <2>1, Parts, Frame DEF Acquiring, Restoring
<1>2. CASE Verify \/ Conclude
  <2>1. /\ UNCHANGED <<value, choice, marker>> /\ lost \subseteq lost'
        /\ pc' \in {"verify", "conclude", "idle", "look"} /\ (pc' = "look" => i' = 1)
    BY <1>2 DEF Verify, Conclude, BeginRestore
  <2> QED
    BY <2>1, Parts, Frame, Counting DEF Acquiring, Restoring
<1>3. CASE Acquire
  <2>1. /\ UNCHANGED <<value, choice, marker>> /\ lost' = lost
        /\ \/ pc' = "idle"
           \/ pc' = "look" /\ i' = 1
           \/ pc' = "read" /\ i' = 1 /\ ~Marked
    BY <1>3 DEF Acquire, BeginRestore
  <2>2. ~Marked => Untouched
    BY DEF Safe, Covered, Untouched
  <2>3. pc' = "read" => Untouched'
    BY <2>1, <2>2 DEF Untouched
  <2> QED
    BY <2>1, <2>3, Parts, Frame, Counting DEF Acquiring, Restoring
<1>4. CASE Recover \/ RecoverAgain \/ Restore
  <2>1. /\ UNCHANGED <<value, choice, marker>> /\ lost \subseteq lost'
        /\ ((pc' = "look" /\ i' = 1) \/ pc' = "idle")
    BY <1>4 DEF Recover, RecoverAgain, Restore, BeginRestore
  <2> QED
    BY <2>1, Parts, Frame, Counting DEF Acquiring, Restoring
<1>5. CASE Start \/ Crash
  <2>1. /\ UNCHANGED <<value, choice, marker>> /\ lost \subseteq lost'
        /\ pc' \in {"closed", "off"}
    BY <1>5 DEF Start, Crash
  <2> QED
    BY <2>1, Parts, Frame DEF Acquiring, Restoring
<1>6. CASE User
  <2>1. PICK s \in Settings : \E v \in ValuesOf(s) : UserChanges(s, v)
    BY <1>6 DEF User
  <2>2. PICK v \in ValuesOf(s) : UserChanges(s, v)
    BY <2>1
  <2>3. /\ pc' \in {"off", "closed", "idle"} /\ marker' = marker
        /\ value'[s] = v /\ choice'[s] = v /\ v # Owned(s) /\ lost' = lost \ {s}
        /\ \A t \in Settings : t # s => value'[t] = value[t] /\ choice'[t] = choice[t]
    BY <2>2 DEF UserChanges, Undisturbed, Safe, TypeOK
  <2>4. \A t \in Settings : /\ Original(t)' = Original(t)
                            /\ t # s => (LeaseOwns(t)' <=> LeaseOwns(t))
    BY <2>3 DEF Original, LeaseOwns
  <2>5. ~LeaseOwns(s)'
    BY <2>3 DEF LeaseOwns, Owned
  <2>6. Exact'
    BY <2>3, <2>4, <2>5 DEF Safe, Exact
  <2>7. Covered'
    BY <2>3, <2>4 DEF Safe, Covered, Marked
  <2>8. choice'["Ducking"] # "nothing"
    <3>1. "Ducking" \in Settings
      BY DEF Settings
    <3> QED
      BY <2>3, <3>1 DEF Safe, Owned
  <2> QED
    BY <2>3, <2>6, <2>7, <2>8 DEF Returnable, Safe, TargetFirst, Acquiring, Restoring
<1>7. CASE UNCHANGED vars
  <2>1. UNCHANGED <<value, choice, marker>> /\ lost \subseteq lost'
    BY <1>7 DEF vars
  <2>2. Acquiring'
    BY <1>7 DEF vars, Safe, Acquiring, Untouched, SnapIsChoice, Written, Data, LastField
  <2>3. Restoring'
    BY <1>7 DEF vars, Safe, Restoring, Untouched, LeaseOwns, RestoreOrder
  <2> QED
    BY <2>1, <2>2, <2>3, Parts, Frame
<1> QED
  BY <1>1, <1>2, <1>3, <1>4, <1>5, <1>6, <1>7 DEF Next, LeaseStep

\* Whatever fails: restore, after a crash or without one, knows what acquire has
\* written, of every setting but those whose query failed (recover_stale,
\* acquire, restore).
THEOREM LeaseSafe == ASSUME Undisturbed PROVE Spec => []Safe
<1>1. Init => Safe
  <2> SUFFICES ASSUME Init PROVE Safe
    OBVIOUS
  <2>1. TypeOK
    BY TypeInit
  <2>2. choice["Ducking"] # "nothing"
    BY DEF Init, Undisturbed
  <2>3. Untouched /\ Covered
    BY DEF Init, Untouched, Covered
  <2>4. \A t \in Settings : ~LeaseOwns(t)
    <3>1. SUFFICES ASSUME NEW t \in Settings PROVE ~LeaseOwns(t)
      OBVIOUS
    <3>2. marker["DuckingExists"] = "absent" /\ (t # "Ducking" => marker[t] = "absent")
      BY NoMarkerTyped, Names DEF Init, Settings, Fields
    <3> QED
      BY <3>2 DEF LeaseOwns
  <2>5. Exact /\ TargetFirst
    BY <2>4, NoMarkerTyped, Names DEF Init, Exact, TargetFirst
  <2> QED
    BY <2>1, <2>2, <2>3, <2>5 DEF Init, Safe, Acquiring, Restoring
<1>2. Safe /\ [Next]_vars => Safe'
  BY TypeStep, LookSafe, GiveBackSafe, FinishRestoreSafe, WriteMarkerSafe, ApplySafe,
     SnapshotSafe, OthersSafe, Parts DEF Safe, Returnable
<1> QED
  BY <1>1, <1>2, PTL DEF Spec

\* No crash between any two steps of acquire or restore, and no failing call,
\* loses a setting of the user but one whose own query failed: it can still be
\* given back from the marker (acquire writes it first, restore_marker_state
\* deletes it last).
THEOREM NothingLost == ASSUME Undisturbed PROVE Spec => []Recoverable
<1>1. Safe => Recoverable
  BY DEF Safe, Exact, Covered, Recoverable, Undoable
<1> QED
  BY <1>1, LeaseSafe, PTL

\* Restoring never takes a setting away from the user: what it writes is what
\* the user last chose, unless acquire could not read it (the comparison with the
\* target in restore_marker_state).
THEOREM OnlyGivesBack == ASSUME Undisturbed PROVE Spec => GivesBackOnly
<1>1. Safe /\ [Next]_vars =>
        (pc = "set" => \A s \in Settings \ lost :
                           value'[s] # value[s] => value'[s] = choice[s])
  <2> SUFFICES ASSUME Safe, [Next]_vars, pc = "set", NEW s \in Settings \ lost, value'[s] # value[s]
               PROVE  value'[s] = choice[s]
    OBVIOUS
  <2>1. GiveBack
    BY DEF Next, LeaseStep, vars, Look, NoCom, FinishRestore, Snapshot, WriteMarker, Apply,
           Verify, Conclude, Acquire, Recover, RecoverAgain, Restore, Start, Crash, User,
           UserChanges, Undisturbed
  <2>2. /\ RestoreOrder(i) \in Settings
        /\ RestoreOrder(i) \notin lost => Original(RestoreOrder(i)) = choice[RestoreOrder(i)]
    BY <2>1, SettingOrders DEF Safe, Restoring, Exact
  <2>3. value' = [value EXCEPT ![RestoreOrder(i)] = Original(RestoreOrder(i))]
    BY <2>1 DEF GiveBack
  <2> QED
    BY <2>2, <2>3 DEF Safe, TypeOK
<1> QED
  BY <1>1, LeaseSafe, PTL DEF Spec, GivesBackOnly

-----------------------------------------------------------------------------
(* An active lease has its marker, whatever fails and whatever the user does.*)

\* Only acquire makes the lease active, at its end, and only a restore that
\* leaves it inactive deletes the marker; the marker's first value is written
\* before the others.
Leased ==
    /\ DOMAIN marker = Fields
    /\ active => Marked
    /\ session => active /\ pc = "idle"
    /\ pc \in {"read", "write", "apply", "verify", "conclude"} => ~active
    /\ pc \in {"look", "set", "delete"} =>
           then \in {"recover", "acquire", "restore"} \/ (then = "undo" /\ ~active)
    /\ pc = "write" => i \in Nat /\ i > 0 /\ (i > 1 => Marked)
    /\ pc \in {"apply", "verify", "conclude"} => Marked

LEMMA LeasedStep ==
    ASSUME Leased, [Next]_vars
    PROVE  Leased'
<1>1. CASE Look \/ NoCom \/ GiveBack
  BY <1>1 DEF Leased, Look, NoCom, GiveBack, NextSetting, Marked
<1>2. CASE FinishRestore
  <2>1. /\ pc' \in {"read", "closed", "idle"} /\ ~session /\ UNCHANGED session
        /\ pc' = "read" => ~active'
    BY <1>2 DEF FinishRestore, StillActive, Leased
  <2>2. active' => active /\ UNCHANGED marker
    BY <1>2 DEF FinishRestore, StillActive, Deletes, Leased
  <2>3. DOMAIN marker' = Fields
    BY <1>2 DEF FinishRestore, Leased, NoMarker
  <2>4. active' => Marked'
    BY <2>2 DEF Leased, Marked
  <2> QED
    BY <2>1, <2>3, <2>4 DEF Leased
<1>3. CASE WriteMarker
  <2>1. /\ UNCHANGED <<active, session>> /\ ~active /\ ~session
        /\ pc' \in {"write", "apply", "idle"}
    BY <1>3 DEF WriteMarker, Leased
  <2>2. DOMAIN marker' = Fields
    BY <1>3 DEF WriteMarker, Leased, NoMarker
  <2>3. CASE /\ marker' = [marker EXCEPT ![FieldOrder(i)] = Data(FieldOrder(i))]
             /\ \/ i < LastField /\ i' = i + 1 /\ UNCHANGED pc
                \/ i = LastField /\ i' = 1 /\ pc' = "apply"
    <3>1. Data("Version") # "absent" /\ "Version" \in Fields
      BY DEF Data, Fields
    <3>2. i = 1 => FieldOrder(i) = "Version"
      BY DEF FieldOrder
    <3>3. i = 1 \/ Marked
      BY <1>3 DEF WriteMarker, Leased
    <3>4. Marked'
      BY <2>3, <3>1, <3>2, <3>3 DEF Leased, Marked
    <3>5. pc' = "write" => i' \in Nat /\ i' > 0
      BY <1>3, <2>3 DEF WriteMarker, Leased
    <3> QED
      BY <2>1, <2>2, <3>4, <3>5 DEF Leased
  <2>4. CASE pc' = "idle"
    BY <2>1, <2>2, <2>4 DEF Leased
  <2> QED
    BY <1>3, <2>3, <2>4 DEF WriteMarker
<1>4. CASE Snapshot
  <2>1. UNCHANGED <<marker, active, session>> /\ pc' \in {"read", "write", "idle"}
        /\ (pc' = "write" => i' = 1)
    BY <1>4 DEF Snapshot
  <2> QED
    BY <1>4, <2>1 DEF Leased, Snapshot, Marked
<1>5. CASE Apply \/ Verify
  BY <1>5 DEF Leased, Apply, Verify, Marked
<1>6. CASE Conclude
  BY <1>6 DEF Leased, Conclude, BeginRestore, Marked
<1>7. CASE Acquire
  BY <1>7 DEF Leased, Acquire, BeginRestore, Marked
<1>8. CASE Recover \/ RecoverAgain \/ Restore
  BY <1>8 DEF Leased, Recover, RecoverAgain, Restore, BeginRestore, Marked
<1>9. CASE Start \/ Crash
  BY <1>9 DEF Leased, Start, Crash, Marked
<1>10. CASE User
  BY <1>10 DEF Leased, User, UserChanges, Marked
<1>11. CASE UNCHANGED vars
  BY <1>11 DEF Leased, vars, Marked
<1> QED
  BY <1>1, <1>2, <1>3, <1>4, <1>5, <1>6, <1>7, <1>8, <1>9, <1>10, <1>11 DEF Next, LeaseStep

\* A session always runs on a lease whose marker is in the registry: also when
\* acquire has taken a lease that a failed restore left active, whatever fails
\* and whatever the user does meanwhile (active_ in acquire and restore).
THEOREM SessionsLeased == Spec => []SessionLeased
<1>1. Init => Leased
  BY DEF Init, Leased, NoMarker
<1>2. Leased /\ [Next]_vars => Leased'
  BY LeasedStep
<1>3. Leased => SessionLeased
  BY DEF Leased, SessionLeased
<1> QED
  BY <1>1, <1>2, <1>3, PTL DEF Spec
=============================================================================
