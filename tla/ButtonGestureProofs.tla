-------------------------- MODULE ButtonGestureProofs --------------------------
(* What holds of one button for every set of bindings and every bound: the  *)
(* safety invariants however late the timers are, and the promise of        *)
(* GestureContract when an elapsed timer gets the lock before the next edge. *)
EXTENDS ButtonGesture, TLAPS

TimerRecord == [entry : {"off", "armed", "fired"}, orphans : Nat, late : Nat]

GestureRecord == [tracked : BOOLEAN, pressed : BOOLEAN, second : BOOLEAN,
                  waiting : BOOLEAN, longDone : BOOLEAN, double : BOOLEAN, long : BOOLEAN]

-----------------------------------------------------------------------------
(* Timers.                                                                  *)

LEMMA Cancelling ==
    ASSUME NEW t \in TimerRecord
    PROVE  /\ Cancelled(t) \in TimerRecord
           /\ Cancelled(t).entry = "off" /\ Cancelled(t).orphans = t.orphans
           /\ Cancelled(t).late >= t.late
           /\ t.entry # "fired" => Cancelled(t).late = t.late
  BY DEF TimerRecord, Cancelled

LEMMA Arming ==
    ASSUME NEW t \in TimerRecord
    PROVE  /\ Armed(t) \in TimerRecord
           /\ Armed(t).entry = "armed" /\ Armed(t).orphans = t.orphans
           /\ t.entry # "fired" => Armed(t).late = t.late
  BY Cancelling DEF TimerRecord, Armed, Cancelled

LEMMA Popping ==
    ASSUME NEW t \in TimerRecord, NEW own \in BOOLEAN,
           IF own THEN t.entry = "fired" ELSE t.late > 0
    PROVE  /\ Popped(t, own) \in TimerRecord
           /\ Popped(t, own).entry = "off"
           /\ own => Popped(t, own).orphans = t.orphans /\ Popped(t, own).late = t.late
           /\ t.entry = "off" => /\ Popped(t, own).orphans = t.orphans
                                 /\ Popped(t, own).late = t.late - 1
  BY DEF TimerRecord, Popped

LEMMA TimersAre == TimerTypes <=> timer \in [Kinds -> TimerRecord]
  BY DEF TimerTypes, TimerRecord

-----------------------------------------------------------------------------
(* However late the timers are.                                             *)

\* The flags of a tracked gesture fit together, and only a button that is
\* down is pressed.
StateShape ==
    /\ ~state.tracked => state = Untracked
    /\ state.tracked => (state.pressed <=> ~state.waiting)
    /\ state.tracked => state.double \/ state.long
    /\ state.waiting => state.double /\ ~state.second /\ ~state.longDone
    /\ state.longDone => state.long
    /\ state.pressed => down

ListenerShape == (held => down) /\ (phase = "down" => ~down)

Kept ==
    TypeOK /\ StateShape /\ ListenerShape /\ OneOwner /\ ClickNotLost /\ RepeatNeedsHold

LEMMA KeptInit == Init => Kept
<1> SUFFICES ASSUME Init PROVE Kept
  OBVIOUS
<1>1. TypeOK
  <2>1. StateTypes
    BY DEF Init, StateTypes, Untracked
  <2>2. TimerTypes
    <3>1. NoTimer \in TimerRecord
      BY DEF NoTimer, TimerRecord
    <3> QED
      BY <3>1 DEF Init, TimerTypes, TimerRecord
  <2>3. calls \in [Triggers -> 0..MaxCalls]
    BY BoundsAssumption DEF Init
  <2>4. presses \in 0..MaxPresses /\ resets \in 0..MaxResets
    BY BoundsAssumption DEF Init
  <2>5. phase \in {"up", "reset", "down"} /\ down \in BOOLEAN /\ held \in BOOLEAN
    BY DEF Init
  <2>6. edge \in Triggers \cup {"none"}
    BY DEF Init
  <2> QED
    BY <2>1, <2>2, <2>3, <2>4, <2>5, <2>6 DEF TypeOK
<1>2. StateShape /\ ListenerShape /\ OneOwner /\ ClickNotLost /\ RepeatNeedsHold
  BY DEF Init, StateShape, ListenerShape, OneOwner, ClickNotLost, RepeatNeedsHold,
     Untracked, NoTimer, Kinds
<1> QED
  BY <1>1, <1>2 DEF Kept

\* The two edges, the listener's forced release included.
LEMMA KeptReleaseFound ==
    ASSUME Kept, ReleaseFound, down' = FALSE, phase' \in {"up", "reset", "down"},
           UNCHANGED <<calls, presses, resets>>
    PROVE  Kept'
<1> USE DEF Kept
<1>1. timer \in [Kinds -> TimerRecord]
  BY TimersAre DEF TypeOK
<1>2. timer["double"] \in TimerRecord /\ timer["long"] \in TimerRecord
      /\ timer["repeat"] \in TimerRecord
  BY <1>1 DEF Kinds
<1>3. state \in GestureRecord
  BY DEF TypeOK, StateTypes, GestureRecord
<1>4. /\ timer' \in [Kinds -> TimerRecord] /\ state' \in GestureRecord
      /\ edge' \in Triggers \cup {"none"} /\ held' = FALSE
      /\ timer'["repeat"].entry = "off"
      /\ state'.waiting => timer'["double"].entry # "off"
      /\ StateShape'
  <2>1. CASE ~state.pressed
    <3>1. /\ timer' = [timer EXCEPT !["repeat"] = Cancelled(@)]
          /\ state' = state /\ edge' = "none" /\ held' = FALSE
      BY <2>1 DEF ReleaseFound
    <3>2. timer' \in [Kinds -> TimerRecord] /\ timer'["repeat"].entry = "off"
          /\ timer'["double"] = timer["double"]
      BY <1>1, <1>2, <3>1, Cancelling DEF Kinds
    <3> QED
      BY <1>3, <2>1, <3>1, <3>2 DEF StateShape, ClickNotLost, Triggers, Untracked
  <2>2. CASE state.pressed /\ ~state.longDone /\ ~state.second /\ state.double
    <3>1. /\ timer' = [timer EXCEPT !["repeat"] = Cancelled(@),
                              !["long"] = IF state.long THEN Cancelled(@) ELSE @,
                              !["double"] = Armed(@)]
          /\ state' = [state EXCEPT !.pressed = FALSE, !.waiting = TRUE]
          /\ edge' = "none" /\ held' = FALSE
      BY <2>2 DEF ReleaseFound
    <3>2. timer' \in [Kinds -> TimerRecord] /\ timer'["repeat"].entry = "off"
          /\ timer'["double"].entry = "armed"
      BY <1>1, <1>2, <3>1, Cancelling, Arming DEF Kinds
    <3>3. state.tracked /\ ~state.waiting
      BY <1>3, <2>2 DEF StateShape, GestureRecord, Untracked
    <3>4. /\ state' \in GestureRecord /\ state'.tracked /\ ~state'.pressed
          /\ state'.waiting /\ state'.double /\ ~state'.second /\ ~state'.longDone
      BY <1>3, <2>2, <3>1, <3>3 DEF GestureRecord
    <3> QED
      BY <3>1, <3>2, <3>4 DEF StateShape
  <2>3. CASE state.pressed /\ (state.longDone \/ state.second \/ ~state.double)
    <3>1. /\ timer' = [timer EXCEPT !["repeat"] = Cancelled(@),
                              !["long"] = IF state.long THEN Cancelled(@) ELSE @]
          /\ state' = Untracked /\ edge' \in Triggers \cup {"none"} /\ held' = FALSE
      BY <2>3 DEF ReleaseFound, Triggers
    <3>2. timer' \in [Kinds -> TimerRecord] /\ timer'["repeat"].entry = "off"
      BY <1>1, <1>2, <3>1, Cancelling DEF Kinds
    <3> QED
      BY <3>1, <3>2 DEF StateShape, GestureRecord, Untracked
  <2> QED
    BY <1>3, <2>1, <2>2, <2>3 DEF GestureRecord
<1>5. TypeOK'
  BY <1>4 DEF TypeOK, StateTypes, GestureRecord, TimerTypes, TimerRecord
<1> QED
  BY <1>4, <1>5 DEF ListenerShape, OneOwner, ClickNotLost, RepeatNeedsHold

LEMMA KeptPress == ASSUME Kept, Press PROVE Kept'
<1>1. timer \in [Kinds -> TimerRecord] /\ state \in GestureRecord
  BY TimersAre DEF Kept, TypeOK, StateTypes, GestureRecord
<1>2. timer["double"] \in TimerRecord /\ timer["long"] \in TimerRecord
      /\ timer["repeat"] \in TimerRecord
  BY <1>1 DEF Kinds
<1>3. PICK cfg \in Configs : PressFound(cfg)
  BY DEF Press
<1>4. cfg \in Config
  BY <1>3, ConfigsAssumption
<1>5. /\ down' = TRUE /\ phase' = phase /\ phase # "down" /\ calls' = calls
      /\ presses' \in 0..MaxPresses /\ resets' = resets
  BY BoundsAssumption DEF Press, EdgeMayCome, Kept, TypeOK
<1>6. ~down /\ ~held /\ ~state.pressed
  BY DEF Press, Kept, ListenerShape, StateShape
<1>7. /\ timer' \in [Kinds -> TimerRecord] /\ state' \in GestureRecord
      /\ held' \in BOOLEAN /\ edge' \in Triggers \cup {"none"}
      /\ StateShape' /\ OneOwner' /\ ClickNotLost' /\ RepeatNeedsHold'
  <2>1. CASE cfg.double \/ cfg.long \/ state.tracked
    <3>1. RecognizerPress(cfg.double, cfg.long) /\ held' = FALSE
      BY <1>3, <1>6, <2>1 DEF PressFound
    <3>2. CASE ~state.tracked
      <4>1. /\ state' = [Untracked EXCEPT !.tracked = TRUE, !.pressed = TRUE,
                                         !.double = cfg.double, !.long = cfg.long]
            /\ timer' = IF cfg.long THEN [timer EXCEPT !["long"] = Armed(@)] ELSE timer
            /\ edge' = "none"
        BY <3>1, <3>2, <1>1 DEF RecognizerPress, StateShape, Kept, Untracked
      <4>2. timer' \in [Kinds -> TimerRecord] /\ timer'["repeat"] = timer["repeat"]
        BY <1>1, <1>2, <4>1, Arming DEF Kinds
      <4>3. /\ state' \in GestureRecord /\ state'.tracked /\ state'.pressed /\ ~state'.second
            /\ ~state'.waiting /\ ~state'.longDone /\ (state'.double \/ state'.long)
        BY <4>1, <1>4, <2>1, <3>2 DEF Config, GestureRecord, Untracked
      <4> QED
        BY <3>1, <4>1, <4>2, <4>3, <1>5, <1>6
           DEF StateShape, OneOwner, ClickNotLost, RepeatNeedsHold, Kept
    <3>3. CASE state.tracked
      <4>1. /\ state' = [state EXCEPT !.pressed = TRUE, !.second = TRUE, !.waiting = FALSE]
            /\ timer' = [timer EXCEPT !["double"] = Cancelled(@),
                                      !["long"] = IF state.long THEN Armed(@) ELSE @]
            /\ edge' = "none"
        BY <3>1, <3>3, <1>6 DEF RecognizerPress, StateShape, Kept
      <4>2. timer' \in [Kinds -> TimerRecord] /\ timer'["repeat"] = timer["repeat"]
        BY <1>1, <1>2, <4>1, Arming, Cancelling DEF Kinds
      <4>3. state.waiting /\ state.double /\ ~state.longDone
        BY <3>3, <1>6 DEF StateShape, Kept
      <4>4. /\ state' \in GestureRecord /\ state'.tracked /\ state'.pressed
            /\ ~state'.waiting /\ ~state'.longDone /\ state'.double
        BY <4>1, <4>3, <3>3, <1>1 DEF GestureRecord
      <4> QED
        BY <3>1, <4>1, <4>2, <4>4, <1>5, <1>6
           DEF StateShape, OneOwner, ClickNotLost, RepeatNeedsHold, Kept
    <3> QED
      BY <3>2, <3>3
  <2>2. CASE ~(cfg.double \/ cfg.long \/ state.tracked)
    <3>1. ImmediatePress(cfg)
      BY <1>3, <1>6, <2>2 DEF PressFound
    <3>2. /\ state' = state /\ held' = cfg.single /\ edge' \in Triggers \cup {"none"}
          /\ timer' = IF cfg.single /\ cfg.repeat
                      THEN [timer EXCEPT !["repeat"] = Armed(@)] ELSE timer
      BY <3>1 DEF ImmediatePress, Triggers
    <3>3. timer' \in [Kinds -> TimerRecord] /\ timer'["double"] = timer["double"]
          /\ (~cfg.single => timer' = timer)
      BY <1>1, <1>2, <3>2, Arming DEF Kinds
    <3>4. cfg.single \in BOOLEAN
      BY <1>4 DEF Config
    <3> QED
      BY <1>1, <1>5, <1>6, <2>2, <3>2, <3>3, <3>4
         DEF StateShape, OneOwner, ClickNotLost, RepeatNeedsHold, Kept
  <2> QED
    BY <2>1, <2>2
<1>8. TypeOK'
  BY <1>5, <1>7 DEF Kept, TypeOK, StateTypes, GestureRecord, TimerTypes, TimerRecord
<1> QED
  BY <1>5, <1>7, <1>8 DEF Kept, ListenerShape

LEMMA KeptRelease == ASSUME Kept, Release PROVE Kept'
  BY KeptReleaseFound DEF Release, Kept, TypeOK

LEMMA KeptElapse == ASSUME Kept, NEW k \in Kinds, Elapse(k) PROVE Kept'
<1>1. timer \in [Kinds -> TimerRecord] /\ timer[k] \in TimerRecord
  BY TimersAre DEF Kept, TypeOK
<1>2. /\ timer' \in [Kinds -> TimerRecord]
      /\ \A j \in Kinds : timer'[j].entry # "off" <=> timer[j].entry # "off"
  <2>1. CASE timer[k].entry = "armed" /\ timer' = [timer EXCEPT ![k].entry = "fired"]
    <3>1. [timer[k] EXCEPT !.entry = "fired"] \in TimerRecord
      BY <1>1 DEF TimerRecord
    <3>2. [timer[k] EXCEPT !.entry = "fired"].entry = "fired"
      BY <1>1 DEF TimerRecord
    <3> QED
      BY <1>1, <2>1, <3>1, <3>2
  <2>2. CASE timer[k].orphans > 0
             /\ timer' = [timer EXCEPT ![k].orphans = @ - 1, ![k].late = @ + 1]
    <3> DEFINE r == [[timer[k] EXCEPT !.orphans = @ - 1] EXCEPT !.late = @ + 1]
    <3>1. r \in TimerRecord /\ r.entry = timer[k].entry
      BY <1>1, <2>2 DEF TimerRecord
    <3>2. timer' = [timer EXCEPT ![k] = r]
      BY <1>1, <2>2
    <3> QED
      BY <1>1, <3>1, <3>2
  <2> QED
    BY <2>1, <2>2 DEF Elapse
<1>3. TypeOK' /\ UNCHANGED <<phase, down, held, state>>
  BY <1>2 DEF Elapse, Kept, TypeOK, StateTypes, TimerTypes, TimerRecord
<1> QED
  BY <1>2, <1>3 DEF Kept, StateShape, ListenerShape, OneOwner, ClickNotLost, RepeatNeedsHold,
     Kinds

LEMMA Deciding ==
    ASSUME calls \in [Triggers -> 0..MaxCalls], NEW t \in Triggers,
           Decide(t) \/ calls' = calls
    PROVE  calls' \in [Triggers -> 0..MaxCalls]
  BY BoundsAssumption DEF Decide

LEMMA KeptTimeouts == ASSUME Kept, NEW own \in BOOLEAN, Timeouts(own) PROVE Kept'
<1>1. timer \in [Kinds -> TimerRecord] /\ state \in GestureRecord
      /\ calls \in [Triggers -> 0..MaxCalls]
  BY TimersAre DEF Kept, TypeOK, StateTypes, GestureRecord
<1>2. timer["double"] \in TimerRecord /\ timer["long"] \in TimerRecord
      /\ timer["repeat"] \in TimerRecord
  BY <1>1 DEF Kinds
<1>3. CASE DoubleTimeout(own)
  <2>1. /\ timer' = [timer EXCEPT !["double"] = Popped(@, own)]
        /\ UNCHANGED <<phase, down, held, edge, presses, resets>>
        /\ IF own THEN timer["double"].entry = "fired" ELSE timer["double"].late > 0
    BY <1>3 DEF DoubleTimeout, Timeout, MayRun
  <2>2. timer' \in [Kinds -> TimerRecord] /\ timer'["repeat"] = timer["repeat"]
    BY <1>1, <1>2, <2>1, Popping DEF Kinds
  <2>3. state' \in {state, Untracked} /\ ~state'.waiting
    BY <1>1, <1>3 DEF DoubleTimeout, ClickWaits, Kept, StateShape, Untracked, GestureRecord
  <2>4. state' \in GestureRecord
    <3>1. Untracked \in GestureRecord
      BY DEF Untracked, GestureRecord
    <3> QED
      BY <1>1, <2>3, <3>1
  <2>5. calls' \in [Triggers -> 0..MaxCalls]
    BY <1>1, <1>3, Deciding DEF DoubleTimeout, Triggers
  <2>6. TypeOK'
    BY <2>1, <2>2, <2>4, <2>5
       DEF Kept, TypeOK, StateTypes, GestureRecord, TimerTypes, TimerRecord
  <2>7. StateShape' /\ (state'.tracked => state.tracked)
    BY <2>1, <2>3 DEF Kept, StateShape, Untracked
  <2> QED
    BY <2>1, <2>2, <2>3, <2>6, <2>7
       DEF Kept, ListenerShape, OneOwner, ClickNotLost, RepeatNeedsHold
<1>4. CASE LongTimeout(own)
  <2>1. /\ timer' = [timer EXCEPT !["long"] = Popped(@, own)]
        /\ UNCHANGED <<phase, down, held, edge, presses, resets>>
        /\ IF own THEN timer["long"].entry = "fired" ELSE timer["long"].late > 0
    BY <1>4 DEF LongTimeout, Timeout, MayRun
  <2>2. timer' \in [Kinds -> TimerRecord] /\ timer'["repeat"] = timer["repeat"]
        /\ timer'["double"] = timer["double"]
    BY <1>1, <1>2, <2>1, Popping DEF Kinds
  <2>3. state' \in GestureRecord /\ StateShape'
        /\ (state'.tracked <=> state.tracked) /\ (state'.waiting <=> state.waiting)
    <3>1. CASE HoldLasts /\ state' = [state EXCEPT !.longDone = TRUE]
      BY <1>1, <2>1, <3>1 DEF GestureRecord, HoldLasts, Kept, StateShape, Untracked
    <3>2. CASE state' = state
      BY <1>1, <2>1, <3>2 DEF Kept, StateShape
    <3> QED
      BY <1>4, <3>1, <3>2 DEF LongTimeout
  <2>4. calls' \in [Triggers -> 0..MaxCalls]
    BY <1>1, <1>4, Deciding DEF LongTimeout, Triggers
  <2>5. TypeOK'
    BY <2>1, <2>2, <2>3, <2>4
       DEF Kept, TypeOK, StateTypes, GestureRecord, TimerTypes, TimerRecord
  <2> QED
    BY <2>1, <2>2, <2>3, <2>5
       DEF Kept, ListenerShape, OneOwner, ClickNotLost, RepeatNeedsHold
<1>5. CASE RepeatTimeout(own)
  <2>1. /\ UNCHANGED <<phase, down, held, state, edge, presses, resets>>
        /\ IF own THEN timer["repeat"].entry = "fired" ELSE timer["repeat"].late > 0
        /\ \/ held /\ timer' = [timer EXCEPT !["repeat"] = Armed(Popped(@, own))]
           \/ timer' = [timer EXCEPT !["repeat"] = Popped(@, own)]
    BY <1>5 DEF RepeatTimeout, Repeats, Timeout, MayRun
  <2>2. /\ Popped(timer["repeat"], own) \in TimerRecord
        /\ Popped(timer["repeat"], own).entry = "off"
    BY <1>2, <2>1, Popping
  <2>3. /\ timer' \in [Kinds -> TimerRecord] /\ timer'["double"] = timer["double"]
        /\ timer'["repeat"].entry # "off" => held
    BY <1>1, <2>1, <2>2, Arming DEF Kinds
  <2>4. calls' \in [Triggers -> 0..MaxCalls]
    BY <1>1, <1>5, Deciding DEF RepeatTimeout, Triggers
  <2>5. TypeOK'
    BY <2>1, <2>3, <2>4 DEF Kept, TypeOK, StateTypes, TimerTypes, TimerRecord
  <2> QED
    BY <2>1, <2>3, <2>5
       DEF Kept, StateShape, ListenerShape, OneOwner, ClickNotLost, RepeatNeedsHold
<1> QED
  BY <1>3, <1>4, <1>5 DEF Timeouts

LEMMA KeptReset == ASSUME Kept, Reset PROVE Kept'
<1>1. timer \in [Kinds -> TimerRecord]
  BY TimersAre DEF Kept, TypeOK
<1>2. /\ timer' \in [Kinds -> TimerRecord] /\ \A k \in Kinds : timer'[k].entry = "off"
      /\ held' = FALSE /\ state' = Untracked
  BY <1>1, Cancelling DEF Reset, ResetDispatcher
<1>3. phase' = "reset" /\ resets' \in 0..MaxResets /\ UNCHANGED <<down, edge, calls, presses>>
  BY BoundsAssumption DEF Reset, Kept, TypeOK
<1>4. StateTypes' /\ StateShape'
  BY <1>2 DEF StateTypes, StateShape, Untracked
<1>5. TypeOK'
  BY <1>2, <1>3, <1>4 DEF Kept, TypeOK, TimerTypes, TimerRecord
<1> QED
  BY <1>2, <1>3, <1>4, <1>5
     DEF Kept, ListenerShape, OneOwner, ClickNotLost, RepeatNeedsHold, Kinds, Untracked

LEMMA KeptStopListener == ASSUME Kept, StopListener PROVE Kept'
<1>1. CASE down
  BY <1>1, KeptReleaseFound DEF StopListener, ForcedRelease
<1>2. CASE ~down
  <2>1. /\ UNCHANGED <<held, state, timer, calls, presses, resets>>
        /\ phase' = "down" /\ down' = FALSE /\ edge' = "none"
    BY <1>2 DEF StopListener, ForcedRelease
  <2>2. TypeOK'
    BY <2>1 DEF Kept, TypeOK, StateTypes, TimerTypes
  <2> QED
    BY <1>2, <2>1, <2>2
       DEF Kept, StateShape, ListenerShape, OneOwner, ClickNotLost, RepeatNeedsHold
<1> QED
  BY <1>1, <1>2

LEMMA KeptNext == Kept /\ [Next]_vars => Kept'
<1> SUFFICES ASSUME Kept, [Next]_vars PROVE Kept'
  OBVIOUS
<1>1. CASE Press
  BY <1>1, KeptPress
<1>2. CASE Release
  BY <1>2, KeptRelease
<1>3. CASE CallEdge
  BY <1>3 DEF CallEdge, Kept, TypeOK, StateTypes, TimerTypes, StateShape, ListenerShape,
     OneOwner, ClickNotLost, RepeatNeedsHold
<1>4. ASSUME NEW t \in Triggers, Call(t) PROVE Kept'
  <2>1. calls' \in [Triggers -> 0..MaxCalls]
    BY <1>4, BoundsAssumption DEF Call, Kept, TypeOK
  <2> QED
    BY <1>4, <2>1 DEF Call, Kept, TypeOK, StateTypes, TimerTypes, StateShape, ListenerShape,
       OneOwner, ClickNotLost, RepeatNeedsHold
<1>5. ASSUME NEW k \in Kinds, Elapse(k) PROVE Kept'
  BY <1>5, KeptElapse
<1>6. ASSUME NEW own \in BOOLEAN, Timeouts(own) PROVE Kept'
  BY <1>6, KeptTimeouts
<1>7. CASE Reset
  BY <1>7, KeptReset
<1>8. CASE StopListener
  BY <1>8, KeptStopListener
<1>9. CASE StartListener
  BY <1>9 DEF StartListener, Kept, TypeOK, StateTypes, TimerTypes, StateShape, ListenerShape,
     OneOwner, ClickNotLost, RepeatNeedsHold
<1>10. CASE UNCHANGED vars
  BY <1>10 DEF vars, Kept, TypeOK, StateTypes, TimerTypes, StateShape, ListenerShape,
     OneOwner, ClickNotLost, RepeatNeedsHold
<1> QED
  BY <1>1, <1>2, <1>3, <1>4, <1>5, <1>6, <1>7, <1>8, <1>9, <1>10 DEF Next

THEOREM GestureKept == Spec => []Kept
  BY KeptInit, KeptNext, PTL DEF Spec

\* The dispatcher and the recognizer never own a press together, for every set
\* of bindings, however late a callback is and wherever a cleanup falls.
THEOREM OneOwnerAlways == Spec => []OneOwner
  BY GestureKept, PTL DEF Kept

\* A waiting click always has the timer that resolves it, whatever callbacks of
\* earlier gestures remove from the timer dicts (_double_click_timeout).
THEOREM ClicksKept == Spec => []ClickNotLost
  BY GestureKept, PTL DEF Kept

\* A repeat timer belongs to a held button (_repeat_timeout, release, reset).
THEOREM RepeatsStop == Spec => []RepeatNeedsHold
  BY GestureKept, PTL DEF Kept

\* A stopped listener leaves no button pressed (_release_all after reset).
THEOREM StopReleases == Spec => []NothingHeldWhenStopped
<1>1. Kept => NothingHeldWhenStopped
  BY DEF Kept, StateShape, ListenerShape, NothingHeldWhenStopped
<1> QED
  BY <1>1, GestureKept, PTL

-----------------------------------------------------------------------------
(* With prompt timers: the promise of GestureContract.                      *)

\* A dict entry belongs to the stage it is the deadline of.
TimersMatch ==
    /\ timer["double"].entry # "off" => state.waiting
    /\ timer["long"].entry # "off" => state.long /\ state.pressed /\ ~state.longDone
    /\ timer["repeat"].entry # "off" => held

\* A late callback finds nothing that it could decide.
LateHarmless ==
    /\ \A k \in Kinds : timer[k].orphans = 0
    /\ timer["double"].late > 0 => ~state.waiting /\ (state.pressed => state.second)
    /\ timer["long"].late > 0 => ~state.pressed
    /\ timer["repeat"].late > 0 => ~held

Exact == Kept /\ TimersMatch /\ LateHarmless

\* The same with the timers' facts spelled out for the provers.
LEMMA KeptFacts ==
    ASSUME Kept
    PROVE  /\ timer \in [Kinds -> TimerRecord] /\ state \in GestureRecord
           /\ timer["double"] \in TimerRecord /\ timer["long"] \in TimerRecord
           /\ timer["repeat"] \in TimerRecord
           /\ calls \in [Triggers -> 0..MaxCalls]
<1>1. timer \in [Kinds -> TimerRecord] /\ state \in GestureRecord
      /\ calls \in [Triggers -> 0..MaxCalls]
  BY TimersAre DEF Kept, TypeOK, StateTypes, GestureRecord
<1> QED
  BY <1>1 DEF Kinds

LEMMA OwedSame == ASSUME calls' = calls, edge' = edge PROVE Owed' = Owed
  BY DEF Owed

LEMMA OwedByEdge ==
    ASSUME Kept, NEW t \in Triggers, edge = "none", edge' = t, calls' = calls
    PROVE  Contract!Decide(t)
  BY KeptFacts, BoundsAssumption DEF Owed, Contract!Decide, Triggers

LEMMA OwedByTimer ==
    ASSUME Kept, NEW t \in Triggers, Decide(t), edge' = edge
    PROVE  Contract!Decide(t)
  BY KeptFacts, BoundsAssumption DEF Owed, Contract!Decide, Decide

LEMMA Delivered ==
    ASSUME Kept, UNCHANGED <<held, state, timer>>, CallEdge \/ \E t \in Triggers : Call(t)
    PROVE  Contract!Deliver
<1>1. UNCHANGED <<Stage, Recognised, Deadline>>
  BY DEF Stage, Recognised, Deadline, DeadlineOf
<1>2. CASE CallEdge
  <2>1. edge \in Triggers /\ edge' = "none" /\ calls' = calls
    BY <1>2 DEF CallEdge, Kept, TypeOK
  <2>2. \A t \in Triggers : calls[t] \in Nat
    BY KeptFacts, BoundsAssumption
  <2>3. Owed' = calls /\ Owed = [calls EXCEPT ![edge] = @ + 1]
    BY <2>1, KeptFacts DEF Owed, Triggers
  <2>4. Owed[edge] > 0 /\ Owed[edge] - 1 = calls[edge]
    BY <2>1, <2>2, <2>3, KeptFacts
  <2>5. [Owed EXCEPT ![edge] = calls[edge]] = calls
    BY <2>1, <2>3, KeptFacts
  <2>6. Owed[edge] > 0 /\ Owed' = [Owed EXCEPT ![edge] = @ - 1]
    BY <2>3, <2>4, <2>5
  <2> QED
    BY <1>1, <2>1, <2>6 DEF Contract!Deliver, Contract!Triggers, Triggers
<1>3. ASSUME NEW t \in Triggers, Call(t) PROVE Contract!Deliver
  <2>1. calls[t] \in Nat /\ calls[t] > 0 /\ calls' = [calls EXCEPT ![t] = @ - 1]
        /\ edge' = edge
    BY <1>3, KeptFacts, BoundsAssumption DEF Call
  <2>2. Owed[t] > 0
    BY <2>1, KeptFacts DEF Owed
  <2>3. Owed[t] - 1 = Owed'[t]
    BY <2>1, KeptFacts DEF Owed
  <2>4. Owed' = [Owed EXCEPT ![t] = Owed'[t]]
    BY <2>1, KeptFacts DEF Owed
  <2>5. Owed' = [Owed EXCEPT ![t] = @ - 1]
    BY <2>3, <2>4
  <2> QED
    BY <1>1, <1>3, <2>2, <2>5 DEF Contract!Deliver, Contract!Triggers, Triggers
<1> QED
  BY <1>2, <1>3

\* A step of the dispatcher keeps Exact and is one of the contract's.
Promise == Exact' /\ [Contract!Next]_(Contract!vars)

LEMMA PressKeepsPromise == ASSUME Prompt, Exact, Press PROVE Promise
<1>1. Kept /\ Kept'
  BY KeptPress DEF Exact
<1>2. PICK cfg \in Configs : PressFound(cfg)
  BY DEF Press
<1>3. cfg \in Config
  BY <1>2, ConfigsAssumption
<1>4. edge = "none" /\ calls' = calls /\ \A k \in Kinds : timer[k].late = 0
  BY DEF Press, EdgeMayCome
<1>5. ~held /\ ~state.pressed
  BY <1>1 DEF Press, Kept, ListenerShape, StateShape
<1>6. timer["long"].entry = "off" /\ timer["repeat"].entry = "off"
  BY <1>5 DEF Exact, TimersMatch
<1> USE KeptFacts, <1>1
<1>7. CASE RecognizerPress(cfg.double, cfg.long) /\ held' = FALSE /\ ~state.tracked
           /\ (cfg.double \/ cfg.long)
  <2>1. /\ state = Untracked
        /\ state' = [Untracked EXCEPT !.tracked = TRUE, !.pressed = TRUE,
                                      !.double = cfg.double, !.long = cfg.long]
        /\ timer' = IF cfg.long THEN [timer EXCEPT !["long"] = Armed(@)] ELSE timer
        /\ edge' = "none"
    BY <1>7 DEF RecognizerPress, Kept, StateShape, Untracked
  <2>2. /\ state'.tracked /\ state'.pressed /\ ~state'.second /\ ~state'.waiting
        /\ ~state'.longDone /\ state'.double = cfg.double /\ state'.long = cfg.long
    BY <2>1, <1>3 DEF Untracked, Config
  <2>3. /\ timer'["double"] = timer["double"] /\ timer'["repeat"] = timer["repeat"]
        /\ timer'["long"].entry = IF cfg.long THEN "armed" ELSE "off"
        /\ timer'["long"].late = 0 /\ timer'["long"].orphans = timer["long"].orphans
    BY <2>1, <1>4, <1>6, Arming DEF Kinds
  <2>4. ~state.waiting
    BY <2>1 DEF Untracked
  <2>5. Exact'
    BY <1>4, <1>6, <1>7, <2>2, <2>3, <2>4 DEF Exact, TimersMatch, LateHarmless, Kinds, TimerRecord
  <2>6. Stage = "idle" /\ Stage' = "first"
    BY <1>5, <1>7, <2>1, <2>2 DEF Stage, Untracked
  <2>7. Deadline' = IF cfg.long THEN "running" ELSE "none"
    BY <2>3, <2>6 DEF Deadline, DeadlineOf
  <2>8. Recognised' \in (SUBSET {"double", "long"}) \ {{}} /\ ("long" \in Recognised' <=> cfg.long)
    BY <1>3, <1>7, <2>2 DEF Recognised, Config
  <2>9. Contract!Press
    BY <1>4, <2>1, <2>6, <2>7, <2>8, OwedSame
       DEF Contract!Press, Contract!Enter, Contract!HoldDeadline, Contract!Secondary
  <2> QED
    BY <2>5, <2>9 DEF Promise, Contract!Next
<1>8. CASE RecognizerPress(cfg.double, cfg.long) /\ held' = FALSE /\ state.tracked
  <2>1. state.waiting /\ state.double /\ ~state.longDone
    BY <1>5, <1>8 DEF Kept, StateShape
  <2>2. /\ state' = [state EXCEPT !.pressed = TRUE, !.second = TRUE, !.waiting = FALSE]
        /\ timer' = [timer EXCEPT !["double"] = Cancelled(@),
                                  !["long"] = IF state.long THEN Armed(@) ELSE @]
        /\ edge' = "none"
    BY <1>8, <2>1 DEF RecognizerPress
  <2>3. /\ state'.tracked /\ state'.pressed /\ state'.second /\ ~state'.waiting
        /\ ~state'.longDone /\ state'.double /\ (state'.long <=> state.long)
    BY <1>8, <2>1, <2>2 DEF GestureRecord
  <2>4. /\ timer'["double"].entry = "off" /\ timer'["repeat"] = timer["repeat"]
        /\ timer'["double"].orphans = timer["double"].orphans
        /\ timer'["long"].entry = IF state.long THEN "armed" ELSE "off"
        /\ timer'["long"].late = 0 /\ timer'["long"].orphans = timer["long"].orphans
    BY <2>2, <1>4, <1>6, Arming, Cancelling DEF Kinds
  <2>5. Exact'
    BY <1>4, <1>6, <1>8, <2>3, <2>4 DEF Exact, TimersMatch, LateHarmless, Kinds, TimerRecord
  <2>6. Stage = "gap" /\ Stage' = "second"
    BY <1>5, <1>8, <2>1, <2>3 DEF Stage
  <2>7. Deadline' = IF state.long THEN "running" ELSE "none"
    BY <2>4, <2>6 DEF Deadline, DeadlineOf
  <2>8. Recognised' = Recognised /\ ("long" \in Recognised <=> state.long)
    BY <2>1, <2>3 DEF Recognised
  <2>9. Contract!Press
    BY <1>4, <2>2, <2>6, <2>7, <2>8, OwedSame
       DEF Contract!Press, Contract!Enter, Contract!HoldDeadline
  <2> QED
    BY <2>5, <2>9 DEF Promise, Contract!Next
<1>9. CASE ImmediatePress(cfg) /\ ~state.tracked
  <2>1. state = Untracked /\ state' = state
    BY <1>9 DEF ImmediatePress, Kept, StateShape
  <2>2. /\ held' = cfg.single /\ edge' = IF cfg.single THEN "single" ELSE "none"
        /\ timer' = IF cfg.single /\ cfg.repeat
                    THEN [timer EXCEPT !["repeat"] = Armed(@)] ELSE timer
    BY <1>9 DEF ImmediatePress
  <2>3. /\ timer'["double"] = timer["double"] /\ timer'["long"] = timer["long"]
        /\ timer'["repeat"].entry = IF cfg.single /\ cfg.repeat THEN "armed" ELSE "off"
        /\ timer'["repeat"].late = 0 /\ timer'["repeat"].orphans = timer["repeat"].orphans
    BY <2>2, <1>4, <1>6, Arming DEF Kinds
  <2>4. Exact'
    BY <1>4, <1>6, <2>1, <2>2, <2>3 DEF Exact, TimersMatch, LateHarmless, Kinds, TimerRecord
  <2>5. Stage = "idle" /\ Recognised = {} /\ Recognised' = {}
    BY <1>5, <2>1 DEF Stage, Recognised, Untracked
  <2>6. CASE cfg.single
    <3>1. Stage' = "held" /\ Deadline' \in {"none", "running"}
      BY <2>2, <2>3, <2>6 DEF Stage, Deadline, DeadlineOf
    <3>2. Contract!Decide("single")
      BY <1>4, <2>2, <2>6, OwedByEdge DEF Triggers
    <3>3. Contract!Press
      BY <2>5, <3>1, <3>2 DEF Contract!Press, Contract!Enter
    <3> QED
      BY <2>4, <3>3 DEF Promise, Contract!Next
  <2>7. CASE ~cfg.single
    <3>1. UNCHANGED <<Stage, Recognised, Deadline, Owed>>
      BY <1>3, <1>4, <1>5, <2>1, <2>2, <2>5, <2>7, OwedSame
         DEF Stage, Deadline, Config, Untracked
    <3> QED
      BY <2>4, <3>1 DEF Promise, Contract!vars
  <2> QED
    BY <2>6, <2>7
<1>10. held = FALSE
  BY <1>1, <1>5 DEF Kept, TypeOK
<1>11. CASE cfg.double \/ cfg.long \/ state.tracked
  BY <1>2, <1>7, <1>8, <1>10, <1>11 DEF PressFound
<1>12. CASE ~(cfg.double \/ cfg.long \/ state.tracked)
  BY <1>2, <1>9, <1>10, <1>12 DEF PressFound
<1> QED
  BY <1>11, <1>12

\* Both the user's release and the one a stopping listener forces.
LEMMA ReleaseKeepsPromise ==
    ASSUME Exact, Kept', ReleaseFound, edge = "none", calls' = calls
    PROVE  Promise
<1>1. Kept
  BY DEF Exact
<1> USE KeptFacts, <1>1
<1>2. held' = FALSE
  BY DEF ReleaseFound
<1>3. CASE ~state.pressed
  <2>1. /\ timer' = [timer EXCEPT !["repeat"] = Cancelled(@)]
        /\ state' = state /\ edge' = "none"
    BY <1>3 DEF ReleaseFound
  <2>2. /\ timer'["double"] = timer["double"] /\ timer'["long"] = timer["long"]
        /\ timer'["repeat"].entry = "off"
        /\ timer'["repeat"].orphans = timer["repeat"].orphans
    BY <2>1, Cancelling DEF Kinds
  <2>3. Exact'
    BY <1>2, <2>1, <2>2 DEF Exact, TimersMatch, LateHarmless, Kinds
  <2>4. Owed' = Owed /\ Recognised' = Recognised
    BY <2>1, OwedSame DEF Recognised
  <2>5. CASE held
    <3>1. ~state.tracked /\ Recognised = {}
      BY <2>5 DEF Kept, OneOwner, StateShape, Recognised, Untracked
    <3>2. Stage = "held" /\ Stage' = "idle" /\ Deadline' = "none"
      BY <1>2, <2>1, <2>5, <3>1 DEF Stage, Deadline
    <3>3. Contract!Release
      BY <2>4, <3>1, <3>2 DEF Contract!Release, Contract!Enter
    <3> QED
      BY <2>3, <3>3 DEF Promise, Contract!Next
  <2>6. CASE ~held
    <3>1. Stage' = Stage /\ Stage # "held"
      BY <1>2, <2>1, <2>6 DEF Stage
    <3>2. Deadline' = Deadline
      BY <2>2, <3>1 DEF Deadline, DeadlineOf
    <3> QED
      BY <2>3, <2>4, <3>1, <3>2 DEF Promise, Contract!vars
  <2> QED
    BY <2>5, <2>6
<1>4. CASE state.pressed
  <2>1. state.tracked /\ ~state.waiting /\ ~held /\ timer["double"].entry = "off"
        /\ timer["long"].late = 0
    BY <1>4 DEF Exact, Kept, StateShape, OneOwner, TimersMatch, LateHarmless, Untracked,
       TimerRecord
  <2>2. CASE ~state.longDone /\ ~state.second /\ state.double
    <3>1. /\ timer' = [timer EXCEPT !["repeat"] = Cancelled(@),
                              !["long"] = IF state.long THEN Cancelled(@) ELSE @,
                              !["double"] = Armed(@)]
          /\ state' = [state EXCEPT !.pressed = FALSE, !.waiting = TRUE]
          /\ edge' = "none"
      BY <1>4, <2>2 DEF ReleaseFound
    <3>2. /\ state'.tracked /\ ~state'.pressed /\ state'.waiting /\ ~state'.longDone
          /\ state'.double /\ (state'.long <=> state.long)
      BY <2>1, <2>2, <3>1 DEF GestureRecord
    <3>3. timer["long"].entry # "off" => state.long
      BY DEF Exact, TimersMatch
    <3>4. /\ timer'["double"].entry = "armed" /\ timer'["double"].late = timer["double"].late
          /\ timer'["double"].orphans = timer["double"].orphans
          /\ timer'["long"].entry = "off" /\ timer'["long"].orphans = timer["long"].orphans
          /\ timer'["repeat"].entry = "off"
          /\ timer'["repeat"].orphans = timer["repeat"].orphans
      BY <2>1, <3>1, <3>3, Arming, Cancelling DEF Kinds
    <3>5. timer["double"].late = 0
      BY <1>4, <2>2 DEF Exact, LateHarmless, TimerRecord
    <3>6. Exact'
      BY <1>2, <3>2, <3>4, <3>5 DEF Exact, TimersMatch, LateHarmless, Kinds
    <3>7. /\ Stage = "first" /\ Stage' = "gap" /\ Deadline' = "running"
          /\ Recognised' = Recognised /\ "double" \in Recognised
      BY <1>2, <2>1, <2>2, <3>2, <3>4 DEF Stage, Deadline, DeadlineOf, Recognised
    <3>8. Contract!Release
      BY <3>1, <3>7, OwedSame DEF Contract!Release, Contract!Enter
    <3> QED
      BY <3>6, <3>8 DEF Promise, Contract!Next
  <2>3. CASE state.longDone \/ state.second \/ ~state.double
    <3>1. /\ timer' = [timer EXCEPT !["repeat"] = Cancelled(@),
                              !["long"] = IF state.long THEN Cancelled(@) ELSE @]
          /\ state' = Untracked
          /\ edge' = IF state.longDone THEN "none"
                     ELSE IF state.second THEN "double" ELSE "single"
      BY <1>4, <2>3 DEF ReleaseFound
    <3>2. timer["long"].entry # "off" => state.long
      BY DEF Exact, TimersMatch
    <3>3. /\ timer'["double"] = timer["double"]
          /\ timer'["long"].entry = "off" /\ timer'["long"].orphans = timer["long"].orphans
          /\ timer'["repeat"].entry = "off"
          /\ timer'["repeat"].orphans = timer["repeat"].orphans
      BY <2>1, <3>1, <3>2, Cancelling DEF Kinds
    <3>4. Exact'
      BY <1>2, <2>1, <3>1, <3>3 DEF Exact, TimersMatch, LateHarmless, Kinds, Untracked
    <3>5. Stage' = "idle" /\ Deadline' = "none" /\ Recognised' = {}
      BY <1>2, <3>1 DEF Stage, Deadline, Recognised, Untracked
    <3>6. Contract!Release
      <4>1. CASE state.longDone
        BY <2>1, <3>1, <3>5, <4>1, OwedSame DEF Contract!Release, Contract!Enter, Stage
      <4>2. CASE ~state.longDone /\ state.second
        <5>1. Stage = "second"
          BY <2>1, <4>2 DEF Stage
        <5>2. Contract!Decide("double")
          BY <3>1, <4>2, OwedByEdge DEF Triggers
        <5> QED
          BY <3>5, <5>1, <5>2 DEF Contract!Release, Contract!Enter
      <4>3. CASE ~state.longDone /\ ~state.second
        <5>1. Stage = "first" /\ "double" \notin Recognised
          BY <2>1, <2>3, <4>3 DEF Stage, Recognised
        <5>2. Contract!Decide("single")
          BY <3>1, <4>3, OwedByEdge DEF Triggers
        <5> QED
          BY <3>5, <5>1, <5>2 DEF Contract!Release, Contract!Enter
      <4> QED
        BY <4>1, <4>2, <4>3
    <3> QED
      BY <3>4, <3>6 DEF Promise, Contract!Next
  <2> QED
    BY <2>2, <2>3
<1> QED
  BY <1>3, <1>4

LEMMA ElapseKeepsPromise == ASSUME Exact, NEW k \in Kinds, Elapse(k) PROVE Promise
<1>1. Kept /\ Kept'
  BY KeptElapse DEF Exact
<1> USE KeptFacts, <1>1
<1>2. timer[k] \in TimerRecord
  BY DEF Kinds
<1>3. timer[k].entry = "armed" /\ timer' = [timer EXCEPT ![k].entry = "fired"]
  BY <1>2 DEF Exact, LateHarmless, Elapse
<1>4. UNCHANGED <<held, state, edge, calls>>
  BY DEF Elapse
<1>5. /\ timer'[k].entry = "fired" /\ timer'[k].late = timer[k].late
      /\ timer'[k].orphans = timer[k].orphans
      /\ \A j \in Kinds \ {k} : timer'[j] = timer[j]
  BY <1>2, <1>3 DEF TimerRecord
<1>6. Exact'
  BY <1>1, <1>3, <1>4, <1>5 DEF Exact, TimersMatch, LateHarmless, Kinds
<1>7. UNCHANGED <<Stage, Recognised, Owed>>
  BY <1>4, OwedSame DEF Stage, Recognised
<1>8. (Deadline = "running" /\ Deadline' = "passed") \/ Deadline' = Deadline
  BY <1>3, <1>5, <1>7 DEF Deadline, DeadlineOf, Kinds
<1>9. Contract!Elapse \/ UNCHANGED Contract!vars
  BY <1>7, <1>8 DEF Contract!Elapse, Contract!vars
<1> QED
  BY <1>6, <1>9 DEF Promise, Contract!Next

LEMMA TimeoutKeepsPromise ==
    ASSUME Exact, NEW own \in BOOLEAN, Timeouts(own)
    PROVE  Promise
<1>1. Kept /\ Kept'
  BY KeptTimeouts DEF Exact
<1> USE KeptFacts, <1>1
<1>2. CASE DoubleTimeout(own)
  <2>1. /\ timer' = [timer EXCEPT !["double"] = Popped(@, own)]
        /\ UNCHANGED <<held, edge>>
        /\ IF own THEN timer["double"].entry = "fired" ELSE timer["double"].late > 0
    BY <1>2 DEF DoubleTimeout, Timeout, MayRun
  <2>2. ~own => timer["double"].entry = "off" /\ ~state.waiting
    BY <2>1 DEF Exact, LateHarmless, TimersMatch
  <2>3. /\ timer'["double"].entry = "off"
        /\ timer'["double"].orphans = timer["double"].orphans
        /\ timer'["double"].late > 0 => timer["double"].late > 0
        /\ timer'["long"] = timer["long"] /\ timer'["repeat"] = timer["repeat"]
    BY <2>1, <2>2, Popping DEF Kinds, TimerRecord
  <2>4. CASE ClickWaits
    <3>1. state' = Untracked /\ Decide("single")
      BY <1>2, <2>4 DEF DoubleTimeout
    <3>2. own /\ ~held /\ ~state.pressed
      BY <2>2, <2>4 DEF ClickWaits, Kept, OneOwner
    <3>3. Exact'
      BY <2>1, <2>3, <3>1, <3>2 DEF Exact, TimersMatch, LateHarmless, Kinds, Untracked
    <3>4. Stage = "gap" /\ Deadline = "passed"
      BY <2>1, <2>4, <3>2 DEF ClickWaits, Stage, Deadline, DeadlineOf
    <3>5. Stage' = "idle" /\ Deadline' = "none" /\ Recognised' = {}
      BY <2>1, <3>1, <3>2 DEF Stage, Deadline, Recognised, Untracked
    <3>6. Contract!Decide("single")
      BY <2>1, <3>1, OwedByTimer DEF Triggers
    <3>7. Contract!Expire
      BY <3>4, <3>5, <3>6 DEF Contract!Expire, Contract!Enter
    <3> QED
      BY <3>3, <3>7 DEF Promise, Contract!Next
  <2>5. CASE ~ClickWaits
    <3>1. state' = state /\ calls' = calls
      BY <1>2, <2>5 DEF DoubleTimeout
    <3>2. ~state.waiting
      BY <2>5 DEF ClickWaits, Kept, StateShape, Untracked
    <3>3. Exact'
      BY <2>1, <2>3, <3>1, <3>2 DEF Exact, TimersMatch, LateHarmless, Kinds
    <3>4. UNCHANGED <<Stage, Recognised, Owed>> /\ Stage # "gap"
      BY <2>1, <3>1, <3>2, OwedSame DEF Stage, Recognised
    <3>5. Deadline' = Deadline
      BY <2>3, <3>4 DEF Deadline, DeadlineOf
    <3> QED
      BY <3>3, <3>4, <3>5 DEF Promise, Contract!vars
  <2> QED
    BY <2>4, <2>5
<1>3. CASE LongTimeout(own)
  <2>1. /\ timer' = [timer EXCEPT !["long"] = Popped(@, own)]
        /\ UNCHANGED <<held, edge>>
        /\ IF own THEN timer["long"].entry = "fired" ELSE timer["long"].late > 0
    BY <1>3 DEF LongTimeout, Timeout, MayRun
  <2>2. ~own => timer["long"].entry = "off" /\ ~state.pressed
    BY <2>1 DEF Exact, LateHarmless, TimersMatch
  <2>3. /\ timer'["long"].entry = "off"
        /\ timer'["long"].orphans = timer["long"].orphans
        /\ timer'["long"].late > 0 => timer["long"].late > 0
        /\ timer'["double"] = timer["double"] /\ timer'["repeat"] = timer["repeat"]
    BY <2>1, <2>2, Popping DEF Kinds, TimerRecord
  <2>4. CASE HoldLasts
    <3>1. state' = [state EXCEPT !.longDone = TRUE] /\ Decide("long")
      BY <1>3, <2>4 DEF LongTimeout
    <3>2. own /\ ~held /\ ~state.waiting /\ ~state.longDone
      BY <2>1, <2>2, <2>4 DEF HoldLasts, Kept, OneOwner, StateShape, Exact, TimersMatch
    <3>3. /\ state'.tracked /\ state'.pressed /\ state'.longDone /\ ~state'.waiting
          /\ (state'.second <=> state.second)
          /\ (state'.double <=> state.double) /\ (state'.long <=> state.long)
      BY <2>4, <3>1, <3>2 DEF HoldLasts, GestureRecord
    <3>4. Exact'
      BY <2>1, <2>3, <2>4, <3>2, <3>3
         DEF Exact, TimersMatch, LateHarmless, Kinds, HoldLasts
    <3>5. Stage \in {"first", "second"} /\ Deadline = "passed"
      BY <2>1, <2>4, <3>2 DEF HoldLasts, Stage, Deadline, DeadlineOf
    <3>6. Stage' = "spent" /\ Deadline' = "none" /\ Recognised' = Recognised
      BY <2>1, <3>2, <3>3 DEF Stage, Deadline, Recognised
    <3>7. Contract!Decide("long")
      BY <2>1, <3>1, OwedByTimer DEF Triggers
    <3>8. Contract!Expire
      BY <3>5, <3>6, <3>7 DEF Contract!Expire, Contract!Enter
    <3> QED
      BY <3>4, <3>8 DEF Promise, Contract!Next
  <2>5. CASE ~HoldLasts
    <3>1. state' = state /\ calls' = calls
      BY <1>3, <2>5 DEF LongTimeout
    <3>2. timer["long"].entry = "off"
      BY <2>5 DEF HoldLasts, Kept, StateShape, Untracked, Exact, TimersMatch
    <3>3. Exact'
      BY <2>1, <2>3, <3>1, <3>2 DEF Exact, TimersMatch, LateHarmless, Kinds
    <3>4. UNCHANGED <<Stage, Recognised, Owed>>
      BY <2>1, <3>1, OwedSame DEF Stage, Recognised
    <3>5. Deadline' = Deadline
      BY <2>3, <3>2, <3>4 DEF Deadline, DeadlineOf
    <3> QED
      BY <3>3, <3>4, <3>5 DEF Promise, Contract!vars
  <2> QED
    BY <2>4, <2>5
<1>4. CASE RepeatTimeout(own)
  <2>1. /\ UNCHANGED <<held, edge, state>>
        /\ IF own THEN timer["repeat"].entry = "fired" ELSE timer["repeat"].late > 0
    BY <1>4 DEF RepeatTimeout, Timeout, MayRun
  <2>2. ~own => timer["repeat"].entry = "off" /\ ~held
    BY <2>1 DEF Exact, LateHarmless, TimersMatch
  <2>3. /\ Popped(timer["repeat"], own) \in TimerRecord
        /\ Popped(timer["repeat"], own).entry = "off"
        /\ Popped(timer["repeat"], own).orphans = timer["repeat"].orphans
        /\ Popped(timer["repeat"], own).late > 0 => timer["repeat"].late > 0
    BY <2>1, <2>2, Popping DEF TimerRecord
  <2>4. CASE held
    <3>1. Decide("single")
          /\ timer' = [timer EXCEPT !["repeat"] = Armed(Popped(@, own))]
      BY <1>4, <2>4 DEF RepeatTimeout, Repeats
    <3>2. /\ timer'["repeat"].entry = "armed"
          /\ timer'["repeat"].orphans = timer["repeat"].orphans
          /\ timer'["repeat"].late > 0 => timer["repeat"].late > 0
          /\ timer'["double"] = timer["double"] /\ timer'["long"] = timer["long"]
      BY <2>3, <3>1, Arming DEF Kinds
    <3>3. Exact'
      BY <2>1, <2>4, <3>2 DEF Exact, TimersMatch, LateHarmless, Kinds
    <3>4. own /\ Stage = "held" /\ Deadline = "passed"
      BY <2>1, <2>2, <2>4 DEF Stage, Deadline, DeadlineOf
    <3>5. Stage' = "held" /\ Deadline' = "running" /\ Recognised = {} /\ Recognised' = {}
      BY <2>1, <2>4, <3>2
         DEF Stage, Deadline, DeadlineOf, Recognised, Kept, OneOwner, StateShape, Untracked
    <3>6. Contract!Decide("single")
      BY <2>1, <3>1, OwedByTimer DEF Triggers
    <3>7. Contract!Expire
      BY <3>4, <3>5, <3>6 DEF Contract!Expire, Contract!Enter
    <3> QED
      BY <3>3, <3>7 DEF Promise, Contract!Next
  <2>5. CASE ~held
    <3>1. calls' = calls /\ timer' = [timer EXCEPT !["repeat"] = Popped(@, own)]
      BY <1>4, <2>5 DEF RepeatTimeout, Repeats
    <3>2. /\ timer'["repeat"].entry = "off"
          /\ timer'["repeat"].orphans = timer["repeat"].orphans
          /\ timer'["double"] = timer["double"] /\ timer'["long"] = timer["long"]
      BY <2>3, <3>1 DEF Kinds
    <3>3. Exact'
      BY <2>1, <2>5, <3>2 DEF Exact, TimersMatch, LateHarmless, Kinds
    <3>4. UNCHANGED <<Stage, Recognised, Owed>> /\ Stage # "held"
      BY <2>1, <2>5, <3>1, OwedSame DEF Stage, Recognised
    <3>5. Deadline' = Deadline
      BY <3>2, <3>4 DEF Deadline, DeadlineOf
    <3> QED
      BY <3>3, <3>4, <3>5 DEF Promise, Contract!vars
  <2> QED
    BY <2>4, <2>5
<1> QED
  BY <1>2, <1>3, <1>4 DEF Timeouts

LEMMA ResetKeepsPromise == ASSUME Exact, Reset PROVE Promise
<1>1. Kept /\ Kept'
  BY KeptReset DEF Exact
<1>2. timer' = [k \in Kinds |-> Cancelled(timer[k])] /\ held' = FALSE /\ state' = Untracked
      /\ UNCHANGED <<edge, calls>>
  BY DEF Reset, ResetDispatcher
<1>3. \A k \in Kinds : timer'[k].entry = "off" /\ timer'[k].orphans = timer[k].orphans
  BY <1>1, <1>2, KeptFacts, Cancelling
<1>4. Exact'
  BY <1>1, <1>2, <1>3 DEF Exact, TimersMatch, LateHarmless, Kinds, Untracked
<1>5. Stage' = "idle" /\ Recognised' = {} /\ Deadline' = "none" /\ Owed' = Owed
  BY <1>2, OwedSame DEF Stage, Recognised, Deadline, Untracked
<1> QED
  BY <1>4, <1>5 DEF Promise, Contract!Next, Contract!Reset, Contract!Enter

LEMMA UntouchedKeepsPromise ==
    ASSUME Exact, Kept', UNCHANGED <<held, state, timer, edge, calls>>
    PROVE  Promise
<1>1. Exact'
  BY DEF Exact, TimersMatch, LateHarmless
<1>2. UNCHANGED <<Stage, Recognised, Deadline, Owed>>
  BY OwedSame DEF Stage, Recognised, Deadline, DeadlineOf
<1> QED
  BY <1>1, <1>2 DEF Promise, Contract!vars

LEMMA PromiseInit == Init => Exact /\ Contract!Init
<1> SUFFICES ASSUME Init PROVE Exact /\ Contract!Init
  OBVIOUS
<1>1. timer["double"] = NoTimer /\ timer["long"] = NoTimer /\ timer["repeat"] = NoTimer
  BY DEF Init, Kinds
<1>2. Exact
  BY <1>1, KeptInit DEF Init, Exact, TimersMatch, LateHarmless, NoTimer, Untracked, Kinds
<1>3. Stage = "idle" /\ Recognised = {} /\ Deadline = "none"
  BY DEF Init, Stage, Recognised, Deadline, Untracked
<1>4. Owed = [t \in Triggers |-> 0]
  BY DEF Init, Owed, Triggers
<1> QED
  BY <1>2, <1>3, <1>4 DEF Contract!Init, Contract!Triggers, Triggers

LEMMA PromiseNext == ASSUME Prompt, Exact, [Next]_vars PROVE Promise
<1>1. Kept'
  BY KeptNext DEF Exact
<1>2. CASE Press
  BY <1>2, PressKeepsPromise
<1>3. CASE Release
  BY <1>1, <1>3, ReleaseKeepsPromise DEF Release, EdgeMayCome
<1>4. CASE CallEdge \/ \E t \in Triggers : Call(t)
  <2>1. UNCHANGED <<held, state, timer>>
    BY <1>4 DEF CallEdge, Call
  <2>2. Exact'
    BY <1>1, <2>1 DEF Exact, TimersMatch, LateHarmless
  <2> QED
    BY <1>4, <2>1, <2>2, Delivered DEF Promise, Exact, Contract!Next
<1>5. ASSUME NEW k \in Kinds, Elapse(k) PROVE Promise
  BY <1>5, ElapseKeepsPromise
<1>6. ASSUME NEW own \in BOOLEAN, Timeouts(own) PROVE Promise
  BY <1>6, TimeoutKeepsPromise
<1>7. CASE Reset
  BY <1>7, ResetKeepsPromise
<1>8. CASE StopListener
  <2>1. edge = "none" /\ calls' = calls
    BY <1>8 DEF StopListener
  <2>2. CASE down
    BY <1>1, <1>8, <2>1, <2>2, ReleaseKeepsPromise DEF StopListener, ForcedRelease
  <2>3. CASE ~down
    BY <1>1, <1>8, <2>1, <2>3, UntouchedKeepsPromise DEF StopListener, ForcedRelease
  <2> QED
    BY <2>2, <2>3
<1>9. CASE StartListener \/ UNCHANGED vars
  BY <1>1, <1>9, UntouchedKeepsPromise DEF StartListener, vars
<1> QED
  BY <1>2, <1>3, <1>4, <1>5, <1>6, <1>7, <1>8, <1>9 DEF Next

\* With prompt timers every button keeps the promise of button_gesture.py's
\* docstring: one outcome per gesture, no outcome before its own deadline, for
\* every set of bindings and any interleaving with the connection cleanup.
THEOREM ContractKept == ASSUME Prompt PROVE Spec => KeepsContract
<1>1. Exact /\ [Next]_vars => Exact' /\ [Contract!Next]_(Contract!vars)
  BY PromiseNext DEF Promise
<1> QED
  BY <1>1, PromiseInit, PTL DEF Spec, KeepsContract, Contract!Spec
=============================================================================
