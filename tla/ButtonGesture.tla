----------------------------- MODULE ButtonGesture -----------------------------
(***************************************************************************)
(* One ordinary button of the remote in ButtonGestureDispatcher and        *)
(* ButtonGestureRecognizer (button_gesture.py).                            *)
(*                                                                         *)
(* Threads: the Raw Input listener brings the edges; each timeout runs on  *)
(* a threading.Timer thread of its own; the connection cleanup resets the  *)
(* dispatcher and stops the listener.  Every operation is atomic under the *)
(* dispatcher's lock, but the trigger it decides is called after the lock  *)
(* is left, and cancelling a timer that has already elapsed does nothing:  *)
(* its callback is only late.                                              *)
(***************************************************************************)
EXTENDS Naturals

CONSTANTS
    Configs,      \* the bindings a press may find, see Config
    Prompt,       \* TRUE: an elapsed timer gets the lock before the next edge
    MaxPresses,   \* bound: presses
    MaxResets,    \* bound: connection cleanups
    MaxCalls      \* bound: timer threads inside on_trigger, per trigger

\* Which triggers have an action, and whether the single one may repeat.
Config == [single : BOOLEAN, double : BOOLEAN, long : BOOLEAN, repeat : BOOLEAN]

ASSUME ConfigsAssumption == Configs \subseteq Config
ASSUME PromptAssumption == Prompt \in BOOLEAN
ASSUME BoundsAssumption ==
    MaxPresses \in Nat /\ MaxResets \in Nat /\ MaxCalls \in Nat \ {0}

VARIABLES
    phase,     \* "up"; "reset": dispatcher reset; "down": listener stopped
    down,      \* the listener has the button active
    held,      \* the button is in _held_immediate_buttons
    state,     \* the recognizer's _ButtonState, untracked if there is none
    timer,     \* per kind: the timer in the dict, and those outside of it
    edge,      \* the trigger the edge's thread is about to call
    calls,     \* per trigger: timer threads about to call it
    presses, resets   \* what is left of the two bounds

vars == <<phase, down, held, state, timer, edge, calls, presses, resets>>

Triggers == {"single", "double", "long"}
Kinds == {"double", "long", "repeat"}
Untracked == [tracked |-> FALSE, pressed |-> FALSE, second |-> FALSE, waiting |-> FALSE,
              longDone |-> FALSE, double |-> FALSE, long |-> FALSE]

\* entry: the timer the dict holds; orphans: running timers whose entry
\* another callback has removed; late: elapsed timers outside of the dict.
NoTimer == [entry |-> "off", orphans |-> 0, late |-> 0]

StateTypes == state \in [tracked : BOOLEAN, pressed : BOOLEAN, second : BOOLEAN,
                         waiting : BOOLEAN, longDone : BOOLEAN,
                         double : BOOLEAN, long : BOOLEAN]
TimerTypes == timer \in [Kinds -> [entry : {"off", "armed", "fired"},
                                   orphans : Nat, late : Nat]]
TypeOK ==
    /\ phase \in {"up", "reset", "down"} /\ down \in BOOLEAN /\ held \in BOOLEAN
    /\ StateTypes /\ TimerTypes
    /\ edge \in Triggers \cup {"none"} /\ calls \in [Triggers -> 0..MaxCalls]
    /\ presses \in 0..MaxPresses /\ resets \in 0..MaxResets

Init ==
    /\ phase = "up" /\ down = FALSE /\ held = FALSE /\ state = Untracked
    /\ timer = [k \in Kinds |-> NoTimer]
    /\ edge = "none" /\ calls = [t \in Triggers |-> 0]
    /\ presses = MaxPresses /\ resets = MaxResets

-----------------------------------------------------------------------------
(* Timers.  A dict entry is removed by whoever cancels it and by the        *)
(* callback of any timer of its kind.                                       *)

Cancelled(t) == [entry |-> "off", orphans |-> t.orphans,
                 late |-> IF t.entry = "fired" THEN t.late + 1 ELSE t.late]
Armed(t) == [Cancelled(t) EXCEPT !.entry = "armed"]

\* The timers of a kind after a callback took the dict's entry out: its own,
\* or, by a late callback, that of a later gesture, which runs on unattended.
Popped(t, own) ==
    IF own THEN [t EXCEPT !.entry = "off"]
    ELSE [entry |-> "off",
          orphans |-> IF t.entry = "armed" THEN t.orphans + 1 ELSE t.orphans,
          late |-> IF t.entry = "fired" THEN t.late ELSE t.late - 1]

Elapse(k) ==
    /\ \/ timer[k].entry = "armed" /\ timer' = [timer EXCEPT ![k].entry = "fired"]
       \/ /\ timer[k].orphans > 0
          /\ timer' = [timer EXCEPT ![k].orphans = @ - 1, ![k].late = @ + 1]
    /\ UNCHANGED <<phase, down, held, state, edge, calls, presses, resets>>

\* A callback that has elapsed runs: the dict's own, or a late one.
MayRun(k, own) == IF own THEN timer[k].entry = "fired" ELSE timer[k].late > 0

Decide(t) ==
    /\ calls[t] < MaxCalls
    /\ calls' = [calls EXCEPT ![t] = @ + 1]

-----------------------------------------------------------------------------
(* The listener's edges: ButtonGestureDispatcher.press and release.         *)

EdgeMayCome ==
    /\ phase # "down" /\ edge = "none"
    /\ Prompt => \A k \in Kinds : timer[k].late = 0

\* The recognizer starts a gesture, or continues it with the second press.
RecognizerPress(double, long) ==
    /\ edge' = "none"
    /\ \/ /\ ~state.tracked
          /\ state' = [Untracked EXCEPT !.tracked = TRUE, !.pressed = TRUE,
                                        !.double = double, !.long = long]
          /\ timer' = IF long THEN [timer EXCEPT !["long"] = Armed(@)] ELSE timer
       \/ /\ state.tracked /\ ~state.waiting
          /\ UNCHANGED <<state, timer>>
       \/ /\ state.tracked /\ state.waiting
          /\ state' = [state EXCEPT !.pressed = TRUE, !.second = TRUE, !.waiting = FALSE]
          /\ timer' = [timer EXCEPT !["double"] = Cancelled(@),
                                    !["long"] = IF state.long THEN Armed(@) ELSE @]

\* A press without secondary action acts at once, unless it is disabled.
ImmediatePress(cfg) ==
    /\ held' = cfg.single
    /\ edge' = IF cfg.single THEN "single" ELSE "none"
    /\ timer' = IF cfg.single /\ cfg.repeat THEN [timer EXCEPT !["repeat"] = Armed(@)]
                                            ELSE timer
    /\ UNCHANGED state

\* ButtonGestureDispatcher.press under the bindings of this moment.
PressFound(cfg) ==
    IF held THEN edge' = "none" /\ UNCHANGED <<held, state, timer>>
    ELSE IF cfg.double \/ cfg.long \/ state.tracked
    THEN RecognizerPress(cfg.double, cfg.long) /\ UNCHANGED held
    ELSE ImmediatePress(cfg)

Press ==
    /\ EdgeMayCome /\ ~down /\ presses > 0
    /\ down' = TRUE /\ presses' = presses - 1
    /\ \E cfg \in Configs : PressFound(cfg)
    /\ UNCHANGED <<phase, calls, resets>>

\* ButtonGestureDispatcher.release.
ReleaseFound ==
    LET quiet == [timer EXCEPT !["repeat"] = Cancelled(@)]
        unheld == [quiet EXCEPT !["long"] = IF state.long THEN Cancelled(@) ELSE @]
    IN
    /\ held' = FALSE
    /\ \/ /\ ~state.pressed
          /\ timer' = quiet /\ edge' = "none" /\ UNCHANGED state
       \/ /\ state.pressed /\ ~state.longDone /\ ~state.second /\ state.double
          /\ timer' = [unheld EXCEPT !["double"] = Armed(@)]
          /\ state' = [state EXCEPT !.pressed = FALSE, !.waiting = TRUE]
          /\ edge' = "none"
       \/ /\ state.pressed /\ (state.longDone \/ state.second \/ ~state.double)
          /\ timer' = unheld
          /\ state' = Untracked
          /\ edge' = IF state.longDone THEN "none"
                     ELSE IF state.second THEN "double" ELSE "single"

Release ==
    /\ EdgeMayCome /\ down
    /\ down' = FALSE
    /\ ReleaseFound
    /\ UNCHANGED <<phase, calls, presses, resets>>

-----------------------------------------------------------------------------
(* The timeouts, each on the thread of its timer.                           *)

Timeout(k, own) ==
    /\ MayRun(k, own)
    /\ UNCHANGED <<phase, down, held, edge, presses, resets>>

\* Mutant: a timeout resolves the click whatever became of it.
ClickTracked == state.tracked

\* double_click_timed_out: a click still waits for its second press.
ClickWaits == state.tracked /\ state.waiting /\ ~state.pressed

DoubleTimeout(own) ==
    /\ Timeout("double", own)
    /\ timer' = [timer EXCEPT !["double"] = Popped(@, own)]
    /\ \/ ClickWaits /\ state' = Untracked /\ Decide("single")
       \/ ~ClickWaits /\ UNCHANGED <<state, calls>>

\* long_press_timed_out: the button is down in a gesture that may turn long.
HoldLasts == state.tracked /\ state.pressed /\ state.long

LongTimeout(own) ==
    /\ Timeout("long", own)
    /\ timer' = [timer EXCEPT !["long"] = Popped(@, own)]
    /\ \/ HoldLasts /\ state' = [state EXCEPT !.longDone = TRUE] /\ Decide("long")
       \/ ~HoldLasts /\ UNCHANGED <<state, calls>>

\* Mutant: the repeat does not look whether the button is still held.
RepeatsAlways == TRUE

Repeats == held

\* The next repeat is scheduled before this one is called.
RepeatTimeout(own) ==
    /\ Timeout("repeat", own)
    /\ UNCHANGED state
    /\ \/ /\ Repeats /\ Decide("single")
          /\ timer' = [timer EXCEPT !["repeat"] = Armed(Popped(@, own))]
       \/ /\ ~Repeats /\ UNCHANGED calls
          /\ timer' = [timer EXCEPT !["repeat"] = Popped(@, own)]

-----------------------------------------------------------------------------
(* on_trigger, outside of the lock.                                         *)

CallEdge ==
    /\ edge # "none" /\ edge' = "none"
    /\ UNCHANGED <<phase, down, held, state, timer, calls, presses, resets>>

Call(t) ==
    /\ calls[t] > 0 /\ calls' = [calls EXCEPT ![t] = @ - 1]
    /\ UNCHANGED <<phase, down, held, state, timer, edge, presses, resets>>

-----------------------------------------------------------------------------
(* The connection: RC003App._cleanup_once resets the dispatcher, then stops *)
(* the listener, whose stop releases what it still has active.              *)

\* Mutant: only the timers are reset.
ResetTimers ==
    /\ timer' = [k \in Kinds |-> Cancelled(timer[k])]
    /\ UNCHANGED <<held, state>>

\* ButtonGestureDispatcher.reset.
ResetDispatcher ==
    /\ timer' = [k \in Kinds |-> Cancelled(timer[k])]
    /\ held' = FALSE /\ state' = Untracked

Reset ==
    /\ phase = "up" /\ phase' = "reset" /\ resets > 0
    /\ resets' = resets - 1
    /\ ResetDispatcher
    /\ UNCHANGED <<down, edge, calls, presses>>

\* RawInputListener._release_all.
ForcedRelease == IF down THEN ReleaseFound ELSE edge' = "none" /\ UNCHANGED <<held, state, timer>>

StopListener ==
    /\ phase = "reset" /\ phase' = "down" /\ edge = "none"
    /\ down' = FALSE
    /\ ForcedRelease
    /\ UNCHANGED <<calls, presses, resets>>

StartListener ==
    /\ phase = "down" /\ phase' = "up" /\ edge = "none"
    /\ UNCHANGED <<down, held, state, timer, edge, calls, presses, resets>>

-----------------------------------------------------------------------------

Timeouts(own) == DoubleTimeout(own) \/ LongTimeout(own) \/ RepeatTimeout(own)

Next ==
    \/ Press \/ Release \/ CallEdge
    \/ \E t \in Triggers : Call(t)
    \/ \E k \in Kinds : Elapse(k)
    \/ \E own \in BOOLEAN : Timeouts(own)
    \/ Reset \/ StopListener \/ StartListener

Spec == Init /\ [][Next]_vars

\* Timers elapse, their threads get the lock and return from on_trigger, and
\* a cleanup that has begun goes on.  The user owes no edge.
Fairness ==
    /\ \A k \in Kinds : WF_vars(Elapse(k))
    /\ \A own \in BOOLEAN : WF_vars(DoubleTimeout(own)) /\ WF_vars(LongTimeout(own))
                            /\ WF_vars(RepeatTimeout(own))
    /\ \A t \in Triggers : WF_vars(Call(t))
    /\ WF_vars(CallEdge) /\ WF_vars(StopListener) /\ WF_vars(StartListener)

FairSpec == Spec /\ Fairness

-----------------------------------------------------------------------------
(* The promise of one button, see GestureContract.                          *)

Stage ==
    IF held THEN "held" ELSE IF ~state.tracked THEN "idle"
    ELSE IF state.waiting THEN "gap" ELSE IF state.longDone THEN "spent"
    ELSE IF state.second THEN "second" ELSE "first"

Recognised == (IF state.double THEN {"double"} ELSE {})
              \cup (IF state.long THEN {"long"} ELSE {})

DeadlineOf(k) == IF timer[k].entry = "off" THEN "none"
                 ELSE IF timer[k].entry = "armed" THEN "running" ELSE "passed"

Deadline == IF Stage = "held" THEN DeadlineOf("repeat")
            ELSE IF Stage = "gap" THEN DeadlineOf("double")
            ELSE IF Stage \in {"first", "second"} THEN DeadlineOf("long") ELSE "none"

Owed == [t \in Triggers |-> IF edge = t THEN calls[t] + 1 ELSE calls[t]]

Contract == INSTANCE GestureContract
            WITH stage <- Stage, kinds <- Recognised, deadline <- Deadline, owed <- Owed

\* With prompt timers a button keeps its promise, whatever edges, timeouts,
\* slow triggers and cleanups interleave.
KeepsContract == Contract!Spec

-----------------------------------------------------------------------------
(* Safety.                                                                  *)

\* A click that waits for a second press has a timer that will resolve it, even
\* when callbacks of earlier gestures come late: no click is lost.
ClickNotLost == state.waiting => timer["double"].entry # "off"

\* A repeat timer of the dispatcher belongs to a button that is held: neither a
\* late callback nor a cleanup leaves a key repeating by itself.
RepeatNeedsHold == timer["repeat"].entry # "off" => held /\ down

\* A button is never clicked at once and tracked as a gesture together.
OneOwner == ~(held /\ state.tracked)

\* A stopped listener leaves no button pressed, whenever the last press came.
NothingHeldWhenStopped == phase = "down" => ~held /\ ~state.pressed

-----------------------------------------------------------------------------
(* Action properties.                                                       *)

\* A long press is decided only when the hold's own timer has elapsed: a timer
\* that raced the release of an earlier hold decides nothing in a later one.
LongNeedsOwnTimer ==
    [][calls'["long"] > calls["long"] => timer["long"].entry = "fired"]_vars

\* No timeout decides a trigger while the connection is down.
QuietWhenStopped == [][phase = "down" => \A t \in Triggers : calls'[t] <= calls[t]]_vars

-----------------------------------------------------------------------------
(* Liveness.                                                                *)

\* A click is resolved even if the second press never comes.
ClickResolves == state.waiting ~> ~state.waiting

Quiet == \A k \in Kinds : timer[k].entry = "off" /\ timer[k].orphans = 0 /\ timer[k].late = 0

\* Once the button stays up every timer comes to rest.
TimersRest == []<>(down \/ Quiet)
=============================================================================
