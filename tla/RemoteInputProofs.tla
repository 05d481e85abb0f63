--------------------------- MODULE RemoteInputProofs ---------------------------
(* The button of RemoteInput, proved for every bound, every number of        *)
(* presses, repeats, edits, hosts, starts and faults, and every content of   *)
(* key_bindings.json: what the cleanup lets go, that no hold is swallowed by *)
(* half, and that a press is one action.                                    *)
EXTENDS RemoteInput, FiniteSetTheorems, SequenceTheorems, TLAPS

\* A set of places in a sequence has a least one.
LEMMA LeastIndex ==
    ASSUME NEW L \in Nat, NEW I \in SUBSET (1..L), I # {}
    PROVE  \E n \in I : \A k \in I : n <= k
<1> DEFINE T == {1..n : n \in I}
           R == StrictSubsetOrdering(1..L)
<1>1. T # {} /\ T \subseteq SUBSET (1..L)
  <2>1. PICK n \in I : TRUE
    OBVIOUS
  <2>2. 1..n \in T
    BY <2>1
  <2>3. \A m \in I : 1..m \subseteq 1..L
    OBVIOUS
  <2> QED
    BY <2>2, <2>3
<1>2. IsWellFoundedOn(R, SUBSET (1..L))
  <2>1. IsFiniteSet(1..L)
    BY FS_Interval
  <2> QED
    BY <2>1, FS_FiniteSubsetsOfFinite, FS_StrictSubsetOrderingWellFounded
<1>3. PICK X \in T : \A Y \in T : ~(<<Y, X>> \in R)
  <2> HIDE DEF T, R
  <2> QED
    BY <1>1, <1>2, WFMin
<1>4. PICK n \in I : X = 1..n
  OBVIOUS
<1>5. ASSUME NEW k \in I, k < n PROVE FALSE
  <2>1. 1..k \in T /\ 1..k \subseteq 1..n /\ n \in 1..n /\ n \notin 1..k
    BY <1>5
  <2>2. <<1..k, 1..n>> \in R
    BY <1>1, <1>4, <2>1 DEF StrictSubsetOrdering
  <2> QED
    BY <1>3, <1>4, <2>1, <2>2
<1> QED
  BY <1>5

\* The hook takes one edge out of those that are armed.
LEMMA FirstRemoved ==
    ASSUME NEW S, NEW s \in Seq(S), NEW e \in ToSet(s)
    PROVE  RemoveFirst(s, e) \in Seq(S) /\ Len(RemoveFirst(s, e)) <= Len(s)
<1> DEFINE I == {i \in 1..Len(s) : s[i] = e}
           m == Min(I)
<1>1. I # {} /\ I \subseteq Nat
  BY DEF ToSet
<1>2. \E n \in I : \A k \in I : n <= k
  <2>1. Len(s) \in Nat /\ I \in SUBSET (1..Len(s))
    OBVIOUS
  <2> HIDE DEF I
  <2> QED
    BY <1>1, <2>1, LeastIndex
<1>3. m \in I
  BY <1>2 DEF Min
<1>4. RemoveFirst(s, e) = RemoveAt(s, m)
  BY <1>1 DEF RemoveFirst, SelectInSeq
<1>5. m \in 1..Len(s)
  BY <1>3
<1> HIDE DEF m, I
<1>s. \A i \in 1..Len(s) : s[i] \in S
  OBVIOUS
<1>6. SubSeq(s, 1, m - 1) \in Seq(S) /\ Len(SubSeq(s, 1, m - 1)) = m - 1
  BY <1>5
<1>7. SubSeq(s, m + 1, Len(s)) \in Seq(S) /\ Len(SubSeq(s, m + 1, Len(s))) = Len(s) - m
  BY <1>5
<1>8. RemoveFirst(s, e) = SubSeq(s, 1, m - 1) \o SubSeq(s, m + 1, Len(s))
  BY <1>4 DEF RemoveAt
<1>9. Len(RemoveFirst(s, e)) = (m - 1) + (Len(s) - m)
  BY <1>6, <1>7, <1>8
<1>10. RemoveFirst(s, e) \in Seq(S)
  BY <1>6, <1>7, <1>8
<1>11. Len(RemoveFirst(s, e)) <= Len(s)
  BY <1>5, <1>9
<1> QED
  BY <1>10, <1>11

\* Every mapping that is loaded is one of the four.
LEMMA LoadedTyped == \A d \in Stored, b \in Bindings : Loaded(d, b) \in Bindings
  BY DEF Loaded, Stored, Bindings, DefaultBinding, ActionFor, Migrated

\* An action presses keys, none of them twice.
LEMMA ComboTyped ==
    \A b \in Bindings :
        /\ Combo(b) \in Seq(Keys)
        /\ \A m, n \in 1..Len(Combo(b)) : Combo(b)[m] = Combo(b)[n] => m = n
<1> SUFFICES ASSUME NEW b \in Bindings
             PROVE  /\ Combo(b) \in Seq(Keys)
                    /\ \A m, n \in 1..Len(Combo(b)) : Combo(b)[m] = Combo(b)[n] => m = n
  OBVIOUS
<1>1. CASE b = "identity"
  BY <1>1 DEF Combo, Keys
<1>2. CASE b = "custom"
  <2>1. Combo(b) = <<"modifier", "key">> /\ Len(Combo(b)) = 2
    BY <1>2 DEF Combo
  <2>2. Combo(b) \in Seq(Keys)
    BY <2>1 DEF Keys
  <2>3. \A m \in 1..2 : m = 1 \/ m = 2
    OBVIOUS
  <2> QED
    BY <2>1, <2>2, <2>3
<1>3. CASE b \notin {"identity", "custom"}
  BY <1>3 DEF Combo
<1> QED
  BY <1>1, <1>2, <1>3

\* All downs in order, then all ups in the opposite order.
LEMMA BatchIs ==
    ASSUME NEW b \in Bindings
    PROVE  /\ Len(Combo(b)) \in Nat /\ Len(Batch(b)) = 2 * Len(Combo(b))
           /\ \A n \in 1..Len(Combo(b)) :
                 /\ Batch(b)[n] = [key |-> Combo(b)[n], down |-> TRUE]
                 /\ Batch(b)[2 * Len(Combo(b)) + 1 - n] = [key |-> Combo(b)[n], down |-> FALSE]
<1> DEFINE L == Len(Combo(b))
           D == [n \in 1..L |-> [key |-> Combo(b)[n], down |-> TRUE]]
           U == [n \in 1..L |-> [key |-> Reverse(Combo(b))[n], down |-> FALSE]]
           E == [key : Keys, down : BOOLEAN]
<1>1. L \in Nat /\ Combo(b) \in Seq(Keys)
  BY ComboTyped
<1>2. \A n \in 1..L : Reverse(Combo(b))[n] = Combo(b)[L - n + 1] /\ Reverse(Combo(b))[n] \in Keys
  BY <1>1 DEF Reverse
<1>3. D \in Seq(E) /\ Len(D) = L /\ U \in Seq(E) /\ Len(U) = L
  BY <1>1, <1>2
<1>4. Batch(b) = D \o U
  BY DEF Batch
<1>5. Len(Batch(b)) = 2 * L
  BY <1>1, <1>3, <1>4
<1>6. ASSUME NEW n \in 1..L
      PROVE  /\ Batch(b)[n] = [key |-> Combo(b)[n], down |-> TRUE]
             /\ Batch(b)[2 * L + 1 - n] = [key |-> Combo(b)[n], down |-> FALSE]
  <2>1. Batch(b)[n] = D[n]
    BY <1>1, <1>3, <1>4
  <2>2. Batch(b)[2 * L + 1 - n] = U[L + 1 - n]
    <3>1. 2 * L + 1 - n \in L + 1..2 * L /\ (2 * L + 1 - n) - L = L + 1 - n
      BY <1>1
    <3> HIDE DEF D, U
    <3> QED
      BY <1>1, <1>3, <1>4, <3>1
  <2>3. L + 1 - n \in 1..L /\ L - (L + 1 - n) + 1 = n
    BY <1>1
  <2>4. U[L + 1 - n] = [key |-> Combo(b)[n], down |-> FALSE]
    BY <1>2, <2>3
  <2> QED
    BY <2>1, <2>2, <2>4
<1> QED
  BY <1>1, <1>5, <1>6

\* However much of a batch SendInput delivers, what it leaves down is among what
\* is released after it (send_key_combo_tap).
LEMMA OwedCoversDown ==
    ASSUME NEW b \in Bindings, NEW n \in 0..Len(Batch(b)) - 1,
           NEW owed \in {Owed(b, n), ToSet(Combo(b))}
    PROVE  DownAfter(b, n) \subseteq owed /\ owed \subseteq Keys
<1> DEFINE L == Len(Combo(b))
<1>1. /\ L \in Nat /\ n \in 0..2 * L - 1 /\ Len(Batch(b)) = 2 * L
      /\ \A i \in 1..L : Combo(b)[i] \in Keys
      /\ ToSet(Combo(b)) = {Combo(b)[i] : i \in 1..L}
  BY BatchIs, ComboTyped DEF ToSet
<1>b. \A i \in 1..L : /\ Batch(b)[i] = [key |-> Combo(b)[i], down |-> TRUE]
                      /\ Batch(b)[2 * L + 1 - i] = [key |-> Combo(b)[i], down |-> FALSE]
  BY BatchIs
<1>2. \A i \in 1..2 * L : \E j \in 1..L :
          \/ i = j /\ Batch(b)[i] = [key |-> Combo(b)[j], down |-> TRUE]
          \/ i = 2 * L + 1 - j /\ Batch(b)[i] = [key |-> Combo(b)[j], down |-> FALSE]
  <2> SUFFICES ASSUME NEW i \in 1..2 * L
               PROVE  \E j \in 1..L :
                        \/ i = j /\ Batch(b)[i] = [key |-> Combo(b)[j], down |-> TRUE]
                        \/ i = 2 * L + 1 - j /\ Batch(b)[i] = [key |-> Combo(b)[j], down |-> FALSE]
    OBVIOUS
  <2>1. CASE i <= L
    <3>1. i \in 1..L
      BY <1>1, <2>1
    <3>2. Batch(b)[i] = [key |-> Combo(b)[i], down |-> TRUE]
      BY <1>b, <3>1
    <3> QED
      BY <3>1, <3>2
  <2>2. CASE i > L
    <3>1. 2 * L + 1 - i \in 1..L /\ i = 2 * L + 1 - (2 * L + 1 - i)
      BY <1>1, <2>2
    <3> QED
      BY <1>b, <3>1
  <2> QED
    BY <1>1, <2>1, <2>2
<1>k. \A i \in 1..2 * L : Batch(b)[i].key \in ToSet(Combo(b))
  BY <1>1, <1>2
<1>3. DownAfter(b, n) \subseteq ToSet(Combo(b)) /\ ToSet(Combo(b)) \subseteq Keys
  <2>1. \A i \in 1..n : i \in 1..2 * L
    BY <1>1
  <2> QED
    BY <1>1, <1>k, <2>1 DEF DownAfter
<1>4. Owed(b, n) \subseteq Keys
  <2>1. \A i \in n + 1..2 * L : i \in 1..2 * L
    BY <1>1
  <2>2. n < L => \A i \in 1..n : i \in 1..L
    BY <1>1
  <2> QED
    BY <1>1, <1>3, <1>k, <2>1, <2>2 DEF Owed
<1>5. DownAfter(b, n) \subseteq Owed(b, n)
  <2> SUFFICES ASSUME NEW k \in DownAfter(b, n) PROVE k \in Owed(b, n)
    OBVIOUS
  <2>1. PICK i \in 1..n : /\ Batch(b)[i] = [key |-> k, down |-> TRUE]
                         /\ \A j \in i + 1..n : Batch(b)[j].key # k
    BY DEF DownAfter
  <2>2. i \in 1..L /\ Combo(b)[i] = k
    BY <1>1, <1>2, <2>1
  <2>3. CASE n < L
    BY <1>1, <2>1, <2>2, <2>3 DEF Owed
  <2>4. CASE ~(n < L)
    <3>a. 2 * L + 1 - i \in L + 1..2 * L
      BY <1>1, <2>2
    <3>b. Batch(b)[2 * L + 1 - i] = [key |-> Combo(b)[i], down |-> FALSE]
      BY <1>b, <2>2
    <3>1. Batch(b)[2 * L + 1 - i].key = k /\ 2 * L + 1 - i \in L + 1..2 * L
      BY <2>2, <3>a, <3>b
    <3>c. ~(2 * L + 1 - i \in i + 1..n)
      BY <2>1, <3>1
    <3>d. i \in Nat /\ i <= L /\ n \in Nat
      BY <1>1, <2>2
    <3>2. 2 * L + 1 - i \in n + 1..2 * L
      BY <1>1, <3>a, <3>c, <3>d
    <3> QED
      BY <1>1, <2>4, <3>1, <3>2 DEF Owed
  <2> QED
    BY <2>3, <2>4
<1> QED
  BY <1>3, <1>4, <1>5
-----------------------------------------------------------------------------
(* What the operations shared by several actions do.                        *)

\* A bound that is used up stays a bound.
LEMMA SpendTyped ==
    ASSUME NEW b \in {"presses", "repeats", "edits", "hosts", "starts", "faults"},
           budget \in Budget, Spend(b)
    PROVE  budget' \in Budget
  BY DEF Spend, Budget

\* So do the two that a start uses up.
LEMMA SpentTyped ==
    ASSUME NEW b \in {"starts", "faults"}, budget \in Budget, Spent(b)
    PROVE  budget' \in Budget
<1>1. budget.starts - 1 \in Nat /\ (b = "faults" => budget.faults - 1 \in Nat)
  BY DEF Spent, Budget
<1>2. PICK f \in Nat : budget' = [budget EXCEPT !.starts = budget.starts - 1, !.faults = f]
  BY <1>1 DEF Spent, Budget
<1>3. [budget EXCEPT !.starts = budget.starts - 1] \in Budget
  BY <1>1 DEF Budget
<1>4. budget' = [[budget EXCEPT !.starts = budget.starts - 1] EXCEPT !.faults = f]
  BY <1>2
<1> QED
  BY <1>2, <1>3, <1>4 DEF Budget

\* What the next event loads is a mapping.
LEMMA CurrentTyped == TypeOK => Current \in Bindings
  BY LoadedTyped DEF TypeOK, InputTypes, Current

\* The history of changed treatment stays a truth value.
LEMMA ChangesTyped == changed \in BOOLEAN /\ Changes => changed' \in BOOLEAN
  BY Zenon DEF Changes

\* Reloading keeps the hook's filter what the mapping and the tap call for, and
\* notes when that is in the middle of a hold.
LEMMA Reloaded ==
    ASSUME TypeOK, Reload
    PROVE  /\ bindings' = Current /\ bindings' \in Bindings
           /\ remapped' = (remapped \/ (Current = "identity" /\ bindings # Current))
           /\ remapped' \in BOOLEAN /\ changed' \in BOOLEAN
           /\ armable' \in {"yes", "no", "unfiltered"} /\ seen' \in BOOLEAN
           /\ \/ bindings' = bindings /\ UNCHANGED <<armable, seen, changed>>
              \/ bindings' # bindings /\ SetArmable(bindings', tapLive) /\ Changes
<1>1. bindings' = Current /\ bindings' \in Bindings
  BY CurrentTyped DEF Reload, Load
<1>2. /\ remapped' = (remapped \/ (Current = "identity" /\ bindings # Current))
      /\ remapped' \in BOOLEAN
  BY Zenon DEF Reload, Load, TypeOK, OutTypes
<1>3. \/ bindings' = bindings /\ UNCHANGED <<armable, seen, changed>>
      \/ bindings' # bindings /\ SetArmable(bindings', tapLive) /\ Changes
  BY <1>1, Zenon DEF Reload
<1>4. changed' \in BOOLEAN
  BY <1>3, ChangesTyped, Zenon DEF TypeOK, OutTypes
<1>5. armable' \in {"yes", "no", "unfiltered"} /\ seen' \in BOOLEAN
  BY <1>3 DEF SetArmable, ArmableFor, TypeOK, ObserverTypes
<1> QED
  BY <1>1, <1>2, <1>3, <1>4, <1>5

\* An action leaves down no key whose release does not fail.
LEMMA Performed ==
    ASSUME TypeOK, NEW b \in Bindings, Perform(b)
    PROVE  /\ actions' \in Nat /\ actions' <= actions + 1
           /\ stuck' \subseteq Keys /\ unreleased' \subseteq Keys
           /\ budget' \in Budget
           /\ stuck \subseteq unreleased => stuck' \subseteq unreleased'
<1> USE DEF TypeOK, InputTypes, OutTypes
<1>1. CASE b = "application" /\ OpenApplication
  BY <1>1 DEF OpenApplication
<1>2. CASE b # "application" /\ TapKeys(b) /\ actions' = actions + 1
  <2>1. CASE stuck' = stuck \ ToSet(Combo(b)) /\ UNCHANGED <<unreleased, budget>>
    BY <1>2, <2>1
  <2>2. CASE /\ Spend("faults")
             /\ \E n \in 0..Len(Batch(b)) - 1 : \E owed \in {Owed(b, n), ToSet(Combo(b))} :
                   \E lost \in SUBSET owed : Rollback(b, n, owed, lost)
    <3>1. budget' \in Budget
      BY <2>2, SpendTyped
    <3>n. PICK n \in 0..Len(Batch(b)) - 1 : \E owed \in {Owed(b, n), ToSet(Combo(b))} :
              \E lost \in SUBSET owed : Rollback(b, n, owed, lost)
      BY <2>2
    <3>2. PICK owed \in {Owed(b, n), ToSet(Combo(b))} :
              \E lost \in SUBSET owed : Rollback(b, n, owed, lost)
      BY <3>n
    <3>3. PICK lost \in SUBSET owed : Rollback(b, n, owed, lost)
      BY <3>2
    <3>4. DownAfter(b, n) \subseteq owed /\ owed \subseteq Keys
      BY OwedCoversDown
    <3>5. /\ stuck' = (stuck \cup DownAfter(b, n)) \ (owed \ lost)
          /\ unreleased' = unreleased \cup lost
      BY <3>3 DEF Rollback
    <3> QED
      BY <1>2, <3>1, <3>4, <3>5
  <2> QED
    BY <1>2, <2>1, <2>2 DEF TapKeys
<1> QED
  BY <1>1, <1>2 DEF Perform

\* A dispatch performs at most one action, for a press of a button not held.
LEMMA Dispatched ==
    ASSUME TypeOK, NEW down \in BOOLEAN, Dispatch(down)
    PROVE  /\ Reload
           /\ held' \in BOOLEAN /\ (~down => ~held')
           /\ actions' \in Nat /\ actions' <= actions + 1 /\ (~down => actions' = actions)
           /\ stuck' \subseteq Keys /\ unreleased' \subseteq Keys
           /\ budget' \in Budget
           /\ stuck \subseteq unreleased => stuck' \subseteq unreleased'
<1>1. Reload /\ held' = (down /\ (held \/ Configured(Current)))
  BY DEF Dispatch
<1>2. held' \in BOOLEAN /\ (~down => ~held')
  BY <1>1, Zenon
<1>3. CASE down /\ ~held /\ Configured(Current)
  <2>1. Perform(Current)
    BY <1>3 DEF Dispatch
  <2>2. /\ actions' \in Nat /\ actions' <= actions + 1
        /\ stuck' \subseteq Keys /\ unreleased' \subseteq Keys
        /\ budget' \in Budget
        /\ stuck \subseteq unreleased => stuck' \subseteq unreleased'
    BY <2>1, CurrentTyped, Performed
  <2> QED
    BY <1>1, <1>2, <1>3, <2>2
<1>4. CASE ~(down /\ ~held /\ Configured(Current))
  <2>1. UNCHANGED <<actions, stuck, unreleased, budget>>
    BY <1>4, Zenon DEF Dispatch
  <2> QED
    BY <1>1, <1>2, <2>1 DEF TypeOK, InputTypes, OutTypes
<1> QED
  BY <1>3, <1>4

\* Arming an edge keeps the list within its bound: the oldest gives way.
LEMMA ArmTyped ==
    ASSUME TypeOK, NEW down \in BOOLEAN, Arm(down)
    PROVE  armed' \in Seq(BOOLEAN) /\ Len(armed') <= ArmedMax /\ seen' \in BOOLEAN
<1>1. CASE hook = "off"
  BY <1>1 DEF Arm, TypeOK, ObserverTypes
<1>2. CASE hook # "off" /\ Len(armed) < ArmedMax
  <2>1. armed' = Append(armed, down) /\ seen' = TRUE
    BY <1>2 DEF Arm
  <2> QED
    BY <1>2, <2>1, ArmedAssumption DEF TypeOK, ObserverTypes
<1>3. CASE hook # "off" /\ ~(Len(armed) < ArmedMax)
  <2>1. armed' = Append(Tail(armed), down) /\ seen' = TRUE
    BY <1>3 DEF Arm
  <2>2. armed \in Seq(BOOLEAN) /\ Len(armed) <= ArmedMax /\ armed # <<>>
    BY <1>3, ArmedAssumption DEF TypeOK, ObserverTypes
  <2> QED
    BY <2>1, <2>2
<1> QED
  BY <1>1, <1>2, <1>3

\* A message has a direction and belongs to a press.
LEMMA MessageTyped == \A m \in Message : m.down \in BOOLEAN /\ m.hold \in Nat
  BY DEF Message

\* One element makes a sequence.
LEMMA OneOf == ASSUME NEW S, NEW x \in S PROVE <<x>> \in Seq(S)
  OBVIOUS

\* What an edge sends to the listener and to the tap.
LEMMA SentTyped ==
    ASSUME TypeOK, NEW down \in BOOLEAN, NEW hold \in Nat
    PROVE  Messages(down, hold) \in [Sources -> Seq(Message)] /\ Reports(down) \in Seq(BOOLEAN)
<1> DEFINE m == [down |-> down, hold |-> hold]
<1>1. m \in Message /\ rawQ \in [Sources -> Seq(Message)]
  BY DEF Message, TypeOK, InputTypes
<1>2. \A s \in Sources : Append(rawQ[s], m) \in Seq(Message) /\ rawQ[s] \in Seq(Message)
  <2> HIDE DEF m
  <2> QED
    BY <1>1
<1>3. Messages(down, hold) \in [Sources -> Seq(Message)]
  <2> HIDE DEF m
  <2>1. Messages(down, hold) = [s \in Sources |-> IF Sent(s) THEN Append(rawQ[s], m) ELSE rawQ[s]]
    BY DEF Messages, m
  <2> QED
    BY <1>2, <2>1
<1>5. <<down>> \in Seq(BOOLEAN) /\ <<>> \in Seq(BOOLEAN)
  BY OneOf
<1>6. Reports(down) \in {<<>>, <<down>>}
  BY Zenon DEF Reports
<1> QED
  BY <1>3, <1>5, <1>6

\* The hook waits for an edge, and the listener holds a message.
Engaged == (hook = "waiting" => hookQ # <<>>) /\ (listener \in Sources => rawQ[listener] # <<>>)

\* The hook keeps the types.
LEMMA HookTyped == TypeOK /\ Engaged /\ Hook => TypeOK'
<1> SUFFICES ASSUME TypeOK, Engaged, Hook PROVE TypeOK'
  OBVIOUS
<1> USE DEF TypeOK, InputTypes, ObserverTypes, OutTypes, inputVars, appVars, listenerVars,
            hookVars, agentVars, tapVars, historyVars
<1>1. ASSUME hookQ # <<>>, Pass PROVE hookQ' \in Seq(BOOLEAN) /\ foreground' \in BOOLEAN
  BY <1>1 DEF Pass
<1>2. ASSUME hookQ # <<>>, Matches, Consume
      PROVE  /\ hookQ' \in Seq(BOOLEAN) /\ foreground' \in BOOLEAN /\ hook' = "idle"
             /\ armed' \in Seq(BOOLEAN) /\ Len(armed') <= ArmedMax
  <2>1. armed' \in Seq(BOOLEAN) /\ Len(armed') <= Len(armed)
    BY <1>2, FirstRemoved DEF Matches, Consume
  <2>2. Len(armed) \in Nat /\ Len(armed') \in Nat /\ Len(armed) <= ArmedMax
    BY <2>1
  <2> QED
    BY <1>2, <2>1, <2>2, ArmedAssumption DEF Consume, Swallow
<1>3. CASE PassEdge
  BY <1>1, <1>3 DEF PassEdge
<1>4. CASE TakeEdge /\ Matches
  BY <1>2, <1>4 DEF TakeEdge
<1>5. CASE TakeEdge /\ ~Matches
  BY <1>5 DEF TakeEdge
<1>6. CASE WakeUp
  BY <1>2, <1>6 DEF WakeUp, Engaged
<1>7. CASE WaitEnds
  BY <1>1, <1>7 DEF WaitEnds, Engaged
<1> QED
  BY <1>3, <1>4, <1>5, <1>6, <1>7 DEF Hook

\* So does the listener, with the dispatch of an edge.
LEMMA ListenerTyped == TypeOK /\ Engaged /\ Listener => TypeOK'
<1> SUFFICES ASSUME TypeOK, Engaged, Listener PROVE TypeOK'
  OBVIOUS
<1> USE DEF TypeOK, InputTypes, ObserverTypes, OutTypes, inputVars, appVars, listenerVars,
            hookVars, agentVars, tapVars, outVars, historyVars
<1>q. \A s \in Sources : rawQ[s] \in Seq(Message)
  OBVIOUS
<1>1. ASSUME NEW s \in Sources, EmitRaw(s) PROVE TypeOK'
  <2>0. rawQ[s] \in Seq(Message) /\ rawQ[s] # <<>>
    BY <1>1, <1>q DEF EmitRaw
  <2>1. Head(rawQ[s]).down \in BOOLEAN
    BY <2>0, MessageTyped
  <2>2. armed' \in Seq(BOOLEAN) /\ Len(armed') <= ArmedMax /\ seen' \in BOOLEAN
    BY <1>1, <2>1, ArmTyped DEF EmitRaw
  <2> QED
    BY <1>1, <2>2 DEF EmitRaw
<1>2. ASSUME NEW s \in Sources, DispatchRaw(s) PROVE TypeOK'
  <2> DEFINE m == Head(rawQ[s])
  <2>0. rawQ[s] \in Seq(Message) /\ rawQ[s] # <<>>
    BY <1>2, <1>q DEF DispatchRaw, Engaged
  <2>q. Tail(rawQ[s]) \in Seq(Message) /\ m \in Message
    BY <2>0
  <2>1. /\ rawQ' \in [Sources -> Seq(Message)] /\ listener' = "idle"
        /\ UNCHANGED <<key, hookQ, tapQ, phase, failed, disk, hook, armed, agentVars, tapVars,
                       foreground, pressed, missed, tapSeen>>
    BY <1>2, <2>q DEF DispatchRaw
  <2>m. m.down \in BOOLEAN
    BY <2>q, MessageTyped
  <2>2. CASE Garbled /\ UNCHANGED crossed
    BY <2>1, <2>2, SpendTyped DEF Garbled, dispatcherVars
  <2>3. CASE /\ IF s = "hid" THEN HidSource(m.down) ELSE KeyboardSource(m.down)
             /\ crossed' = (crossed \/ Crosses(s, m))
             /\ IF LogicalEdge(s, m.down) /\ ~Authoritative THEN Dispatch(m.down)
                ELSE UNCHANGED <<budget, bindings, armable, seen, dispatcherVars>>
    <3>1. keyboard' \in BOOLEAN /\ hid' \in BOOLEAN
      BY <2>m, <2>3, Zenon DEF HidSource, KeyboardSource, InSnapshot
    <3>c. crossed' \in BOOLEAN
      BY <2>3, Zenon DEF Crosses
    <3>2. CASE Dispatch(m.down)
      <4>1. Reload /\ held' \in BOOLEAN /\ actions' \in Nat /\ stuck' \subseteq Keys
            /\ unreleased' \subseteq Keys /\ budget' \in Budget
        BY <2>m, <3>2, Dispatched
      <4> QED
        BY <2>1, <3>1, <3>c, <4>1, Reloaded
    <3>3. CASE UNCHANGED <<budget, bindings, armable, seen, dispatcherVars>>
      BY <2>1, <3>1, <3>c, <3>3 DEF dispatcherVars
    <3> QED
      BY <2>3, <3>2, <3>3
  <2> QED
    BY <1>2, <2>2, <2>3 DEF DispatchRaw
<1> QED
  BY <1>1, <1>2 DEF Listener

\* So does the tap.
LEMMA TapTyped == TypeOK /\ (Reporting \/ Tap) => TypeOK'
<1> SUFFICES ASSUME TypeOK, Reporting \/ Tap PROVE TypeOK'
  OBVIOUS
<1> USE DEF TypeOK, InputTypes, ObserverTypes, OutTypes, inputVars, appVars, listenerVars,
            hookVars, agentVars, tapVars, outVars, historyVars
<1>1. CASE ReadReport
  BY <1>1 DEF ReadReport, TakeReport
<1>2. CASE ArmReport
  <2>1. armed' \in Seq(BOOLEAN) /\ Len(armed') <= ArmedMax /\ seen' \in BOOLEAN
    BY <1>2, ArmTyped DEF ArmReport
  <2>2. changed' \in BOOLEAN
    BY <1>2, ChangesTyped DEF ArmReport
  <2>3. tapLive' \in BOOLEAN
    BY <1>2 DEF ArmReport
  <2> QED
    BY <1>2, <2>1, <2>2, <2>3 DEF ArmReport
<1>3. CASE DispatchReport
  <2>1. Reload /\ held' \in BOOLEAN /\ actions' \in Nat /\ stuck' \subseteq Keys
        /\ unreleased' \subseteq Keys /\ budget' \in Budget
    BY <1>3, Dispatched DEF DispatchReport
  <2> QED
    BY <1>3, <2>1, Reloaded DEF DispatchReport
<1>4. CASE Seek
  <2>1. budget' \in Budget
    BY <1>4, SpendTyped DEF Seek, InjectFails, SocketFails
  <2>2. attempted' \in Nat /\ loaded' \in BOOLEAN /\ tap' \in {"seeking", "accepting", "dead"}
    <3>1. loaded' = loaded \/ loaded' = TRUE
      BY <1>4, Zenon DEF Seek, Inject, InjectFails, ScriptRuns, RuntimeFails, PrivilegeFails,
                         LibraryFails, SocketFails
    <3>2. loaded' \in BOOLEAN
      BY <3>1, Zenon
    <3> QED
      BY <1>4, <3>2 DEF Seek, Inject, InjectFails, SocketFails
  <2> QED
    BY <1>4, <2>1, <2>2 DEF Seek
<1>5. CASE Accept
  BY <1>5 DEF Accept
<1>6. CASE LoseAgent
  <2>1. budget' \in Budget
    BY <1>6, SpendTyped DEF LoseAgent, LoopOverEnds, SocketReset
  <2>t. tap' \in {"seeking", "dead"} /\ attempted' \in Nat
    BY <1>6 DEF LoseAgent, LoopOverEnds, SocketReset
  <2>i. InputTypes'
    BY <1>6, <2>1 DEF LoseAgent, ReleaseActive, TakeReport
  <2>b. usage' \in BOOLEAN /\ direct' \in BOOLEAN
    <3>1. direct' = FALSE \/ direct' = direct
      BY <1>6, Zenon DEF LoseAgent, ReleaseActive, TakeReport
    <3> QED
      BY <1>6, <3>1, Zenon DEF LoseAgent, ReleaseActive
  <2>r. report' \in {report, "taken", "none"}
    BY <1>6, Zenon DEF LoseAgent, ReleaseActive, TakeReport
  <2>o. ObserverTypes'
    BY <2>b, <2>r, <2>t, <1>6 DEF LoseAgent
  <2>u. OutTypes'
    BY <1>6, <2>1 DEF LoseAgent, ReleaseActive, TakeReport
  <2> QED
    BY <2>i, <2>o, <2>u DEF TypeOK
<1>7. CASE TapEnds
  BY <1>7 DEF TapEnds
<1> QED
  BY <1>1, <1>2, <1>3, <1>4, <1>5, <1>6, <1>7 DEF Reporting, Tap

\* So do the user, the settings window, the host and time.
LEMMA EnvironmentTyped == TypeOK /\ (Expire \/ Environment) => TypeOK'
<1> SUFFICES ASSUME TypeOK, Expire \/ Environment PROVE TypeOK'
  OBVIOUS
<1> USE DEF TypeOK, InputTypes, ObserverTypes, OutTypes, inputVars, appVars, listenerVars,
            hookVars, agentVars, tapVars, outVars, historyVars
<1>e. ASSUME NEW down \in BOOLEAN, Edge(down), pressed' \in Nat
      PROVE  /\ key' \in BOOLEAN /\ hookQ' \in Seq(BOOLEAN) /\ tapQ' \in Seq(BOOLEAN)
             /\ rawQ' \in [Sources -> Seq(Message)]
  <2>1. Messages(down, pressed') \in [Sources -> Seq(Message)] /\ Reports(down) \in Seq(BOOLEAN)
    BY <1>e, SentTyped
  <2> QED
    BY <1>e, <2>1 DEF Edge
<1>0. CASE Expire
  BY <1>0, ArmedAssumption DEF Expire
<1>1. CASE Press
  <2>1. budget' \in Budget
    BY <1>1, SpendTyped DEF Press
  <2>p. pressed' \in Nat
    BY <1>1 DEF Press
  <2>e. /\ key' \in BOOLEAN /\ hookQ' \in Seq(BOOLEAN) /\ tapQ' \in Seq(BOOLEAN)
        /\ rawQ' \in [Sources -> Seq(Message)]
    BY <1>1, <1>e, <2>p DEF Press
  <2>i. InputTypes'
    BY <1>1, <2>1, <2>e DEF Press, Edge
  <2>o. ObserverTypes'
    BY <1>1, <1>e, <2>1 DEF Press, Edge
  <2>u. OutTypes'
    BY <1>1, <1>e, <2>1 DEF Press, Edge
  <2> QED
    BY <2>i, <2>o, <2>u DEF TypeOK
<1>2. CASE Release
  <2>1. InputTypes'
    BY <1>2, <1>e DEF Release, Edge
  <2>2. ObserverTypes'
    BY <1>2, <1>e DEF Release, Edge
  <2>3. OutTypes'
    BY <1>2, <1>e DEF Release, Edge
  <2> QED
    BY <2>1, <2>2, <2>3 DEF TypeOK
<1>3. CASE Repeat
  <2>1. budget' \in Budget
    BY <1>3, SpendTyped DEF Repeat
  <2>r. rawQ' \in [Sources -> Seq(Message)]
    <3>1. [down |-> TRUE, hold |-> pressed] \in Message
      BY DEF Message
    <3>2. Append(rawQ["keyboard"], [down |-> TRUE, hold |-> pressed]) \in Seq(Message)
      BY <3>1 DEF Sources
    <3> QED
      BY <1>3, <3>2 DEF Repeat
  <2>i. InputTypes'
    BY <2>r, <1>3, <2>1 DEF Repeat
  <2>o. ObserverTypes'
    BY <1>3, <2>1 DEF Repeat
  <2>u. OutTypes'
    BY <1>3, <2>1 DEF Repeat
  <2> QED
    BY <2>i, <2>o, <2>u DEF TypeOK
<1>4. CASE EditBindings
  <2>1. budget' \in Budget
    BY <1>4, SpendTyped DEF EditBindings
  <2>2. disk' \in Stored
    BY <1>4 DEF EditBindings, Budget
  <2> QED
    BY <1>4, <2>1, <2>2 DEF EditBindings
<1>5. CASE ChangeHost
  <2>1. budget' \in Budget
    BY <1>5, SpendTyped DEF ChangeHost
  <2>2. host' \in Nat
    BY <1>5 DEF ChangeHost, Budget
  <2>i. InputTypes'
    BY <1>5, <2>1, <2>2 DEF ChangeHost
  <2>b. loaded' \in BOOLEAN
    BY <1>5, Zenon DEF ChangeHost
  <2>o. ObserverTypes'
    BY <2>b, <1>5, <2>1, <2>2 DEF ChangeHost
  <2>u. OutTypes'
    BY <1>5, <2>1, <2>2 DEF ChangeHost
  <2> QED
    BY <2>i, <2>o, <2>u DEF TypeOK
<1>6. CASE ReloadByOther
  BY <1>6, Reloaded DEF ReloadByOther
<1>7. CASE BeginCleanup
  BY <1>7 DEF BeginCleanup, Go, Phases
<1> QED
  BY <1>0, <1>1, <1>2, <1>3, <1>4, <1>5, <1>6, <1>7 DEF Environment

\* So do the application's start and its cleanup.
LEMMA ApplicationTyped == TypeOK /\ Application => TypeOK'
<1> SUFFICES ASSUME TypeOK, Application PROVE TypeOK'
  OBVIOUS
<1> USE DEF TypeOK, InputTypes, ObserverTypes, OutTypes, inputVars, appVars, listenerVars,
            hookVars, agentVars, tapVars, outVars, historyVars, Go, Phases
<1>1. CASE StartListener
  <2>1. PICK paths \in SUBSET Paths :
            IF Single(Matching(paths)) THEN ListenerRuns \/ ThreadFails \/ ThreadStays
            ELSE NoListener
    BY <1>1 DEF StartListener
  <2>2. budget' \in Budget
    BY <2>1, SpentTyped DEF ListenerRuns, ThreadFails, ThreadStays, NoListener
  <2>3. phase' \in Phases /\ listener' \in {"off", "idle"} \cup Sources
    BY <2>1 DEF ListenerRuns, ThreadFails, ThreadStays, NoListener
  <2>4. pressed' \in Nat
    BY <1>1 DEF StartListener
  <2>i. InputTypes'
    BY <1>1, <2>2, <2>3, <2>4 DEF StartListener, NewSources
  <2>b. keyboard' \in BOOLEAN /\ hid' \in BOOLEAN
    BY <1>1, Zenon DEF StartListener, NewSources
  <2>o. ObserverTypes'
    BY <2>b, <1>1, <2>2, <2>3, <2>4 DEF StartListener, NewSources
  <2>u. OutTypes'
    BY <1>1, <2>2, <2>3, <2>4 DEF StartListener, NewSources
  <2> QED
    BY <2>i, <2>o, <2>u DEF TypeOK
<1>2. CASE StartHook
  <2>1. CASE HookRuns /\ UNCHANGED budget
    <3>1. changed' \in BOOLEAN
      BY <2>1, ChangesTyped DEF HookRuns
    <3>2. armable' \in {"yes", "no", "unfiltered"}
      BY <2>1 DEF HookRuns, NewSuppressor, ArmableFor
    <3>i. InputTypes'
      BY <1>2, <2>1, <3>1, <3>2, ArmedAssumption DEF StartHook, HookRuns, NewSuppressor
    <3>b. seen' \in BOOLEAN
      BY <2>1, Zenon DEF HookRuns, NewSuppressor
    <3>o. ObserverTypes'
      BY <3>b, <1>2, <2>1, <3>1, <3>2, ArmedAssumption DEF StartHook, HookRuns, NewSuppressor
    <3>u. OutTypes'
      BY <1>2, <2>1, <3>1, <3>2, ArmedAssumption DEF StartHook, HookRuns, NewSuppressor
    <3> QED
      BY <3>i, <3>o, <3>u DEF TypeOK
  <2>2. CASE Spend("faults") /\ UNCHANGED <<hookVars, changed>>
    <3>1. budget' \in Budget
      BY <2>2, SpendTyped
    <3> QED
      BY <1>2, <2>2, <3>1 DEF StartHook
  <2> QED
    BY <1>2, <2>1, <2>2 DEF StartHook
<1>3. CASE StartTap
  <2>1. InputTypes'
    BY <1>3 DEF StartTap, TapRuns, NewTap
  <2>b. usage' \in BOOLEAN
    BY <1>3, Zenon DEF StartTap, NewTap
  <2>2. ObserverTypes'
    BY <2>b, <1>3 DEF StartTap, TapRuns, NewTap
  <2>3. OutTypes'
    BY <1>3 DEF StartTap, TapRuns, NewTap
  <2> QED
    BY <2>1, <2>2, <2>3 DEF TypeOK
<1>4. CASE StopTap
  <2>1. budget' \in Budget /\ failed' \in BOOLEAN
    BY <1>4, SpendTyped DEF StopTap
  <2>2. changed' \in BOOLEAN
    BY <1>4, ChangesTyped DEF StopTap
  <2>3. armable' \in {"yes", "no", "unfiltered"} /\ seen' \in BOOLEAN
    BY <1>4 DEF StopTap, SetArmable, ArmableFor
  <2>i. InputTypes'
    BY <1>4, <2>1, <2>2, <2>3 DEF StopTap
  <2>o. ObserverTypes'
    BY <1>4, <2>1, <2>2, <2>3, ZenonT(40) DEF StopTap
  <2>u. OutTypes'
    BY <1>4, <2>1, <2>2, <2>3 DEF StopTap
  <2> QED
    BY <2>i, <2>o, <2>u DEF TypeOK
<1>5. CASE ResetGestures
  <2>1. InputTypes'
    BY <1>5 DEF ResetGestures
  <2>2. ObserverTypes'
    BY <1>5 DEF ResetGestures
  <2>3. OutTypes'
    BY <1>5 DEF ResetGestures
  <2> QED
    BY <2>1, <2>2, <2>3 DEF TypeOK
<1>6. CASE StopListener
  <2>1. /\ phase' = "stoppingHook"
        /\ UNCHANGED <<key, hookQ, tapQ, disk, hook, armed, agentVars, tapVars, foreground,
                       pressed, missed, tapSeen, crossed>>
    BY <1>6 DEF StopListener
  <2>2. CASE LoopEnds /\ ReleaseAll /\ UNCHANGED failed
    <3>1. /\ listener' = "off" /\ keyboard' = FALSE /\ hid' = FALSE
          /\ rawQ' \in [Sources -> Seq(Message)]
      BY <2>2 DEF LoopEnds, NoMessages
    <3>2. CASE Dispatch(FALSE)
      <4>1. Reload /\ held' \in BOOLEAN /\ actions' \in Nat /\ stuck' \subseteq Keys
            /\ unreleased' \subseteq Keys /\ budget' \in Budget
        BY <3>2, Dispatched
      <4>i. InputTypes'
        BY <2>1, <2>2, <3>1, <4>1, Reloaded
      <4>o. ObserverTypes'
        BY <2>1, <2>2, <3>1, <4>1, Reloaded, ZenonT(40)
      <4>u. OutTypes'
        BY <2>1, <2>2, <3>1, <4>1, Reloaded
      <4> QED
        BY <4>i, <4>o, <4>u DEF TypeOK
    <3>3. CASE UNCHANGED <<bindings, armable, seen, budget, dispatcherVars>>
      <4>1. InputTypes'
        BY <2>1, <2>2, <3>1, <3>3 DEF dispatcherVars
      <4>b. keyboard' \in BOOLEAN /\ hid' \in BOOLEAN
        BY <3>1, Zenon
      <4>2. ObserverTypes'
        BY <4>b, <2>1, <2>2, <3>1, <3>3 DEF dispatcherVars
      <4>3. OutTypes'
        BY <2>1, <2>2, <3>1, <3>3 DEF dispatcherVars
      <4> QED
        BY <4>1, <4>2, <4>3 DEF TypeOK
    <3> QED
      BY <2>2, <3>2, <3>3 DEF ReleaseAll
  <2>3. CASE /\ LoopSurvives /\ failed' = TRUE
             /\ UNCHANGED <<bindings, armable, seen, dispatcherVars>>
    <3>1. budget' \in Budget
      BY <2>3, SpendTyped DEF LoopSurvives
    <3> QED
      BY <2>1, <2>3, <3>1 DEF LoopSurvives, dispatcherVars
  <2> QED
    BY <1>6, <2>2, <2>3 DEF StopListener
<1>7. CASE StopHook
  <2>1. changed' \in BOOLEAN
    BY <1>7, ChangesTyped DEF StopHook, HookEnds, HookSurvives
  <2>2. budget' \in Budget /\ failed' \in BOOLEAN /\ hook' \in {"off", "idle", "waiting"}
    BY <1>7, SpendTyped DEF StopHook, HookEnds, HookSurvives
  <2>3. phase' \in Phases
    BY <1>7 DEF StopHook
  <2>i. InputTypes'
    BY <1>7, <2>2, <2>3 DEF StopHook
  <2>o. ObserverTypes'
    BY <1>7, <2>2, ArmedAssumption DEF StopHook
  <2>u. OutTypes'
    BY <1>7, <2>1 DEF StopHook
  <2> QED
    BY <2>i, <2>o, <2>u DEF TypeOK
<1> QED
  BY <1>1, <1>2, <1>3, <1>4, <1>5, <1>6, <1>7 DEF Application

\* What the actions of one thread leave alone.
LEMMA HookLeaves ==
    Hook => UNCHANGED <<budget, key, rawQ, tapQ, appVars, listenerVars, armable, seen, agentVars,
                        tapVars, held, actions, stuck, unreleased, pressed, changed, tapSeen,
                        remapped, crossed>>
  BY DEF Hook, PassEdge, TakeEdge, WakeUp, WaitEnds, historyVars, hookVars

\* The listener touches neither the hook's queue nor the tap.
LEMMA ListenerLeaves ==
    Listener => UNCHANGED <<key, hookQ, tapQ, phase, failed, disk, hook, agentVars, tapVars,
                            foreground, pressed, missed, tapSeen>>
  BY DEF Listener, EmitRaw, DispatchRaw, inputVars, appVars, outVars, historyVars

\* The tap touches neither queue, and neither the hook nor the listener.
LEMMA TapLeaves ==
    Reporting \/ Tap => UNCHANGED <<key, hookQ, rawQ, phase, failed, disk, listenerVars, hook,
                                    host, foreground, pressed, missed, crossed>>
  BY DEF Reporting, ReadReport, ArmReport, DispatchReport, Tap, Seek, Accept, LoseAgent, TapEnds,
         inputVars, appVars, hookVars, agentVars, outVars, historyVars

\* The start and the cleanup leave the key and its edges alone.
LEMMA ApplicationLeaves ==
    Application => UNCHANGED <<key, hookQ, disk, agentVars, foreground, missed, tapSeen, crossed>>
  BY DEF Application, StartListener, StartHook, StartTap, StopTap, ResetGestures, StopListener,
         StopHook, HookEnds, HookSurvives, inputVars, outVars, historyVars

\* The environment leaves the threads and what was dispatched alone.
LEMMA EnvironmentLeaves ==
    Expire \/ Environment =>
        UNCHANGED <<failed, listenerVars, hook, tapVars, outVars, missed, tapSeen, crossed>>
  BY DEF Expire, Environment, Press, Release, Repeat, Edge, EditBindings, ChangeHost,
         ReloadByOther, BeginCleanup, appVars, hookVars, historyVars, inputVars

-----------------------------------------------------------------------------
(* The life of the tap and of the listener.                                 *)

\* The tap's thread runs from the start to the tap's stop, unless that fails;
\* the application takes a button for down only while the tap does, and that is
\* attached; and whatever it dispatches for the tap has been seen.
TapLife ==
    /\ tap = "off" => report = "none"
    /\ ~failed /\ phase \in {"down", "listening", "hooked", "resetting", "stoppingListener",
                             "stoppingHook"} => tap \in {"off", "dead"} /\ report = "none"
    /\ failed => phase \in {"resetting", "stoppingListener", "stoppingHook", "ended"}
    /\ direct => usage /\ tap = "attached"
    /\ report = "armed" => tapSeen

\* Without its thread the listener holds nothing; it has none before the start
\* and after a stop that did not fail.
ListenerLife ==
    /\ listener = "off" => rawQ = NoMessages /\ ~keyboard /\ ~hid
    /\ phase \in {"down", "stoppingHook"} /\ ~failed => listener = "off"

\* A source's queue stays or gets a message of the button's present press.
QueueGrows(s) ==
    \/ rawQ'[s] = rawQ[s]
    \/ /\ listener # "off"
       /\ rawQ'[s] = Append(rawQ[s], [down |-> key', hold |-> pressed'])

\* Only edges and repeats of the button are queued, and only for a listener.
LEMMA QueuesGrow ==
    ASSUME TypeOK, Expire \/ Environment, NEW s \in Sources
    PROVE  QueueGrows(s)
<1> USE DEF QueueGrows, TypeOK, InputTypes, OutTypes
<1>1. ASSUME NEW down \in BOOLEAN, Edge(down) PROVE QueueGrows(s)
  <2>1. key' = down /\ rawQ' = Messages(down, pressed')
    BY <1>1 DEF Edge
  <2>2. rawQ'[s] = IF Sent(s) THEN Append(rawQ[s], [down |-> down, hold |-> pressed']) ELSE rawQ[s]
    BY <2>1 DEF Messages
  <2> QED
    BY <2>1, <2>2 DEF Sent
<1>2. CASE Press \/ Release
  BY <1>1, <1>2 DEF Press, Release
<1>3. CASE Repeat
  <2>1. key' = TRUE /\ pressed' = pressed
    BY <1>3 DEF Repeat, historyVars
  <2>2. CASE s = "keyboard"
    BY <1>3, <2>1, <2>2 DEF Repeat
  <2>3. CASE s # "keyboard"
    BY <1>3, <2>3 DEF Repeat
  <2> QED
    BY <2>2, <2>3
<1>4. CASE Expire \/ EditBindings \/ ChangeHost \/ ReloadByOther \/ BeginCleanup
  BY <1>4 DEF Expire, EditBindings, ChangeHost, ReloadByOther, BeginCleanup, inputVars
<1> QED
  BY <1>2, <1>3, <1>4 DEF Environment

\* Nobody takes away the edge the hook waits for, nor the message in hand.
LEMMA EngagedKept == TypeOK /\ Engaged /\ [Next]_vars => Engaged'
<1> SUFFICES ASSUME TypeOK, Engaged, [Next]_vars PROVE Engaged'
  OBVIOUS
<1> USE DEF Engaged
<1>1. CASE Hook
  <2>1. hook' # "waiting" \/ (hookQ' = hookQ /\ hookQ # <<>>)
    BY <1>1 DEF Hook, PassEdge, TakeEdge, WakeUp, WaitEnds, Consume, hookVars
  <2> QED
    BY <1>1, <2>1, HookLeaves DEF listenerVars
<1>2. CASE Listener
  <2>1. listener' \notin Sources \/ (rawQ' = rawQ /\ rawQ[listener'] # <<>>)
    BY <1>2 DEF Listener, EmitRaw, DispatchRaw, inputVars, Sources
  <2> QED
    BY <1>2, <2>1, ListenerLeaves
<1>3. CASE Reporting \/ Tap
  BY <1>3, TapLeaves DEF listenerVars
<1>4. CASE Application
  <2>1. hook' \in {hook, "idle", "off"}
    BY <1>4 DEF Application, StartListener, StartHook, HookRuns, StartTap, StopTap, ResetGestures,
                StopListener, StopHook, HookEnds, HookSurvives, hookVars
  <2>2. listener' \in {"idle", "off"} \/ UNCHANGED <<listener, rawQ>>
    <3>1. CASE StartListener
      BY <3>1 DEF StartListener, NoListener, ListenerRuns, ThreadFails, ThreadStays
    <3>2. CASE StopListener
      BY <3>2 DEF StopListener, LoopEnds, LoopSurvives, listenerVars
    <3>3. CASE StartHook \/ StartTap \/ StopTap \/ ResetGestures \/ StopHook
      BY <3>3 DEF StartHook, StartTap, StopTap, ResetGestures, StopHook, listenerVars, inputVars
    <3> QED
      BY <1>4, <3>1, <3>2, <3>3 DEF Application
  <2> QED
    BY <1>4, <2>1, <2>2, ApplicationLeaves DEF Sources
<1>5. CASE Expire \/ Environment
  <2>1. hook' = hook /\ listener' = listener
    BY <1>5, EnvironmentLeaves DEF listenerVars
  <2>2. hookQ' = hookQ \/ \E down \in BOOLEAN : hookQ' = Append(hookQ, down)
    BY <1>5 DEF Expire, Environment, Press, Release, Repeat, Edge, EditBindings, ChangeHost,
                ReloadByOther, BeginCleanup, inputVars
  <2>3. \A s \in Sources : QueueGrows(s)
    BY <1>5, QueuesGrow
  <2>4. hookQ # <<>> => hookQ' # <<>>
    BY <2>2 DEF TypeOK, InputTypes
  <2>5. \A s \in Sources : rawQ[s] # <<>> => rawQ'[s] # <<>>
    BY <2>3 DEF QueueGrows, TypeOK, InputTypes
  <2> QED
    BY <2>1, <2>4, <2>5
<1>6. CASE UNCHANGED vars
  BY <1>6 DEF vars, inputVars, listenerVars, hookVars
<1> QED
  BY <1>1, <1>2, <1>3, <1>4, <1>5, <1>6 DEF Next

\* Every step keeps TapLife.
LEMMA TapLifeKept == TypeOK /\ TapLife /\ [Next]_vars => TapLife'
<1> SUFFICES ASSUME TypeOK, TapLife, [Next]_vars PROVE TapLife'
  OBVIOUS
<1> USE DEF TapLife
<1>1. CASE Hook
  BY <1>1, HookLeaves DEF appVars, tapVars
<1>2. CASE Listener
  BY <1>2, ListenerLeaves DEF tapVars
<1>3. CASE Reporting
  <2>1. CASE ReadReport
    <3>1. /\ UNCHANGED <<tap, phase, failed, tapSeen>> /\ tap = "attached"
          /\ report' \in {"none", "taken"}
      BY <2>1, Zenon DEF ReadReport, TakeReport, appVars, historyVars
    <3>2. direct' => usage'
      BY <2>1, Zenon DEF ReadReport, TakeReport
    <3> QED
      BY <3>1, <3>2
  <2>2. CASE ArmReport
    BY <2>2 DEF ArmReport, appVars
  <2>3. CASE DispatchReport
    BY <2>3 DEF DispatchReport
  <2> QED
    BY <1>3, <2>1, <2>2, <2>3 DEF Reporting
<1>4. CASE Tap
  <2>1. UNCHANGED <<phase, failed, tapSeen>> /\ tap \notin {"off", "dead"}
    BY <1>4 DEF Tap, Seek, Accept, LoseAgent, TapEnds, appVars, historyVars
  <2>2. CASE Seek \/ Accept \/ TapEnds
    <3>1. /\ UNCHANGED <<direct, usage, report>> /\ tap # "attached"
          /\ tap' \in {"off", "dead"} => report = "none"
      BY <2>2 DEF Seek, InjectFails, SocketFails, Accept, TapEnds
    <3> QED
      BY <2>1, <3>1
  <2>3. CASE LoseAgent
    <3>1. ~direct' /\ report' \in {"none", "taken"}
      BY <2>3, Zenon DEF LoseAgent, ReleaseActive, TakeReport
    <3>2. tap' \in {"seeking", "dead"}
      BY <2>3 DEF LoseAgent, LoopOverEnds, SocketReset
    <3> QED
      BY <2>1, <3>1, <3>2
  <2> QED
    BY <1>4, <2>2, <2>3 DEF Tap
<1>5. CASE Application
  <2>1. CASE StartListener
    <3>1. phase = "down" /\ phase' \in {"listening", "hooked", "stoppingTap"}
      BY <2>1 DEF StartListener, NoListener, ListenerRuns, ThreadFails, ThreadStays, Go
    <3> QED
      BY <2>1, <3>1 DEF StartListener, tapVars
  <2>2. CASE StartHook
    BY <2>2 DEF StartHook, Go, tapVars
  <2>3. CASE StartTap
    BY <2>3 DEF StartTap, TapRuns, Go, historyVars
  <2>4. CASE StopTap
    BY <2>4 DEF StopTap, TapStopped, Go
  <2>5. CASE ResetGestures
    BY <2>5 DEF ResetGestures, Go, tapVars
  <2>6. CASE StopListener
    BY <2>6 DEF StopListener, Go, tapVars
  <2>7. CASE StopHook
    BY <2>7 DEF StopHook, HookEnds, HookSurvives, Go, tapVars
  <2> QED
    BY <1>5, <2>1, <2>2, <2>3, <2>4, <2>5, <2>6, <2>7 DEF Application
<1>6. CASE Expire \/ Environment
  <2>1. phase' = phase \/ (phase = "up" /\ phase' = "stoppingTap")
    BY <1>6 DEF Expire, Environment, Press, Release, Repeat, Edge, EditBindings, ChangeHost,
                ReloadByOther, BeginCleanup, Go, appVars
  <2> QED
    BY <1>6, <2>1, EnvironmentLeaves DEF tapVars
<1>7. CASE UNCHANGED vars
  BY <1>7 DEF vars, appVars, tapVars, historyVars
<1> QED
  BY <1>1, <1>2, <1>3, <1>4, <1>5, <1>6, <1>7 DEF Next

\* Every step keeps ListenerLife: a listener starts where the last one ended.
LEMMA ListenerLifeKept == TypeOK /\ TapLife /\ ListenerLife /\ [Next]_vars => ListenerLife'
<1> SUFFICES ASSUME TypeOK, TapLife, ListenerLife, [Next]_vars PROVE ListenerLife'
  OBVIOUS
<1> USE DEF ListenerLife
<1>1. CASE Hook
  BY <1>1, HookLeaves DEF appVars, listenerVars
<1>2. CASE Listener
  <2>1. listener # "off" /\ listener' # "off" /\ UNCHANGED <<phase, failed>>
    BY <1>2, ListenerLeaves DEF Listener, EmitRaw, DispatchRaw, Sources
  <2> QED
    BY <2>1
<1>3. CASE Reporting \/ Tap
  BY <1>3, TapLeaves DEF listenerVars
<1>4. CASE Application
  <2>1. CASE StartListener
    <3>1. phase = "down" /\ phase' \in {"listening", "hooked", "stoppingTap"}
      BY <2>1 DEF StartListener, NoListener, ListenerRuns, ThreadFails, ThreadStays, Go
    <3>2. rawQ = NoMessages
      BY <3>1 DEF TapLife
    <3> QED
      BY <2>1, <3>1, <3>2 DEF StartListener, NewSources
  <2>2. CASE StartHook \/ StartTap \/ StopTap \/ ResetGestures
    <3>1. phase' \in {"hooked", "up", "resetting", "stoppingListener"}
      BY <2>2 DEF StartHook, StartTap, StopTap, ResetGestures, Go
    <3>2. UNCHANGED <<rawQ, listenerVars>>
      BY <2>2 DEF StartHook, StartTap, StopTap, ResetGestures, inputVars
    <3> QED
      BY <3>1, <3>2 DEF listenerVars
  <2>3. CASE StopListener
    BY <2>3 DEF StopListener, LoopEnds, LoopSurvives, listenerVars, Go
  <2>4. CASE StopHook
    BY <2>4 DEF StopHook, HookEnds, HookSurvives, listenerVars, inputVars, Go
  <2> QED
    BY <1>4, <2>1, <2>2, <2>3, <2>4 DEF Application
<1>5. CASE Expire \/ Environment
  <2>1. phase' = phase \/ phase' = "stoppingTap"
    BY <1>5 DEF Expire, Environment, Press, Release, Repeat, Edge, EditBindings, ChangeHost,
                ReloadByOther, BeginCleanup, Go, appVars
  <2>2. listener = "off" => rawQ' = rawQ
    <3>1. ASSUME listener = "off" PROVE rawQ' = rawQ
      <4>1. \A s \in Sources : rawQ'[s] = rawQ[s]
        BY <1>5, <3>1, QueuesGrow DEF QueueGrows
      <4>2. rawQ \in [Sources -> Seq(Message)] /\ rawQ' \in [Sources -> Seq(Message)]
        BY <1>5, EnvironmentTyped DEF TypeOK, InputTypes
      <4> QED
        BY <4>1, <4>2
    <3> QED
      BY <3>1
  <2> QED
    BY <1>5, <2>1, <2>2, EnvironmentLeaves DEF listenerVars
<1>6. CASE UNCHANGED vars
  BY <1>6 DEF vars, inputVars, appVars, listenerVars
<1> QED
  BY <1>1, <1>2, <1>3, <1>4, <1>5, <1>6 DEF Next

-----------------------------------------------------------------------------
(* The cleanup lets everything go.                                          *)

\* Between the gestures' reset and the end of the cleanup the dispatcher holds
\* a button only while the listener still has it down and will release it, or
\* if its mapping has become the identity since; and every key an action has
\* left down is one whose release failed.
Letting ==
    /\ ~failed /\ phase = "stoppingListener" /\ held /\ ~remapped
          => (keyboard \/ hid) /\ ~Authoritative
    /\ ~failed /\ phase \in {"stoppingHook", "down"} /\ held => remapped
    /\ stuck \subseteq unreleased

\* A reload makes the mapping the identity only if it notes that.
LEMMA ReloadRemaps ==
    ASSUME TypeOK, Reload
    PROVE  /\ remapped => remapped'
           /\ ~Authoritative => remapped' \/ ~Authoritative'
<1>1. remapped' = (remapped \/ (Current = "identity" /\ bindings # Current)) /\ bindings' = Current
  BY Reloaded
<1> QED
  BY <1>1 DEF Authoritative

\* The message the listener is dispatching.
LEMMA HeadTyped ==
    ASSUME TypeOK, Engaged, NEW s \in Sources, listener = s
    PROVE  /\ rawQ[s] \in Seq(Message) /\ rawQ[s] # <<>>
           /\ Head(rawQ[s]) \in Message
           /\ Head(rawQ[s]).down \in BOOLEAN /\ Head(rawQ[s]).hold \in Nat
<1>1. rawQ[s] \in Seq(Message) /\ rawQ[s] # <<>>
  BY DEF TypeOK, InputTypes, Engaged
<1>2. Head(rawQ[s]) \in Message
  BY <1>1
<1> QED
  BY <1>1, <1>2, MessageTyped

\* Every step keeps Letting: an edge of either source releases or stays down.
LEMMA LettingKept ==
    TypeOK /\ Engaged /\ TapLife /\ ListenerLife /\ Letting /\ [Next]_vars => Letting'
<1> SUFFICES ASSUME TypeOK, Engaged, TapLife, ListenerLife, Letting, [Next]_vars PROVE Letting'
  OBVIOUS
<1> USE DEF Letting, Authoritative
<1>1. CASE Hook
  BY <1>1, HookLeaves DEF appVars, listenerVars
<1>2. CASE Listener
  <2>1. ASSUME NEW s \in Sources, EmitRaw(s) PROVE Letting'
    BY <2>1 DEF EmitRaw, appVars, outVars, historyVars
  <2>2. ASSUME NEW s \in Sources, DispatchRaw(s) PROVE Letting'
    <3> DEFINE m == Head(rawQ[s])
    <3>1. UNCHANGED <<phase, failed>> /\ listener # "off" /\ m.down \in BOOLEAN
      BY <2>2, HeadTyped DEF DispatchRaw, Sources
    <3>2. failed \/ phase \notin {"stoppingHook", "down"}
      BY <3>1 DEF ListenerLife
    <3>3. CASE Garbled
      BY <3>1, <3>3 DEF Garbled, dispatcherVars
    <3>4. CASE /\ IF s = "hid" THEN HidSource(m.down) ELSE KeyboardSource(m.down)
               /\ IF LogicalEdge(s, m.down) /\ ~Authoritative THEN Dispatch(m.down)
                  ELSE UNCHANGED <<budget, bindings, armable, seen, dispatcherVars>>
      <4>1. m.down => keyboard' \/ hid'
        BY <3>4 DEF HidSource, KeyboardSource, InSnapshot
      <4>2. CASE ~Authoritative /\ Dispatch(m.down)
        <5>1. /\ ~m.down => ~held'
              /\ stuck \subseteq unreleased => stuck' \subseteq unreleased'
              /\ Reload
          BY <3>1, <4>2, Dispatched
        <5>2. remapped' \/ ~Authoritative'
          BY <4>2, <5>1, ReloadRemaps
        <5> QED
          BY <3>1, <3>2, <4>1, <5>1, <5>2
      <4>3. CASE ~(LogicalEdge(s, m.down) /\ ~Authoritative)
                 /\ UNCHANGED <<budget, bindings, armable, seen, dispatcherVars>>
        <5>1. UNCHANGED <<held, stuck, unreleased, remapped, bindings>>
          BY <4>3 DEF dispatcherVars
        <5>2. ~Authoritative => ((keyboard \/ hid) <=> (keyboard' \/ hid'))
          BY <3>4, <4>3, Zenon DEF LogicalEdge, Other, HidSource, KeyboardSource, InSnapshot
        <5> QED
          BY <3>1, <3>2, <5>1, <5>2
      <4> QED
        BY <3>4, <4>2, <4>3
    <3> QED
      BY <2>2, <3>3, <3>4 DEF DispatchRaw
  <2> QED
    BY <1>2, <2>1, <2>2 DEF Listener
<1>3. CASE Reporting \/ Tap
  <2>1. UNCHANGED <<phase, failed, keyboard, hid>>
    BY <1>3, TapLeaves DEF listenerVars
  <2>2. CASE DispatchReport
    <3>1. Reload /\ (stuck \subseteq unreleased => stuck' \subseteq unreleased')
      BY <2>2, Dispatched DEF DispatchReport, TypeOK, ObserverTypes
    <3>2. failed \/ phase \notin {"stoppingListener", "stoppingHook", "down"}
      BY <2>2 DEF DispatchReport, TapLife
    <3> QED
      BY <2>1, <3>1, <3>2
  <2>3. CASE ReadReport \/ ArmReport \/ Tap
    <3>1. UNCHANGED <<held, stuck, unreleased, remapped, bindings>>
      BY <2>3 DEF ReadReport, ArmReport, Tap, Seek, Accept, LoseAgent, TapEnds, appVars, outVars,
                  historyVars
    <3> QED
      BY <2>1, <3>1
  <2> QED
    BY <1>3, <2>2, <2>3 DEF Reporting
<1>4. CASE Application
  <2>1. CASE StartListener
    <3>1. phase' \in {"listening", "hooked", "stoppingTap"}
      BY <2>1 DEF StartListener, NoListener, ListenerRuns, ThreadFails, ThreadStays, Go
    <3> QED
      BY <2>1, <3>1 DEF StartListener, outVars
  <2>2. CASE StartHook \/ StartTap \/ StopTap
    <3>1. phase' \in {"hooked", "up", "resetting"}
      BY <2>2 DEF StartHook, StartTap, StopTap, Go
    <3> QED
      BY <2>2, <3>1 DEF StartHook, StartTap, StopTap, outVars
  <2>3. CASE ResetGestures
    BY <2>3 DEF ResetGestures, Go
  <2>4. CASE StopListener
    <3>1. phase = "stoppingListener" /\ phase' = "stoppingHook"
      BY <2>4 DEF StopListener, Go
    <3>2. CASE LoopEnds /\ ReleaseAll /\ UNCHANGED failed
      <4>1. CASE (keyboard \/ hid) /\ ~Authoritative
        <5>1. Dispatch(FALSE)
          BY <3>2, <4>1, Zenon DEF ReleaseAll
        <5>2. ~held' /\ (stuck \subseteq unreleased => stuck' \subseteq unreleased')
          BY <5>1, Dispatched
        <5> QED
          BY <3>1, <5>2
      <4>2. CASE ~((keyboard \/ hid) /\ ~Authoritative)
        <5>1. UNCHANGED <<held, stuck, unreleased, remapped>>
          BY <3>2, <4>2, Zenon DEF ReleaseAll, dispatcherVars
        <5> QED
          BY <3>1, <3>2, <4>2, <5>1
      <4> QED
        BY <4>1, <4>2
    <3>3. CASE failed' = TRUE /\ UNCHANGED dispatcherVars
      BY <3>1, <3>3 DEF dispatcherVars
    <3> QED
      BY <2>4, <3>2, <3>3 DEF StopListener
  <2>5. CASE StopHook
    <3>1. phase = "stoppingHook" /\ UNCHANGED <<held, stuck, unreleased, remapped>>
      BY <2>5 DEF StopHook, Go, outVars
    <3>2. /\ UNCHANGED failed \/ failed'
          /\ phase' = IF failed' THEN "ended" ELSE "down"
      BY <2>5 DEF StopHook, Go, HookEnds, HookSurvives
    <3> QED
      BY <3>1, <3>2
  <2> QED
    BY <1>4, <2>1, <2>2, <2>3, <2>4, <2>5 DEF Application
<1>5. CASE Expire \/ Environment
  <2>1. UNCHANGED <<failed, keyboard, hid, held, stuck, unreleased>>
    BY <1>5, EnvironmentLeaves DEF listenerVars, outVars
  <2>2. phase' = phase \/ phase' = "stoppingTap"
    BY <1>5 DEF Expire, Environment, Press, Release, Repeat, Edge, EditBindings, ChangeHost,
                ReloadByOther, BeginCleanup, Go, appVars
  <2>3. CASE ReloadByOther
    <3>1. Reload
      BY <2>3 DEF ReloadByOther
    <3> QED
      BY <2>1, <2>2, <3>1, ReloadRemaps
  <2>4. CASE ~ReloadByOther
    <3>1. UNCHANGED <<bindings, remapped>>
      BY <1>5, <2>4 DEF Expire, Environment, Press, Release, Repeat, Edge, EditBindings, ChangeHost,
                BeginCleanup, appVars, historyVars
    <3> QED
      BY <2>1, <2>2, <3>1
  <2> QED
    BY <2>3, <2>4
<1>6. CASE UNCHANGED vars
  BY <1>6 DEF vars, appVars, listenerVars, outVars, historyVars
<1> QED
  BY <1>1, <1>2, <1>3, <1>4, <1>5, <1>6 DEF Next

-----------------------------------------------------------------------------
(* No edge of a hold is swallowed alone.                                    *)

\* While there is a hook, its filter is the one that the mapping and the tap
\* call for.
ArmableFollows == hook # "off" => armable = ArmableFor(bindings, tapLive)

\* The edge the hook will answer last is the button's last one.
LastEdge == hookQ # <<>> => hookQ[Len(hookQ)] = key

\* The hook lets every edge through at once.
Passing == hook = "off" \/ (hook = "idle" /\ armable = "no" /\ ~seen)

\* While the foreground window has the key down, edges still pass at once, so
\* the release will, and it is to come; unless a wait has run out or the
\* treatment has changed.
PassedThrough == foreground /\ ~missed /\ ~changed => Passing /\ (hookQ = <<>> => key)

\* The filter that each mapping calls for.
LEMMA ArmableForTyped ==
    \A b \in Bindings :
        /\ ArmableFor(b, TRUE) = "unfiltered"
        /\ b \in {"custom", "application"} => ArmableFor(b, FALSE) = "yes"
        /\ b \notin {"custom", "application"} => ArmableFor(b, FALSE) = "no"
  BY DEF ArmableFor

\* A reload keeps the filter what it should be.
LEMMA ReloadArms ==
    TypeOK /\ ArmableFollows /\ Reload /\ UNCHANGED <<hook, tapLive>> => ArmableFollows'
<1> SUFFICES ASSUME TypeOK, ArmableFollows, Reload, UNCHANGED <<hook, tapLive>>
             PROVE  ArmableFollows'
  OBVIOUS
<1>1. \/ bindings' = bindings /\ UNCHANGED armable
      \/ SetArmable(bindings', tapLive)
  BY Reloaded
<1> QED
  BY <1>1 DEF ArmableFollows, SetArmable

\* So does every other step.
LEMMA ArmableKept == TypeOK /\ ArmableFollows /\ [Next]_vars => ArmableFollows'
<1> SUFFICES ASSUME TypeOK, ArmableFollows, [Next]_vars PROVE ArmableFollows'
  OBVIOUS
<1> USE DEF ArmableFollows
<1>1. CASE Hook
  <2>1. hook' # "off" => hook # "off"
    BY <1>1 DEF Hook, PassEdge, TakeEdge, WakeUp, WaitEnds, hookVars
  <2> QED
    BY <1>1, <2>1, HookLeaves DEF appVars, tapVars
<1>2. CASE Listener
  <2>1. UNCHANGED <<hook, tapLive>>
    BY <1>2, ListenerLeaves DEF tapVars
  <2>2. Reload \/ UNCHANGED <<armable, bindings>>
    BY <1>2 DEF Listener, EmitRaw, DispatchRaw, Garbled, Dispatch, appVars
  <2> QED
    BY <2>1, <2>2, ReloadArms
<1>3. CASE Reporting \/ Tap
  <2>1. hook' = hook
    BY <1>3, TapLeaves
  <2>2. CASE ArmReport
    <3>1. UNCHANGED bindings /\ (hook # "off" => armable' = IF usage THEN "unfiltered" ELSE armable)
      BY <2>2 DEF ArmReport, appVars
    <3>2. usage => tapLive' = TRUE
      BY <2>2, Zenon DEF ArmReport
    <3>3. ~usage => tapLive' = tapLive
      BY <2>2, Zenon DEF ArmReport, TypeOK, ObserverTypes
    <3> QED
      BY <2>1, <3>1, <3>2, <3>3, ArmableForTyped DEF TypeOK, InputTypes
  <2>3. CASE DispatchReport
    BY <2>3, <2>1, ReloadArms DEF DispatchReport, Dispatch
  <2>4. CASE ReadReport \/ Tap
    BY <2>1, <2>4 DEF ReadReport, Tap, Seek, Accept, LoseAgent, TapEnds, appVars, hookVars
  <2> QED
    BY <1>3, <2>2, <2>3, <2>4 DEF Reporting
<1>4. CASE Application
  <2>1. CASE StartListener \/ StartTap \/ ResetGestures
    BY <2>1 DEF StartListener, StartTap, ResetGestures, hookVars, tapVars
  <2>2. CASE StartHook
    BY <2>2 DEF StartHook, HookRuns, NewSuppressor, hookVars, tapVars
  <2>3. CASE StopTap
    BY <2>3 DEF StopTap, SetArmable
  <2>4. CASE StopListener
    <3>1. UNCHANGED <<hook, tapLive>>
      BY <2>4 DEF StopListener, tapVars
    <3>2. Reload \/ UNCHANGED <<armable, bindings>>
      BY <2>4 DEF StopListener, ReleaseAll, Dispatch
    <3> QED
      BY <3>1, <3>2, ReloadArms
  <2>5. CASE StopHook
    BY <2>5 DEF StopHook, HookEnds, HookSurvives, tapVars
  <2> QED
    BY <1>4, <2>1, <2>2, <2>3, <2>4, <2>5 DEF Application
<1>5. CASE Expire \/ Environment
  <2>1. UNCHANGED <<hook, tapLive>>
    BY <1>5, EnvironmentLeaves DEF tapVars
  <2>2. Reload \/ UNCHANGED <<armable, bindings>>
    BY <1>5 DEF Expire, Environment, Press, Release, Repeat, Edge, EditBindings, ChangeHost,
                ReloadByOther, BeginCleanup, appVars, hookVars
  <2> QED
    BY <2>1, <2>2, ReloadArms
<1>6. CASE UNCHANGED vars
  BY <1>6 DEF vars, appVars, hookVars, tapVars
<1> QED
  BY <1>1, <1>2, <1>3, <1>4, <1>5, <1>6 DEF Next

\* Edges are queued and answered in order.
LEMMA LastEdgeKept == TypeOK /\ Engaged /\ LastEdge /\ [Next]_vars => LastEdge'
<1> SUFFICES ASSUME TypeOK, Engaged, LastEdge, [Next]_vars PROVE LastEdge'
  OBVIOUS
<1> USE DEF LastEdge
<1>t. hookQ \in Seq(BOOLEAN) /\ key \in BOOLEAN
  BY DEF TypeOK, InputTypes
<1>1. ASSUME UNCHANGED key, hookQ # <<>>, hookQ' = Tail(hookQ) PROVE LastEdge'
  BY <1>1, <1>t
<1>2. ASSUME NEW down \in BOOLEAN, key' = down, hookQ' = Append(hookQ, down) PROVE LastEdge'
  BY <1>2, <1>t
<1>3. CASE Hook
  <2>1. hookQ' = hookQ \/ (hookQ # <<>> /\ hookQ' = Tail(hookQ))
    BY <1>3 DEF Hook, PassEdge, TakeEdge, WakeUp, WaitEnds, Consume, Swallow, Pass, Engaged
  <2> QED
    BY <1>1, <1>3, <2>1, HookLeaves
<1>4. CASE Listener
  BY <1>4, ListenerLeaves
<1>5. CASE Reporting \/ Tap
  BY <1>5, TapLeaves
<1>6. CASE Application
  BY <1>6, ApplicationLeaves
<1>7. CASE Press
  BY <1>2, <1>7 DEF Press, Edge
<1>8. CASE Release
  BY <1>2, <1>8 DEF Release, Edge
<1>9. CASE Repeat
  BY <1>2, <1>9, <1>t DEF Repeat
<1>10. CASE Expire \/ EditBindings \/ ChangeHost \/ ReloadByOther \/ BeginCleanup
  BY <1>10 DEF Expire, EditBindings, ChangeHost, ReloadByOther, BeginCleanup, inputVars
<1>11. CASE UNCHANGED vars
  BY <1>11 DEF vars, inputVars
<1> QED
  BY <1>3, <1>4, <1>5, <1>6, <1>7, <1>8, <1>9, <1>10, <1>11 DEF Next, Environment

\* What leaves nothing behind was the last.
LEMMA OnlyOne ==
    ASSUME NEW S, NEW s \in Seq(S), s # <<>>, Tail(s) = <<>>
    PROVE  Head(s) = s[Len(s)]
<1>1. Len(Tail(s)) = Len(s) - 1 /\ Len(s) \in Nat
  BY Tail(s) \in Seq(S)
<1>0. Len(<<>>) = 0
  OBVIOUS
<1>a. Len(Tail(s)) = 0
  BY <1>0, Zenon
<1>2. Len(s) = 1
  BY <1>1, <1>a
<1> QED
  BY <1>2

\* A reload in the middle of a hold is noted; otherwise it leaves the hook alone.
LEMMA ReloadPasses ==
    ASSUME TypeOK, PassedThrough, Reload, UNCHANGED <<hook, foreground, missed, hookQ, key>>
    PROVE  PassedThrough'
<1>1. UNCHANGED <<armable, seen, changed>> \/ Changes
  BY Reloaded
<1>2. Changes /\ foreground => changed'
  BY Zenon DEF Changes, MidHold
<1> QED
  BY <1>1, <1>2 DEF PassedThrough, Passing

\* Every step keeps PassedThrough, or a wait runs out, or the change is noted.
LEMMA PassedThroughKept ==
    TypeOK /\ Engaged /\ ArmableFollows /\ LastEdge /\ PassedThrough /\ [Next]_vars
       => PassedThrough'
<1> SUFFICES ASSUME TypeOK, Engaged, ArmableFollows, LastEdge, PassedThrough, [Next]_vars
             PROVE  PassedThrough'
  OBVIOUS
<1> USE DEF PassedThrough, Passing
<1>c. ASSUME Changes, UNCHANGED foreground, foreground' PROVE changed'
  BY <1>c, Zenon DEF Changes, MidHold
<1>1. CASE Hook
  <2>0. UNCHANGED <<key, armable, seen, changed>>
    BY <1>1, HookLeaves
  <2>1. CASE PassEdge
    <3>1. Passing /\ UNCHANGED hook /\ hookQ # <<>>
      BY <2>1 DEF PassEdge, hookVars
    <3>2. hookQ' = Tail(hookQ) /\ foreground' = Head(hookQ)
      BY <2>1 DEF PassEdge, Pass
    <3>4. hookQ' = <<>> => Head(hookQ) = key
      BY <3>1, <3>2, OnlyOne DEF LastEdge, TypeOK, InputTypes
    <3>5. hookQ' = <<>> /\ foreground' => key'
      BY <2>0, <3>2, <3>4, Zenon
    <3> QED
      BY <2>0, <3>1, <3>5
  <2>2. CASE TakeEdge \/ WakeUp
    <3>1. ~Passing /\ UNCHANGED <<foreground, missed>>
      BY <2>2 DEF TakeEdge, WakeUp, Consume, Swallow, historyVars
    <3> QED
      BY <2>0, <3>1
  <2>3. CASE WaitEnds
    BY <2>3 DEF WaitEnds
  <2> QED
    BY <1>1, <2>1, <2>2, <2>3 DEF Hook
<1>2. CASE Listener
  <2>0. UNCHANGED <<key, hookQ, hook, foreground, missed>>
    BY <1>2, ListenerLeaves
  <2>1. ASSUME NEW s \in Sources, EmitRaw(s) PROVE PassedThrough'
    <3>1. UNCHANGED <<armable, changed>>
      BY <2>1 DEF EmitRaw, historyVars
    <3>2. seen' = seen \/ (hook # "off" /\ bindings \in {"custom", "application"} /\ ~tapLive)
      BY <2>1 DEF EmitRaw, Arm, Authoritative, Configured, TypeOK, InputTypes, Bindings
    <3>3. hook # "off" /\ bindings \in {"custom", "application"} /\ ~tapLive => armable = "yes"
      BY DEF ArmableFollows, ArmableFor
    <3> QED
      BY <2>0, <3>1, <3>2, <3>3
  <2>2. ASSUME NEW s \in Sources, DispatchRaw(s) PROVE PassedThrough'
    <3>1. Reload \/ UNCHANGED <<armable, seen, changed>>
      BY <2>2 DEF DispatchRaw, Garbled, Dispatch, dispatcherVars
    <3> QED
      BY <2>0, <3>1, ReloadPasses
  <2> QED
    BY <1>2, <2>1, <2>2 DEF Listener
<1>3. CASE Reporting \/ Tap
  <2>0. UNCHANGED <<key, hookQ, hook, foreground, missed>>
    BY <1>3, TapLeaves
  <2>1. CASE ArmReport
    <3>1. CASE tapLive /\ hook # "off"
      <4>1. armable = "unfiltered" /\ UNCHANGED changed
        BY <2>1, <3>1 DEF ArmReport, ArmableFollows, ArmableFor
      <4> QED
        BY <2>0, <4>1
    <3>2. CASE hook = "off"
      <4>1. UNCHANGED changed \/ Changes
        BY <2>1 DEF ArmReport
      <4> QED
        BY <1>c, <2>0, <3>2, <4>1
    <3>3. CASE ~tapLive
      BY <1>c, <2>0, <2>1, <3>3 DEF ArmReport
    <3> QED
      BY <3>1, <3>2, <3>3
  <2>2. CASE DispatchReport
    BY <2>0, <2>2, ReloadPasses DEF DispatchReport, Dispatch
  <2>3. CASE ReadReport \/ Tap
    <3>1. UNCHANGED <<armable, seen, changed>>
      BY <2>3 DEF ReadReport, Tap, Seek, Accept, LoseAgent, TapEnds, hookVars, historyVars
    <3> QED
      BY <2>0, <3>1
  <2> QED
    BY <1>3, <2>1, <2>2, <2>3 DEF Reporting
<1>4. CASE Application
  <2>0. UNCHANGED <<key, hookQ, foreground, missed>>
    BY <1>4, ApplicationLeaves
  <2>1. CASE StartListener \/ StartTap \/ ResetGestures
    BY <2>0, <2>1 DEF StartListener, StartTap, ResetGestures, hookVars, historyVars
  <2>2. CASE StartHook
    BY <1>c, <2>0, <2>2 DEF StartHook, HookRuns, hookVars
  <2>3. CASE StopTap
    <3>1. CASE tapLive
      BY <1>c, <2>0, <2>3, <3>1 DEF StopTap
    <3>2. CASE ~tapLive
      <4>1. /\ UNCHANGED <<hook, changed>>
            /\ hook # "off" => armable' = ArmableFor(bindings, FALSE) /\ seen' = FALSE
        BY <2>3, <3>2 DEF StopTap, SetArmable
      <4>2. hook # "off" => armable = ArmableFor(bindings, FALSE)
        BY <3>2 DEF ArmableFollows, ArmableFor
      <4> QED
        BY <2>0, <4>1, <4>2
    <3> QED
      BY <3>1, <3>2
  <2>4. CASE StopListener
    <3>1. hook' = hook
      BY <2>4 DEF StopListener
    <3>2. Reload \/ UNCHANGED <<armable, seen, changed>>
      BY <2>4 DEF StopListener, ReleaseAll, Dispatch, dispatcherVars
    <3> QED
      BY <2>0, <3>1, <3>2, ReloadPasses
  <2>5. CASE StopHook
    <3>1. CASE HookEnds
      BY <1>c, <2>0, <2>5, <3>1 DEF StopHook, HookEnds
    <3>2. CASE HookSurvives
      BY <2>0, <2>5, <3>2 DEF StopHook, HookSurvives
    <3> QED
      BY <2>5, <3>1, <3>2 DEF StopHook
  <2> QED
    BY <1>4, <2>1, <2>2, <2>3, <2>4, <2>5 DEF Application
<1>5. CASE Expire \/ Environment
  <2>0. UNCHANGED <<hook, foreground, missed>>
    BY <1>5, EnvironmentLeaves DEF outVars
  <2>1. CASE Press \/ Release \/ Repeat
    <3>1. UNCHANGED <<armable, seen, changed>>
      BY <2>1 DEF Press, Release, Repeat, Edge, hookVars, historyVars
    <3>2. hookQ' # <<>>
      <4>1. \E down \in BOOLEAN : hookQ' = Append(hookQ, down)
        BY <2>1 DEF Press, Release, Repeat, Edge
      <4> QED
        BY <4>1 DEF TypeOK, InputTypes
    <3> QED
      BY <2>0, <3>1, <3>2
  <2>2. CASE ReloadByOther
    BY <2>0, <2>2, ReloadPasses DEF ReloadByOther, inputVars
  <2>3. CASE Expire \/ EditBindings \/ ChangeHost \/ BeginCleanup
    <3>1. UNCHANGED <<key, hookQ, armable, seen, changed>>
      BY <2>3 DEF Expire, EditBindings, ChangeHost, BeginCleanup, inputVars, hookVars, historyVars
    <3> QED
      BY <2>0, <3>1
  <2> QED
    BY <1>5, <2>1, <2>2, <2>3 DEF Environment
<1>6. CASE UNCHANGED vars
  BY <1>6 DEF vars, inputVars, hookVars, outVars, historyVars
<1> QED
  BY <1>1, <1>2, <1>3, <1>4, <1>5, <1>6 DEF Next

-----------------------------------------------------------------------------
(* One action for one press.                                                *)

\* A source is on, or one of them is.
On(s) == IF s = "hid" THEN hid ELSE keyboard
Union == keyboard \/ hid

\* Each source tells the presses in order, and ends one before the next.
Ordered(q) ==
    \A i, j \in 1..Len(q) : i < j =>
        q[i].hold <= q[j].hold /\ (~q[i].down /\ q[j].down => q[i].hold < q[j].hold)

\* No message is of a press to come; a press that lasts has not been released.
Stamped(q) ==
    \A i \in 1..Len(q) : q[i].hold <= pressed /\ (key /\ ~q[i].down => q[i].hold < pressed)

InOrder == \A s \in Sources : Ordered(rawQ[s]) /\ Stamped(rawQ[s])

\* c presses are over: every message that can still turn a source on or off is
\* of a later one.
Later(s, c) == \A i \in 1..Len(rawQ[s]) : rawQ[s][i].down \/ On(s) => c < rawQ[s][i].hold

\* Each press that is over has come to one action at most, and so has the one
\* the union is down for; which is one of the presses.
Counted(c) ==
    /\ \A s \in Sources : Later(s, c)
    /\ actions <= c + 1 /\ (~Union => actions <= c)
    /\ c <= pressed /\ (Union \/ (key /\ listener # "off") => c + 1 <= pressed)

Counts == tapSeen \/ crossed \/ \E c \in Nat : Counted(c)

\* A message at the end of a queue that is in order.
LEMMA OrderedAppend ==
    ASSUME NEW q \in Seq(Message), Ordered(q), NEW m \in Message,
           \A i \in 1..Len(q) : q[i].hold <= m.hold /\ (~q[i].down /\ m.down => q[i].hold < m.hold)
    PROVE  Ordered(Append(q, m))
<1>1. /\ Len(q) \in Nat /\ Len(Append(q, m)) = Len(q) + 1
      /\ Append(q, m)[Len(q) + 1] = m /\ \A i \in 1..Len(q) : Append(q, m)[i] = q[i]
  OBVIOUS
<1> DEFINE p == Append(q, m)
<1> SUFFICES ASSUME NEW i \in 1..Len(q) + 1, NEW j \in 1..Len(q) + 1, i < j
             PROVE  p[i].hold <= p[j].hold /\ (~p[i].down /\ p[j].down => p[i].hold < p[j].hold)
  BY <1>1 DEF Ordered
<1>2. i \in 1..Len(q) /\ p[i] = q[i]
  BY <1>1
<1>3. CASE j = Len(q) + 1
  BY <1>1, <1>2, <1>3
<1>4. CASE j # Len(q) + 1
  <2>1. j \in 1..Len(q) /\ p[j] = q[j]
    BY <1>1, <1>4
  <2> HIDE DEF p
  <2> QED
    BY <1>2, <2>1 DEF Ordered
<1> QED
  BY <1>3, <1>4

\* What is behind the first message.
LEMMA Behind ==
    ASSUME NEW q \in Seq(Message), q # <<>>
    PROVE  /\ Head(q) = q[1] /\ 1 \in 1..Len(q)
           /\ \A i \in 1..Len(Tail(q)) : i + 1 \in 1..Len(q) /\ Tail(q)[i] = q[i + 1] /\ 1 < i + 1
  OBVIOUS

\* The rest of a queue is in order, and comes after its first message.
LEMMA OrderedTail ==
    ASSUME NEW q \in Seq(Message), q # <<>>, Ordered(q)
    PROVE  /\ Ordered(Tail(q))
           /\ \A i \in 1..Len(Tail(q)) :
                 /\ Head(q).hold <= Tail(q)[i].hold
                 /\ ~Head(q).down /\ Tail(q)[i].down => Head(q).hold < Tail(q)[i].hold
<1>1. \A i \in 1..Len(Tail(q)) : i + 1 \in 1..Len(q) /\ Tail(q)[i] = q[i + 1] /\ 1 < i + 1
  BY Behind
<1>2. Head(q) = q[1] /\ 1 \in 1..Len(q)
  BY Behind
<1>3. ASSUME NEW i \in 1..Len(Tail(q)), NEW j \in 1..Len(Tail(q)), i < j
      PROVE  /\ Tail(q)[i].hold <= Tail(q)[j].hold
             /\ ~Tail(q)[i].down /\ Tail(q)[j].down => Tail(q)[i].hold < Tail(q)[j].hold
  <2>1. i + 1 < j + 1
    BY <1>3
  <2> QED
    BY <1>1, <2>1 DEF Ordered
<1> QED
  BY <1>1, <1>2, <1>3 DEF Ordered

\* Where nothing but the threads that do not count moves, the count stands.
LEMMA CountsFrame ==
    TypeOK /\ InOrder /\ Counts /\ UNCHANGED <<rawQ, keyboard, hid, actions, key, pressed>>
           /\ (listener' # "off" => listener # "off") /\ (tapSeen => tapSeen')
           /\ (crossed => crossed')
      => InOrder' /\ Counts'
<1> SUFFICES ASSUME TypeOK, InOrder, Counts,
                    UNCHANGED <<rawQ, keyboard, hid, actions, key, pressed>>,
                    listener' # "off" => listener # "off", tapSeen => tapSeen',
                    crossed => crossed'
             PROVE  InOrder' /\ Counts'
  OBVIOUS
<1>1. InOrder'
  BY DEF InOrder, Ordered, Stamped
<1>2. ASSUME NEW c \in Nat, Counted(c) PROVE Counted(c)'
  <2>1. \A s \in Sources : Later(s, c)'
    BY <1>2 DEF Counted, Later, On
  <2> QED
    BY <1>2, <2>1 DEF Counted, Union
<1> QED
  BY <1>1, <1>2 DEF Counts

\* The button's queues grow in order.
LEMMA EdgeKeepsOrder ==
    ASSUME TypeOK, ListenerLife, InOrder, key' \in BOOLEAN, pressed' \in Nat,
           \A s \in Sources : QueueGrows(s),
           key' \/ key, pressed' = IF key' /\ ~key THEN pressed + 1 ELSE pressed
    PROVE  InOrder'
<1> SUFFICES ASSUME NEW s \in Sources PROVE Ordered(rawQ'[s]) /\ Stamped(rawQ[s])'
  BY DEF InOrder, Ordered
<1> DEFINE q == rawQ[s]
           m == [down |-> key', hold |-> pressed']
<1>1. q \in Seq(Message) /\ m \in Message /\ pressed \in Nat /\ m.down = key' /\ m.hold = pressed'
  BY DEF TypeOK, InputTypes, OutTypes, Message
<1>2. \A i \in 1..Len(q) : q[i] \in Message /\ q[i].hold \in Nat /\ q[i].down \in BOOLEAN
  BY <1>1, MessageTyped
<1>3. \A i \in 1..Len(q) : q[i].hold <= pressed /\ (key /\ ~q[i].down => q[i].hold < pressed)
  BY DEF InOrder, Stamped
<1>4. \A i \in 1..Len(q) : /\ q[i].hold <= pressed'
                           /\ key' /\ ~q[i].down => q[i].hold < pressed'
  <2> SUFFICES ASSUME NEW i \in 1..Len(q)
               PROVE  q[i].hold <= pressed' /\ (key' /\ ~q[i].down => q[i].hold < pressed')
    OBVIOUS
  <2> DEFINE h == q[i].hold
  <2>1. h \in Nat /\ h <= pressed /\ (key /\ ~q[i].down => h < pressed)
    BY <1>2, <1>3
  <2> HIDE DEF h, q
  <2>2. CASE key' /\ ~key
    BY <1>1, <2>1, <2>2 DEF h
  <2>3. CASE ~(key' /\ ~key)
    BY <1>1, <2>1, <2>3 DEF h
  <2> QED
    BY <2>2, <2>3
<1> HIDE DEF q, m
<1>5. CASE rawQ'[s] = q
  <2>1. Ordered(rawQ'[s])
    BY <1>5 DEF InOrder, q
  <2>2. Stamped(rawQ[s])'
    BY <1>4, <1>5 DEF Stamped
  <2> QED
    BY <2>1, <2>2
<1>6. CASE rawQ'[s] = Append(q, m)
  <2>1. Ordered(q)
    BY DEF InOrder, q
  <2>2. Ordered(rawQ'[s])
    BY <1>1, <1>4, <1>6, <2>1, OrderedAppend
  <2>3. /\ Len(q) \in Nat /\ Len(Append(q, m)) = Len(q) + 1
        /\ Append(q, m)[Len(q) + 1] = m /\ \A i \in 1..Len(q) : Append(q, m)[i] = q[i]
    BY <1>1
  <2>4. \A i \in 1..Len(q) + 1 : i \in 1..Len(q) \/ i = Len(q) + 1
    BY <2>3
  <2>5. \A i \in 1..Len(q) + 1 : /\ rawQ'[s][i].hold <= pressed'
                                 /\ key' /\ ~rawQ'[s][i].down => rawQ'[s][i].hold < pressed'
    BY <1>1, <1>4, <1>6, <2>3, <2>4
  <2>6. Stamped(rawQ[s])'
    BY <1>6, <2>3, <2>5 DEF Stamped
  <2> QED
    BY <2>2, <2>6
<1> QED
  BY <1>5, <1>6 DEF QueueGrows, q, m

\* A press, a release or a repeat keeps the count within the presses.
LEMMA EdgeCounts ==
    ASSUME TypeOK, ListenerLife, NEW c \in Nat, Counted(c), key' \in BOOLEAN,
           \A s \in Sources : QueueGrows(s), UNCHANGED <<keyboard, hid, actions, listener>>,
           key' \/ key, pressed' = IF key' /\ ~key THEN pressed + 1 ELSE pressed
    PROVE  Counted(c)'
<1>1. pressed \in Nat /\ pressed' \in Nat /\ pressed <= pressed'
  BY DEF TypeOK, OutTypes
<1>2. listener # "off" /\ (key' \/ Union) => c < pressed'
  <2>1. CASE key' /\ ~key
    BY <1>1, <2>1 DEF Counted
  <2>2. CASE ~(key' /\ ~key)
    BY <1>1, <2>2 DEF Counted
  <2> QED
    BY <2>1, <2>2
<1>3. ASSUME NEW s \in Sources PROVE Later(s, c)'
  <2>1. On(s)' = On(s)
    BY DEF On
  <2>2. CASE rawQ'[s] = rawQ[s]
    BY <2>1, <2>2 DEF Counted, Later
  <2>3. CASE /\ listener # "off"
             /\ rawQ'[s] = Append(rawQ[s], [down |-> key', hold |-> pressed'])
    <3> DEFINE q == rawQ[s]
               m == [down |-> key', hold |-> pressed']
    <3>1. q \in Seq(Message) /\ m.down = key' /\ m.hold = pressed' /\ m \in Message
      BY <1>1 DEF TypeOK, InputTypes, Message
    <3>2. On(s) => Union
      BY DEF On, Union
    <3>3. m.down \/ On(s) => c < m.hold
      BY <1>2, <2>3, <3>1, <3>2
    <3> HIDE DEF q, m
    <3>4. /\ Len(q) \in Nat /\ Len(Append(q, m)) = Len(q) + 1
          /\ Append(q, m)[Len(q) + 1] = m /\ \A i \in 1..Len(q) : Append(q, m)[i] = q[i]
      BY <3>1
    <3>5. \A i \in 1..Len(q) + 1 : i \in 1..Len(q) \/ i = Len(q) + 1
      BY <3>4
    <3>6. \A i \in 1..Len(q) : q[i].down \/ On(s) => c < q[i].hold
      BY DEF Counted, Later, q
    <3>7. rawQ'[s] = Append(q, m)
      BY <2>3 DEF q, m
    <3>8. \A i \in 1..Len(q) + 1 : rawQ'[s][i].down \/ On(s) => c < rawQ'[s][i].hold
      BY <3>3, <3>4, <3>5, <3>6, <3>7
    <3> QED
      BY <2>1, <3>4, <3>7, <3>8 DEF Later
  <2> QED
    BY <2>2, <2>3 DEF QueueGrows
<1>4. Union' = Union
  BY DEF Union
<1>5. Union => listener # "off"
  BY DEF Union, ListenerLife
<1> QED
  <2>1. actions' <= c + 1 /\ (~Union' => actions' <= c)
    BY <1>4 DEF Counted
  <2>2. c <= pressed'
    BY <1>1 DEF Counted
  <2>3. Union' \/ (key' /\ listener' # "off") => c + 1 <= pressed'
    BY <1>1, <1>2, <1>4, <1>5
  <2> QED
    BY <1>3, <2>1, <2>2, <2>3 DEF Counted

\* What a message does to the sources, and that an action is for a press of the
\* union.
LEMMA MessageDoes ==
    ASSUME TypeOK, Engaged, NEW s \in Sources, DispatchRaw(s)
    PROVE  /\ \A t \in Sources \ {s} : On(t)' = On(t)
           /\ Union = (On(s) \/ Other(s)) /\ Union' = (On(s)' \/ Other(s))
           /\ actions' \in Nat /\ actions' <= actions + 1
           /\ \/ On(s)' = On(s) /\ actions' = actions /\ crossed' = crossed
              \/ /\ On(s)' = Head(rawQ[s]).down
                 /\ crossed' = (crossed \/ Crosses(s, Head(rawQ[s])))
                 /\ actions' # actions => Union' /\ ~Union
<1> DEFINE m == Head(rawQ[s])
<1>0. m.down \in BOOLEAN /\ keyboard \in BOOLEAN /\ hid \in BOOLEAN /\ actions \in Nat
  BY HeadTyped DEF DispatchRaw, TypeOK, ObserverTypes, OutTypes
<1>1. CASE Garbled /\ UNCHANGED crossed
  <2>1. UNCHANGED <<keyboard, hid, actions, crossed>>
    BY <1>1 DEF Garbled, dispatcherVars
  <2>2. Union = (On(s) \/ Other(s)) /\ Union' = (On(s)' \/ Other(s))
    BY <2>1, Zenon DEF Union, On, Other
  <2> QED
    BY <1>0, <2>1, <2>2 DEF On
<1>2. CASE /\ IF s = "hid" THEN HidSource(m.down) ELSE KeyboardSource(m.down)
           /\ crossed' = (crossed \/ Crosses(s, m))
           /\ IF LogicalEdge(s, m.down) /\ ~Authoritative THEN Dispatch(m.down)
              ELSE UNCHANGED <<budget, bindings, armable, seen, dispatcherVars>>
  <2>1. On(s)' = m.down /\ \A t \in Sources \ {s} : On(t)' = On(t)
    BY <1>2 DEF On, HidSource, KeyboardSource, InSnapshot, Sources
  <2>2. Union = (On(s) \/ Other(s)) /\ Union' = (On(s)' \/ Other(s))
    BY <1>2, Zenon DEF Union, On, Other, HidSource, KeyboardSource, InSnapshot
  <2>3. LogicalEdge(s, m.down) => ~(Union <=> Union')
    <3>1. CASE s = "hid"
      <4>1. hid' = m.down /\ keyboard' = keyboard
        BY <1>2, <3>1 DEF HidSource, InSnapshot
      <4>2. LogicalEdge(s, m.down) => ~((keyboard \/ hid) <=> (m.down \/ keyboard))
        BY <1>0, <3>1, Zenon DEF LogicalEdge, Other
      <4> QED
        BY <4>1, <4>2 DEF Union
    <3>2. CASE s # "hid"
      <4>1. keyboard' = m.down /\ hid' = hid
        BY <1>2, <3>2 DEF KeyboardSource
      <4>2. LogicalEdge(s, m.down) => ~((keyboard \/ hid) <=> (m.down \/ hid))
        BY <1>0, <3>2, Zenon DEF LogicalEdge, Other
      <4> QED
        BY <4>1, <4>2 DEF Union
    <3> QED
      BY <3>1, <3>2
  <2>4. CASE LogicalEdge(s, m.down) /\ ~Authoritative
    <3>1. Dispatch(m.down)
      BY <1>2, <2>4, Zenon
    <3>2. actions' \in Nat /\ actions' <= actions + 1 /\ (~m.down => actions' = actions)
      BY <1>0, <3>1, Dispatched
    <3>3. m.down => Union'
      BY <2>1, <2>2
    <3>4. ~(Union <=> Union')
      BY <2>3, <2>4
    <3>5. actions' # actions => Union' /\ ~Union
      BY <3>2, <3>3, <3>4, Zenon
    <3> QED
      BY <1>2, <2>1, <2>2, <3>2, <3>5
  <2>5. CASE ~(LogicalEdge(s, m.down) /\ ~Authoritative)
    <3>1. actions' = actions
      BY <1>2, <2>5, Zenon DEF dispatcherVars
    <3> QED
      BY <1>0, <1>2, <2>1, <2>2, <3>1
  <2> QED
    BY <2>4, <2>5
<1> QED
  BY <1>1, <1>2 DEF DispatchRaw

\* What is left of the queues after it.
LEMMA MessageTakes ==
    ASSUME TypeOK, Engaged, InOrder, NEW s \in Sources, DispatchRaw(s)
    PROVE  /\ rawQ'[s] = Tail(rawQ[s]) /\ \A t \in Sources \ {s} : rawQ'[t] = rawQ[t]
           /\ UNCHANGED <<key, pressed, tapSeen>> /\ listener # "off" /\ listener' # "off"
           /\ InOrder'
<1>1. /\ rawQ'[s] = Tail(rawQ[s]) /\ \A t \in Sources \ {s} : rawQ'[t] = rawQ[t]
      /\ UNCHANGED <<key, pressed, tapSeen>> /\ listener # "off" /\ listener' # "off"
  BY DEF DispatchRaw, TypeOK, InputTypes, Sources
<1>2. rawQ[s] \in Seq(Message) /\ rawQ[s] # <<>>
  BY HeadTyped DEF DispatchRaw
<1>3. Ordered(rawQ'[s])
  BY <1>1, <1>2, OrderedTail DEF InOrder
<1>4. Stamped(rawQ[s])'
  <2>1. \A i \in 1..Len(rawQ[s]) :
            rawQ[s][i].hold <= pressed /\ (key /\ ~rawQ[s][i].down => rawQ[s][i].hold < pressed)
    BY DEF InOrder, Stamped
  <2> QED
    BY <1>1, <1>2, <2>1, Behind DEF Stamped
<1>5. \A t \in Sources \ {s} : Ordered(rawQ'[t]) /\ Stamped(rawQ[t])'
  BY <1>1 DEF InOrder, Stamped
<1>6. InOrder'
  <2>1. \A t \in Sources : Ordered(rawQ[t])' /\ Stamped(rawQ[t])'
    BY <1>3, <1>4, <1>5 DEF Ordered
  <2> QED
    BY <2>1 DEF InOrder
<1> QED
  BY <1>1, <1>6

\* A message that is answered performs what it was counted for, at most; and
\* the one that releases the union ends the press it was down for.
LEMMA MessageCounts ==
    ASSUME TypeOK, Engaged, InOrder, NEW c \in Nat, Counted(c),
           NEW s \in Sources, DispatchRaw(s), ~crossed'
    PROVE  \E d \in Nat : Counted(d)'
<1> DEFINE q == rawQ[s]
           m == Head(q)
<1>1. q \in Seq(Message) /\ q # <<>> /\ m.down \in BOOLEAN /\ m.hold \in Nat
  BY HeadTyped DEF DispatchRaw
<1>t. pressed \in Nat /\ actions \in Nat
  BY DEF TypeOK, OutTypes
<1>2. /\ rawQ'[s] = Tail(q) /\ \A t \in Sources \ {s} : rawQ'[t] = rawQ[t]
      /\ UNCHANGED <<key, pressed, tapSeen>> /\ listener # "off" /\ listener' # "off"
  BY MessageTakes
<1>3. /\ \A t \in Sources \ {s} : On(t)' = On(t)
      /\ Union = (On(s) \/ Other(s)) /\ Union' = (On(s)' \/ Other(s))
      /\ actions' \in Nat /\ actions' <= actions + 1
      /\ \/ On(s)' = On(s) /\ actions' = actions /\ crossed' = crossed
         \/ /\ On(s)' = m.down /\ crossed' = (crossed \/ Crosses(s, m))
            /\ actions' # actions => Union' /\ ~Union
  BY MessageDoes
<1>4. \A i \in 1..Len(Tail(q)) :
          /\ m.hold <= Tail(q)[i].hold
          /\ ~m.down /\ Tail(q)[i].down => m.hold < Tail(q)[i].hold
          /\ Tail(q)[i].hold \in Nat
          /\ Tail(q)[i].down \/ On(s) => c < Tail(q)[i].hold
  <2>1. \A i \in 1..Len(Tail(q)) :
          /\ m.hold <= Tail(q)[i].hold
          /\ ~m.down /\ Tail(q)[i].down => m.hold < Tail(q)[i].hold
    BY <1>1, OrderedTail DEF InOrder
  <2>2. \A i \in 1..Len(q) : q[i].down \/ On(s) => c < q[i].hold
    BY DEF Counted, Later
  <2>3. \A i \in 1..Len(q) : q[i] \in Message /\ q[i].hold \in Nat
    BY <1>1, MessageTyped
  <2>4. \A i \in 1..Len(Tail(q)) : i + 1 \in 1..Len(q) /\ Tail(q)[i] = q[i + 1]
    BY <1>1, Behind
  <2> HIDE DEF q, m
  <2> QED
    BY <2>1, <2>2, <2>3, <2>4
<1>5. (m.down \/ On(s) => c < m.hold) /\ m.hold <= pressed /\ (key /\ ~m.down => m.hold < pressed)
  <2>1. m = q[1] /\ 1 \in 1..Len(q)
    BY <1>1, Behind
  <2> HIDE DEF q
  <2> QED
    BY <2>1 DEF Counted, Later, InOrder, Stamped, q
<1>6. /\ actions <= c + 1 /\ (~Union => actions <= c)
      /\ c <= pressed /\ (Union \/ key => c + 1 <= pressed)
  BY <1>2 DEF Counted
<1>o. \A t \in Sources \ {s} : Later(t, c)'
  BY <1>2, <1>3 DEF Counted, Later
<1> HIDE DEF q, m
<1>7. CASE Union' \/ ~Union
  <2>1. Later(s, c)'
    <3>1. \A i \in 1..Len(Tail(q)) : On(s)' => c < Tail(q)[i].hold
      <4>1. CASE On(s)
        BY <1>4, <4>1
      <4>2. CASE ~On(s)
        <5>1. On(s)' => m.down
          BY <1>3, <4>2
        <5>2. ASSUME On(s)', NEW i \in 1..Len(Tail(q)) PROVE c < Tail(q)[i].hold
          <6>1. c < m.hold
            BY <1>5, <5>1, <5>2
          <6>2. m.hold <= Tail(q)[i].hold /\ Tail(q)[i].hold \in Nat
            BY <1>4
          <6> QED
            BY <1>1, <6>1, <6>2
        <5> QED
          BY <5>2
      <4> QED
        BY <4>1, <4>2
    <3> QED
      BY <1>2, <1>4, <3>1 DEF Later
  <2>2. \A t \in Sources : Later(t, c)'
    BY <1>o, <2>1
  <2>3. actions' <= c + 1 /\ (~Union' => actions' <= c)
    BY <1>3, <1>6, <1>7, <1>t
  <2>4. Union' /\ ~Union => m.down
    BY <1>3
  <2>5. Union' \/ key => c + 1 <= pressed
    BY <1>1, <1>5, <1>6, <1>t, <2>4
  <2>6. Counted(c)'
    BY <1>2, <1>6, <2>2, <2>3, <2>5 DEF Counted
  <2> QED
    BY <2>6
<1>8. CASE Union /\ ~Union'
  <2>1. On(s) /\ ~m.down /\ ~Other(s) /\ ~Crosses(s, m) /\ actions' = actions /\ ~On(s)'
    BY <1>3, <1>8
  <2>2. \A t \in Sources \ {s} : \A x \in ToSet(rawQ[t]) : ~(x.down /\ x.hold <= m.hold)
    BY <1>8, <2>1 DEF Crosses, Union
  <2>3. ASSUME NEW t \in Sources \ {s} PROVE Later(t, c + 1)'
    <3>1. ~On(t)'
      BY <1>3, <1>8, <2>1 DEF Union, On, Sources
    <3>2. rawQ'[t] = rawQ[t] /\ rawQ[t] \in Seq(Message)
      BY <1>2 DEF TypeOK, InputTypes
    <3>3. ASSUME NEW i \in 1..Len(rawQ[t]), rawQ[t][i].down PROVE c + 1 < rawQ[t][i].hold
      <4>1. rawQ[t][i] \in ToSet(rawQ[t]) /\ rawQ[t][i] \in Message
        BY <3>2, <3>3 DEF ToSet
      <4>2. ~(rawQ[t][i].hold <= m.hold) /\ rawQ[t][i].hold \in Nat
        BY <2>2, <3>3, <4>1, MessageTyped
      <4>3. c < m.hold
        BY <1>5, <2>1
      <4> QED
        BY <1>1, <4>2, <4>3
    <3> QED
      BY <3>1, <3>2, <3>3 DEF Later
  <2>4. Later(s, c + 1)'
    <3>1. c < m.hold
      BY <1>5, <2>1
    <3>2. \A i \in 1..Len(Tail(q)) : Tail(q)[i].down => c + 1 < Tail(q)[i].hold
      <4> SUFFICES ASSUME NEW i \in 1..Len(Tail(q)), Tail(q)[i].down
                   PROVE  c + 1 < Tail(q)[i].hold
        OBVIOUS
      <4>1. m.hold < Tail(q)[i].hold /\ Tail(q)[i].hold \in Nat
        BY <1>4, <2>1
      <4> QED
        BY <1>1, <3>1, <4>1
    <3> QED
      BY <1>2, <2>1, <3>2 DEF Later
  <2>5. \A t \in Sources : Later(t, c + 1)'
    BY <2>3, <2>4
  <2>6. c + 1 <= pressed /\ (key => c + 2 <= pressed)
    BY <1>1, <1>5, <1>t, <2>1
  <2>7. Counted(c + 1)'
    <3>1. actions' <= (c + 1) + 1 /\ actions' <= c + 1
      BY <1>6, <1>t, <2>1
    <3>2. c + 1 <= pressed' /\ (Union' \/ (key' /\ listener' # "off") => (c + 1) + 1 <= pressed')
      BY <1>2, <1>8, <1>t, <2>6
    <3> QED
      BY <2>5, <3>1, <3>2 DEF Counted
  <2> QED
    BY <2>7
<1> QED
  BY <1>7, <1>8

\* Every step keeps Counts and InOrder; the tap's dispatches come after it is
\* seen.
LEMMA CountsKept ==
    TypeOK /\ TypeOK' /\ Engaged /\ TapLife /\ ListenerLife /\ InOrder /\ Counts /\ [Next]_vars
       => InOrder' /\ Counts'
<1> SUFFICES ASSUME TypeOK, TypeOK', Engaged, TapLife, ListenerLife, InOrder, Counts, [Next]_vars
             PROVE  InOrder' /\ Counts'
  OBVIOUS
<1>1. CASE Hook
  <2>1. UNCHANGED <<rawQ, keyboard, hid, listener, actions, key, pressed, tapSeen, crossed>>
    BY <1>1, HookLeaves DEF listenerVars
  <2> QED
    BY <2>1, CountsFrame
<1>2. ASSUME NEW s \in Sources, EmitRaw(s) PROVE InOrder' /\ Counts'
  <2>1. /\ UNCHANGED <<rawQ, keyboard, hid, actions, key, pressed, tapSeen, crossed>>
        /\ listener # "off"
    BY <1>2 DEF EmitRaw, inputVars, outVars, historyVars
  <2> QED
    BY <2>1, CountsFrame
<1>3. ASSUME NEW s \in Sources, DispatchRaw(s) PROVE InOrder' /\ Counts'
  <2>1. tapSeen' = tapSeen /\ InOrder'
    BY <1>3, MessageTakes
  <2>2. crossed => crossed'
    BY <1>3, MessageDoes
  <2> QED
    BY <1>3, <2>1, <2>2, MessageCounts DEF Counts
<1>4. CASE Reporting \/ Tap
  <2>1. UNCHANGED <<rawQ, keyboard, hid, listener, key, pressed, crossed>>
    BY <1>4, TapLeaves DEF listenerVars
  <2>i. InOrder'
    BY <2>1 DEF InOrder, Ordered, Stamped
  <2>2. CASE DispatchReport
    BY <2>2, <2>i DEF DispatchReport, TapLife, Counts
  <2>3. CASE ReadReport \/ Tap
    <3>1. UNCHANGED <<actions, tapSeen>>
      BY <2>3 DEF ReadReport, Tap, Seek, Accept, LoseAgent, TapEnds, outVars, historyVars
    <3> QED
      BY <2>1, <3>1, CountsFrame
  <2>4. CASE ArmReport
    BY <2>4, <2>i DEF ArmReport, Counts
  <2> QED
    BY <1>4, <2>2, <2>3, <2>4 DEF Reporting
<1>5. CASE StartListener
  <2>1. /\ UNCHANGED <<key, rawQ, actions, tapSeen, crossed>> /\ ~keyboard' /\ ~hid'
        /\ pressed' = IF key THEN pressed + 1 ELSE pressed
    BY <1>5 DEF StartListener, NewSources, outVars
  <2>2. phase = "down"
    BY <1>5 DEF StartListener, NoListener, ListenerRuns, ThreadFails, ThreadStays, Go
  <2>3. rawQ = NoMessages /\ ~keyboard /\ ~hid
    BY <2>2 DEF TapLife, ListenerLife
  <2>4. \A s \in Sources : Len(rawQ'[s]) = 0
    BY <2>1, <2>3 DEF NoMessages
  <2>5. InOrder'
    BY <2>4 DEF InOrder, Ordered, Stamped
  <2>6. ASSUME NEW c \in Nat, Counted(c) PROVE Counted(c)'
    <3>1. \A s \in Sources : Later(s, c)'
      BY <2>4 DEF Later
    <3>2. actions <= c + 1 /\ actions <= c /\ c <= pressed /\ pressed \in Nat
      BY <2>3, <2>6 DEF Counted, Union, TypeOK, OutTypes
    <3>3. c <= pressed' /\ (key => c + 1 <= pressed')
      BY <2>1, <3>2
    <3> QED
      BY <2>1, <3>1, <3>2, <3>3 DEF Counted, Union
  <2> QED
    BY <2>1, <2>5, <2>6 DEF Counts
<1>6. CASE StopListener
  <2>1. UNCHANGED <<key, pressed, tapSeen, crossed>>
    BY <1>6 DEF StopListener
  <2>2. CASE LoopEnds /\ ReleaseAll /\ UNCHANGED failed
    <3>1. actions' = actions
      BY <2>2, Dispatched DEF ReleaseAll, dispatcherVars
    <3>2. listener' = "off" /\ rawQ' = NoMessages /\ ~keyboard' /\ ~hid'
      BY <2>2 DEF LoopEnds
    <3>3. \A s \in Sources : Len(rawQ'[s]) = 0
      BY <3>2 DEF NoMessages
    <3>4. InOrder'
      BY <3>3 DEF InOrder, Ordered, Stamped
    <3>5. ASSUME NEW c \in Nat, Counted(c) PROVE \E d \in Nat : Counted(d)'
      <4>1. actions \in Nat /\ pressed \in Nat
        BY DEF TypeOK, OutTypes
      <4>2. CASE Union
        <5>1. \A s \in Sources : Later(s, c + 1)'
          BY <3>3 DEF Later
        <5>2. actions' <= (c + 1) + 1 /\ actions' <= c + 1 /\ c + 1 <= pressed'
          BY <2>1, <3>1, <3>5, <4>1, <4>2 DEF Counted
        <5>3. Counted(c + 1)'
          BY <3>2, <5>1, <5>2 DEF Counted, Union
        <5> QED
          BY <5>3
      <4>3. CASE ~Union
        <5>1. \A s \in Sources : Later(s, c)'
          BY <3>3 DEF Later
        <5>2. actions' <= c + 1 /\ actions' <= c /\ c <= pressed'
          BY <2>1, <3>1, <3>5, <4>1, <4>3 DEF Counted
        <5>3. Counted(c)'
          BY <3>2, <5>1, <5>2 DEF Counted, Union
        <5> QED
          BY <5>3
      <4> QED
        BY <4>2, <4>3
    <3> QED
      BY <2>1, <3>4, <3>5 DEF Counts
  <2>3. CASE LoopSurvives /\ UNCHANGED dispatcherVars
    <3>1. /\ UNCHANGED <<rawQ, keyboard, hid, listener, actions>>
      BY <2>3 DEF LoopSurvives, listenerVars, dispatcherVars
    <3> QED
      BY <2>1, <3>1, CountsFrame
  <2> QED
    BY <1>6, <2>2, <2>3 DEF StopListener
<1>7. CASE StartHook \/ StartTap \/ StopTap \/ ResetGestures \/ StopHook
  <2>1. UNCHANGED <<rawQ, keyboard, hid, listener, actions, key, pressed, tapSeen, crossed>>
    BY <1>7 DEF StartHook, StartTap, StopTap, ResetGestures, StopHook, inputVars, listenerVars,
                outVars, historyVars
  <2> QED
    BY <2>1, CountsFrame
<1>8. CASE Press \/ Release \/ Repeat
  <2>1. UNCHANGED <<keyboard, hid, actions, listener, tapSeen, crossed>>
    BY <1>8 DEF Press, Release, Repeat, Edge, listenerVars, outVars, historyVars
  <2>2. \A s \in Sources : QueueGrows(s)
    BY <1>8, QueuesGrow DEF Environment
  <2>3. key \in BOOLEAN /\ key' \in BOOLEAN /\ pressed' \in Nat
    BY DEF TypeOK, InputTypes, OutTypes
  <2>4. (key' \/ key) /\ pressed' = IF key' /\ ~key THEN pressed + 1 ELSE pressed
    <3>1. CASE Press
      BY <3>1 DEF Press, Edge
    <3>2. CASE Release
      BY <3>2 DEF Release, Edge
    <3>3. CASE Repeat
      BY <3>3 DEF Repeat, historyVars
    <3> QED
      BY <1>8, <3>1, <3>2, <3>3
  <2>5. InOrder'
    BY <2>2, <2>3, <2>4, EdgeKeepsOrder
  <2>6. ASSUME NEW c \in Nat, Counted(c) PROVE Counted(c)'
    BY <2>1, <2>2, <2>3, <2>4, <2>6, EdgeCounts
  <2> QED
    BY <2>1, <2>5, <2>6 DEF Counts
<1>9. CASE Expire \/ EditBindings \/ ChangeHost \/ ReloadByOther \/ BeginCleanup
  <2>1. UNCHANGED <<rawQ, keyboard, hid, listener, actions, key, pressed, tapSeen, crossed>>
    BY <1>9 DEF Expire, EditBindings, ChangeHost, ReloadByOther, BeginCleanup, inputVars,
                listenerVars, outVars, historyVars
  <2> QED
    BY <2>1, CountsFrame
<1>10. CASE UNCHANGED vars
  <2>1. UNCHANGED <<rawQ, keyboard, hid, listener, actions, key, pressed, tapSeen, crossed>>
    BY <1>10 DEF vars, inputVars, listenerVars, outVars, historyVars
  <2> QED
    BY <2>1, CountsFrame
<1> QED
  BY <1>1, <1>2, <1>3, <1>4, <1>5, <1>6, <1>7, <1>8, <1>9, <1>10
     DEF Next, Listener, Application, Environment

-----------------------------------------------------------------------------
(* The theorems.                                                            *)

\* The inductive invariant.
IInv == /\ TypeOK /\ Engaged /\ TapLife /\ ListenerLife /\ Letting
        /\ ArmableFollows /\ LastEdge /\ PassedThrough
        /\ InOrder /\ Counts

\* It all holds at the start.
LEMMA InitHolds == Init => IInv
<1> SUFFICES ASSUME Init PROVE IInv
  OBVIOUS
<1>1. TypeOK
  <2>1. budget \in Budget /\ disk \in Stored /\ DefaultBinding \in Bindings
    BY BudgetsAssumption DEF Init, Budget, DefaultBinding, Bindings
  <2>2. bindings \in Bindings
    BY <2>1, LoadedTyped DEF Init
  <2>b. key \in BOOLEAN /\ failed \in BOOLEAN
    BY Zenon DEF Init
  <2>q. rawQ \in [Sources -> Seq(Message)]
    BY DEF Init, NoMessages
  <2>3. InputTypes
    BY <2>1, <2>2, <2>b, <2>q DEF Init, InputTypes, Phases
  <2>4. keyboard \in BOOLEAN /\ hid \in BOOLEAN /\ seen \in BOOLEAN /\ loaded \in BOOLEAN
        /\ usage \in BOOLEAN /\ direct \in BOOLEAN /\ tapLive \in BOOLEAN
    BY Zenon DEF Init
  <2>5. ObserverTypes
    BY <2>4, ArmedAssumption DEF Init, ObserverTypes
  <2>6. OutTypes
    BY DEF Init, OutTypes
  <2> QED
    BY <2>3, <2>5, <2>6 DEF TypeOK
<1>2. Engaged /\ TapLife /\ ListenerLife /\ Letting
  BY DEF Init, Engaged, TapLife, ListenerLife, Letting, Sources
<1>3. ArmableFollows /\ LastEdge /\ PassedThrough
  BY DEF Init, ArmableFollows, LastEdge, PassedThrough
<1>4. InOrder /\ Counts
  <2>1. \A s \in Sources : Len(rawQ[s]) = 0
    BY DEF Init, NoMessages
  <2>2. InOrder
    BY <2>1 DEF InOrder, Ordered, Stamped
  <2>3. Counted(0)
    BY <2>1 DEF Counted, Later, Union, Init
  <2> QED
    BY <2>2, <2>3 DEF Counts
<1> QED
  BY <1>1, <1>2, <1>3, <1>4 DEF IInv

\* Every step keeps it.
LEMMA StepHolds == IInv /\ [Next]_vars => IInv'
<1> SUFFICES ASSUME IInv, [Next]_vars PROVE IInv'
  OBVIOUS
<1>1. TypeOK'
  <2>1. CASE Next
    BY <2>1, HookTyped, ListenerTyped, TapTyped, EnvironmentTyped, ApplicationTyped DEF IInv, Next
  <2>2. CASE UNCHANGED vars
    <3> USE DEF vars, inputVars, appVars, listenerVars, hookVars, agentVars, tapVars, outVars,
                historyVars
    <3>1. InputTypes'
      BY <2>2 DEF IInv, TypeOK, InputTypes
    <3>2. ObserverTypes'
      BY <2>2 DEF IInv, TypeOK, ObserverTypes
    <3>3. OutTypes'
      BY <2>2 DEF IInv, TypeOK, OutTypes
    <3> QED
      BY <3>1, <3>2, <3>3 DEF TypeOK
  <2> QED
    BY <2>1, <2>2
<1>2. Engaged' /\ TapLife' /\ ListenerLife' /\ Letting'
  BY EngagedKept, TapLifeKept, ListenerLifeKept, LettingKept DEF IInv
<1>3. ArmableFollows' /\ LastEdge' /\ PassedThrough'
  BY ArmableKept, LastEdgeKept, PassedThroughKept DEF IInv
<1>4. InOrder' /\ Counts'
  BY <1>1, CountsKept DEF IInv
<1> QED
  BY <1>1, <1>2, <1>3, <1>4 DEF IInv

\* So it holds throughout.
LEMMA InvariantHolds == Spec => []IInv
  BY InitHolds, StepHolds, PTL DEF Spec

\* Every variable keeps its type; in particular the list of armed edges never
\* outgrows its bound (arm_key_event).
THEOREM TypesKept == Spec => []TypeOK
<1>1. IInv => TypeOK
  BY DEF IInv
<1> QED
  BY <1>1, InvariantHolds, PTL

\* The application has a button down on the tap's word only while the agent is
\* attached, however agents, hosts and stops fail (_release_active).
THEOREM TapReleases == Spec => []TapLetsGo
<1>1. IInv => TapLetsGo
  BY DEF IInv, TapLife, TapLetsGo
<1> QED
  BY <1>1, InvariantHolds, PTL

\* A complete cleanup leaves no button held whose mapping did not become the
\* identity meanwhile, and no key down whose release did not fail: for every
\* batch and every number of its events that SendInput delivers (_cleanup_once,
\* _release_all, send_key_combo_tap).
THEOREM CleanupLetsGo == Spec => []NothingHeld
<1>1. IInv => NothingHeld
  BY DEF IInv, TapLife, Letting, NothingHeld
<1> QED
  BY <1>1, InvariantHolds, PTL

\* When the button is up and the hook has answered every edge, the foreground
\* window has the key up too, unless a wait ran out or the treatment of edges
\* changed in the middle of a hold (consume_armed_key_event).
THEOREM HoldsPassWhole == Spec => []NoHalfSwallowed
<1>1. IInv => NoHalfSwallowed
  BY DEF IInv, PassedThrough, NoHalfSwallowed
<1> QED
  BY <1>1, InvariantHolds, PTL

\* Until the tap reports, and as long as no source is released before the other
\* is pressed, the actions never outnumber the presses, for every number of
\* repeats, reports and restarts and every order of the two sources' messages
\* (_update_source_button).
THEOREM OneActionForOnePress == Spec => []OneActionPerPress
<1>1. IInv => OneActionPerPress
  <2> SUFFICES ASSUME IInv, ~tapSeen, ~crossed PROVE actions <= pressed
    BY DEF OneActionPerPress
  <2>1. PICK c \in Nat : Counted(c)
    BY DEF IInv, Counts
  <2>2. actions \in Nat /\ pressed \in Nat
    BY DEF IInv, TypeOK, OutTypes
  <2> QED
    BY <2>1, <2>2 DEF Counted
<1> QED
  BY <1>1, InvariantHolds, PTL
====
