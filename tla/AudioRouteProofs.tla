--------------------------- MODULE AudioRouteProofs ---------------------------
(* The route is a stream that only loses: for every size of queue, chunk,    *)
(* batch and buffer, and wherever a stop or the loss of the device falls.    *)
EXTENDS AudioRoute, Integers, TLAPS

-----------------------------------------------------------------------------
(* Sequences of sample numbers.                                              *)

\* Every sample of s precedes every sample of t.
Before(s, t) == \A i \in DOMAIN s, j \in DOMAIN t : s[i] < t[j]

\* What SubSeq takes, element by element.
LEMMA Slice ==
    ASSUME NEW S, NEW s \in Seq(S), NEW a \in Nat \ {0}, NEW b \in Nat, b <= Len(s)
    PROVE  /\ SubSeq(s, a, b) \in Seq(S)
           /\ Len(SubSeq(s, a, b)) = IF a <= b THEN b - a + 1 ELSE 0
           /\ DOMAIN SubSeq(s, a, b) = 1..Len(SubSeq(s, a, b))
           /\ \A i \in DOMAIN SubSeq(s, a, b) :
                  SubSeq(s, a, b)[i] = s[a + i - 1] /\ a + i - 1 \in DOMAIN s
  OBVIOUS

\* What concatenation takes, element by element.
LEMMA Joint ==
    ASSUME NEW S, NEW s \in Seq(S), NEW t \in Seq(S)
    PROVE  /\ s \o t \in Seq(S)
           /\ Len(s \o t) = Len(s) + Len(t)
           /\ DOMAIN (s \o t) = 1..(Len(s) + Len(t))
           /\ \A i \in DOMAIN s : (s \o t)[i] = s[i]
           /\ \A i \in DOMAIN (s \o t) :
                  \/ i \in DOMAIN s /\ (s \o t)[i] = s[i]
                  \/ i - Len(s) \in DOMAIN t /\ i > Len(s) /\ (s \o t)[i] = t[i - Len(s)]
  OBVIOUS

\* A part of an ordered sequence is ordered, and stays on its side of others.
LEMMA SliceOrdered ==
    ASSUME NEW S, NEW s \in Seq(S), NEW a \in Nat \ {0}, NEW b \in Nat, b <= Len(s)
    PROVE  /\ Stream!Increasing(s) => Stream!Increasing(SubSeq(s, a, b))
           /\ \A u : Before(u, s) => Before(u, SubSeq(s, a, b))
           /\ \A u : Before(s, u) => Before(SubSeq(s, a, b), u)
<1> DEFINE t == SubSeq(s, a, b)
<1>1. DOMAIN t = 1..Len(t) /\ Len(t) \in Nat
  BY Slice
<1>2. \A i \in DOMAIN t : t[i] = s[a + i - 1] /\ a + i - 1 \in DOMAIN s
  BY Slice
<1> HIDE DEF t
<1>3. ASSUME Stream!Increasing(s), NEW i \in DOMAIN t, NEW j \in DOMAIN t, i < j
      PROVE  t[i] < t[j]
  <2>1. a + i - 1 < a + j - 1
    BY <1>1, <1>3
  <2> QED
    BY <1>2, <1>3, <2>1 DEF Stream!Increasing
<1>4. ASSUME NEW u, Before(u, s)
      PROVE  Before(u, t)
  BY <1>2, <1>4 DEF Before
<1>5. ASSUME NEW u, Before(s, u)
      PROVE  Before(t, u)
  BY <1>2, <1>5 DEF Before
<1> QED
  BY <1>3, <1>4, <1>5 DEF t, Stream!Increasing

\* The two parts of an ordered sequence are in order.
LEMMA SplitOrdered ==
    ASSUME NEW S, NEW s \in Seq(S), NEW k \in Nat, k <= Len(s), Stream!Increasing(s)
    PROVE  Before(SubSeq(s, 1, k), SubSeq(s, k + 1, Len(s)))
<1> DEFINE t == SubSeq(s, 1, k)
           u == SubSeq(s, k + 1, Len(s))
<1>1. /\ DOMAIN t = 1..Len(t) /\ Len(t) = IF 1 <= k THEN k ELSE 0
      /\ \A i \in DOMAIN t : t[i] = s[i] /\ i \in DOMAIN s
  BY Slice
<1>2. /\ DOMAIN u = 1..Len(u) /\ Len(u) \in Nat
      /\ \A i \in DOMAIN u : u[i] = s[k + i] /\ k + i \in DOMAIN s
  <2>1. k + 1 \in Nat \ {0} /\ Len(s) \in Nat
    OBVIOUS
  <2>2. \A i \in Nat : k + 1 + i - 1 = k + i
    OBVIOUS
  <2> QED
    BY Slice, <2>1, <2>2
<1> HIDE DEF t, u
<1>3. ASSUME NEW i \in DOMAIN t, NEW j \in DOMAIN u
      PROVE  t[i] < u[j]
  <2>1. i < k + j
    BY <1>1, <1>2
  <2> QED
    BY <1>1, <1>2, <2>1 DEF Stream!Increasing
<1> QED
  BY <1>3 DEF t, u, Before

\* Ordered sequences in order make an ordered one, and it keeps its side.
LEMMA JoinOrdered ==
    ASSUME NEW S, NEW s \in Seq(S), NEW t \in Seq(S)
    PROVE  /\ Stream!Increasing(s) /\ Stream!Increasing(t) /\ Before(s, t)
                  => Stream!Increasing(s \o t)
           /\ \A u : Before(u, s) /\ Before(u, t) => Before(u, s \o t)
           /\ \A u : Before(s, u) /\ Before(t, u) => Before(s \o t, u)
<1> DEFINE r == s \o t
<1>1. \A i \in DOMAIN r :
          \/ i \in DOMAIN s /\ r[i] = s[i]
          \/ i - Len(s) \in DOMAIN t /\ i > Len(s) /\ r[i] = t[i - Len(s)]
  BY Joint
<1>2. DOMAIN r \subseteq Nat /\ Len(s) \in Nat /\ DOMAIN s = 1..Len(s)
  BY Joint
<1> HIDE DEF r
<1>3. ASSUME Stream!Increasing(s), Stream!Increasing(t), Before(s, t),
             NEW i \in DOMAIN r, NEW j \in DOMAIN r, i < j
      PROVE  r[i] < r[j]
  <2>1. CASE i \in DOMAIN s /\ r[i] = s[i] /\ j \in DOMAIN s /\ r[j] = s[j]
    BY <1>3, <2>1 DEF Stream!Increasing
  <2>2. CASE /\ i \in DOMAIN s /\ r[i] = s[i]
             /\ j - Len(s) \in DOMAIN t /\ r[j] = t[j - Len(s)]
    BY <1>3, <2>2 DEF Before
  <2>3. CASE /\ i - Len(s) \in DOMAIN t /\ r[i] = t[i - Len(s)]
             /\ j - Len(s) \in DOMAIN t /\ r[j] = t[j - Len(s)]
    <3>1. i - Len(s) < j - Len(s)
      BY <1>2, <1>3
    <3> QED
      BY <1>3, <2>3, <3>1 DEF Stream!Increasing
  <2>4. ~(i > Len(s) /\ j \in DOMAIN s)
    BY <1>2, <1>3
  <2> QED
    BY <1>1, <2>1, <2>2, <2>3, <2>4
<1>4. ASSUME NEW u, Before(u, s), Before(u, t)
      PROVE  Before(u, r)
  BY <1>1, <1>4 DEF Before
<1>5. ASSUME NEW u, Before(s, u), Before(t, u)
      PROVE  Before(r, u)
  BY <1>1, <1>5 DEF Before
<1> QED
  BY <1>3, <1>4, <1>5 DEF r, Stream!Increasing

\* The empty sequence is on every side of every other.
LEMMA EmptyOrdered ==
    /\ Stream!Increasing(<<>>)
    /\ \A u : Before(u, <<>>) /\ Before(<<>>, u)
  BY DEF Stream!Increasing, Before

\* A sequence over a set is one over a larger set.
LEMMA WiderSeq ==
    ASSUME NEW S, NEW T, S \subseteq T, NEW s \in Seq(S)
    PROVE  s \in Seq(T)
  OBVIOUS

-----------------------------------------------------------------------------
(* The inductive invariant.                                                  *)

\* From the device back to the last write, the samples are in order.
InOrder ==
    /\ Stream!Increasing(rendered) /\ Stream!Increasing(hand)
    /\ Stream!Increasing(residue) /\ Stream!Increasing(queue)
    /\ Before(rendered, hand) /\ Before(rendered, residue) /\ Before(rendered, queue)
    /\ Before(hand, residue) /\ Before(hand, queue)
    /\ Before(residue, queue)

\* Which parts of the line the writer's step leaves empty, and why it flushes.
Stages ==
    /\ writer = "pace" => Len(hand) = Chunk
    /\ writer # "pace" => hand = <<>>
    /\ writer = "gone" => residue = <<>>
    /\ writer = "flush" => stopFlag
    /\ opened.sample <= written

IInv == TypeOK /\ InOrder /\ Stages /\ ClientOutlivesWriter /\ Accounted

LEMMA InitInv == Init => IInv
<1> SUFFICES ASSUME Init PROVE IInv
  OBVIOUS
<1>1. TypeOK
  <2>1. <<>> \in Seq(Samples) /\ Len(<<>>) = 0
    OBVIOUS
  <2>2. opened \in [sample : Nat, errors : Nat]
    BY DEF Init
  <2>3. 0 <= Capacity /\ 0 < Chunk /\ 0 \in Nat
    BY SizesAssumption
  <2>4. MaxStarts \in Nat /\ SourceRate \in MixRates \cup {SourceRate}
    BY SizesAssumption
  <2> QED
    BY <2>1, <2>2, <2>3, <2>4, Zenon DEF Init, TypeOK, WriterSteps
<1>2. InOrder
  BY EmptyOrdered DEF Init, InOrder
<1>3. Stages /\ ClientOutlivesWriter /\ Accounted
  BY DEF Init, Stages, ClientOutlivesWriter, Accounted
<1> QED
  BY <1>1, <1>2, <1>3 DEF IInv

\* A batch is in order and newer than everything written before.
LEMMA BatchOrdered ==
    ASSUME TypeOK, Stages, NEW n \in Nat \ {0},
           NEW batch, batch = [i \in 1..n |-> written + i]
    PROVE  /\ batch \in Seq((opened.sample + 1)..(written + n)) /\ Len(batch) = n
           /\ Stream!Increasing(batch)
           /\ \A s \in Seq(Samples) : Before(s, batch)
<1>1. written \in Nat /\ opened.sample \in Nat /\ opened.sample <= written
  BY DEF TypeOK, Stages
<1>2. /\ batch \in Seq((opened.sample + 1)..(written + n)) /\ Len(batch) = n
      /\ DOMAIN batch = 1..n
  <2>1. \A i \in 1..n : written + i \in (opened.sample + 1)..(written + n)
    BY <1>1
  <2>2. batch \in [1..n -> (opened.sample + 1)..(written + n)]
    BY <2>1
  <2> QED
    BY <2>2
<1>3. Stream!Increasing(batch)
  BY <1>1, <1>2 DEF Stream!Increasing
<1>4. ASSUME NEW s \in Seq(Samples) PROVE Before(s, batch)
  <2>1. \A i \in DOMAIN s : s[i] \in Samples
    OBVIOUS
  <2>2. \A i \in DOMAIN s, j \in 1..n : s[i] < written + j
    BY <1>1, <2>1 DEF Samples
  <2> QED
    BY <1>2, <2>2 DEF Before
<1> QED
  BY <1>2, <1>3, <1>4

\* The queue after a push: bounded, in order, on its side of the line, and
\* every sample is in it or counted.
LEMMA PushKeeps ==
    ASSUME TypeOK, InOrder, Stages, NEW n \in BatchSizes,
           Push([i \in 1..n |-> written + i])
    PROVE  /\ queue' \in Seq((opened.sample + 1)..(written + n)) /\ Len(queue') <= Capacity
           /\ dropped' \in Nat
           /\ dropped' + Len(queue') = dropped + Len(queue) + n
           /\ Stream!Increasing(queue')
           /\ \A s \in Seq(Samples) : Before(s, queue) => Before(s, queue')
           /\ dropped' > dropped => Len(queue') = Capacity
<1> DEFINE batch == [i \in 1..n |-> written + i]
           wider == (opened.sample + 1)..(written + n)
<1>1. n \in Nat \ {0} /\ Capacity \in Nat \ {0}
  BY SizesAssumption
<1>2. /\ batch \in Seq(wider) /\ Len(batch) = n
      /\ Stream!Increasing(batch)
      /\ \A s \in Seq(Samples) : Before(s, batch)
  BY <1>1, BatchOrdered
<1>3. queue \in Seq(wider) /\ queue \in Seq(Samples) /\ Len(queue) <= Capacity /\ dropped \in Nat
  <2>1. Samples \subseteq wider
    BY <1>1 DEF Samples, TypeOK
  <2> QED
    BY <2>1, WiderSeq DEF TypeOK
<1>4. Stream!Increasing(queue) /\ Before(queue, batch)
  BY <1>2, <1>3 DEF InOrder
<1>5. Push(batch)
  OBVIOUS
<1> HIDE DEF batch, wider
<1>6. CASE Len(batch) >= Capacity
  <2>1. /\ queue' = SubSeq(batch, n - Capacity + 1, n)
        /\ dropped' = dropped + Len(queue) + (n - Capacity)
    BY <1>1, <1>2, <1>5, <1>6 DEF Push, Suffix
  <2>2. n - Capacity + 1 \in Nat \ {0} /\ n - Capacity + 1 <= n /\ n \in Nat
    BY <1>1, <1>2, <1>6
  <2>3. queue' \in Seq(wider) /\ Len(queue') = n - (n - Capacity + 1) + 1
    BY <1>2, <2>1, <2>2, Slice
  <2>4. /\ Stream!Increasing(queue')
        /\ \A s \in Seq(Samples) : Before(s, queue')
    <3>1. /\ Stream!Increasing(batch) => Stream!Increasing(queue')
          /\ \A s : Before(s, batch) => Before(s, queue')
      BY <1>2, <2>1, <2>2, SliceOrdered
    <3> QED
      BY <1>2, <3>1
  <2>5. Len(queue') = Capacity
    BY <1>1, <2>3
  <2>6. dropped' \in Nat /\ dropped' + Len(queue') = dropped + Len(queue) + n
    BY <1>1, <1>2, <1>3, <1>6, <2>1, <2>5
  <2> QED
    BY <1>1, <2>3, <2>4, <2>5, <2>6 DEF wider
<1>7. CASE Len(batch) < Capacity
  <2> DEFINE over == Overflow(batch)
             kept == SubSeq(queue, over + 1, Len(queue))
  <2>1. /\ over \in Nat /\ over <= Len(queue)
        /\ over >= n - (Capacity - Len(queue))
    BY <1>1, <1>2, <1>3, <1>7 DEF Overflow
  <2>2. queue' = kept \o batch /\ dropped' = dropped + over
    <3>1. ~(Len(batch) >= Capacity)
      BY <1>1, <1>2, <1>7
    <3> QED
      BY <1>5, <3>1, Zenon DEF Push
  <2> HIDE DEF over
  <2>3. over + 1 \in Nat \ {0} /\ Len(queue) \in Nat
    BY <1>3, <2>1
  <2>4. /\ kept \in Seq(wider)
        /\ Len(kept) = IF over + 1 <= Len(queue) THEN Len(queue) - (over + 1) + 1 ELSE 0
    BY <1>3, <2>3, Slice
  <2>5. /\ Stream!Increasing(kept)
        /\ \A s : Before(s, queue) => Before(s, kept)
        /\ Before(kept, batch)
    BY <1>3, <1>4, <2>3, SliceOrdered
  <2>6. Len(kept) = Len(queue) - over
    BY <2>1, <2>3, <2>4
  <2> HIDE DEF kept
  <2>7. queue' \in Seq(wider) /\ Len(queue') = Len(kept) + n
    BY <1>2, <2>2, <2>4, Joint
  <2>8. /\ Stream!Increasing(queue')
        /\ \A s : Before(s, kept) /\ Before(s, batch) => Before(s, queue')
    BY <1>2, <2>2, <2>4, <2>5, JoinOrdered
  <2>9. \A s \in Seq(Samples) : Before(s, queue) => Before(s, queue')
    BY <1>2, <2>5, <2>8
  <2>10. Len(queue') <= Capacity /\ dropped' \in Nat
         /\ dropped' + Len(queue') = dropped + Len(queue) + n
    BY <1>1, <1>3, <2>1, <2>2, <2>3, <2>6, <2>7
  <2>11. dropped' > dropped => Len(queue') = Capacity
    <3>1. over > 0 => over = n - (Capacity - Len(queue))
      BY <1>1, <1>2, <1>3 DEF over, Overflow
    <3> QED
      BY <1>1, <1>3, <2>1, <2>2, <2>3, <2>6, <2>7, <3>1
  <2> QED
    BY <2>7, <2>8, <2>9, <2>10, <2>11 DEF wider
<1> QED
  BY <1>1, <1>2, <1>6, <1>7

-----------------------------------------------------------------------------
(* The steps of the owner and of the device.                                 *)

LEMMA FramesNat == TypeOK => ChunkFrames \in Nat
<1>1. Taps \in Nat /\ Chunk \in Nat
  BY SizesAssumption DEF Taps
<1>2. \A m, n \in Nat : m * n \in Nat
  OBVIOUS
<1> QED
  BY <1>1, <1>2 DEF ChunkFrames

\* A step that leaves the line, the writer and the client alone.
LEMMA QuietKeeps ==
    ASSUME IInv, TypeOK', stopFlag => stopFlag',
           UNCHANGED <<queueVars, writerVars, client, errors, rendered, history>>
    PROVE  IInv'
<1>1. InOrder'
  BY DEF IInv, InOrder, queueVars, writerVars, Stream!Increasing, Before
<1>2. Stages' /\ ClientOutlivesWriter'
  BY DEF IInv, Stages, ClientOutlivesWriter, writerVars, history
<1>3. Accounted'
  BY DEF IInv, Accounted, queueVars, writerVars, history
<1> QED
  BY <1>1, <1>2, <1>3 DEF IInv

LEMMA QuietSteps ==
    ASSUME IInv, Finish \/ Drained \/ DrainTimesOut \/ Stop \/ DevicePlays \/ DeviceLost
    PROVE  IInv'
<1>1. UNCHANGED <<queueVars, writerVars, client, errors, rendered, history>>
  BY DEF Finish, Drained, DrainTimesOut, Stop, DevicePlays, DeviceLost, deviceVars
<1>2. Samples' = Samples
  BY <1>1 DEF Samples, history
<1>3. owner' \in {"free", "drain", "stop", "close"}
  BY DEF IInv, TypeOK, Finish, Drained, DrainTimesOut, Stop, DevicePlays, DeviceLost, ownerVars
<1>4. running' \in BOOLEAN /\ stopFlag' \in BOOLEAN
  BY DEF IInv, TypeOK, Finish, Drained, DrainTimesOut, Stop, DevicePlays, DeviceLost, ownerVars
<1>5. mixRate' = mixRate /\ starts' = starts
  BY DEF Finish, Drained, DrainTimesOut, Stop, DevicePlays, DeviceLost, deviceVars
<1>6. padding' \in Nat /\ lost' \in BOOLEAN
  <2>1. CASE Finish \/ Drained \/ DrainTimesOut \/ Stop
    BY <2>1 DEF IInv, TypeOK, Finish, Drained, DrainTimesOut, Stop, deviceVars
  <2>2. CASE DevicePlays
    BY <2>2 DEF IInv, TypeOK, DevicePlays
  <2>3. CASE DeviceLost
    <3>1. padding' = padding \/ padding' = 0
      BY <2>3 DEF DeviceLost
    <3> QED
      BY <2>3, <3>1 DEF IInv, TypeOK, DeviceLost
  <2> QED
    BY <2>1, <2>2, <2>3
<1>7. TypeOK'
  BY <1>1, <1>2, <1>3, <1>4, <1>5, <1>6 DEF IInv, TypeOK, queueVars, writerVars, history
<1>8. stopFlag => stopFlag'
  BY DEF Finish, Drained, DrainTimesOut, Stop, DevicePlays, DeviceLost, ownerVars
<1> QED
  BY <1>1, <1>7, <1>8, QuietKeeps

\* A start begins with an empty line.
LEMMA StartKeeps ==
    ASSUME IInv, NEW rate \in MixRates, Start(rate)
    PROVE  IInv'
<1>1. /\ queue' = <<>> /\ residue' = <<>> /\ hand' = <<>> /\ rendered' = <<>>
      /\ dropped' = 0 /\ writer' = "take" /\ client' = TRUE
      /\ written' = written /\ errors' = errors
      /\ opened' = [sample |-> written, errors |-> errors]
  BY DEF Start
<1>2. TypeOK'
  <2>1. /\ <<>> \in Seq(Samples') /\ Len(<<>>) = 0
        /\ 0 <= Capacity /\ 0 < Chunk /\ 0 \in Nat
    BY SizesAssumption
  <2>2. opened' \in [sample : Nat, errors : Nat]
    BY <1>1 DEF IInv, TypeOK
  <2>3. starts' \in Nat
    BY DEF Start, IInv, TypeOK
  <2>4. /\ owner' = owner /\ running' = TRUE /\ stopFlag' = FALSE
        /\ mixRate' = rate /\ padding' = 0 /\ lost' = FALSE
    BY DEF Start
  <2> QED
    BY <1>1, <2>1, <2>2, <2>3, <2>4, Zenon DEF IInv, TypeOK, WriterSteps
<1>3. InOrder'
  BY <1>1, EmptyOrdered DEF InOrder, Stream!Increasing, Before
<1>4. Stages' /\ ClientOutlivesWriter'
  BY <1>1 DEF IInv, TypeOK, Stages, ClientOutlivesWriter
<1>5. Accounted'
  <2>1. written \in Nat /\ errors \in Nat /\ Chunk \in Nat
    BY SizesAssumption DEF IInv, TypeOK
  <2>2. Chunk * (errors - errors) = 0
    BY <2>1
  <2>3. written - written = 0 + 0 + 0 + 0 + 0 + 0
    BY <2>1
  <2>4. opened'.sample = written /\ opened'.errors = errors
    BY <1>1
  <2> QED
    BY <1>1, <2>2, <2>3, <2>4 DEF Accounted
<1> QED
  BY <1>2, <1>3, <1>4, <1>5 DEF IInv

\* Addition as the books write it.
LEMMA Regroup ==
    ASSUME NEW a \in Int, NEW b \in Int, NEW c \in Int, NEW d \in Int, NEW e \in Int, NEW f \in Int
    PROVE  a + b + c + d + e + f = a + b + (c + d + e + f)
  OBVIOUS

LEMMA WriteKeeps ==
    ASSUME IInv, NEW n \in BatchSizes, Write(n)
    PROVE  IInv'
<1>1. /\ written' = written + n
      /\ UNCHANGED <<ownerVars, writerVars, deviceVars, errors, rendered, opened, starts>>
      /\ Push([i \in 1..n |-> written + i])
  BY DEF Write
<1>2. n \in Nat \ {0} /\ written \in Nat /\ opened.sample \in Nat
  BY SizesAssumption DEF IInv, TypeOK
<1>3. Samples' = (opened.sample + 1)..(written + n) /\ Samples \subseteq Samples'
  BY <1>1, <1>2 DEF Samples
<1>4. /\ queue' \in Seq(Samples') /\ Len(queue') <= Capacity /\ dropped' \in Nat
      /\ dropped' + Len(queue') = dropped + Len(queue) + n
      /\ Stream!Increasing(queue')
      /\ \A s \in Seq(Samples) : Before(s, queue) => Before(s, queue')
  BY <1>1, <1>3, PushKeeps DEF IInv
<1>5. rendered \in Seq(Samples) /\ hand \in Seq(Samples) /\ residue \in Seq(Samples)
  BY DEF IInv, TypeOK
<1>6. rendered' \in Seq(Samples') /\ hand' \in Seq(Samples') /\ residue' \in Seq(Samples')
  BY <1>1, <1>3, <1>5, WiderSeq DEF writerVars
<1>7. TypeOK'
  BY <1>1, <1>2, <1>4, <1>6 DEF IInv, TypeOK, ownerVars, writerVars, deviceVars
<1>8. InOrder'
  <2>1. Before(rendered, queue') /\ Before(hand, queue') /\ Before(residue, queue')
    BY <1>4, <1>5 DEF IInv, InOrder
  <2>2. rendered' = rendered /\ hand' = hand /\ residue' = residue
    BY <1>1 DEF writerVars
  <2> QED
    BY <1>4, <2>1, <2>2 DEF IInv, InOrder, Before, Stream!Increasing
<1>9. Stages' /\ ClientOutlivesWriter'
  BY <1>1, <1>2 DEF IInv, Stages, ClientOutlivesWriter, writerVars, deviceVars, ownerVars
<1>10. Accounted'
  <2>1. /\ Len(queue) \in Nat /\ Len(queue') \in Nat /\ Len(residue) \in Nat
        /\ Len(hand) \in Nat /\ Len(rendered) \in Nat /\ dropped \in Nat
    BY <1>4 DEF IInv, TypeOK
  <2>2. Chunk * (errors - opened.errors) \in Int
    BY SizesAssumption DEF IInv, TypeOK
  <2>3. /\ writer' = writer /\ residue' = residue /\ hand' = hand
        /\ rendered' = rendered /\ errors' = errors /\ opened' = opened
    BY <1>1 DEF writerVars
  <2> DEFINE cost == Chunk * (errors - opened.errors)
  <2>4. cost' = cost
    BY <2>3
  <2> HIDE DEF cost
  <2>5. cost \in Int
    BY <2>2 DEF cost
  <2> DEFINE rest == Len(residue) + Len(hand) + Len(rendered) + cost
  <2>6. ASSUME writer \in {"take", "pace"}
        PROVE  (written + n) - opened.sample
                   = dropped' + Len(queue') + Len(residue) + Len(hand) + Len(rendered) + cost
    <3>1. written - opened.sample
              = dropped + Len(queue) + Len(residue) + Len(hand) + Len(rendered) + cost
      BY <2>6 DEF IInv, Accounted, cost
    <3>2. written - opened.sample = dropped + Len(queue) + rest
      BY <2>1, <2>5, <3>1, Regroup
    <3>3. rest \in Int
      BY <2>1, <2>5
    <3> HIDE DEF rest
    <3>4. /\ dropped' + Len(queue') = dropped + Len(queue) + n
          /\ dropped' \in Nat /\ dropped \in Nat
          /\ Len(queue') \in Nat /\ Len(queue) \in Nat
          /\ n \in Nat /\ written \in Nat /\ opened.sample \in Nat
      BY <1>2, <1>4, <2>1
    <3>5. (written + n) - opened.sample = dropped' + Len(queue') + rest
      <4> DEFINE base == opened.sample
      <4>1. written - base = dropped + Len(queue) + rest /\ base \in Nat
        BY <3>2, <3>4
      <4> HIDE DEF base
      <4>2. (written + n) - base = dropped' + Len(queue') + rest
        BY <3>3, <3>4, <4>1
      <4> QED
        BY <4>2 DEF base
    <3> QED
      BY <1>4, <2>1, <2>5, <3>5, Regroup DEF rest
  <2> HIDE DEF rest
  <2>7. opened'.sample = opened.sample
    BY <2>3
  <2>8. writer' \in {"take", "pace"} =>
            written' - opened'.sample
                = dropped' + Len(queue') + Len(residue') + Len(hand') + Len(rendered') + cost'
    <3>1. written' - opened'.sample = (written + n) - opened.sample
      BY <1>1, <2>7
    <3>2. dropped' + Len(queue') + Len(residue') + Len(hand') + Len(rendered') + cost'
              = dropped' + Len(queue') + Len(residue) + Len(hand) + Len(rendered) + cost
      BY <2>3, <2>4
    <3>3. writer' = writer
      BY <2>3
    <3> QED
      BY <2>6, <3>1, <3>2, <3>3
  <2> QED
    BY <2>8 DEF Accounted, cost
<1> QED
  BY <1>7, <1>8, <1>9, <1>10 DEF IInv

LEMMA CloseKeeps ==
    ASSUME IInv, Close
    PROVE  IInv'
<1>1. /\ writer = "gone" /\ writer' = "gone" /\ residue' = residue /\ hand' = hand
      /\ queue' = <<>> /\ dropped' = 0 /\ client' = FALSE
      /\ rendered' = rendered /\ errors' = errors /\ UNCHANGED history
  BY DEF Close, Joined, writerVars
<1>2. Samples' = Samples
  BY <1>1 DEF Samples, history
<1>3. TypeOK'
  <2>1. <<>> \in Seq(Samples') /\ Len(<<>>) = 0 /\ 0 <= Capacity /\ 0 \in Nat
    BY SizesAssumption
  <2>2. /\ owner' = "free" /\ running' = running /\ stopFlag' = stopFlag
        /\ padding' = 0 /\ lost' = lost /\ mixRate' = mixRate /\ starts' = starts
    BY DEF Close
  <2> QED
    BY <1>1, <1>2, <2>1, <2>2 DEF IInv, TypeOK, history
<1>4. InOrder'
  BY <1>1, EmptyOrdered DEF IInv, InOrder, Stream!Increasing, Before
<1>5. Stages' /\ ClientOutlivesWriter' /\ Accounted'
  BY <1>1 DEF IInv, Stages, ClientOutlivesWriter, Accounted, history
<1> QED
  BY <1>3, <1>4, <1>5 DEF IInv

-----------------------------------------------------------------------------
(* The steps of the writer.                                                  *)

\* What the writer takes off the queue joins its residue; what it leaves stays
\* behind that.
LEMMA TakeLine ==
    ASSUME IInv, NEW n \in Nat \ {0}, n <= Len(queue),
           NEW taken, taken = Collected(n),
           NEW rest, rest = SubSeq(queue, n + 1, Len(queue))
    PROVE  /\ taken \in Seq(Samples) /\ Len(taken) = Len(residue) + n
           /\ rest \in Seq(Samples) /\ Len(rest) = Len(queue) - n
           /\ Stream!Increasing(taken) /\ Stream!Increasing(rest)
           /\ Before(taken, rest)
           /\ Before(rendered, taken) /\ Before(rendered, rest)
<1> DEFINE front == SubSeq(queue, 1, n)
<1>1. /\ queue \in Seq(Samples) /\ residue \in Seq(Samples) /\ rendered \in Seq(Samples)
      /\ Len(queue) \in Nat
  BY DEF IInv, TypeOK
<1>2. front \in Seq(Samples) /\ Len(front) = n
  BY <1>1, Slice
<1>3. rest \in Seq(Samples) /\ Len(rest) = Len(queue) - n
  <2>1. n + 1 \in Nat \ {0} /\ Len(queue) <= Len(queue)
    BY <1>1
  <2>2. /\ rest \in Seq(Samples)
        /\ Len(rest) = IF n + 1 <= Len(queue) THEN Len(queue) - (n + 1) + 1 ELSE 0
    BY <1>1, <2>1, Slice
  <2> QED
    BY <1>1, <2>2
<1>4. /\ Stream!Increasing(front)
      /\ \A u : Before(u, queue) => Before(u, front)
  BY <1>1, SliceOrdered DEF IInv, InOrder
<1>5. /\ Stream!Increasing(rest)
      /\ \A u : Before(u, queue) => Before(u, rest)
  BY <1>1, SliceOrdered DEF IInv, InOrder
<1>6. Before(front, rest)
  BY <1>1, SplitOrdered DEF IInv, InOrder
<1>7. taken = residue \o front
  BY DEF Collected
<1> HIDE DEF front
<1>8. taken \in Seq(Samples) /\ Len(taken) = Len(residue) + n
  <2>1. /\ residue \o front \in Seq(Samples)
        /\ Len(residue \o front) = Len(residue) + Len(front)
    BY <1>1, <1>2, Joint
  <2> QED
    BY <1>2, <1>7, <2>1
<1>9. /\ Before(residue, front) /\ Before(residue, rest)
      /\ Before(rendered, front) /\ Before(rendered, rest) /\ Before(rendered, residue)
  BY <1>4, <1>5 DEF IInv, InOrder
<1>10. /\ Stream!Increasing(taken) /\ Before(taken, rest) /\ Before(rendered, taken)
  BY <1>1, <1>2, <1>4, <1>6, <1>7, <1>9, JoinOrdered DEF IInv, InOrder
<1> QED
  BY <1>3, <1>5, <1>8, <1>9, <1>10

LEMMA TakeKeeps ==
    ASSUME IInv, Take
    PROVE  IInv'
<1> DEFINE n == Shorter(Chunk, Len(queue))
           taken == Collected(n)
           rest == SubSeq(queue, n + 1, Len(queue))
<1>1. /\ writer = "take" /\ queue # <<>> /\ Cut(taken) /\ queue' = rest
      /\ UNCHANGED <<ownerVars, dropped, deviceVars, errors, rendered, history, starts>>
  BY DEF Take
<1>2. /\ Chunk \in Nat \ {0} /\ Len(queue) \in Nat /\ Len(queue) # 0
      /\ Len(residue) \in Nat /\ Len(residue) < Chunk
  BY <1>1, SizesAssumption DEF IInv, TypeOK
<1>3. n \in Nat \ {0} /\ n <= Len(queue) /\ n <= Chunk
  BY <1>2 DEF Shorter
<1> HIDE DEF n
<1>4. /\ taken \in Seq(Samples) /\ Len(taken) = Len(residue) + n
      /\ rest \in Seq(Samples) /\ Len(rest) = Len(queue) - n
      /\ Stream!Increasing(taken) /\ Stream!Increasing(rest)
      /\ Before(taken, rest)
      /\ Before(rendered, taken) /\ Before(rendered, rest)
  BY <1>3, TakeLine
<1>5. hand = <<>> /\ client = TRUE
  BY <1>1 DEF IInv, Stages, ClientOutlivesWriter, TypeOK
<1>6. Samples' = Samples
  BY <1>1 DEF Samples, history
<1> HIDE DEF taken, rest
\* What becomes of the residue and of the hand in either case.
<1>7. /\ writer' \in {"take", "pace"}
      /\ residue' \in Seq(Samples) /\ Len(residue') < Chunk
      /\ hand' \in Seq(Samples) /\ Len(hand') \in {0, Chunk}
      /\ Len(residue') + Len(hand') = Len(taken)
      /\ writer' = "pace" => Len(hand') = Chunk
      /\ writer' # "pace" => hand' = <<>>
      /\ Stream!Increasing(residue') /\ Stream!Increasing(hand')
      /\ Before(hand', residue') /\ Before(hand', rest) /\ Before(residue', rest)
      /\ Before(rendered, hand') /\ Before(rendered, residue')
  <2>1. CASE /\ Len(taken) < Chunk
             /\ residue' = taken /\ hand' = <<>> /\ writer' = "take"
    <3>1. Len(hand') = 0 /\ Len(taken) + 0 = Len(taken) /\ hand' \in Seq(Samples)
      BY <1>2, <1>3, <1>4, <2>1
    <3> QED
      BY <1>4, <2>1, <3>1, EmptyOrdered
  <2>2. CASE /\ Len(taken) >= Chunk
             /\ hand' = SubSeq(taken, 1, Chunk)
             /\ residue' = SubSeq(taken, Chunk + 1, Len(taken)) /\ writer' = "pace"
    <3>1. hand' \in Seq(Samples) /\ Len(hand') = Chunk
      BY <1>2, <1>4, <2>2, Slice
    <3>2. residue' \in Seq(Samples) /\ Len(residue') = Len(taken) - Chunk
      <4>1. Len(taken) \in Nat
        BY <1>4
      <4>2. Len(residue') = IF Chunk + 1 <= Len(taken) THEN Len(taken) - (Chunk + 1) + 1 ELSE 0
        BY <1>2, <1>4, <2>2, <4>1, Slice
      <4>3. residue' \in Seq(Samples)
        BY <1>2, <1>4, <2>2, <4>1, Slice
      <4> QED
        BY <1>2, <2>2, <4>1, <4>2, <4>3
    <3>3. /\ Stream!Increasing(hand')
          /\ \A u : Before(u, taken) => Before(u, hand')
          /\ \A u : Before(taken, u) => Before(hand', u)
      BY <1>2, <1>4, <2>2, SliceOrdered
    <3>4. /\ Stream!Increasing(residue')
          /\ \A u : Before(u, taken) => Before(u, residue')
          /\ \A u : Before(taken, u) => Before(residue', u)
      <4>1. Chunk + 1 \in Nat \ {0} /\ Len(taken) \in Nat /\ Len(taken) <= Len(taken)
        BY <1>2, <1>4
      <4> QED
        BY <1>4, <2>2, <4>1, SliceOrdered
    <3>5. Before(hand', residue')
      BY <1>2, <1>4, <2>2, SplitOrdered
    <3>6. Len(residue') < Chunk /\ Len(residue') + Len(hand') = Len(taken)
      BY <1>2, <1>3, <1>4, <3>1, <3>2
    <3> QED
      BY <1>4, <2>2, <3>1, <3>2, <3>3, <3>4, <3>5, <3>6
  <2> QED
    BY <1>1, <2>1, <2>2, Zenon DEF Cut
<1>8. TypeOK'
  <2>1. Len(rest) <= Capacity
    BY <1>2, <1>3, <1>4, SizesAssumption DEF IInv, TypeOK
  <2> QED
    BY <1>1, <1>4, <1>6, <1>7, <2>1
       DEF IInv, TypeOK, ownerVars, deviceVars, history, WriterSteps
<1>9. InOrder'
  <2>1. rendered' = rendered /\ queue' = rest
    BY <1>1
  <2> QED
    BY <1>4, <1>7, <2>1 DEF IInv, InOrder, Before, Stream!Increasing
<1>10. Stages' /\ ClientOutlivesWriter'
  BY <1>1, <1>5, <1>7 DEF IInv, Stages, ClientOutlivesWriter, deviceVars, history
<1>11. Accounted'
  <2> DEFINE cost == Chunk * (errors - opened.errors)
             gone == written - opened.sample
  <2>1. gone' = gone /\ cost' = cost /\ rendered' = rendered /\ dropped' = dropped
    BY <1>1 DEF history
  <2>2. gone = dropped + Len(queue) + Len(residue) + Len(hand) + Len(rendered) + cost
    BY <1>1 DEF IInv, Accounted
  <2>3. cost \in Int /\ dropped \in Nat /\ Len(rendered) \in Nat
    BY SizesAssumption DEF IInv, TypeOK
  <2> HIDE DEF cost, gone
  <2>4. /\ Len(queue') = Len(queue) - n /\ Len(hand) = 0
        /\ Len(residue') + Len(hand') = Len(residue) + n
        /\ Len(residue') \in Nat /\ Len(hand') \in Nat
    BY <1>1, <1>2, <1>3, <1>4, <1>5, <1>7
  <2>5. gone = dropped + Len(queue') + Len(residue') + Len(hand') + Len(rendered) + cost
    BY <1>2, <1>3, <2>2, <2>3, <2>4
  <2>6. gone' = dropped' + Len(queue') + Len(residue') + Len(hand') + Len(rendered') + cost'
    BY <2>1, <2>5
  <2> QED
    BY <2>6 DEF Accounted, cost, gone
<1> QED
  BY <1>8, <1>9, <1>10, <1>11 DEF IInv

\* Samples handed over extend what was rendered, or cost an error.
LEMMA HandOverLine ==
    ASSUME TypeOK, NEW s \in Seq(Samples), HandOver(s),
           Stream!Increasing(rendered), Stream!Increasing(s), Before(rendered, s)
    PROVE  /\ rendered' \in Seq(Samples) /\ Stream!Increasing(rendered')
           /\ \A u : Before(rendered, u) /\ Before(s, u) => Before(rendered', u)
           /\ padding' \in Nat /\ errors' \in Nat
           /\ \/ errors' = errors /\ Len(rendered') = Len(rendered) + Len(s)
              \/ errors' = errors + 1 /\ rendered' = rendered
<1>1. rendered \in Seq(Samples) /\ padding \in Nat /\ errors \in Nat
  BY DEF TypeOK
<1>2. CASE /\ rendered' = rendered \o s
           /\ padding' = padding + ChunkFrames
           /\ UNCHANGED errors
  <2>1. /\ rendered \o s \in Seq(Samples)
        /\ Len(rendered \o s) = Len(rendered) + Len(s)
    BY <1>1, Joint
  <2>2. /\ Stream!Increasing(rendered \o s)
        /\ \A u : Before(rendered, u) /\ Before(s, u) => Before(rendered \o s, u)
    BY <1>1, JoinOrdered
  <2>3. padding' \in Nat
    BY <1>1, <1>2, FramesNat
  <2> QED
    BY <1>1, <1>2, <2>1, <2>2, <2>3
<1>3. CASE errors' = errors + 1 /\ UNCHANGED <<rendered, padding>>
  BY <1>1, <1>3 DEF Stream!Increasing
<1> QED
  BY <1>2, <1>3, Zenon DEF HandOver

LEMMA RenderKeeps ==
    ASSUME IInv, Render
    PROVE  IInv'
<1>1. /\ writer = "pace" /\ HandOver(hand) /\ hand' = <<>> /\ writer' = "take"
      /\ UNCHANGED <<ownerVars, queueVars, residue, client, mixRate, lost, history, starts>>
  BY DEF Render
<1>2. hand \in Seq(Samples) /\ Len(hand) = Chunk /\ Chunk \in Nat
  BY <1>1, SizesAssumption DEF IInv, TypeOK, Stages
<1>3. /\ rendered' \in Seq(Samples) /\ Stream!Increasing(rendered')
      /\ \A u : Before(rendered, u) /\ Before(hand, u) => Before(rendered', u)
      /\ padding' \in Nat /\ errors' \in Nat
      /\ \/ errors' = errors /\ Len(rendered') = Len(rendered) + Len(hand)
         \/ errors' = errors + 1 /\ rendered' = rendered
  BY <1>1, <1>2, HandOverLine DEF IInv, InOrder
<1>4. Samples' = Samples
  BY <1>1 DEF Samples, history
<1>5. <<>> \in Seq(Samples) /\ Len(<<>>) = 0
  OBVIOUS
<1>6. TypeOK'
  BY <1>1, <1>3, <1>4, <1>5 DEF IInv, TypeOK, ownerVars, queueVars, history, WriterSteps
<1>7. InOrder'
  <2>1. Before(rendered', residue) /\ Before(rendered', queue)
    BY <1>3 DEF IInv, InOrder
  <2>2. residue' = residue /\ queue' = queue
    BY <1>1 DEF queueVars
  <2> QED
    BY <1>1, <1>3, <2>1, <2>2, EmptyOrdered DEF IInv, InOrder, Before, Stream!Increasing
<1>8. Stages' /\ ClientOutlivesWriter'
  BY <1>1 DEF IInv, Stages, ClientOutlivesWriter, history
<1>9. Accounted'
  <2> DEFINE base == opened.errors
             gone == written - opened.sample
  <2>1. gone = dropped + Len(queue) + Len(residue) + Len(hand) + Len(rendered)
               + Chunk * (errors - base)
    BY <1>1 DEF IInv, Accounted
  <2>2. /\ gone' = gone /\ base' = base /\ dropped' = dropped /\ queue' = queue
        /\ residue' = residue
    BY <1>1 DEF history, queueVars
  <2>3. /\ dropped \in Nat /\ Len(queue) \in Nat /\ Len(residue) \in Nat
        /\ Len(rendered) \in Nat /\ errors \in Nat /\ base \in Nat
    BY DEF IInv, TypeOK
  <2> HIDE DEF base, gone
  <2>4. Chunk * (errors - base) \in Int
        /\ Chunk * ((errors + 1) - base) = Chunk * (errors - base) + Chunk
    BY <1>2, <2>3
  <2>5. Len(hand') = 0
    BY <1>1
  <2>6. gone = dropped + Len(queue) + Len(residue) + Len(hand') + Len(rendered')
               + Chunk * (errors' - base)
    <3>1. CASE errors' = errors /\ Len(rendered') = Len(rendered) + Len(hand)
      BY <1>2, <2>1, <2>3, <2>4, <2>5, <3>1
    <3>2. CASE errors' = errors + 1 /\ rendered' = rendered
      BY <1>2, <2>1, <2>3, <2>4, <2>5, <3>2
    <3> QED
      BY <1>3, <3>1, <3>2
  <2>7. gone' = dropped' + Len(queue') + Len(residue') + Len(hand') + Len(rendered')
                + Chunk * (errors' - base')
    BY <2>2, <2>6
  <2> QED
    BY <2>7 DEF Accounted, base, gone
<1> QED
  BY <1>6, <1>7, <1>8, <1>9 DEF IInv

LEMMA LeaveLoopKeeps ==
    ASSUME IInv, LeaveLoop
    PROVE  IInv'
<1>1. /\ writer # "gone" /\ stopFlag /\ hand' = <<>> /\ writer' = "flush"
      /\ UNCHANGED <<ownerVars, queueVars, residue, deviceVars, errors, rendered, history, starts>>
  BY DEF LeaveLoop
<1>2. Samples' = Samples
  BY <1>1 DEF Samples, history
<1>3. TypeOK'
  <2>1. <<>> \in Seq(Samples) /\ Len(<<>>) = 0
    OBVIOUS
  <2> QED
    BY <1>1, <1>2, <2>1
       DEF IInv, TypeOK, ownerVars, queueVars, deviceVars, history, WriterSteps
<1>4. InOrder'
  BY <1>1, EmptyOrdered DEF IInv, InOrder, Before, Stream!Increasing, queueVars
<1>5. Stages' /\ ClientOutlivesWriter' /\ Accounted'
  BY <1>1 DEF IInv, Stages, ClientOutlivesWriter, Accounted, ownerVars, deviceVars, history
<1> QED
  BY <1>3, <1>4, <1>5 DEF IInv

LEMMA FlushKeeps ==
    ASSUME IInv, Flush
    PROVE  IInv'
<1>1. /\ writer = "flush" /\ HandOver(residue) /\ residue' = <<>> /\ writer' = "gone"
      /\ UNCHANGED <<ownerVars, queueVars, hand, client, mixRate, lost, history, starts>>
  BY DEF Flush
<1>2. residue \in Seq(Samples) /\ hand = <<>>
  BY <1>1 DEF IInv, TypeOK, Stages
<1>3. /\ rendered' \in Seq(Samples) /\ Stream!Increasing(rendered')
      /\ \A u : Before(rendered, u) /\ Before(residue, u) => Before(rendered', u)
      /\ padding' \in Nat /\ errors' \in Nat
  BY <1>1, <1>2, HandOverLine DEF IInv, InOrder
<1>4. Samples' = Samples
  BY <1>1 DEF Samples, history
<1>5. TypeOK'
  <2>1. <<>> \in Seq(Samples) /\ Len(<<>>) = 0 /\ 0 < Chunk
    BY SizesAssumption
  <2> QED
    BY <1>1, <1>3, <1>4, <2>1 DEF IInv, TypeOK, ownerVars, queueVars, history, WriterSteps
<1>6. InOrder'
  <2>1. Before(rendered', queue) /\ hand' = <<>> /\ queue' = queue
    BY <1>1, <1>2, <1>3 DEF IInv, InOrder, queueVars
  <2> QED
    BY <1>1, <1>3, <2>1, EmptyOrdered DEF IInv, InOrder, Before, Stream!Increasing
<1>7. Stages' /\ ClientOutlivesWriter' /\ Accounted'
  BY <1>1, <1>2 DEF IInv, Stages, ClientOutlivesWriter, Accounted, history
<1> QED
  BY <1>5, <1>6, <1>7 DEF IInv

-----------------------------------------------------------------------------
(* The theorems.                                                             *)

LEMMA StepInv == IInv /\ [Next]_vars => IInv'
<1> SUFFICES ASSUME IInv, [Next]_vars PROVE IInv'
  OBVIOUS
<1>1. CASE \E rate \in MixRates : Start(rate)
  BY <1>1, StartKeeps
<1>2. CASE \E n \in BatchSizes : Write(n)
  BY <1>2, WriteKeeps
<1>3. CASE Finish \/ Drained \/ DrainTimesOut \/ Stop \/ DevicePlays \/ DeviceLost
  BY <1>3, QuietSteps
<1>4. CASE Close
  BY <1>4, CloseKeeps
<1>5. CASE Take
  BY <1>5, TakeKeeps
<1>6. CASE Render
  BY <1>6, RenderKeeps
<1>7. CASE LeaveLoop
  BY <1>7, LeaveLoopKeeps
<1>8. CASE Flush
  BY <1>8, FlushKeeps
<1>9. CASE UNCHANGED vars
  <2>1. /\ UNCHANGED <<queueVars, writerVars, client, errors, rendered, history>>
        /\ stopFlag' = stopFlag /\ Samples' = Samples
    BY <1>9 DEF vars, ownerVars, deviceVars, history, Samples
  <2>2. TypeOK'
    BY <1>9, <2>1 DEF vars, IInv, TypeOK, ownerVars, queueVars, writerVars, deviceVars, history
  <2> QED
    BY <2>1, <2>2, QuietKeeps
<1> QED
  BY <1>1, <1>2, <1>3, <1>4, <1>5, <1>6, <1>7, <1>8, <1>9 DEF Next, OwnerStep, WriterStep

LEMMA Invariance == Spec => []IInv
  BY InitInv, StepInv, PTL DEF Spec

\* The variables keep their types: the queue its bound, the residue less than a
\* chunk, and every sample under way is one written since the start.
THEOREM TypeCorrect == Spec => []TypeOK
<1>1. IInv => TypeOK
  BY DEF IInv
<1> QED
  BY <1>1, Invariance, PTL

\* No writer thread runs on a released client or queue.
THEOREM ClientHeld == Spec => []ClientOutlivesWriter
<1>1. IInv => ClientOutlivesWriter
  BY DEF IInv
<1> QED
  BY <1>1, Invariance, PTL

\* Every sample is somewhere in the line or counted as lost.
THEOREM NothingVanishes == Spec => []Accounted
<1>1. IInv => Accounted
  BY DEF IInv
<1> QED
  BY <1>1, Invariance, PTL

\* A step of the route is a step of the stream, or none.
LEMMA StepRefines == IInv /\ IInv' /\ [Next]_vars => [Stream!Next]_(Stream!vars)
<1> SUFFICES ASSUME IInv, IInv', [Next]_vars PROVE [Stream!Next]_(Stream!vars)
  OBVIOUS
<1>1. ASSUME NEW rate \in MixRates, Start(rate) PROVE Stream!Open
  BY <1>1 DEF Start, Stream!Open
<1>2. ASSUME NEW n \in BatchSizes, Write(n) PROVE Stream!Write
  <2>1. /\ written' = written + n /\ opened' = opened /\ rendered' = rendered
    BY <1>2 DEF Write
  <2>2. written \in Nat /\ n \in Nat \ {0}
    BY SizesAssumption DEF IInv, TypeOK
  <2>3. written' \in Nat /\ written' > written
    BY <2>1, <2>2
  <2> QED
    BY <2>1, <2>3 DEF Stream!Write
<1>3. ASSUME NEW s \in Seq(Samples), HandOver(s), UNCHANGED history
      PROVE  Stream!Deliver \/ UNCHANGED Stream!vars
  <2>1. /\ written' = written /\ opened' = opened /\ Samples' = Samples
    BY <1>3 DEF history, Samples
  <2>2. CASE rendered' = rendered
    BY <2>1, <2>2 DEF Stream!vars
  <2>3. CASE rendered' = rendered \o s
    <3>1. rendered \in Seq(Samples) /\ rendered' \in Seq(Samples)
      BY <2>1 DEF IInv, TypeOK
    <3>2. Len(rendered) <= Len(rendered') /\ SubSeq(rendered', 1, Len(rendered)) = rendered
      BY <2>3, <3>1
    <3>3. Stream!Increasing(rendered')
      BY DEF IInv, InOrder, Stream!Increasing
    <3> QED
      BY <2>1, <3>1, <3>2, <3>3 DEF Stream!Deliver, Samples
  <2> QED
    BY <1>3, <2>2, <2>3 DEF HandOver
<1>4. ASSUME Render PROVE Stream!Deliver \/ UNCHANGED Stream!vars
  <2>1. HandOver(hand) /\ UNCHANGED history /\ hand \in Seq(Samples)
    BY <1>4 DEF Render, IInv, TypeOK
  <2> QED
    BY <1>3, <2>1
<1>5. ASSUME Flush PROVE Stream!Deliver \/ UNCHANGED Stream!vars
  <2>1. HandOver(residue) /\ UNCHANGED history /\ residue \in Seq(Samples)
    BY <1>5 DEF Flush, IInv, TypeOK
  <2> QED
    BY <1>3, <2>1
<1>6. CASE Finish \/ Drained \/ DrainTimesOut \/ Stop \/ Close \/ Take \/ LeaveLoop
              \/ DevicePlays \/ DeviceLost \/ UNCHANGED vars
  BY <1>6 DEF Finish, Drained, DrainTimesOut, Stop, Close, Take, LeaveLoop, DevicePlays,
              DeviceLost, vars, history, Stream!vars
<1> QED
  BY <1>1, <1>2, <1>4, <1>5, <1>6 DEF Next, OwnerStep, WriterStep, Stream!Next

\* The route implements the stream: samples are lost, never doubled, reordered
\* or carried into a later hold.
THEOREM RouteIsStream == Spec => KeepsStream
<1>1. Init => Stream!Init
  BY DEF Init, Stream!Init
<1> QED
  BY <1>1, Invariance, StepRefines, PTL DEF Spec, KeepsStream, Stream!Spec

\* The queue gives up samples only when it ends full.
THEOREM FullWhenDropping == Spec => DropsOnlyWhenFull
<1>1. IInv /\ [Next]_vars => [dropped' > dropped => Len(queue') = Capacity]_vars
  <2> SUFFICES ASSUME IInv, Next, dropped' > dropped PROVE Len(queue') = Capacity
    OBVIOUS
  <2>1. CASE \E n \in BatchSizes : Write(n)
    BY <2>1, PushKeeps DEF Write, IInv
  <2>2. ASSUME dropped' = dropped \/ dropped' = 0 PROVE FALSE
    BY <2>2 DEF IInv, TypeOK
  <2> QED
    BY <2>1, <2>2 DEF Next, OwnerStep, WriterStep, Start, Finish, Drained, DrainTimesOut, Stop,
                      Close, Take, Render, LeaveLoop, Flush, DevicePlays, DeviceLost, queueVars
<1> QED
  BY <1>1, Invariance, PTL DEF Spec, DropsOnlyWhenFull

\* Only a lost device refuses a chunk before the stop.
THEOREM PacingHolds == Spec => OnlyLossRefuses
<1>1. IInv /\ [Next]_vars => [errors' > errors => lost \/ stopFlag]_vars
  <2> SUFFICES ASSUME IInv, Next, errors' > errors PROVE lost \/ stopFlag
    OBVIOUS
  <2>1. CASE Render
    <3>1. errors' # errors
      BY DEF IInv, TypeOK
    <3> QED
      BY <2>1, <3>1 DEF Render, HandOver
  <2>2. CASE Flush
    BY <2>2 DEF Flush, IInv, Stages
  <2>3. ASSUME errors' = errors PROVE FALSE
    BY <2>3 DEF IInv, TypeOK
  <2> QED
    BY <2>1, <2>2, <2>3 DEF Next, OwnerStep, WriterStep, Start, Write, Finish, Drained,
                      DrainTimesOut, Stop, Close, Take, LeaveLoop, DevicePlays, DeviceLost
<1> QED
  BY <1>1, Invariance, PTL DEF Spec, OnlyLossRefuses
=============================================================================
