------------------------------ MODULE AudioRoute ------------------------------
(***************************************************************************)
(* The native audio route (wasapi_audio_route.cpp) with its bounded queue   *)
(* and chunker.  The owner, the coordinator under its mutex, opens it for a *)
(* hold, writes decoded samples, and at the end drains, stops and closes    *)
(* it.  The writer thread takes samples from the queue, cuts them into      *)
(* chunks of 20 ms and hands each to the device when it has room.  The      *)
(* device plays, or is lost.                                               *)
(*                                                                         *)
(* A sample is its number in the order of writing.  What a sample sounds    *)
(* like is left out; how many frames of the device it becomes is not.       *)
(***************************************************************************)
EXTENDS Naturals, Sequences

CONSTANTS
    Capacity,      \* samples the queue holds (two seconds in the code)
    Chunk,         \* samples of one chunk (320 in the code)
    SourceRate,    \* rate of the samples, in 100 Hz
    MixRates,      \* the rates the device's mix format may have
    BufferFrames,  \* the size of the device's buffer at each of them
    BatchSizes,    \* how many samples one write brings
    MaxWritten, MaxStarts    \* bounds

ASSUME SizesAssumption ==
    /\ Capacity \in Nat \ {0} /\ Chunk \in Nat \ {0}
    /\ SourceRate \in Nat \ {0} /\ MixRates \subseteq Nat
    /\ BufferFrames \in [MixRates -> Nat]
    /\ BatchSizes \subseteq Nat \ {0}
    /\ MaxWritten \in Nat /\ MaxStarts \in Nat

VARIABLES
    owner,      \* what the owner is doing with the route
    running,    \* running_
    stopFlag,   \* stop_requested_
    client,     \* the audio client and its render client are held
    mixRate,    \* output_sample_rate_hz_
    queue,      \* BoundedPcmQueue::buf_
    dropped,    \* BoundedPcmQueue::dropped_count_
    writer,     \* the writer thread
    residue,    \* PcmChunker::buf_
    hand,       \* the chunk the writer waits to hand over
    padding,    \* frames in the device's buffer
    lost,       \* the device is invalidated
    errors,     \* write_error_count_
    written,    \* samples written since the beginning
    rendered,   \* history: the samples handed to the device since the start
    opened,     \* history: written and errors at the start
    starts      \* what is left of the bound

ownerVars == <<owner, running, stopFlag>>
queueVars == <<queue, dropped>>
writerVars == <<writer, residue, hand>>
deviceVars == <<client, mixRate, padding, lost>>
history == <<written, opened>>
vars == <<ownerVars, queueVars, writerVars, deviceVars, errors, rendered, history, starts>>

Samples == (opened.sample + 1)..written

\* take: at the top of its loop; pace: with a chunk in hand; flush: after the
\* loop; gone: ended, or never started.
WriterSteps == {"take", "pace", "flush", "gone"}

TypeOK ==
    /\ owner \in {"free", "drain", "stop", "close"}
    /\ running \in BOOLEAN /\ stopFlag \in BOOLEAN
    /\ client \in BOOLEAN /\ mixRate \in MixRates \cup {SourceRate}
    /\ queue \in Seq(Samples) /\ Len(queue) <= Capacity
    /\ dropped \in Nat
    /\ writer \in WriterSteps
    /\ residue \in Seq(Samples) /\ Len(residue) < Chunk
    /\ hand \in Seq(Samples) /\ Len(hand) \in {0, Chunk}
    /\ padding \in Nat /\ lost \in BOOLEAN
    /\ errors \in Nat /\ written \in Nat
    /\ rendered \in Seq(Samples)
    /\ opened \in [sample : Nat, errors : Nat]
    /\ starts \in Nat

Init ==
    /\ owner = "free" /\ running = FALSE /\ stopFlag = FALSE
    /\ client = FALSE /\ mixRate = SourceRate
    /\ queue = <<>> /\ dropped = 0
    /\ writer = "gone" /\ residue = <<>> /\ hand = <<>>
    /\ padding = 0 /\ lost = FALSE /\ errors = 0
    /\ written = 0 /\ rendered = <<>>
    /\ opened = [sample |-> 0, errors |-> 0]
    /\ starts = MaxStarts

-----------------------------------------------------------------------------
(* The owner.                                                               *)

\* A route that still holds anything of its last start refuses the next one;
\* a start that fails on the way releases what it has acquired.
Start(rate) ==
    /\ owner = "free" /\ starts > 0 /\ starts' = starts - 1
    /\ ~running /\ ~client
    /\ running' = TRUE /\ stopFlag' = FALSE
    /\ client' = TRUE /\ mixRate' = rate /\ padding' = 0 /\ lost' = FALSE
    /\ queue' = <<>> /\ dropped' = 0
    /\ writer' = "take" /\ residue' = <<>> /\ hand' = <<>>
    /\ rendered' = <<>> /\ opened' = [sample |-> written, errors |-> errors]
    /\ UNCHANGED <<owner, errors, written>>

Suffix(s, n) == SubSeq(s, Len(s) - n + 1, Len(s))

\* BoundedPcmQueue::push drops the oldest samples for want of room.
Overflow(batch) ==
    IF Len(batch) > Capacity - Len(queue) THEN Len(batch) - (Capacity - Len(queue)) ELSE 0

Push(batch) ==
    \/ /\ Len(batch) >= Capacity
       /\ queue' = Suffix(batch, Capacity)
       /\ dropped' = dropped + Len(queue) + (Len(batch) - Capacity)
    \/ /\ Len(batch) < Capacity
       /\ queue' = SubSeq(queue, Overflow(batch) + 1, Len(queue)) \o batch
       /\ dropped' = dropped + Overflow(batch)

Write(n) ==
    /\ owner = "free" /\ running /\ written + n <= MaxWritten
    /\ written' = written + n
    /\ Push([i \in 1..n |-> written + i])
    /\ UNCHANGED <<ownerVars, writerVars, deviceVars, errors, rendered, opened, starts>>

\* The end of a hold, or of the coordinator.
Finish ==
    /\ owner = "free"
    /\ owner' = IF running THEN "drain" ELSE "stop"
    /\ UNCHANGED <<running, stopFlag, queueVars, writerVars, deviceVars, errors, rendered,
                   history, starts>>

\* drain polls the queue until it is empty or the 500 ms have passed.
Drained ==
    /\ owner = "drain" /\ queue = <<>>
    /\ owner' = "stop"
    /\ UNCHANGED <<running, stopFlag, queueVars, writerVars, deviceVars, errors, rendered,
                   history, starts>>

DrainTimesOut ==
    /\ owner = "drain" /\ queue # <<>>
    /\ owner' = "stop"
    /\ UNCHANGED <<running, stopFlag, queueVars, writerVars, deviceVars, errors, rendered,
                   history, starts>>

Stop ==
    /\ owner = "stop" /\ owner' = "close"
    /\ stopFlag' = TRUE /\ running' = FALSE
    /\ UNCHANGED <<queueVars, writerVars, deviceVars, errors, rendered, history, starts>>

Joined == writer = "gone"

\* What the queue and the device's buffer still held is gone with them.
Close ==
    /\ owner = "close" /\ Joined
    /\ owner' = "free"
    /\ client' = FALSE /\ padding' = 0
    /\ queue' = <<>> /\ dropped' = 0
    /\ UNCHANGED <<running, stopFlag, writerVars, mixRate, lost, errors, rendered,
                   history, starts>>

-----------------------------------------------------------------------------
(* The writer thread.                                                       *)

\* Frames that one sample becomes: upsample_16k_to_48k makes three of it
\* whenever the device has another rate than the source.
Taps == IF mixRate # SourceRate THEN 3 ELSE 1

ChunkFrames == Chunk * Taps

HasRoom == padding + ChunkFrames <= BufferFrames[mixRate]

Shorter(m, n) == IF m < n THEN m ELSE n

\* Mutant: the residue is put behind the batch.
CollectedBehind(n) == SubSeq(queue, 1, n) \o residue

\* PcmChunker::next_chunk of what pop_up_to returned.
Collected(n) == residue \o SubSeq(queue, 1, n)

\* Mutant: the chunker forgets what is left of a batch.
CutAll(samples) ==
    \/ /\ Len(samples) < Chunk
       /\ residue' = samples /\ hand' = <<>> /\ writer' = "take"
    \/ /\ Len(samples) >= Chunk
       /\ hand' = SubSeq(samples, 1, Chunk)
       /\ residue' = <<>> /\ writer' = "pace"

Cut(samples) ==
    \/ /\ Len(samples) < Chunk
       /\ residue' = samples /\ hand' = <<>> /\ writer' = "take"
    \/ /\ Len(samples) >= Chunk
       /\ hand' = SubSeq(samples, 1, Chunk)
       /\ residue' = SubSeq(samples, Chunk + 1, Len(samples))
       /\ writer' = "pace"

Take ==
    /\ writer = "take" /\ ~stopFlag /\ queue # <<>>
    /\ LET n == Shorter(Chunk, Len(queue)) IN
        /\ Cut(Collected(n))
        /\ queue' = SubSeq(queue, n + 1, Len(queue))
    /\ UNCHANGED <<ownerVars, dropped, deviceVars, errors, rendered, history, starts>>

\* push_to_wasapi: a refused buffer costs the chunk and counts.
HandOver(samples) ==
    \/ /\ HasRoom /\ ~lost
       /\ rendered' = rendered \o samples
       /\ padding' = padding + ChunkFrames
       /\ UNCHANGED errors
    \/ /\ ~HasRoom \/ lost
       /\ errors' = errors + 1
       /\ UNCHANGED <<rendered, padding>>

\* The writer waits for the device to have room.
Render ==
    /\ writer = "pace" /\ ~stopFlag /\ HasRoom
    /\ HandOver(hand)
    /\ hand' = <<>> /\ writer' = "take"
    /\ UNCHANGED <<ownerVars, queueVars, residue, client, mixRate, lost, history, starts>>

\* Mutant: the wait for room does not look at the stop flag.
LeaveWithRoom ==
    \/ /\ stopFlag
       /\ writer = "take" \/ (writer = "pace" /\ HasRoom)
       /\ hand' = <<>> /\ writer' = "flush"
       /\ UNCHANGED <<ownerVars, queueVars, residue, deviceVars, errors, rendered, history, starts>>
    \/ /\ stopFlag /\ writer = "pace" /\ ~HasRoom
       /\ UNCHANGED vars

\* It looks at the stop flag at the top of its loop, while it waits for room
\* and after that; the chunk in its hand is given up.
LeaveLoop ==
    /\ writer \in {"take", "pace"} /\ stopFlag
    /\ hand' = <<>> /\ writer' = "flush"
    /\ UNCHANGED <<ownerVars, queueVars, residue, deviceVars, errors, rendered, history, starts>>

\* The residue, filled up with silence to a chunk; it is not paced.
Flush ==
    /\ writer = "flush"
    /\ HandOver(residue)
    /\ residue' = <<>> /\ writer' = "gone"
    /\ UNCHANGED <<ownerVars, queueVars, hand, client, mixRate, lost, history, starts>>

-----------------------------------------------------------------------------
(* The device.                                                              *)

DevicePlays ==
    /\ client /\ ~lost /\ padding > 0
    /\ padding' = padding - 1
    /\ UNCHANGED <<ownerVars, queueVars, writerVars, client, mixRate, lost, errors, rendered,
                   history, starts>>

\* GetCurrentPadding fails on an invalidated device and leaves its argument as
\* it is: zero for the next chunk, the last value for a chunk that waits.
DeviceLost ==
    /\ client /\ ~lost /\ lost' = TRUE
    /\ padding' = IF writer = "pace" /\ ~HasRoom THEN padding ELSE 0
    /\ UNCHANGED <<ownerVars, queueVars, writerVars, client, mixRate, errors, rendered,
                   history, starts>>

-----------------------------------------------------------------------------
OwnerStep ==
    \/ \E rate \in MixRates : Start(rate)
    \/ \E n \in BatchSizes : Write(n)
    \/ Finish \/ Drained \/ DrainTimesOut \/ Stop \/ Close

WriterStep == Take \/ Render \/ LeaveLoop \/ Flush

Next == OwnerStep \/ WriterStep \/ DevicePlays \/ DeviceLost

Spec == Init /\ [][Next]_vars

\* The writer thread is scheduled, a device that is present plays, and an
\* owner that has begun to end a hold goes on.
FairSpec ==
    /\ Spec
    /\ WF_vars(WriterStep) /\ WF_vars(DevicePlays)
    /\ WF_vars(Drained \/ DrainTimesOut) /\ WF_vars(Stop) /\ WF_vars(Close)

-----------------------------------------------------------------------------
(* Properties.                                                              *)

\* The route is a stream that may lose samples and nothing else: across queue
\* overflow, a partial chunk, a stop in the middle of one and the next start,
\* no sample reaches the device twice, out of order or in a later hold.
Stream == INSTANCE AudioStream WITH out <- rendered, opened <- opened.sample
KeepsStream == Stream!Spec

\* While the writer runs, every sample is in one place or was counted as lost:
\* dropped by the queue, or one whole chunk for every error.
Accounted == writer \in {"take", "pace"} =>
    written - opened.sample = dropped + Len(queue) + Len(residue) + Len(hand) + Len(rendered)
                              + Chunk * (errors - opened.errors)

\* The queue gives up a sample only when it ends full (bounded_pcm_queue.cpp:66).
DropsOnlyWhenFull == [][dropped' > dropped => Len(queue') = Capacity]_vars

\* close() releases the client and the queue only when no thread uses them.
ClientOutlivesWriter == writer # "gone" => client

\* Pacing works: a device that is there refuses at most the flushed chunk
\* (wasapi_audio_route.cpp:143).
OnlyLossRefuses == [][errors' > errors => lost \/ stopFlag]_vars

\* close() returns, though the device may have stopped playing while the writer
\* waits for room.
CloseEnds == owner = "close" ~> owner = "free"

\* A chunk lasts as long on the device as it did on the remote: the writer
\* converts "up-sampling to the mix rate" (wasapi_audio_route.cpp:308).
KeepsPitch == [][padding' > padding =>
                    (padding' - padding) * SourceRate = Chunk * mixRate]_vars

\* "Block until the writer queue + device buffer drain" (audio_route.hpp:35).
DrainWaitsForDevice == [][Drained => padding = 0 /\ hand = <<>>]_vars
=============================================================================
