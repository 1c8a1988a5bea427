------------------------------- MODULE A2FRuntime -------------------------------
(***************************************************************************)
(* A2FRuntimeService for one meeting: the ring of PCM samples, written by  *)
(* ingestChunk and read in windows that overlap (a hop is shorter than a   *)
(* window) by the inference timer, the outbox of frames and the output     *)
(* timer that empties it.  A sample is its number in the session's audio;  *)
(* a frame is the window it was made of.                                   *)
(*                                                                         *)
(* The executors are local, so that an inference step is over before the   *)
(* next timer.  The cursors are Int32: 37 hours of audio, out of bounds.   *)
(***************************************************************************)
EXTENDS Naturals, Sequences

CONSTANTS Capacity,    \* of the ring, in samples
          Window, Hop,
          MaxQueue,    \* maxQueueMs, in samples
          MaxOutbox,   \* 120
          MaxSamples,  \* bound: samples of a session
          MaxStarts    \* bound: sessions

ASSUME RingAssumption ==
    /\ Capacity \in Nat \ {0} /\ Window \in Nat \ {0} /\ Hop \in Nat \ {0}
    /\ Hop <= Window /\ Window <= Capacity
    /\ MaxQueue \in Nat /\ MaxOutbox \in Nat \ {0}

VARIABLES
    active,     \* there is a session
    started,
    read, write,
    data,       \* the ring
    dropped,    \* droppedSamples
    output,
    subscribed, \* there are subscribers
    shown       \* the frames they got

ringVars == <<read, write, data, dropped>>
a2fVars == <<active, started, ringVars, output, subscribed, shown>>

Slots == 0 .. Capacity - 1
Slot(i) == i % Capacity

EmptyRing ==
    /\ read' = 0 /\ write' = 0
    /\ data' = [i \in Slots |-> 0]
    /\ dropped' = 0

A2FInit ==
    /\ active = FALSE /\ started = 0
    /\ read = 0 /\ write = 0
    /\ data = [i \in Slots |-> 0]
    /\ dropped = 0
    /\ output = <<>>
    /\ subscribed = FALSE
    /\ shown = <<>>

startSession ==
    /\ ~active /\ started < MaxStarts   \* bound
    /\ active' = TRUE /\ started' = started + 1
    /\ EmptyRing
    /\ output' = <<>> /\ shown' = <<>>
    /\ UNCHANGED subscribed

\* Its subscribers are told, and belong to no session any more.
stopSession ==
    /\ active
    /\ active' = FALSE
    /\ subscribed' = FALSE
    /\ UNCHANGED <<started, ringVars, output, shown>>

subscribe ==
    /\ active
    /\ subscribed' \in BOOLEAN
    /\ UNCHANGED <<active, started, ringVars, output, shown>>

-----------------------------------------------------------------------------
(* The ring                                                                *)

\* Mutant: the read cursor stays where it is when samples are overwritten.
Overflow_Ignored(n) == 0

\* The unread samples that writing n more overwrites.
Overflow(n) == IF n > Capacity - (write - read) THEN n - (Capacity - (write - read)) ELSE 0

\* ingestChunk: n samples are written one after the other.
ingestChunk(n) ==
    /\ active
    /\ write + n <= MaxSamples   \* bound
    /\ read' = read + Overflow(n)
    /\ dropped' = dropped + Overflow(n)
    /\ data' = [i \in Slots |->
                   LET fresh == {k \in write .. write + n - 1 : Slot(k) = i}
                   IN  IF fresh = {} THEN data[i]
                       ELSE CHOOSE k \in fresh : \A l \in fresh : l <= k]
    /\ write' = write + n
    /\ UNCHANGED <<active, started, output, subscribed, shown>>

readWindow(n) == [i \in 1 .. n |-> data[Slot(read + i - 1)]]

-----------------------------------------------------------------------------
(* The timers                                                              *)

\* Mutant: the output is not cut.
Cut_Never(frames) == frames

Cut(frames) ==
    IF Len(frames) > MaxOutbox THEN SubSeq(frames, Len(frames) - MaxOutbox + 1, Len(frames))
    ELSE frames

\* More than maxQueueMs are waiting: a hop is skipped, and nothing is inferred.
skipHop ==
    /\ active
    /\ write - read > MaxQueue
    /\ read' = IF write - read >= Hop THEN read + Hop ELSE read
    /\ UNCHANGED <<active, started, write, data, dropped, output, subscribed, shown>>

runInferenceStep ==
    /\ active
    /\ write - read <= MaxQueue
    /\ write - read >= Window
    /\ output' = Cut(Append(output, readWindow(Window)))
    /\ read' = read + Hop
    /\ UNCHANGED <<active, started, write, data, dropped, subscribed, shown>>

flushOutput ==
    /\ active
    /\ output # <<>> /\ subscribed
    /\ shown' = Append(shown, Head(output))
    /\ output' = Tail(output)
    /\ UNCHANGED <<active, started, ringVars, subscribed>>

-----------------------------------------------------------------------------
A2FNext ==
    \/ startSession \/ stopSession \/ subscribe
    \/ \E n \in 1 .. Capacity + 1 : ingestChunk(n)
    \/ skipHop \/ runInferenceStep \/ flushOutput

A2FSpec == A2FInit /\ [][A2FNext]_a2fVars

-----------------------------------------------------------------------------
(* Properties                                                              *)

\* What is unread fits the ring, and is there: every unread sample is in its slot.
RingHoldsUnread ==
    /\ read <= write /\ write - read <= Capacity
    /\ \A k \in read .. write - 1 : data[Slot(k)] = k

\* Every frame is made of consecutive samples, and the frames shown are in the order of
\* the audio, those skipped, overwritten and cut left out.
FramesFollowAudio ==
    LET frames == shown \o output
    IN  /\ Len(output) <= MaxOutbox
        /\ \A i \in DOMAIN frames : \A k \in 2 .. Window : frames[i][k] = frames[i][k - 1] + 1
        /\ \A i, j \in DOMAIN frames : i < j => frames[i][1] < frames[j][1]
=============================================================================
