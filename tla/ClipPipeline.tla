------------------------------ MODULE ClipPipeline ------------------------------
(***************************************************************************)
(* The media of one running AvatarRuntimeEngine with a frame worker: the   *)
(* speech that OpenAI sends goes into a ring; every delta may ask the      *)
(* worker for a clip of what was said a moment ago; the clips that come    *)
(* back go into a buffer, and a timer shows the frame for the time of the  *)
(* audio clock, late by a fixed latency.  pause, resume, interrupt and     *)
(* stop begin a new epoch, and answers of an earlier one are stale.        *)
(*                                                                         *)
(* Time is MasterClock's, in units of one piece of audio.  The stamp of a  *)
(* delta is the client's, or Date.now(): StartedAt later than MasterClock. *)
(* The engine's start is AvatarRuntime's subject, and so is the publisher. *)
(***************************************************************************)
EXTENDS Naturals, Sequences, FiniteSets

CONSTANTS Nothing,
          ClientClock, \* whether clients stamp their deltas with the MasterClock's time
          StartedAt,   \* Date.now() when MasterClock was zero
          Latency, Window, Budget, RingMax, MaxBuffer, MinBuffer, Backoff,
          MaxInFlight,
          MaxPieces,   \* bound: the pieces of one delta
          MaxTime, MaxEpoch, MaxRing   \* bounds

VARIABLES
    clock,
    running, isPaused,
    audioClock,  \* getAudioClockMs
    ring,        \* ttsRing: pieces of audio, their stamp and the time they came
    inOrder,     \* no piece in the ring was stamped before the end of another
    epoch,
    clips,       \* the clip buffer
    lastFrame,   \* the clip whose frame was shown last; it outlives its epoch
    inFlight,
    requests,    \* requests to the worker that have not been answered
    notBefore,   \* nextGenerationAllowedAtMs
    shown,       \* the clip whose frame the last step has shown
    asked        \* the window the last step has asked a clip for, and its audio

clipVars == <<clock, running, isPaused, audioClock, ring, inOrder, epoch, clips, lastFrame,
              inFlight, requests, notBefore, shown, asked>>

Least(S) == CHOOSE i \in S : \A j \in S : i <= j
Larger(a, b) == IF a > b THEN a ELSE b
Minus(a, b) == IF a > b THEN a - b ELSE 0
From(s, i) == SubSeq(s, i, Len(s))

\* connect has taken its time.
ClipsInit ==
    /\ clock = Latency
    /\ running = TRUE /\ isPaused = FALSE
    /\ audioClock = 0
    /\ ring = <<>> /\ inOrder = TRUE
    /\ epoch = 0
    /\ clips = <<>> /\ lastFrame = Nothing
    /\ inFlight = 0 /\ requests = {}
    /\ notBefore = 0
    /\ shown = Nothing /\ asked = Nothing

Silent == shown' = Nothing /\ asked' = Nothing

Tick ==
    /\ clock < MaxTime
    /\ clock' = clock + 1
    /\ Silent
    /\ UNCHANGED <<running, isPaused, audioClock, ring, inOrder, epoch, clips, lastFrame,
                   inFlight, requests, notBefore>>

-----------------------------------------------------------------------------
(* The audio ring                                                          *)

getBufferedMs(r) == IF r = <<>> THEN 0 ELSE Minus(r[Len(r)].stamp + 1, r[1].stamp)

\* trim: pieces that ended too long before the newest one; the newest stays.
Trimmed(r) ==
    From(r, Least({i \in DOMAIN r :
                     i = Len(r) \/ r[i].stamp + 1 + RingMax >= r[Len(r)].stamp + 1}))

\* Mutant: the budget is not looked at.
Budgeted_Never(r) == r

\* applyAudioQueueBudget: as many pieces as last as long as what is over the budget.
Budgeted(r) ==
    LET over == Minus(getBufferedMs(r), Budget)
    IN  From(r, 1 + IF over < Len(r) THEN over ELSE Len(r))

\* readWindow goes through the ring until it finds a piece that begins after the window.
readWindow(r, from) ==
    LET until == Least({i \in DOMAIN r : r[i].stamp >= from + Window} \cup {Len(r) + 1})
    IN  {r[i] : i \in {j \in 1..(until - 1) : r[j].stamp >= from}}

-----------------------------------------------------------------------------
(* The clip buffer                                                         *)

End(clip) == clip.from + Window

getBufferedSeconds == IF clips = <<>> THEN 0 ELSE Minus(End(clips[Len(clips)]), clock)

\* Mutant: the newest answer is the newest clip.
Sorted_Appends(clip) == Append(clips, clip)

Sorted(clip) ==
    LET at == Least({i \in DOMAIN clips : clips[i].from > clip.from} \cup {Len(clips) + 1})
    IN  SubSeq(clips, 1, at - 1) \o <<clip>> \o From(clips, at)

\* trimBefore(Date.now() - maxBufferMs) and trimOverflow, which leave one clip at least.
Kept(cs) ==
    LET old(i) == End(cs[i]) + MaxBuffer < StartedAt + clock
        over(i) == (Len(cs) + 1 - i) * Window > MaxBuffer
    IN  From(cs, Least({i \in DOMAIN cs : i = Len(cs) \/ (~old(i) /\ ~over(i))}))

\* invalidateEpoch, n times
Invalidates(n) ==
    /\ epoch + n <= MaxEpoch   \* bound
    /\ epoch' = epoch + n
    /\ clips' = <<>>

-----------------------------------------------------------------------------
(* Audio in, clips out                                                     *)

\* Mutant: the requests that are under way are not counted.
MayGenerate_Unbounded == clock >= notBefore /\ getBufferedSeconds < MinBuffer

MayGenerate ==
    /\ inFlight < MaxInFlight
    /\ clock >= notBefore
    /\ getBufferedSeconds < MinBuffer

\* maybeGenerateClip up to its await: one second of audio, from the latency ago on.
maybeGenerateClip(r) ==
    IF MayGenerate
    THEN LET n == Least(1..(MaxInFlight + 1) \ {q.n : q \in requests})
             from == clock - Latency
         IN  /\ inFlight' = inFlight + 1
             /\ requests' = requests \cup {[n |-> n, epoch |-> epoch, from |-> from]}
             /\ asked' = [from |-> from, audio |-> readWindow(r, from)]
    ELSE asked' = Nothing /\ UNCHANGED <<inFlight, requests>>

\* A client that had the MasterClock would be late by a little.
Stamps == {StartedAt + clock} \cup IF ClientClock THEN {clock - 1} ELSE {}

\* ingestOpenAiTtsPcm16 of both classes: a delta of one or more pieces.
ingest ==
    /\ running /\ ~isPaused
    /\ \E stamp \in Stamps, n \in 1..MaxPieces :
          LET pieces == [i \in 1..n |-> [stamp |-> stamp + i - 1, came |-> clock]]
              r == Budgeted(Trimmed(ring \o pieces))
          IN  /\ Len(ring) + n <= MaxRing   \* bound
              /\ ring' = r
              /\ inOrder' = (inOrder /\ (ring # <<>> => ring[Len(ring)].stamp < stamp))
              /\ audioClock' = Larger(audioClock, stamp + n)
              /\ maybeGenerateClip(r)
    /\ shown' = Nothing
    /\ UNCHANGED <<clock, running, isPaused, epoch, clips, lastFrame, notBefore>>

\* finally
Answered(q) == inFlight' = Minus(inFlight, 1) /\ requests' = requests \ {q}

\* Mutant: the epoch is taken when the answer comes.
Current_Always(q) == TRUE

Current(q) == q.epoch = epoch

\* Mutant: the count is left alone when a stale answer is dropped.
stale_Counted(q) ==
    /\ ~Current(q)
    /\ requests' = requests \ {q}
    /\ Silent
    /\ UNCHANGED <<clock, running, isPaused, audioClock, ring, inOrder, epoch, clips,
                   lastFrame, inFlight, notBefore>>

stale(q) ==
    /\ ~Current(q)
    /\ Answered(q)
    /\ Silent
    /\ UNCHANGED <<clock, running, isPaused, audioClock, ring, inOrder, epoch, clips,
                   lastFrame, notBefore>>

enqueueClip(q) ==
    /\ Current(q)
    /\ clips' = Kept(Sorted([from |-> q.from, epoch |-> q.epoch]))
    /\ Answered(q)
    /\ Silent
    /\ UNCHANGED <<clock, running, isPaused, audioClock, ring, inOrder, epoch, lastFrame,
                   notBefore>>

\* The worker reports an error, and is left alone for a while; or the request throws.
fails(q) ==
    /\ Answered(q)
    /\ notBefore' \in {notBefore, clock + Backoff}
    /\ Silent
    /\ UNCHANGED <<clock, running, isPaused, audioClock, ring, inOrder, epoch, clips,
                   lastFrame>>

\* getFrameAtTime: the clips that have the frame of a time.
ClipsAt(time) ==
    {clips[i] : i \in {j \in DOMAIN clips :
        clips[j].from + Latency <= time /\ time < End(clips[j]) + Latency}}

\* videoTick: a frame of the time of the audio clock, or the one shown last once more,
\* which an invalidated epoch leaves; without one, a static frame or none.
videoTick ==
    /\ running /\ ~isPaused
    /\ lastFrame' \in IF ClipsAt(audioClock) # {} THEN ClipsAt(audioClock) ELSE {lastFrame}
    /\ shown' = lastFrame'
    /\ asked' = Nothing
    /\ UNCHANGED <<clock, running, isPaused, audioClock, ring, inOrder, epoch, clips,
                   inFlight, requests, notBefore>>

-----------------------------------------------------------------------------
(* The commands                                                            *)

Clears == ring' = <<>> /\ inOrder' = TRUE /\ Silent

pause ==
    /\ running
    /\ isPaused' = TRUE
    /\ Invalidates(1)
    /\ Clears
    /\ UNCHANGED <<clock, running, audioClock, lastFrame, inFlight, requests, notBefore>>

resume ==
    /\ running
    /\ isPaused' = FALSE
    /\ Invalidates(1)
    /\ Clears
    /\ UNCHANGED <<clock, running, audioClock, lastFrame, inFlight, requests, notBefore>>

\* The orchestrator's listener, and the engine's own interrupt.
interrupt ==
    /\ running
    /\ Invalidates(2)
    /\ Clears
    /\ UNCHANGED <<clock, running, isPaused, audioClock, lastFrame, inFlight, requests,
                   notBefore>>

stop ==
    /\ running
    /\ running' = FALSE
    /\ Invalidates(1)
    /\ Clears
    /\ UNCHANGED <<clock, isPaused, audioClock, lastFrame, inFlight, requests, notBefore>>

-----------------------------------------------------------------------------
ClipsNext ==
    \/ Tick \/ ingest \/ videoTick \/ pause \/ resume \/ interrupt \/ stop
    \/ \E q \in requests : stale(q) \/ enqueueClip(q) \/ fails(q)

ClipsSpec == ClipsInit /\ [][ClipsNext]_clipVars

-----------------------------------------------------------------------------
(* Properties                                                              *)

\* What waits to be shown was asked for in this epoch, and so is what is shown, except
\* for the frame that was shown last, which is shown on while the buffer has none for the
\* time: no answer that was under way at an interruption, a pause or a stop comes after
\* it, and nothing is shown while the session is paused or stopped.
NothingStale ==
    /\ \A i \in DOMAIN clips : clips[i].epoch = epoch
    /\ shown # Nothing =>
          /\ running /\ ~isPaused
          /\ shown.epoch = epoch \/ ClipsAt(audioClock) = {}

\* The picture does not go back: what is shown after a frame, whatever the order the
\* answers came in, is of a later epoch or begins no earlier.
PictureGoesForward ==
    [][shown' # Nothing /\ lastFrame # Nothing
          => \/ shown'.epoch > lastFrame.epoch
             \/ shown'.epoch = lastFrame.epoch /\ shown'.from >= lastFrame.from]_clipVars

\* The count of requests is the number of requests, at most MaxInFlight, however they
\* end: a count too high would end the video for good.
InFlightIsExact == inFlight = Cardinality(requests) /\ inFlight <= MaxInFlight

\* "confirm queue is bounded (~`AVATAR_AUDIO_QUEUE_BUDGET_MS`)"
\* (docs/phase2-sprint1-2-checklist.md:43): it is, after every delta, as long as no
\* delta is stamped before the end of the one before it.  Deltas that the gateway stamps
\* with Date.now() and that come faster than they play are, and are not covered.
QueueBounded == inOrder => getBufferedMs(ring) <= Budget

\* "`timestampMs` should correspond to the audio master clock"
\* (src/src/services/openaiOrchestrator.ts:86): of what is in the ring, the speech that
\* came in the time that a clip is asked for is sent with the request.
SpeechIsInTheWindow ==
    asked # Nothing =>
        \A i \in DOMAIN ring :
            asked.from <= ring[i].came /\ ring[i].came < asked.from + Window
                => ring[i] \in asked.audio
=============================================================================
