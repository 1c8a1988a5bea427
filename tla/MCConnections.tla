----------------------------- MODULE MCConnections -----------------------------
(***************************************************************************)
(* What the gateway keeps running against somebody who may be slow, silent *)
(* or gone: the recording at Stream, the connection to Redis, the sockets  *)
(* to the GPU pod, the animation of speech, the video agent in the call,   *)
(* its clips, and the pages that look on.                                  *)
(*                                                                         *)
(* The seven do not interact, so TLC explores their sum and not their      *)
(* product: `part' says which one moves, the others stay as they begin.    *)
(***************************************************************************)
EXTENDS MeetingRecording, A2FRuntime

CONSTANTS
    MaxPending, GpuSockets, MaxChunks, MaxPings,
    Commands, QueueLimit, MaxSockets, MaxBeats,
    Starts, None,
    Nothing, ClientClock, StartedAt, Latency, ClipWindow, Budget, RingMax, MaxBuffer, MinBuffer,
    Backoff, MaxInFlight, MaxPieces, ClipTime, MaxEpoch, MaxRing,
    Pages, Unset

\* Gaps and queues are of a positive size, times and bounds are numbers, and what is no
\* session is none of them.  A command is no PING, and a clip is over long before
\* Date.now(): MasterClock counts from the start of the process.
ASSUME ConnectionsAssumption ==
    /\ MaxPending \in Nat \ {0} /\ GpuSockets \in Nat /\ MaxStarts \in Nat
    /\ QueueLimit \in Nat /\ MaxSockets \in Nat \ {0}
    /\ Commands \cap (0 .. MaxSockets + 1) = {}
    /\ None \notin Starts
    /\ StartedAt \in Nat /\ Latency \in Nat /\ ClipWindow \in Nat \ {0}
    /\ Budget \in Nat /\ RingMax \in Nat /\ MaxBuffer \in Nat
    /\ ClipWindow + MaxBuffer < StartedAt + Latency
    /\ MaxInFlight \in Nat /\ ClipTime \in Nat

VARIABLES
    part,  \* the part that moves
    current, gpuStarted, gpuSession, gpuLink, chunks, heard, pings, slowClose,
    link, socket, connected, timer, beating, inflight, waiting, owed, buffer, outcome, beats, troubles,
    pipeline, sessions, routed, start, session, engine, publisher, joined, tapped, phase,
    activity, said, since, overtaken, abandoned,
    clock, running, isPaused, audioClock, ring, inOrder, epoch, clips, lastFrame, inFlight,
    requests, notBefore, frame, asked,
    page, entry, terminal, paused, mode, seen

G == INSTANCE GpuRuntime WITH
        MaxSockets <- GpuSockets, started <- gpuStarted, session <- gpuSession, link <- gpuLink

R == INSTANCE RedisClient

V == INSTANCE AvatarRuntime WITH output <- said

C == INSTANCE ClipPipeline WITH
        Window <- ClipWindow, MaxTime <- ClipTime, shown <- frame

H == INSTANCE MeetingHub

gpuVars == <<current, gpuStarted, gpuSession, gpuLink, chunks, heard, pings, slowClose>>
clientVars == <<link, socket, connected, timer, beating, inflight, waiting, owed, buffer,
                outcome, beats, troubles>>
runtimeVars == <<pipeline, sessions, routed, start, session, engine, publisher, joined,
                 tapped, phase, activity, said, since, overtaken, abandoned>>
clipVars == <<clock, running, isPaused, audioClock, ring, inOrder, epoch, clips, lastFrame,
              inFlight, requests, notBefore, frame, asked>>
hubVars == <<page, entry, terminal, paused, mode, seen>>
allParts == <<part, recordedVars, a2fVars, gpuVars, clientVars, runtimeVars,
              clipVars, hubVars>>

ConnectionsInit ==
    /\ part \in {"recording", "a2f", "gpu", "redis", "runtime", "clips", "hub"}
    /\ RecordingInit /\ A2FInit /\ G!GpuInit /\ R!ClientInit /\ V!RuntimeInit
    /\ C!ClipsInit /\ H!HubInit
    /\ part # "hub" => ~terminal
    /\ part # "runtime" => pipeline = "none"

InRecording ==
    /\ part = "recording"
    /\ UNCHANGED <<part, a2fVars, gpuVars, clientVars, runtimeVars, clipVars,
                   hubVars>>

InA2F ==
    /\ part = "a2f"
    /\ UNCHANGED <<part, recordedVars, gpuVars, clientVars, runtimeVars, clipVars,
                   hubVars>>

InGpu ==
    /\ part = "gpu"
    /\ UNCHANGED <<part, recordedVars, a2fVars, clientVars, runtimeVars, clipVars,
                   hubVars>>

InRedis ==
    /\ part = "redis"
    /\ UNCHANGED <<part, recordedVars, a2fVars, gpuVars, runtimeVars, clipVars,
                   hubVars>>

InRuntime ==
    /\ part = "runtime"
    /\ UNCHANGED <<part, recordedVars, a2fVars, gpuVars, clientVars, clipVars,
                   hubVars>>

InClips ==
    /\ part = "clips"
    /\ UNCHANGED <<part, recordedVars, a2fVars, gpuVars, clientVars, runtimeVars,
                   hubVars>>

InHub ==
    /\ part = "hub"
    /\ UNCHANGED <<part, recordedVars, a2fVars, gpuVars, clientVars, runtimeVars,
                   clipVars>>

RecordingStep ==
    \/ \E m \in Meetings :
          \/ InRecording /\ StartRecorded(m)
          \/ \E s \in Finished \cup {Absent}, why \in Reasons : InRecording /\ StopRecorded(m, s, why)
          \/ \E s \in FailStatus, why \in Reasons : InRecording /\ FailRecorded(m, s, why)
          \/ \E kind \in {"start", "stop", "get"} : InRecording /\ Route(m, kind)
    \/ \E c \in Calls : InRecording /\ Step(c)
    \/ InRecording /\ StrayExecuted
    \/ InRecording /\ StrayGone
    \/ InRecording /\ ClearQueued /\ UNCHANGED recordingVars

RedisStep ==
    \/ \E c \in Commands : InRedis /\ R!command(c)
    \/ InRedis /\ R!heartbeat
    \/ InRedis /\ R!openSocket
    \/ \E s \in R!Sockets :
          \/ InRedis /\ R!connects(s)
          \/ InRedis /\ R!connectFails(s)
          \/ InRedis /\ R!closes(s)
          \/ InRedis /\ R!data(s)

GpuStep ==
    \/ InGpu /\ G!startSession
    \/ InGpu /\ G!stopSession
    \/ InGpu /\ G!ingestChunk
    \/ \E g \in G!Runs :
          \/ InGpu /\ G!reconnect(g)
          \/ InGpu /\ G!ping(g)
    \/ \E s \in G!Sockets :
          \/ InGpu /\ G!opens(s)
          \/ InGpu /\ G!errors(s)
          \/ InGpu /\ G!closes(s)

RuntimeStep ==
    \/ \E s \in Starts :
          \/ InRuntime /\ V!startForMeeting(s)
          \/ InRuntime /\ V!withoutVideo(s)
          \/ InRuntime /\ V!startBehaviorStatic(s)
          \/ InRuntime /\ V!probeWorker(s)
          \/ InRuntime /\ V!workerReady(s)
          \/ InRuntime /\ V!workerNotReady(s)
          \/ InRuntime /\ V!connected(s)
          \/ InRuntime /\ V!notConnected(s)
          \/ InRuntime /\ V!videoTick(s)
    \/ InRuntime /\ V!pause
    \/ InRuntime /\ V!resume
    \/ InRuntime /\ V!interrupt
    \/ InRuntime /\ V!stop
    \/ InRuntime /\ V!responseCreated
    \/ InRuntime /\ V!responseDone
    \/ InRuntime /\ V!setActiveSpeaker
    \/ InRuntime /\ V!transcriptDelta
    \/ InRuntime /\ V!audioDelta

ClipStep ==
    \/ InClips /\ C!Tick
    \/ InClips /\ C!ingest
    \/ InClips /\ C!videoTick
    \/ InClips /\ C!pause
    \/ InClips /\ C!resume
    \/ InClips /\ C!interrupt
    \/ InClips /\ C!stop
    \/ \E q \in requests :
          \/ InClips /\ C!stale(q)
          \/ InClips /\ C!enqueueClip(q)
          \/ InClips /\ C!fails(q)

A2FStep ==
    \/ InA2F /\ startSession
    \/ InA2F /\ stopSession
    \/ InA2F /\ subscribe
    \/ \E n \in 1 .. Capacity + 1 : InA2F /\ ingestChunk(n)
    \/ InA2F /\ skipHop
    \/ InA2F /\ runInferenceStep
    \/ InA2F /\ flushOutput

HubStep ==
    \/ \E w \in Pages :
          \/ InHub /\ H!connection(w)
          \/ InHub /\ H!handleMessage(w)
          \/ InHub /\ H!pageLeaves(w)
          \/ InHub /\ H!closed(w)
    \/ InHub /\ H!publishActivityMode
    \/ InHub /\ H!closeMeeting
    \/ InHub /\ H!interviewEnds

ConnectionsNext ==
    \/ RecordingStep \/ RedisStep \/ GpuStep \/ RuntimeStep \/ ClipStep
    \/ A2FStep \/ HubStep

ConnectionsSpec == ConnectionsInit /\ [][ConnectionsNext]_allParts

-----------------------------------------------------------------------------
\* A recording goes on after its meeting only for a reason, and what the meeting says of
\* its recording is true.
RecordingKept ==
    RecordingTypeOK /\ RecordingOutlivesMeetingForAReason /\ MetadataIsTrue

\* Every caller of the Redis client gets its own reply or a rejection, unless the client
\* had two sockets or lost one in the middle of a reply.
OwnReply == R!ClientTypeOK /\ R!OwnReply

\* Nobody who waits for a connection waits for nothing: neither the commands for Redis
\* nor a session of the GPU pod.
SomebodyReconnects == R!SomethingWillDrain /\ G!NeverStranded

\* A session that was stopped, on the pod or in the call, leaves nothing behind, unless
\* the stop came in the middle of a start or a connection, the start had failed after it
\* joined the call, or the call cannot be left; and what the gateway says of a session
\* and where a number leads to follow it, unless a pause, a resume or a stop came in the
\* middle of a start.
NothingOutlivesItsSession ==
    /\ G!GpuTypeOK /\ G!StoppedIsSilent
    /\ V!RuntimeTypeOK
    /\ V!NobodyLeftInTheCall /\ V!PhaseFollowsSession /\ V!NumberLeadsToSession

\* A paused session sends out nothing and is not shown as speaking, and after a pause, a
\* resume, a stop or an interruption no clip of before is shown but the frame that was
\* shown last.  What A2F makes of the speech it was sent before goes on.
QuietAfterInterruption == V!QuietWhilePaused /\ C!NothingStale

\* What is shown never goes back, to an earlier epoch or to an earlier time of its own.
PictureGoesForward == C!PictureGoesForward

\* The clip scheduler's count of requests is exact, and the audio it holds is bounded.
ClipsCounted == C!InFlightIsExact /\ C!QueueBounded

\* The pod hears the audio in order, the frames made of it are in its order, and every
\* page that is open is told of the agent.
HeardAndShownInOrder == G!HeardInOrder /\ FramesFollowAudio /\ H!EverybodyIsTold

=============================================================================
