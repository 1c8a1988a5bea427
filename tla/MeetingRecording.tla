---------------------------- MODULE MeetingRecording ----------------------------
(***************************************************************************)
(* The recording of a meeting's call at Stream.  startMeeting starts it in *)
(* the background, with retries, stopMeeting stops it in the background,   *)
(* failMeeting leaves it alone, and the recording routes start, stop and   *)
(* read it at any time.                                                    *)
(*                                                                         *)
(* Each of these is a call of StreamRecordingService: a POST and a GET of  *)
(* the provider's state, whose answer is then written to the meeting's     *)
(* metadata.  Calls of one meeting overlap freely.  The provider is what   *)
(* the code assumes of it; it does not end recordings by itself.           *)
(***************************************************************************)
EXTENDS MeetingLifecycle

CONSTANTS Calls,       \* bound: calls that may run at the same time
          StartAttempts  \* maxAttempts of the automatic start

ASSUME AttemptsAssumption == StartAttempts \in Nat \ {0}

VARIABLES
    calls,     \* calls[c]: a running call, or Idle
    recording, \* recording[m]: the provider's state
    metadata,  \* metadata[m]: stream_recording_state
    strays,    \* requests given up that may still be executed: <<meeting, verb>>
    recordingExcused \* history variable, for each meeting: starts that "raced" its
                     \* stop, stops that did not take ("unstopped"), requests
                     \* "lost", and calls that "overlapped"

recordingVars == <<calls, recording, metadata, strays, recordingExcused>>
recordedVars == <<vars, recordingVars>>

Idle == [kind |-> "none"]

\* auto: kickoffRecording; end: stopRecording; start, stop, get: the routes.
Verb(kind) == CASE kind \in {"auto", "start"} -> "start"
                [] kind \in {"end", "stop"}   -> "stop"
                [] OTHER                      -> "get"

Running(m) == {c \in Calls : calls[c] # Idle /\ calls[c].meeting = m}

Call(kind, m, stage) ==
    [kind |-> kind, meeting |-> m, stage |-> stage, attempt |-> 1, seen |-> "idle"]

\* What the call about to run on m does to the excuses of m.
Excuse(m, kind) ==
    LET starts == {c \in Running(m) : Verb(calls[c].kind) = "start"}
    IN  (IF Running(m) # {} THEN {"overlapped"} ELSE {})
        \cup (IF kind = "end" /\ (starts # {} \/ <<m, "start">> \in strays) THEN {"raced"} ELSE {})
        \cup (IF kind = "start" /\ status[m] \in Finished THEN {"raced"} ELSE {})

Begin(kind, m, stage) ==
    /\ \E c \in Calls : calls[c] = Idle /\ calls' = [calls EXCEPT ![c] = Call(kind, m, stage)]
    /\ recordingExcused' = [recordingExcused EXCEPT ![m] = @ \cup Excuse(m, kind)]
    /\ UNCHANGED <<recording, metadata, strays>>

-----------------------------------------------------------------------------
RecordingInit ==
    /\ Init
    /\ calls = [c \in Calls |-> Idle]
    /\ recording = [m \in Meetings |-> "idle"]
    /\ metadata = [m \in Meetings |-> "unset"]
    /\ strays = {}
    /\ recordingExcused = [m \in Meetings |-> {}]

StartRecorded(m) == StartMeeting(m) /\ Begin("auto", m, "settings")

\* Mutant: stopMeeting leaves the recording alone.
StopRecorded_KeepsRecording(m, input, why) == StopMeeting(m, input, why) /\ UNCHANGED recordingVars

StopRecorded(m, input, why) == StopMeeting(m, input, why) /\ Begin("end", m, "post")

FailRecorded(m, failStatus, why) == FailMeeting(m, failStatus, why) /\ UNCHANGED recordingVars

\* The recording routes; an ended meeting can be recorded as well.
Route(m, kind) ==
    /\ status[m] # Absent
    /\ Begin(kind, m, IF kind = "get" THEN "get" ELSE "post")
    /\ UNCHANGED vars

-----------------------------------------------------------------------------
(* The steps of a call                                                     *)

\* ensureCallTypeRecordingSettings; its failure is ignored.
SettingsDone(c) ==
    /\ calls[c] # Idle /\ calls[c].stage = "settings"
    /\ calls' = [calls EXCEPT ![c].stage = "post"]
    /\ UNCHANGED <<vars, recording, metadata, strays, recordingExcused>>

\* After the backoff.
BackoffOver(c) ==
    /\ calls[c] # Idle /\ calls[c].stage = "wait"
    /\ calls' = [calls EXCEPT ![c].stage = "post", ![c].attempt = @ + 1]
    /\ UNCHANGED <<vars, recording, metadata, strays, recordingExcused>>

\* Mutant: one attempt too many.
AttemptsLeft_OneMore(call) == call.attempt <= StartAttempts

AttemptsLeft(call) == call.attempt < StartAttempts

\* Only the automatic start retries, and only refusals ("not_found",
\* "no_active_session"); only it tells the metadata of its failure.
GiveUpOrRetry(c, retryable) ==
    LET call == calls[c]
    IN  IF call.kind = "auto" /\ retryable /\ AttemptsLeft(call)
        THEN calls' = [calls EXCEPT ![c].stage = "wait"] /\ UNCHANGED metadata
        ELSE /\ calls' = [calls EXCEPT ![c] = Idle]
             /\ metadata' = IF call.kind = "auto" THEN [metadata EXCEPT ![call.meeting] = "failed"]
                                                  ELSE metadata

\* The provider's state once it has executed a POST.
Executed(m, verb) ==
    [recording EXCEPT ![m] = IF verb = "start" THEN "recording"
                             ELSE IF @ = "recording" THEN "stopped" ELSE @]

\* Mutant: the state is asked for before the POST is made.
Posted_SnapshotFirst(c) ==
    /\ calls[c] # Idle /\ calls[c].stage = "post"
    /\ recording' = Executed(calls[c].meeting, Verb(calls[c].kind))
    /\ calls' = [calls EXCEPT ![c].stage = "got", ![c].seen = recording[calls[c].meeting]]
    /\ UNCHANGED <<vars, metadata, strays, recordingExcused>>

\* The POST is executed and answered ("already_recording" and "not_recording"
\* count as success), and the state is asked for.
Posted(c) ==
    /\ calls[c] # Idle /\ calls[c].stage = "post"
    /\ recording' = Executed(calls[c].meeting, Verb(calls[c].kind))
    /\ calls' = [calls EXCEPT ![c].stage = "get"]
    /\ UNCHANGED <<vars, metadata, strays, recordingExcused>>

Unstopped(c) == IF Verb(calls[c].kind) = "stop" THEN {"unstopped"} ELSE {}

\* "processing": nothing was done, and the state is asked for all the same.
Processing(c) ==
    /\ calls[c] # Idle /\ calls[c].stage = "post"
    /\ calls' = [calls EXCEPT ![c].stage = "get"]
    /\ recordingExcused' = [recordingExcused EXCEPT ![calls[c].meeting] = @ \cup Unstopped(c)]
    /\ UNCHANGED <<vars, recording, metadata, strays>>

Refused(c) ==
    /\ calls[c] # Idle /\ calls[c].stage \in {"post", "get"}
    /\ GiveUpOrRetry(c, TRUE)
    /\ recordingExcused' = [recordingExcused EXCEPT ![calls[c].meeting] =
                      @ \cup Unstopped(c) \cup (IF calls[c].stage = "get" THEN {"lost"} ELSE {})]
    /\ UNCHANGED <<vars, recording, strays>>

\* No answer in time: a POST may have been executed, or be executed later.
Lost(c) ==
    LET call == calls[c]
    IN  /\ call # Idle /\ call.stage \in {"post", "get"}
        /\ GiveUpOrRetry(c, FALSE)
        /\ \/ UNCHANGED <<recording, strays>>
           \/ /\ call.stage = "post"
              /\ recording' = Executed(call.meeting, Verb(call.kind))
              /\ UNCHANGED strays
           \/ /\ call.stage = "post"
              /\ strays' = strays \cup {<<call.meeting, Verb(call.kind)>>}
              /\ UNCHANGED recording
        /\ recordingExcused' =
              [recordingExcused EXCEPT ![call.meeting] = @ \cup {"lost"} \cup Unstopped(c)]
        /\ UNCHANGED vars

StrayExecuted ==
    \E stray \in strays :
        /\ strays' = strays \ {stray}
        /\ recording' = Executed(stray[1], stray[2])
        /\ UNCHANGED <<vars, calls, metadata, recordingExcused>>

StrayGone ==
    \E stray \in strays :
        /\ strays' = strays \ {stray}
        /\ UNCHANGED <<vars, calls, recording, metadata, recordingExcused>>

\* The GET reads the state; its answer is on the way.
Read(c) ==
    /\ calls[c] # Idle /\ calls[c].stage = "get"
    /\ calls' = [calls EXCEPT ![c].stage = "got", ![c].seen = recording[calls[c].meeting]]
    /\ UNCHANGED <<vars, recording, metadata, strays, recordingExcused>>

\* enqueueRecordingSignal: an event of a status change that is none.
Signal(m) == StatusEvent(m, Move(status[m], status[m], "recording_auto_started"))

\* The answer is written to the metadata, whatever was written meanwhile.
Applied(c) ==
    LET call == calls[c]
    IN  /\ call # Idle /\ call.stage = "got"
        /\ metadata' = [metadata EXCEPT ![call.meeting] = call.seen]
        /\ calls' = [calls EXCEPT ![c] = Idle]
        /\ outbox' = IF call.kind = "auto" THEN outbox \cup {Signal(call.meeting)} ELSE outbox
        /\ UNCHANGED <<status, history, queuedMeetings, now, recording, strays, recordingExcused>>

Step(c) ==
    \/ SettingsDone(c) \/ Posted(c) \/ Processing(c) \/ Refused(c) \/ Lost(c)
    \/ BackoffOver(c) \/ Read(c) \/ Applied(c)

\* The clock (Tick) plays no part here.
RecordingNext ==
    \/ \E m \in Meetings :
          \/ StartRecorded(m)
          \/ \E s \in Finished \cup {Absent}, why \in Reasons : StopRecorded(m, s, why)
          \/ \E s \in FailStatus, why \in Reasons : FailRecorded(m, s, why)
          \/ \E kind \in {"start", "stop", "get"} : Route(m, kind)
    \/ \E c \in Calls : Step(c)
    \/ StrayExecuted
    \/ StrayGone
    \/ ClearQueued /\ UNCHANGED recordingVars

RecordingSpec == RecordingInit /\ [][RecordingNext]_recordedVars

-----------------------------------------------------------------------------
(* Properties                                                              *)

Kinds == {"auto", "end", "start", "stop", "get"}
States == {"idle", "recording", "stopped"}

\* Every variable has its type; the automatic start makes no more than
\* StartAttempts attempts.
RecordingTypeOK ==
    /\ \A c \in Calls :
          \/ calls[c] = Idle
          \/ calls[c] \in [kind: Kinds, meeting: Meetings, attempt: 1..StartAttempts, seen: States,
                           stage: {"settings", "post", "wait", "get", "got"}]
    /\ recording \in [Meetings -> States]
    /\ metadata \in [Meetings -> States \cup {"unset", "failed"}]
    /\ strays \subseteq Meetings \X {"start", "stop"}
    /\ recordingExcused \in [Meetings -> SUBSET {"raced", "unstopped", "lost", "overlapped"}]

Quiet(m) == Running(m) = {} /\ \A verb \in {"start", "stop"} : <<m, verb>> \notin strays

\* A meeting that was stopped is recorded no more once its calls have ended,
\* unless a start raced the stop or came after it, or the stop did not take: the
\* automatic start is never a danger once it has ended.
RecordingOutlivesMeetingForAReason ==
    \A m \in Meetings :
        status[m] \in Finished /\ Quiet(m) /\ recording[m] = "recording"
            => recordingExcused[m] \cap {"raced", "unstopped"} # {}

\* Once the calls of a meeting have ended, its metadata says what the provider
\* does, unless calls overlapped or an answer was lost.
MetadataIsTrue ==
    \A m \in Meetings :
        Quiet(m) /\ recordingExcused[m] \cap {"overlapped", "lost"} = {}
            => \/ metadata[m] = recording[m]
               \/ metadata[m] \in {"unset", "failed"} /\ recording[m] = "idle"

=============================================================================
