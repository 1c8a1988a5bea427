--------------------------- MODULE MeetingLifecycle ---------------------------
(***************************************************************************)
(* The life of a meeting inside one gateway process: MeetingOrchestrator's *)
(* start, stop and fail, the MeetingStateMachine they are validated by,    *)
(* the status and history kept by InMemoryMeetingStore, and the events     *)
(* that reach the webhook outbox (status changes from the orchestrator,    *)
(* the post-processing event from PostMeetingProcessor).                   *)
(*                                                                         *)
(* Each of these methods runs to its end in one turn of the event loop, so *)
(* each is one action.  What they start without awaiting it is in          *)
(* MeetingRecording and AvatarSession, their writes to Redis in            *)
(* MeetingRecovery, and the delivery of the outbox in WebhookDelivery.     *)
(***************************************************************************)
EXTENDS Naturals, Sequences

CONSTANTS Meetings,    \* meeting ids
          Reasons,     \* the reasons a client may give to stop or fail
          MaxHistory,  \* bound: transitions kept for one meeting
          MaxTime      \* bound: values of the millisecond clock

ASSUME BoundsAssumption == MaxHistory \in Nat /\ MaxTime \in Nat

VARIABLES
    status,          \* status[m]: the record's status, Absent before it exists
    history,         \* history[m]: its transitions, oldest first
    outbox,          \* the events enqueued in the webhook outbox
    queuedMeetings,  \* PostMeetingProcessor's set of meetings already queued
    now              \* Date.now()

vars == <<status, history, outbox, queuedMeetings, now>>

-----------------------------------------------------------------------------
(* Statuses and the transition table of MeetingStateMachine.               *)

Absent == "absent"
FailStatus == {"failed_audio_pool_busy", "failed_connect_ws_audio"}
Finished == {"stopped_during_meeting", "completed"}
Terminal == FailStatus \cup Finished
Open == {"pending", "starting", "in_meeting"}
MeetingStatus == Open \cup Terminal

\* Mutant: a failed meeting can still be stopped.
allowedTransitions_FailedCanStop ==
    [from \in MeetingStatus |->
        CASE from = "pending"    -> {"starting"} \cup FailStatus
          [] from = "starting"   -> {"in_meeting", "stopped_during_meeting"} \cup FailStatus
          [] from = "in_meeting" -> Finished \cup FailStatus
          [] from \in FailStatus -> {"stopped_during_meeting"}
          [] OTHER               -> {}]

allowedTransitions ==
    [from \in MeetingStatus |->
        CASE from = "pending"    -> {"starting"} \cup FailStatus
          [] from = "starting"   -> {"in_meeting", "stopped_during_meeting"} \cup FailStatus
          [] from = "in_meeting" -> Finished \cup FailStatus
          [] OTHER               -> {}]

\* Mutant: validates the target only.
assertTransition_TargetOnly(from, to) == from = to \/ to \in Terminal \/ from \in Open

\* assertTransition lets a status be set to itself, even a terminal one.
assertTransition(from, to) == from = to \/ to \in allowedTransitions[from]

-----------------------------------------------------------------------------
(* Events.  The history entry of a transition and the webhook made of it   *)
(* carry the same statuses, reason and time; the outbox drops an event     *)
(* whose idempotency key (a hash of those fields) it has seen, so it is a  *)
(* set.                                                                    *)

SystemReason == {"meeting_created", "meeting_start_requested", "meeting_started"}

Transition == [fromStatus: MeetingStatus \cup {Absent}, toStatus: MeetingStatus,
               reason: Reasons \cup SystemReason, timestampMs: 0..MaxTime]

Move(from, to, why) ==
    [fromStatus |-> from, toStatus |-> to, reason |-> why, timestampMs |-> now]

StatusEvent(m, t) ==
    [eventType |-> "meeting.status.changed", meeting |-> m, transition |-> t]

PostEvent(m) ==
    [eventType |-> "meeting.post_processing.completed", meeting |-> m,
     timestampMs |-> now]

StatusEvents == [eventType: {"meeting.status.changed"}, meeting: Meetings,
                 transition: Transition]
PostEvents == [eventType: {"meeting.post_processing.completed"}, meeting: Meetings,
               timestampMs: 0..MaxTime]

-----------------------------------------------------------------------------
Init ==
    /\ status = [m \in Meetings |-> Absent]
    /\ history = [m \in Meetings |-> <<>>]
    /\ outbox = {}
    /\ queuedMeetings = {}
    /\ now = 0

\* store.createMeeting, then the transitions to starting and to in_meeting.
\* Only the last two are reported: createMeeting enqueues nothing.
StartMeeting(m) ==
    LET starting == Move("pending", "starting", "meeting_start_requested")
        started  == Move("starting", "in_meeting", "meeting_started")
    IN  /\ status[m] = Absent
        /\ assertTransition("pending", "starting")
        /\ assertTransition("starting", "in_meeting")
        /\ status' = [status EXCEPT ![m] = "in_meeting"]
        /\ history' = [history EXCEPT ![m] =
                          <<Move(Absent, "pending", "meeting_created"), starting, started>>]
        /\ outbox' = outbox \cup {StatusEvent(m, starting), StatusEvent(m, started)}
        /\ UNCHANGED <<queuedMeetings, now>>

\* Mutant: the transition is built after the record's status was assigned.
RecordTransition_BuiltLate(m, to, why) ==
    /\ status[m] # Absent
    /\ assertTransition(status[m], to)
    /\ Len(history[m]) < MaxHistory
    /\ status' = [status EXCEPT ![m] = to]
    /\ history' = [history EXCEPT ![m] = Append(@, Move(to, to, why))]

\* orchestrator.transition on an existing record, up to the history entry.
RecordTransition(m, to, why) ==
    /\ status[m] # Absent
    /\ assertTransition(status[m], to)
    /\ Len(history[m]) < MaxHistory
    /\ status' = [status EXCEPT ![m] = to]
    /\ history' = [history EXCEPT ![m] = Append(@, Move(status[m], to, why))]

\* Mutant: a transition that changes nothing is not reported.
StatusWebhooks_ChangesOnly(m, to, why) ==
    IF status[m] = to THEN {} ELSE {StatusEvent(m, Move(status[m], to, why))}

\* enqueueStatusWebhook: the event made of the transition just recorded.
StatusWebhooks(m, to, why) == {StatusEvent(m, Move(status[m], to, why))}

\* enqueueCompleted: nothing if the meeting was queued since the last sweep.
PostProcessing(m) == IF m \in queuedMeetings THEN {} ELSE {PostEvent(m)}

\* StopMeetingInput.finalStatus is optional.
FinalStatus(input) == IF input = Absent THEN "stopped_during_meeting" ELSE input

StopMeeting(m, input, why) ==
    LET finalStatus == FinalStatus(input)
    IN  /\ RecordTransition(m, finalStatus, why)
        /\ outbox' = outbox \cup StatusWebhooks(m, finalStatus, why) \cup PostProcessing(m)
        /\ queuedMeetings' = queuedMeetings \cup {m}
        /\ UNCHANGED now

\* Mutant: post-processing is announced for any ended meeting.
FailMeeting_PostProcesses(m, failStatus, why) ==
    /\ RecordTransition(m, failStatus, why)
    /\ outbox' = outbox \cup StatusWebhooks(m, failStatus, why) \cup PostProcessing(m)
    /\ queuedMeetings' = queuedMeetings \cup {m}
    /\ UNCHANGED now

FailMeeting(m, failStatus, why) ==
    /\ RecordTransition(m, failStatus, why)
    /\ outbox' = outbox \cup StatusWebhooks(m, failStatus, why)
    /\ UNCHANGED <<queuedMeetings, now>>

\* PostMeetingProcessor's interval, every 1500 ms.
ClearQueued ==
    /\ queuedMeetings # {}
    /\ queuedMeetings' = {}
    /\ UNCHANGED <<status, history, outbox, now>>

Tick ==
    /\ now < MaxTime
    /\ now' = now + 1
    /\ UNCHANGED <<status, history, outbox, queuedMeetings>>

Next ==
    \/ \E m \in Meetings : StartMeeting(m)
    \/ \E m \in Meetings, s \in Finished \cup {Absent}, why \in Reasons : StopMeeting(m, s, why)
    \/ \E m \in Meetings, s \in FailStatus, why \in Reasons : FailMeeting(m, s, why)
    \/ ClearQueued
    \/ Tick

Spec == Init /\ [][Next]_vars

-----------------------------------------------------------------------------
(* Properties                                                              *)

\* Every variable has its type; an unopened meeting has no history.
TypeOK ==
    /\ status \in [Meetings -> MeetingStatus \cup {Absent}]
    /\ history \in [Meetings -> Seq(Transition)]
    /\ outbox \subseteq StatusEvents \cup PostEvents
    /\ queuedMeetings \subseteq Meetings
    /\ now \in 0..MaxTime

\* The history of a meeting is a path of the state machine that begins with
\* its creation and ends at its status: no entry is lost, doubled or out of
\* order (meetingStore.updateMeetingStatus against meeting.status).
HistoryIsPath ==
    \A m \in Meetings :
        IF status[m] = Absent
        THEN history[m] = <<>>
        ELSE /\ Len(history[m]) > 0
             /\ history[m][1].fromStatus = Absent
             /\ history[m][Len(history[m])].toStatus = status[m]
             /\ \A i \in 1..(Len(history[m]) - 1) :
                   /\ history[m][i + 1].fromStatus = history[m][i].toStatus
                   /\ assertTransition(history[m][i].toStatus, history[m][i + 1].toStatus)

\* JobAI is told exactly what happened: a status event is in the outbox for a
\* meeting if and only if its history has that transition, the creation aside
\* (recording signals, which are no transitions, are in MeetingRecording;
\* "Each transition ... produces webhook outbox event", README.md:119-122).
EveryTransitionReported ==
    \A m \in Meetings :
        /\ \A i \in 2..Len(history[m]) : StatusEvent(m, history[m][i]) \in outbox
        /\ \A e \in outbox :
              e.eventType = "meeting.status.changed" /\ e.meeting = m
                  => \E i \in 2..Len(history[m]) : e.transition = history[m][i]

\* Whatever stops, fails, retries and deinits do, in any order, JobAI is never
\* told two different outcomes of one meeting, and the one it is told is the
\* one the gateway itself holds.
OneOutcome ==
    \A e \in outbox :
        e.eventType = "meeting.status.changed" /\ e.transition.toStatus \in Terminal
            => e.transition.toStatus = status[e.meeting]

\* Post-processing is announced for exactly the meetings that were stopped or
\* completed (README.md:124 names the latter only): the deduplication set never
\* swallows the first announcement, and a meeting that failed never gets one, even
\* when it is stopped afterwards.
PostProcessingIffFinished ==
    \A m \in Meetings :
        (\E e \in outbox : e.eventType = "meeting.post_processing.completed" /\ e.meeting = m)
            <=> status[m] \in Finished

\* No step takes a meeting out of a terminal status, or makes a record vanish.
TerminalIsForever ==
    [][\A m \in Meetings :
          /\ status[m] \in Terminal => status'[m] = status[m]
          /\ status[m] # Absent => status'[m] # Absent]_vars

\* The pipeline pending -> starting -> in_meeting -> outcome, repeated stops and
\* all, implements the promise of MeetingOutcome: the outcome is told in the step
\* that ends the meeting, and a repeated stop or fail tells nothing new.
Promise == INSTANCE MeetingOutcome WITH
    Outcomes <- Terminal,
    outcome <- [m \in Meetings |-> IF status[m] = Absent THEN "none"
                                   ELSE IF status[m] \in Open THEN "open" ELSE status[m]],
    told <- {<<e.meeting, e.transition.toStatus>> :
                e \in {x \in outbox : x.eventType = "meeting.status.changed"
                                       /\ x.transition.toStatus \in Terminal}}

ImplementsOutcome == Promise!Spec
=============================================================================
