---------------------------- MODULE ControlMeeting ----------------------------
(***************************************************************************)
(* The control plane of one numeric meeting: the handlers of POST          *)
(* /meetings/start and /meetings/stop, which await the publisher between   *)
(* their checks and their effects, the legacy routes beside them, the      *)
(* presence of the candidate with its sweeper, and the deinit run that     *)
(* ends a meeting when the candidate leaves.                               *)
(*                                                                         *)
(* It composes MeetingLifecycle, RtmpPublisher and what the handlers keep  *)
(* themselves.  A handler goes on in the same turn as the start of the     *)
(* publisher it awaits.                                                    *)
(***************************************************************************)
EXTENDS MeetingLifecycle, RtmpPublisher

CONSTANT Control  \* the meeting

ASSUME ControlAssumption == Control \in Meetings /\ "manual_stop" \in Reasons

VARIABLES
    fresh,      \* the starts that have started the meeting, and undo it when they fail
    presence,   \* the row of MeetingCandidatePresenceTracker: whether the sweeper
                \* watches the meeting (it was started), and whether it is stopped
    projection, \* nullxesStatus of the interview
    jobAiEnded, \* whether JobAI's status of the interview is terminal
    scheduled,  \* deinit runs that have not begun
    deinit,     \* how far the deinit run in flight has come
    controlExcused     \* history variable: what happened beside the normal course

controlVars == <<fresh, presence, projection, jobAiEnded, scheduled, deinit, controlExcused>>
allVars == <<vars, publisherVars, controlVars>>

\* A row that is missing differs from this one in what a ping is answered only.
NoRow == [armed |-> FALSE, stopped |-> FALSE]

isFinishedInterview == jobAiEnded \/ projection \in Finished

\* failed_* is not among them.
isFinishedMeeting == status[Control] \in Finished

\* Mutant: whatever is not active may be recovered.
isRecoverable_Inactive == ~getSnapshot.active

\* Not while a publisher is starting.
isRecoverable == ~getSnapshot.active /\ getSnapshot.status # "starting"

MayStop == status[Control] # Absent /\ assertTransition(status[Control], "stopped_during_meeting")

\* stopMeeting as the handlers call it; it throws when it is not allowed.
StopLocal == StopMeeting(Control, "stopped_during_meeting", "manual_stop")

\* What an end of the meeting, or of its deinit, does to the excuses.
Excuses(kind) == controlExcused \cup kind \cup IF Pending # {} THEN {"startup"} ELSE {}

-----------------------------------------------------------------------------
ControlInit ==
    /\ Init /\ PublisherInit
    /\ fresh = {}
    /\ presence = NoRow
    /\ projection = "idle"
    /\ jobAiEnded = FALSE
    /\ scheduled = FALSE
    /\ deinit = "none"
    /\ controlExcused = {}

-----------------------------------------------------------------------------
(* POST /meetings/start                                                    *)

StartFresh(p) ==
    /\ ~isFinishedInterview
    /\ StartMeeting(Control)
    /\ Start(p)
    /\ fresh' = fresh \cup {p}
    /\ controlExcused' = controlExcused \cup IF deinit = "none" THEN {} ELSE {"early"}
    /\ UNCHANGED <<presence, projection, jobAiEnded, scheduled, deinit>>

\* A meeting that goes on without a publisher gets a new one.
StartRecovery(p) ==
    /\ ~isFinishedInterview
    /\ status[Control] # Absent /\ ~isFinishedMeeting
    /\ isRecoverable
    /\ Start(p)
    /\ UNCHANGED <<vars, controlVars>>

\* Mutant: every start arms the presence.
StartEnds_AlwaysArms(p) ==
    /\ Started(p)
    /\ presence' = [armed |-> TRUE, stopped |-> FALSE]
    /\ projection' = "in_meeting"
    /\ UNCHANGED <<vars, fresh, jobAiEnded, scheduled, deinit, controlExcused>>

\* The publisher is started; the handler arms the presence and tells the
\* interview, whatever became of the meeting meanwhile.
StartEnds(p) ==
    /\ Started(p)
    /\ IF p \in fresh
       THEN /\ presence' = [armed |-> TRUE, stopped |-> FALSE]
            /\ projection' = "in_meeting"
       ELSE UNCHANGED <<presence, projection>>
    /\ UNCHANGED <<vars, fresh, jobAiEnded, scheduled, deinit, controlExcused>>

RollBack(p) == IF p \in fresh /\ MayStop THEN StopLocal ELSE UNCHANGED vars

StartFails(p) ==
    /\ StartupExit(p)
    /\ RollBack(p)
    /\ UNCHANGED controlVars

-----------------------------------------------------------------------------
(* POST /meetings/stop and the legacy routes                               *)

\* Mutant: the publisher is left to itself.
StopControl_KeepsPublisher ==
    /\ ~isFinishedInterview
    /\ MayStop /\ ~isFinishedMeeting
    /\ StopLocal
    /\ projection' = "stopped_during_meeting"
    /\ controlExcused' = Excuses({})
    /\ UNCHANGED <<publisherVars, fresh, presence, jobAiEnded, scheduled, deinit>>

\* Mutant: the interview is not told.
StopControl_KeepsProjection ==
    /\ ~isFinishedInterview
    /\ MayStop /\ ~isFinishedMeeting
    /\ StopLocal
    /\ controlExcused' = Excuses({})
    /\ Stop
    /\ UNCHANGED <<fresh, presence, projection, jobAiEnded, scheduled, deinit>>

StopControl ==
    /\ ~isFinishedInterview
    /\ MayStop /\ ~isFinishedMeeting
    /\ StopLocal
    /\ projection' = "stopped_during_meeting"
    /\ controlExcused' = Excuses({})
    /\ Stop
    /\ UNCHANGED <<fresh, presence, jobAiEnded, scheduled, deinit>>

\* The legacy routes know neither publisher, presence nor interview.
LegacyRoutes ==
    /\ \/ StartMeeting(Control)
       \/ \E s \in Finished \cup {Absent}, why \in Reasons : StopMeeting(Control, s, why)
       \/ \E s \in FailStatus, why \in Reasons : FailMeeting(Control, s, why)
    /\ controlExcused' = Excuses({"legacy"})
    /\ UNCHANGED <<publisherVars, fresh, presence, projection, jobAiEnded, scheduled, deinit>>

-----------------------------------------------------------------------------
(* Presence and deinit                                                     *)

\* Pings move the times the sweeper compares, which are abstracted.
MarkStopped == presence' = [presence EXCEPT !.stopped = TRUE]

\* The candidate leaves.
RequestDeinit ==
    /\ ~isFinishedInterview
    /\ scheduled' = TRUE
    /\ MarkStopped
    /\ UNCHANGED <<vars, publisherVars, fresh, projection, jobAiEnded, deinit, controlExcused>>

\* Mutant: the sweeper forgets the row and schedules nothing.
Sweep_Forgets ==
    /\ presence.armed /\ ~presence.stopped
    /\ MarkStopped
    /\ UNCHANGED <<vars, publisherVars, fresh, projection, jobAiEnded, scheduled, deinit, controlExcused>>

\* The sweeper, once the candidate is absent or the meeting takes too long.
Sweep ==
    /\ presence.armed /\ ~presence.stopped
    /\ scheduled' = TRUE
    /\ MarkStopped
    /\ UNCHANGED <<vars, publisherVars, fresh, projection, jobAiEnded, deinit, controlExcused>>

\* A run that finds another in flight ends at once.
DeinitBegins ==
    /\ scheduled
    /\ scheduled' = FALSE
    /\ deinit' = IF deinit = "none" THEN "forwarding" ELSE deinit
    /\ UNCHANGED <<vars, publisherVars, fresh, presence, projection, jobAiEnded, controlExcused>>

\* Mutant: the meeting itself is left to the AI agent.
DeinitStops_ForwardOnly ==
    /\ deinit = "forwarding"
    /\ deinit' = "closing"
    /\ IF status[Control] # Absent /\ ~isFinishedMeeting
       THEN projection' = "stopped_during_meeting" /\ controlExcused' = Excuses({}) /\ Stop
       ELSE UNCHANGED <<publisherVars, projection, controlExcused>>
    /\ UNCHANGED <<vars, fresh, presence, jobAiEnded, scheduled>>

\* The stop has been forwarded to the AI agent.
DeinitStops ==
    /\ deinit = "forwarding"
    /\ deinit' = "closing"
    /\ IF status[Control] # Absent /\ ~isFinishedMeeting
       THEN /\ IF MayStop THEN StopLocal ELSE UNCHANGED vars
            /\ projection' = "stopped_during_meeting"
            /\ controlExcused' = Excuses({})
            /\ Stop
       ELSE UNCHANGED <<vars, publisherVars, projection, controlExcused>>
    /\ UNCHANGED <<fresh, presence, jobAiEnded, scheduled>>

\* After the publisher and the recording have stopped.
DeinitEnds ==
    /\ deinit = "closing"
    /\ deinit' = "none"
    /\ MarkStopped
    /\ UNCHANGED <<vars, publisherVars, fresh, projection, jobAiEnded, scheduled, controlExcused>>

\* JobAI ends the interview, by itself or told by transitionStatus.
JobAiEnds ==
    /\ ~jobAiEnded
    /\ jobAiEnded' = TRUE
    /\ projection' \in Finished
    /\ controlExcused' = controlExcused \cup IF status[Control] \in Terminal THEN {} ELSE {"jobai"}
    /\ UNCHANGED <<vars, publisherVars, fresh, presence, scheduled, deinit>>

-----------------------------------------------------------------------------
PublisherStep(p) == RuntimeExit(p) \/ ForceKill(p) \/ Stderr(p)

Deinit == DeinitBegins \/ DeinitStops \/ DeinitEnds

\* The clock and the sweep of the post-processing (Tick, ClearQueued) play no part
\* here.
ControlNext ==
    \/ \E p \in Starts :
          \/ StartFresh(p) \/ StartRecovery(p) \/ StartEnds(p) \/ StartFails(p)
          \/ PublisherStep(p) /\ UNCHANGED <<vars, controlVars>>
    \/ StopControl \/ LegacyRoutes
    \/ RequestDeinit \/ Sweep \/ Deinit
    \/ JobAiEnds

ControlSpec == ControlInit /\ [][ControlNext]_allVars

\* Timers fire, the forwarding and the provider answer or time out; the sweeper
\* needs no absence: every meeting reaches its wall-clock budget.
FairControlSpec ==
    /\ ControlSpec
    /\ WF_allVars(Sweep) /\ WF_allVars(DeinitBegins) /\ WF_allVars(DeinitStops)
    /\ WF_allVars(DeinitEnds)

-----------------------------------------------------------------------------
(* Properties                                                              *)

\* Every variable has its type; a meeting is started once, and watched only after
\* its start has succeeded ("Call after successful ... POST /meetings/start",
\* meetingCandidatePresence.ts:36).
ControlTypeOK ==
    /\ fresh \subseteq Starts /\ Cardinality(fresh) <= 1
    /\ presence.armed => \A p \in fresh : call[p] = "done"
    /\ presence.armed => fresh # {}
    /\ presence \in [armed: BOOLEAN, stopped: BOOLEAN]
    /\ projection \in {"idle", "in_meeting"} \cup Finished
    /\ jobAiEnded \in BOOLEAN /\ scheduled \in BOOLEAN
    /\ deinit \in {"none", "forwarding", "closing"}
    /\ controlExcused \subseteq {"startup", "legacy", "early", "jobai"}

\* The handlers never have two publishers started at the same time: what the
\* snapshot says of a start in progress keeps the second one away, so that the
\* leak of RtmpPublisher's RunningIsOwned is out of reach.
OneStartAtATime == overlapped = {} /\ \A p \in Starts : call[p] # "failing"

\* A meeting that was stopped has no publisher, unless it ended while its
\* publisher was starting, or by a legacy route.
PublisherOutlivesMeetingForAReason ==
    isFinishedMeeting /\ Pending = {} /\ session # NoSession
        => controlExcused \cap {"startup", "legacy"} # {}

\* The interview says in_meeting only while the meeting is, unless it ended
\* while its publisher was starting, or by a legacy route.
ProjectionFollowsMeeting ==
    projection = "in_meeting" /\ status[Control] # "in_meeting"
        => controlExcused \cap {"startup", "legacy"} # {}

\* The interview is not finished while the meeting goes on, which could then be
\* stopped by nobody but the sweeper, unless JobAI ended it by itself.
FinishedInterviewMeansEnded ==
    isFinishedInterview /\ status[Control] \in Open => "jobai" \in controlExcused

\* A meeting that was started and is watched ends, whether or not the candidate
\* says goodbye and JobAI has ended the interview before, unless it was started
\* during the deinit run of a candidate who left before.
WatchedMeetingEnds ==
    presence.armed /\ status[Control] \in Open
        ~> status[Control] \in Terminal \/ "early" \in controlExcused

\* "wall-clock session budget" (meetingCandidatePresence.ts:11): every meeting
\* that was started on the control path is ended when its budget is spent.
WallClockBudget ==
    presence.armed /\ status[Control] \in Open ~> status[Control] \in Terminal
=============================================================================
