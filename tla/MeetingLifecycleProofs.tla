------------------------ MODULE MeetingLifecycleProofs ------------------------
(***************************************************************************)
(* Proofs about MeetingLifecycle for any meetings, reasons and bounds.     *)
(* The inductive invariant is the conjunction of the properties the run    *)
(* checks and one fact about the deduplication set.                        *)
(***************************************************************************)
EXTENDS MeetingLifecycle, TLAPS

\* A meeting still in the deduplication set has had its announcement: this is
\* what makes it right for enqueueCompleted to drop the next one.
QueuedWasAnnounced == \A m \in queuedMeetings : status[m] \in Finished

Inv ==
    /\ TypeOK
    /\ OneOutcome
    /\ PostProcessingIffFinished
    /\ QueuedWasAnnounced

-----------------------------------------------------------------------------
\* The transition table never leaves a terminal status, and never reaches
\* back to Absent.
LEMMA TerminalHasNoExit ==
    ASSUME NEW from \in MeetingStatus, NEW to \in Finished \cup FailStatus,
           assertTransition(from, to)
    PROVE  from \in Terminal => to = from
  BY DEF assertTransition, allowedTransitions, MeetingStatus, Terminal, Open,
         Finished, FailStatus

\* The three things an action can do to a meeting are type-correct.
LEMMA MoveType ==
    ASSUME TypeOK, NEW from \in MeetingStatus \cup {Absent}, NEW to \in MeetingStatus,
           NEW why \in Reasons \cup SystemReason
    PROVE  Move(from, to, why) \in Transition
  BY DEF TypeOK, Move, Transition

\* A stop always ends in a finished status, whether or not one is given.
LEMMA FinalStatusType ==
    ASSUME NEW s \in Finished \cup {Absent}
    PROVE  FinalStatus(s) \in Finished
  BY DEF FinalStatus, Finished, Absent

-----------------------------------------------------------------------------
\* The initial state has the types.
LEMMA TypeInit == Init => TypeOK
  BY BoundsAssumption DEF Init, TypeOK

\* Recording a transition and enqueueing its events keeps the types: the part
\* common to stop and fail.
LEMMA TypeRecord ==
    ASSUME TypeOK, NEW m \in Meetings, NEW to \in Finished \cup FailStatus,
           NEW why \in Reasons, RecordTransition(m, to, why)
    PROVE  /\ status[m] \in MeetingStatus
           /\ status' \in [Meetings -> MeetingStatus \cup {Absent}]
           /\ history' \in [Meetings -> Seq(Transition)]
           /\ StatusWebhooks(m, to, why) \subseteq StatusEvents
           /\ PostProcessing(m) \subseteq PostEvents
  <1>1. to \in MeetingStatus /\ why \in Reasons \cup SystemReason
    BY DEF MeetingStatus, Terminal
  <1>2. status[m] \in MeetingStatus
    BY DEF TypeOK, RecordTransition
  <1>3. Move(status[m], to, why) \in Transition
    BY <1>1, <1>2, MoveType
  <1>4. history' \in [Meetings -> Seq(Transition)]
    BY <1>3 DEF TypeOK, RecordTransition
  <1>5. StatusWebhooks(m, to, why) \subseteq StatusEvents
    BY <1>3 DEF StatusWebhooks, StatusEvent, StatusEvents
  <1>6. PostProcessing(m) \subseteq PostEvents
    BY DEF TypeOK, PostProcessing, PostEvent, PostEvents
  <1> QED BY <1>1, <1>2, <1>4, <1>5, <1>6 DEF TypeOK, RecordTransition

\* Opening a meeting keeps the types.
LEMMA TypeStart ==
    ASSUME TypeOK, NEW m \in Meetings, StartMeeting(m)
    PROVE  TypeOK'
  <1> DEFINE created  == Move(Absent, "pending", "meeting_created")
             starting == Move("pending", "starting", "meeting_start_requested")
             started  == Move("starting", "in_meeting", "meeting_started")
  <1>1. /\ created \in Transition
        /\ starting \in Transition
        /\ started \in Transition
    BY MoveType DEF MeetingStatus, Open, SystemReason
  <1>2. history' \in [Meetings -> Seq(Transition)]
    BY <1>1 DEF StartMeeting, TypeOK
  <1>3. outbox' \subseteq StatusEvents \cup PostEvents
    <2>1. StatusEvent(m, starting) \in StatusEvents /\ StatusEvent(m, started) \in StatusEvents
      BY <1>1 DEF StatusEvent, StatusEvents
    <2>2. outbox' = outbox \cup {StatusEvent(m, starting), StatusEvent(m, started)}
      BY DEF StartMeeting
    <2> HIDE DEF starting, started
    <2> QED BY <2>1, <2>2 DEF TypeOK
  <1>4. status' \in [Meetings -> MeetingStatus \cup {Absent}]
    BY DEF StartMeeting, TypeOK, MeetingStatus, Open
  <1> QED BY <1>2, <1>3, <1>4 DEF StartMeeting, TypeOK

\* Every step keeps the types.
LEMMA TypeNext == TypeOK /\ [Next]_vars => TypeOK'
  <1> SUFFICES ASSUME TypeOK, [Next]_vars PROVE TypeOK'
    OBVIOUS
  <1>1. ASSUME NEW m \in Meetings, StartMeeting(m) PROVE TypeOK'
    BY <1>1, TypeStart
  <1>2. ASSUME NEW m \in Meetings, NEW s \in Finished \cup {Absent}, NEW why \in Reasons,
               StopMeeting(m, s, why)
        PROVE  TypeOK'
    <2>1. FinalStatus(s) \in Finished \cup FailStatus
      BY FinalStatusType
    <2>2. RecordTransition(m, FinalStatus(s), why)
      BY <1>2 DEF StopMeeting
    <2> QED BY <1>2, <2>1, <2>2, TypeRecord DEF StopMeeting, TypeOK
  <1>3. ASSUME NEW m \in Meetings, NEW s \in FailStatus, NEW why \in Reasons,
               FailMeeting(m, s, why)
        PROVE  TypeOK'
    <2>1. RecordTransition(m, s, why)
      BY <1>3 DEF FailMeeting
    <2> QED BY <1>3, <2>1, TypeRecord DEF FailMeeting, TypeOK
  <1>4. CASE ClearQueued
    BY <1>4 DEF ClearQueued, TypeOK
  <1>5. CASE Tick
    BY <1>5, BoundsAssumption DEF Tick, TypeOK
  <1>6. CASE UNCHANGED vars
    BY <1>6 DEF vars, TypeOK
  <1> QED BY <1>1, <1>2, <1>3, <1>4, <1>5, <1>6 DEF Next

\* Type correctness: every reachable state of the gateway has well-formed
\* records, histories and events.
THEOREM TypeCorrect == Spec => []TypeOK
  BY TypeInit, TypeNext, PTL DEF Spec

-----------------------------------------------------------------------------
\* What the outbox holds for a meeting that exists nowhere else: nothing.
LEMMA InvInit == Init => Inv
  BY TypeInit DEF Init, Inv, OneOutcome, PostProcessingIffFinished,
                  QueuedWasAnnounced, Finished, Absent

\* A meeting opens with two events, neither of them an outcome.
LEMMA InvStart ==
    ASSUME Inv, NEW m \in Meetings, StartMeeting(m)
    PROVE  OneOutcome' /\ PostProcessingIffFinished' /\ QueuedWasAnnounced'
  <1> DEFINE starting == Move("pending", "starting", "meeting_start_requested")
             started  == Move("starting", "in_meeting", "meeting_started")
  <1>1. /\ status' = [status EXCEPT ![m] = "in_meeting"]
        /\ outbox' = outbox \cup {StatusEvent(m, starting), StatusEvent(m, started)}
        /\ queuedMeetings' = queuedMeetings
        /\ status[m] = Absent
    BY DEF StartMeeting
  <1>2. starting.toStatus \notin Terminal /\ started.toStatus \notin Terminal
    BY DEF Move, Terminal, FailStatus, Finished
  <1>3. \A t : /\ StatusEvent(m, t).eventType = "meeting.status.changed"
               /\ StatusEvent(m, t).transition = t
    BY DEF StatusEvent
  <1>4. \A n \in Meetings : n # m => status'[n] = status[n]
    BY <1>1 DEF Inv, TypeOK
  <1>5. status'[m] = "in_meeting"
    BY <1>1 DEF Inv, TypeOK
  <1>6. status[m] \notin Terminal /\ status'[m] \notin Finished
    BY <1>1, <1>5 DEF Terminal, Finished, FailStatus, Absent
  <1>7. \A e \in outbox : e.meeting \in Meetings
    BY DEF Inv, TypeOK, StatusEvents, PostEvents
  <1> HIDE DEF starting, started
  <1>8. OneOutcome'
    BY <1>1, <1>2, <1>3, <1>4, <1>6, <1>7 DEF Inv, OneOutcome
  <1>9. PostProcessingIffFinished'
    <2>1. \A e \in outbox' : e.eventType = "meeting.post_processing.completed" <=>
              e \in outbox /\ e.eventType = "meeting.post_processing.completed"
      BY <1>1, <1>3
    <2>2. status[m] \notin Finished
      BY <1>6 DEF Terminal
    <2> QED BY <1>1, <1>4, <1>6, <2>1, <2>2 DEF Inv, PostProcessingIffFinished
  <1>10. QueuedWasAnnounced'
    <2>1. m \notin queuedMeetings
      BY <1>6 DEF Inv, QueuedWasAnnounced, Terminal
    <2> QED BY <1>1, <1>4, <2>1 DEF Inv, TypeOK, QueuedWasAnnounced
  <1> QED BY <1>8, <1>9, <1>10

\* The status event of a transition and the events of other kinds, told apart.
LEMMA EventShapes ==
    ASSUME NEW m \in Meetings, NEW to, NEW why
    PROVE  /\ \A e \in StatusWebhooks(m, to, why) :
                 /\ e.eventType = "meeting.status.changed"
                 /\ e.meeting = m
                 /\ e.transition.toStatus = to
           /\ \A e \in PostProcessing(m) :
                 /\ e.eventType = "meeting.post_processing.completed"
                 /\ e.meeting = m
           /\ m \notin queuedMeetings => \E e \in PostProcessing(m) : TRUE
  <1>1. \A e \in StatusWebhooks(m, to, why) :
           /\ e.eventType = "meeting.status.changed"
           /\ e.meeting = m
           /\ e.transition.toStatus = to
    <2>1. Move(status[m], to, why).toStatus = to
      BY DEF Move
    <2>2. \A t : /\ StatusEvent(m, t).eventType = "meeting.status.changed"
                 /\ StatusEvent(m, t).meeting = m
                 /\ StatusEvent(m, t).transition = t
      BY DEF StatusEvent
    <2> QED BY <2>1, <2>2 DEF StatusWebhooks
  <1>2. /\ PostEvent(m).eventType = "meeting.post_processing.completed"
        /\ PostEvent(m).meeting = m
    BY DEF PostEvent
  <1>3. \A e \in PostProcessing(m) :
           /\ e.eventType = "meeting.post_processing.completed"
           /\ e.meeting = m
    BY <1>2 DEF PostProcessing
  <1>4. m \notin queuedMeetings => \E e \in PostProcessing(m) : TRUE
    BY DEF PostProcessing
  <1> QED BY <1>1, <1>3, <1>4

\* Recording an end of a meeting keeps the outcome JobAI was told: the table
\* lets a terminal status only be repeated.
LEMMA OneOutcomeRecord ==
    ASSUME Inv, NEW m \in Meetings, NEW to \in Finished \cup FailStatus, NEW why \in Reasons,
           RecordTransition(m, to, why),
           NEW post \in SUBSET PostProcessing(m),
           outbox' = outbox \cup StatusWebhooks(m, to, why) \cup post
    PROVE  /\ OneOutcome'
           /\ status'[m] = to
           /\ status[m] \in Terminal => status[m] = to
           /\ \A n \in Meetings : n # m => status'[n] = status[n]
  <1>1. status[m] \in MeetingStatus
    BY DEF Inv, TypeOK, RecordTransition
  <1>2. status[m] \in Terminal => to = status[m]
    BY <1>1, TerminalHasNoExit DEF RecordTransition
  <1>3. status' = [status EXCEPT ![m] = to]
    BY DEF RecordTransition
  <1>4. status'[m] = to /\ \A n \in Meetings : n # m => status'[n] = status[n]
    BY <1>3 DEF Inv, TypeOK
  <1>5. \A e \in outbox : e.meeting \in Meetings
    BY DEF Inv, TypeOK, StatusEvents, PostEvents
  <1>6. ASSUME NEW e \in outbox', e.eventType = "meeting.status.changed",
               e.transition.toStatus \in Terminal
        PROVE  e.transition.toStatus = status'[e.meeting]
    <2>1. CASE e \in outbox
      BY <1>2, <1>4, <1>5, <1>6, <2>1 DEF Inv, OneOutcome
    <2>2. CASE e \in StatusWebhooks(m, to, why)
      BY <1>4, <2>2, EventShapes
    <2>3. CASE e \in post
      BY <1>6, <2>3, EventShapes
    <2> QED BY <2>1, <2>2, <2>3
  <1> QED BY <1>2, <1>4, <1>6 DEF OneOutcome

\* Stopping a meeting keeps the invariant: its outcome, and its announcement.
LEMMA InvStop ==
    ASSUME Inv, NEW m \in Meetings, NEW s \in Finished \cup {Absent}, NEW why \in Reasons,
           StopMeeting(m, s, why)
    PROVE  OneOutcome' /\ PostProcessingIffFinished' /\ QueuedWasAnnounced'
  <1> DEFINE to == FinalStatus(s)
  <1>1. to \in Finished
    BY FinalStatusType
  <1>2. /\ RecordTransition(m, to, why)
        /\ outbox' = outbox \cup StatusWebhooks(m, to, why) \cup PostProcessing(m)
        /\ queuedMeetings' = queuedMeetings \cup {m}
    BY DEF StopMeeting
  <1> HIDE DEF to
  <1>3. /\ OneOutcome'
        /\ status'[m] = to
        /\ status[m] \in Terminal => status[m] = to
        /\ \A n \in Meetings : n # m => status'[n] = status[n]
    BY <1>1, <1>2, OneOutcomeRecord
  <1>4. \E e \in outbox' : e.eventType = "meeting.post_processing.completed" /\ e.meeting = m
    <2>1. CASE m \in queuedMeetings
      <3>1. status[m] \in Finished
        BY <2>1 DEF Inv, QueuedWasAnnounced
      <3> QED BY <1>2, <3>1 DEF Inv, PostProcessingIffFinished
    <2>2. CASE m \notin queuedMeetings
      BY <1>2, <2>2, EventShapes
    <2> QED BY <2>1, <2>2
  <1>5. ASSUME NEW n \in Meetings, n # m
        PROVE  (\E e \in outbox' : e.eventType = "meeting.post_processing.completed"
                                   /\ e.meeting = n)
                 <=> status'[n] \in Finished
    <2>1. \A e \in outbox' \ outbox : e.meeting = m
      BY <1>2, EventShapes
    <2> QED BY <1>2, <1>3, <1>5, <2>1 DEF Inv, PostProcessingIffFinished
  <1>6. PostProcessingIffFinished'
    BY <1>1, <1>3, <1>4, <1>5 DEF PostProcessingIffFinished
  <1>7. QueuedWasAnnounced'
    BY <1>1, <1>2, <1>3 DEF Inv, TypeOK, QueuedWasAnnounced
  <1> QED BY <1>3, <1>6, <1>7

\* Failing a meeting keeps the invariant, and announces no post-processing.
LEMMA InvFail ==
    ASSUME Inv, NEW m \in Meetings, NEW s \in FailStatus, NEW why \in Reasons,
           FailMeeting(m, s, why)
    PROVE  OneOutcome' /\ PostProcessingIffFinished' /\ QueuedWasAnnounced'
  <1>1. /\ RecordTransition(m, s, why)
        /\ outbox' = outbox \cup StatusWebhooks(m, s, why) \cup {}
        /\ queuedMeetings' = queuedMeetings
    BY DEF FailMeeting
  <1>a. {} \in SUBSET PostProcessing(m) /\ s \in Finished \cup FailStatus
    OBVIOUS
  <1>2. /\ OneOutcome'
        /\ status'[m] = s
        /\ status[m] \in Terminal => status[m] = s
        /\ \A n \in Meetings : n # m => status'[n] = status[n]
    BY <1>1, <1>a, OneOutcomeRecord
  <1>3. status[m] \notin Finished /\ status'[m] \notin Finished
    BY <1>2 DEF Terminal, Finished, FailStatus
  <1>4. \A e \in outbox' \ outbox : e.eventType = "meeting.status.changed"
    BY <1>1, EventShapes
  <1>5. PostProcessingIffFinished'
    BY <1>1, <1>2, <1>3, <1>4 DEF Inv, PostProcessingIffFinished
  <1>6. QueuedWasAnnounced'
    BY <1>1, <1>2, <1>3 DEF Inv, TypeOK, QueuedWasAnnounced
  <1> QED BY <1>2, <1>5, <1>6

\* Every step keeps the invariant.
LEMMA InvNext == Inv /\ [Next]_vars => Inv'
  <1> SUFFICES ASSUME Inv, [Next]_vars
               PROVE  OneOutcome' /\ PostProcessingIffFinished' /\ QueuedWasAnnounced'
    BY TypeNext DEF Inv
  <1>1. CASE ClearQueued
    BY <1>1 DEF ClearQueued, Inv, OneOutcome, PostProcessingIffFinished, QueuedWasAnnounced
  <1>2. CASE Tick
    BY <1>2 DEF Tick, Inv, OneOutcome, PostProcessingIffFinished, QueuedWasAnnounced
  <1>3. CASE UNCHANGED vars
    BY <1>3 DEF vars, Inv, OneOutcome, PostProcessingIffFinished, QueuedWasAnnounced
  <1> QED BY <1>1, <1>2, <1>3, InvStart, InvStop, InvFail DEF Next

\* The inductive invariant: types, one outcome, post-processing of the finished,
\* and no meeting in queuedMeetings that was not announced.
THEOREM InvCorrect == Spec => []Inv
  BY InvInit, InvNext, PTL DEF Spec

\* However stops, fails and retries interleave, the terminal status events made
\* for a meeting all carry the status it ended with.
THEOREM OneOutcomeCorrect == Spec => []OneOutcome
  <1>1. Inv => OneOutcome
    BY DEF Inv
  <1> QED BY <1>1, InvCorrect, PTL

\* The post-processing event exists for exactly the stopped and the completed.
THEOREM PostProcessingCorrect == Spec => []PostProcessingIffFinished
  <1>1. Inv => PostProcessingIffFinished
    BY DEF Inv
  <1> QED BY <1>1, InvCorrect, PTL

-----------------------------------------------------------------------------
\* What one step does to the statuses: nothing, the opening of one meeting, or
\* one meeting moved along the table.
LEMMA StatusStep ==
    ASSUME Inv, [Next]_vars, NEW m \in Meetings
    PROVE  /\ status[m] \in Terminal => status'[m] = status[m]
           /\ status[m] # Absent => status'[m] # Absent
  <1>1. ASSUME NEW n \in Meetings, StartMeeting(n)
        PROVE  status'[m] = status[m] \/ (status[m] = Absent /\ status'[m] = "in_meeting")
    BY <1>1 DEF StartMeeting, Inv, TypeOK
  <1>2. ASSUME NEW n \in Meetings, NEW to \in Finished \cup FailStatus, NEW why \in Reasons,
               RecordTransition(n, to, why)
        PROVE  /\ status[m] \in Terminal => status'[m] = status[m]
               /\ status[m] # Absent => status'[m] # Absent
    <2>1. status' = [status EXCEPT ![n] = to] /\ status[n] # Absent
      BY <1>2 DEF RecordTransition
    <2>2. status[n] \in MeetingStatus
      BY <2>1 DEF Inv, TypeOK
    <2>3. status[n] \in Terminal => to = status[n]
      BY <1>2, <2>2, TerminalHasNoExit DEF RecordTransition
    <2>4. to # Absent
      BY DEF Finished, FailStatus, Absent
    <2> QED BY <2>1, <2>3, <2>4 DEF Inv, TypeOK
  <1>3. ASSUME NEW n \in Meetings, NEW s \in Finished \cup {Absent}, NEW why \in Reasons,
               StopMeeting(n, s, why)
        PROVE  \E to \in Finished \cup FailStatus : RecordTransition(n, to, why)
    BY <1>3, FinalStatusType DEF StopMeeting
  <1>4. Absent \notin Terminal
    BY DEF Absent, Terminal, Finished, FailStatus
  <1>5. CASE UNCHANGED status
    BY <1>5
  <1> QED BY <1>1, <1>2, <1>3, <1>4, <1>5
          DEF Next, FailMeeting, ClearQueued, Tick, vars

\* A meeting that ended stays ended, the same way; a record never vanishes.
THEOREM TerminalCorrect == Spec => TerminalIsForever
  <1>1. Inv /\ [Next]_vars =>
          [\A m \in Meetings :
              /\ status[m] \in Terminal => status'[m] = status[m]
              /\ status[m] # Absent => status'[m] # Absent]_vars
    BY StatusStep
  <1> QED BY <1>1, InvCorrect, PTL DEF Spec, TerminalIsForever

-----------------------------------------------------------------------------
\* One meeting's history is a path that ends at its status.
PathOf(m) ==
    IF status[m] = Absent
    THEN history[m] = <<>>
    ELSE /\ Len(history[m]) > 0
         /\ history[m][1].fromStatus = Absent
         /\ history[m][Len(history[m])].toStatus = status[m]
         /\ \A i \in 1..(Len(history[m]) - 1) :
               /\ history[m][i + 1].fromStatus = history[m][i].toStatus
               /\ assertTransition(history[m][i].toStatus, history[m][i + 1].toStatus)

\* The outbox reports one meeting's history, all of it but the creation.
ReportedOf(m) ==
    /\ \A i \in 2..Len(history[m]) : StatusEvent(m, history[m][i]) \in outbox
    /\ \A e \in outbox :
          e.eventType = "meeting.status.changed" /\ e.meeting = m
              => \E i \in 2..Len(history[m]) : e.transition = history[m][i]

HistoryInv == \A m \in Meetings : PathOf(m) /\ ReportedOf(m)

\* No meeting has a history at first.
LEMMA HistoryInit == Init => HistoryInv
  <1> SUFFICES ASSUME Init, NEW m \in Meetings PROVE PathOf(m) /\ ReportedOf(m)
    BY DEF HistoryInv
  <1>1. history[m] = <<>> /\ status[m] = Absent /\ outbox = {}
    BY DEF Init
  <1>2. 2..Len(history[m]) = {}
    BY <1>1
  <1> QED BY <1>1, <1>2 DEF PathOf, ReportedOf

\* The creation path: absent, pending, starting, in_meeting; two are reported.
LEMMA HistoryStart ==
    ASSUME Inv, HistoryInv, NEW m \in Meetings, StartMeeting(m)
    PROVE  PathOf(m)' /\ ReportedOf(m)'
  <1> DEFINE created  == Move(Absent, "pending", "meeting_created")
             starting == Move("pending", "starting", "meeting_start_requested")
             started  == Move("starting", "in_meeting", "meeting_started")
  <1>1. /\ status'[m] = "in_meeting"
        /\ history'[m] = <<created, starting, started>>
        /\ outbox' = outbox \cup {StatusEvent(m, starting), StatusEvent(m, started)}
        /\ status[m] = Absent
    BY DEF StartMeeting, Inv, TypeOK
  <1>2. /\ created.fromStatus = Absent /\ created.toStatus = "pending"
        /\ starting.fromStatus = "pending" /\ starting.toStatus = "starting"
        /\ started.fromStatus = "starting" /\ started.toStatus = "in_meeting"
    BY DEF Move
  <1>3. assertTransition("pending", "starting") /\ assertTransition("starting", "in_meeting")
    BY DEF StartMeeting
  <1> HIDE DEF created, starting, started
  <1>4. PathOf(m)'
    <2>1. status'[m] # Absent
      BY <1>1 DEF Absent
    <2>2. Len(history'[m]) = 3
      BY <1>1
    <2>3. /\ history'[m][1] = created
          /\ history'[m][2] = starting
          /\ history'[m][3] = started
      BY <1>1
    <2>4. ASSUME NEW i \in 1..2
          PROVE  /\ history'[m][i + 1].fromStatus = history'[m][i].toStatus
                 /\ assertTransition(history'[m][i].toStatus, history'[m][i + 1].toStatus)
      <3>1. i = 1 \/ i = 2
        OBVIOUS
      <3> QED BY <1>2, <1>3, <2>3, <3>1
    <2>5. history'[m][Len(history'[m])].toStatus = status'[m]
      BY <1>1, <1>2, <2>2, <2>3
    <2>6. history'[m][1].fromStatus = Absent
      BY <1>2, <2>3
    <2> QED BY <2>1, <2>2, <2>4, <2>5, <2>6 DEF PathOf
  <1>5. ReportedOf(m)'
    <2>1. Len(history'[m]) = 3 /\ history'[m][2] = starting /\ history'[m][3] = started
      BY <1>1
    <2>2. ASSUME NEW i \in 2..Len(history'[m])
          PROVE  StatusEvent(m, history'[m][i]) \in outbox'
      <3>1. i = 2 \/ i = 3
        BY <2>1
      <3> QED BY <1>1, <2>1, <3>1
    <2>3. ASSUME NEW e \in outbox', e.eventType = "meeting.status.changed", e.meeting = m
          PROVE  \E i \in 2..Len(history'[m]) : e.transition = history'[m][i]
      <3>1. e \notin outbox
        <4>1. history[m] = <<>> /\ ReportedOf(m)
          BY <1>1 DEF HistoryInv, PathOf
        <4>2. 2..Len(history[m]) = {}
          BY <4>1
        <4> QED BY <2>3, <4>1, <4>2 DEF ReportedOf
      <3>2. e = StatusEvent(m, starting) \/ e = StatusEvent(m, started)
        BY <1>1, <3>1
      <3>3. e.transition = starting \/ e.transition = started
        BY <3>2 DEF StatusEvent
      <3>4. 2 \in 2..Len(history'[m]) /\ 3 \in 2..Len(history'[m])
        BY <2>1
      <3> QED BY <2>1, <3>3, <3>4
    <2> QED BY <2>2, <2>3 DEF ReportedOf, StatusEvent
  <1> QED BY <1>4, <1>5

\* Appending the transition that was asserted extends the path, and its event
\* extends the report.
LEMMA HistoryRecord ==
    ASSUME Inv, HistoryInv, NEW m \in Meetings, NEW to \in Finished \cup FailStatus,
           NEW why \in Reasons, RecordTransition(m, to, why),
           NEW post \in SUBSET PostProcessing(m),
           outbox' = outbox \cup StatusWebhooks(m, to, why) \cup post
    PROVE  PathOf(m)' /\ ReportedOf(m)'
  <1> DEFINE t == Move(status[m], to, why)
             h == history[m]
  <1>1. h \in Seq(Transition)
    BY DEF Inv, TypeOK
  <1>2. /\ status[m] # Absent
        /\ assertTransition(status[m], to)
        /\ status'[m] = to
        /\ history'[m] = Append(h, t)
    BY DEF RecordTransition, Inv, TypeOK
  <1>3. t.fromStatus = status[m] /\ t.toStatus = to
    BY DEF Move
  <1>4. PathOf(m) /\ ReportedOf(m)
    BY DEF HistoryInv
  <1> HIDE DEF t
  <1>5. /\ Len(history'[m]) = Len(h) + 1
        /\ Len(h) \in Nat
        /\ history'[m][Len(h) + 1] = t
        /\ \A i \in 1..Len(h) : history'[m][i] = h[i]
    BY <1>1, <1>2
  <1>6. PathOf(m)'
    <2>1. /\ Len(h) > 0
          /\ h[1].fromStatus = Absent
          /\ h[Len(h)].toStatus = status[m]
          /\ \A i \in 1..(Len(h) - 1) :
                /\ h[i + 1].fromStatus = h[i].toStatus
                /\ assertTransition(h[i].toStatus, h[i + 1].toStatus)
      BY <1>2, <1>4 DEF PathOf
    <2>2. ASSUME NEW i \in 1..Len(h)
          PROVE  /\ history'[m][i + 1].fromStatus = history'[m][i].toStatus
                 /\ assertTransition(history'[m][i].toStatus, history'[m][i + 1].toStatus)
      <3>1. CASE i = Len(h)
        BY <1>2, <1>3, <1>5, <2>1, <3>1
      <3>2. CASE i # Len(h)
        <4>1. i \in 1..(Len(h) - 1) /\ i + 1 \in 1..Len(h)
          BY <1>5, <3>2
        <4> QED BY <1>5, <2>1, <4>1
      <3> QED BY <3>1, <3>2
    <2>3. status'[m] # Absent
      BY <1>2 DEF Absent, Finished, FailStatus
    <2>4. /\ Len(history'[m]) > 0
          /\ history'[m][1].fromStatus = Absent
          /\ history'[m][Len(history'[m])].toStatus = status'[m]
      BY <1>2, <1>3, <1>5, <2>1
    <2>5. 1..(Len(history'[m]) - 1) = 1..Len(h)
      BY <1>5
    <2> QED BY <2>2, <2>3, <2>4, <2>5 DEF PathOf
  <1>7. ReportedOf(m)'
    <2>1. \A x \in post : x.eventType # "meeting.status.changed"
      BY EventShapes
    <2>2. /\ StatusWebhooks(m, to, why) = {StatusEvent(m, t)}
          /\ StatusEvent(m, t).transition = t
      BY DEF StatusWebhooks, StatusEvent, t
    <2>3. Len(h) > 0
      BY <1>2, <1>4 DEF PathOf
    <2>4. ASSUME NEW i \in 2..Len(history'[m])
          PROVE  StatusEvent(m, history'[m][i]) \in outbox'
      <3>1. CASE i = Len(h) + 1
        BY <1>5, <2>2, <3>1
      <3>2. CASE i # Len(h) + 1
        <4>1. i \in 2..Len(h) /\ history'[m][i] = h[i]
          BY <1>5, <3>2
        <4>2. StatusEvent(m, h[i]) \in outbox
          BY <1>4, <4>1 DEF ReportedOf
        <4> QED BY <4>1, <4>2
      <3> QED BY <3>1, <3>2
    <2>5. ASSUME NEW e \in outbox', e.eventType = "meeting.status.changed", e.meeting = m
          PROVE  \E i \in 2..Len(history'[m]) : e.transition = history'[m][i]
      <3>1. CASE e \in outbox
        <4>1. PICK i \in 2..Len(h) : e.transition = h[i]
          BY <1>4, <2>5, <3>1 DEF ReportedOf
        <4>2. i \in 2..Len(history'[m]) /\ history'[m][i] = h[i]
          BY <1>5
        <4> QED BY <4>1, <4>2
      <3>2. CASE e \notin outbox
        <4>1. e.transition = t
          BY <2>1, <2>2, <2>5, <3>2
        <4>2. Len(h) + 1 \in 2..Len(history'[m])
          BY <1>5, <2>3
        <4> QED BY <1>5, <4>1, <4>2
      <3> QED BY <3>1, <3>2
    <2> QED BY <2>4, <2>5 DEF ReportedOf, StatusEvent
  <1> QED BY <1>6, <1>7

\* The other meetings' histories and reports are left alone.
LEMMA HistoryOthers ==
    ASSUME HistoryInv, NEW m \in Meetings, NEW n \in Meetings, n # m,
           status'[n] = status[n], history'[n] = history[n],
           NEW new, outbox' = outbox \cup new, \A e \in new : e.meeting = m
    PROVE  PathOf(n)' /\ ReportedOf(n)'
  <1>1. PathOf(n)'
    BY DEF HistoryInv, PathOf
  <1>2. \A i \in 2..Len(history[n]) : StatusEvent(n, history[n][i]) \in outbox'
    BY DEF HistoryInv, ReportedOf
  <1>3. \A e \in outbox' : e.meeting = n => e \in outbox
    OBVIOUS
  <1>4. \A e \in outbox' :
           e.eventType = "meeting.status.changed" /\ e.meeting = n
               => \E i \in 2..Len(history[n]) : e.transition = history[n][i]
    BY <1>3 DEF HistoryInv, ReportedOf
  <1> QED BY <1>1, <1>2, <1>4 DEF ReportedOf, StatusEvent

\* Every step keeps each history a path, and each path reported.
LEMMA HistoryNext == Inv /\ HistoryInv /\ [Next]_vars => HistoryInv'
  <1> SUFFICES ASSUME Inv, HistoryInv, [Next]_vars PROVE HistoryInv'
    OBVIOUS
  <1>1. ASSUME NEW m \in Meetings, StartMeeting(m) PROVE HistoryInv'
    <2> DEFINE new == {StatusEvent(m, Move("pending", "starting", "meeting_start_requested")),
                       StatusEvent(m, Move("starting", "in_meeting", "meeting_started"))}
    <2>1. outbox' = outbox \cup new
      BY <1>1 DEF StartMeeting
    <2>2. \A e \in new : e.meeting = m
      BY DEF StatusEvent
    <2>3. \A n \in Meetings : n # m => status'[n] = status[n] /\ history'[n] = history[n]
      BY <1>1 DEF StartMeeting, Inv, TypeOK
    <2> HIDE DEF new
    <2> QED BY <1>1, <2>1, <2>2, <2>3, HistoryStart, HistoryOthers DEF HistoryInv
  <1>2. ASSUME NEW m \in Meetings, NEW to \in Finished \cup FailStatus, NEW why \in Reasons,
               RecordTransition(m, to, why), NEW post \in SUBSET PostProcessing(m),
               outbox' = outbox \cup StatusWebhooks(m, to, why) \cup post
        PROVE  HistoryInv'
    <2>1. outbox' = outbox \cup (StatusWebhooks(m, to, why) \cup post)
      BY <1>2
    <2>2. \A e \in StatusWebhooks(m, to, why) \cup post : e.meeting = m
      BY EventShapes
    <2>3. \A n \in Meetings : n # m => status'[n] = status[n] /\ history'[n] = history[n]
      BY <1>2 DEF RecordTransition, Inv, TypeOK
    <2>4. PathOf(m)' /\ ReportedOf(m)'
      BY <1>2, HistoryRecord
    <2>5. ASSUME NEW n \in Meetings, n # m PROVE PathOf(n)' /\ ReportedOf(n)'
      BY <2>1, <2>2, <2>3, <2>5, HistoryOthers
    <2> QED BY <2>4, <2>5 DEF HistoryInv
  <1>3. ASSUME NEW m \in Meetings, NEW s \in Finished \cup {Absent}, NEW why \in Reasons,
               StopMeeting(m, s, why)
        PROVE  HistoryInv'
    <2>1. FinalStatus(s) \in Finished \cup FailStatus
      BY FinalStatusType
    <2>2. /\ RecordTransition(m, FinalStatus(s), why)
          /\ outbox' = outbox \cup StatusWebhooks(m, FinalStatus(s), why) \cup PostProcessing(m)
      BY <1>3 DEF StopMeeting
    <2> QED BY <1>2, <2>1, <2>2
  <1>4. ASSUME NEW m \in Meetings, NEW s \in FailStatus, NEW why \in Reasons,
               FailMeeting(m, s, why)
        PROVE  HistoryInv'
    <2>1. /\ RecordTransition(m, s, why)
          /\ outbox' = outbox \cup StatusWebhooks(m, s, why) \cup {}
          /\ {} \in SUBSET PostProcessing(m)
          /\ s \in Finished \cup FailStatus
      BY <1>4 DEF FailMeeting
    <2> QED BY <1>2, <2>1
  <1>5. CASE ClearQueued \/ Tick \/ UNCHANGED vars
    <2>1. status' = status /\ history' = history /\ outbox' = outbox
      BY <1>5 DEF ClearQueued, Tick, vars
    <2>2. ASSUME NEW m \in Meetings PROVE PathOf(m)' /\ ReportedOf(m)'
      <3>1. PathOf(m) /\ ReportedOf(m)
        BY DEF HistoryInv
      <3>2. PathOf(m)'
        BY <2>1, <3>1 DEF PathOf
      <3>3. ReportedOf(m)'
        BY <2>1, <3>1 DEF ReportedOf, StatusEvent
      <3> QED BY <3>2, <3>3
    <2> QED BY <2>2 DEF HistoryInv
  <1> QED BY <1>1, <1>3, <1>4, <1>5 DEF Next

\* The inductive invariant about histories, path and report together.
THEOREM HistoryInvCorrect == Spec => []HistoryInv
  BY HistoryInit, HistoryNext, InvCorrect, PTL DEF Spec

\* Every meeting's history is a path of the state machine ending at its status.
THEOREM HistoryCorrect == Spec => []HistoryIsPath
  <1>1. HistoryInv => HistoryIsPath
    BY DEF HistoryInv, PathOf, HistoryIsPath
  <1> QED BY <1>1, HistoryInvCorrect, PTL

\* JobAI is told of every transition, and of no other.
THEOREM ReportCorrect == Spec => []EveryTransitionReported
  <1>1. HistoryInv => EveryTransitionReported
    BY DEF HistoryInv, ReportedOf, EveryTransitionReported
  <1> QED BY <1>1, HistoryInvCorrect, PTL

-----------------------------------------------------------------------------
\* The refinement mapping of Promise, by name.
outcomeOf == [m \in Meetings |-> IF status[m] = Absent THEN "none"
                                ELSE IF status[m] \in Open THEN "open" ELSE status[m]]
toldOf == {<<e.meeting, e.transition.toStatus>> :
              e \in {x \in outbox : x.eventType = "meeting.status.changed"
                                     /\ x.transition.toStatus \in Terminal}}

\* The outcome of a meeting that ended has been told.
OutcomeTold ==
    \A m \in Meetings : status[m] \in Terminal =>
        \E e \in outbox : /\ e.eventType = "meeting.status.changed"
                         /\ e.meeting = m
                         /\ e.transition.toStatus = status[m]

\* Every step keeps the outcome of an ended meeting told.
LEMMA OutcomeToldNext == Inv /\ OutcomeTold /\ [Next]_vars => OutcomeTold'
  <1> SUFFICES ASSUME Inv, OutcomeTold, [Next]_vars PROVE OutcomeTold'
    OBVIOUS
  <1>1. ASSUME outbox \subseteq outbox', NEW n \in Meetings, status'[n] = status[n],
               status'[n] \in Terminal
        PROVE  \E e \in outbox' : /\ e.eventType = "meeting.status.changed"
                                  /\ e.meeting = n
                                  /\ e.transition.toStatus = status'[n]
    BY <1>1 DEF OutcomeTold
  <1>2. ASSUME NEW m \in Meetings, StartMeeting(m) PROVE OutcomeTold'
    <2>1. outbox \subseteq outbox'
      BY <1>2 DEF StartMeeting
    <2>2. status'[m] \notin Terminal
      BY <1>2 DEF StartMeeting, Inv, TypeOK, Terminal, Finished, FailStatus
    <2>3. \A n \in Meetings : n # m => status'[n] = status[n]
      BY <1>2 DEF StartMeeting, Inv, TypeOK
    <2> QED BY <1>1, <2>1, <2>2, <2>3 DEF OutcomeTold
  <1>3. ASSUME NEW m \in Meetings, NEW to \in Finished \cup FailStatus, NEW why \in Reasons,
               RecordTransition(m, to, why), NEW post \in SUBSET PostProcessing(m),
               outbox' = outbox \cup StatusWebhooks(m, to, why) \cup post
        PROVE  OutcomeTold'
    <2>1. /\ status'[m] = to
          /\ \A n \in Meetings : n # m => status'[n] = status[n]
      BY <1>3, OneOutcomeRecord
    <2>2. \E e \in outbox' : /\ e.eventType = "meeting.status.changed"
                             /\ e.meeting = m
                             /\ e.transition.toStatus = to
      <3>1. \E e \in StatusWebhooks(m, to, why) : TRUE
        BY DEF StatusWebhooks
      <3> QED BY <1>3, <3>1, EventShapes
    <2>3. outbox \subseteq outbox'
      BY <1>3
    <2> QED BY <1>1, <2>1, <2>2, <2>3 DEF OutcomeTold
  <1>4. ASSUME NEW m \in Meetings, NEW s \in Finished \cup {Absent}, NEW why \in Reasons,
               StopMeeting(m, s, why)
        PROVE  OutcomeTold'
    <2>1. FinalStatus(s) \in Finished \cup FailStatus
      BY FinalStatusType
    <2>2. /\ RecordTransition(m, FinalStatus(s), why)
          /\ outbox' = outbox \cup StatusWebhooks(m, FinalStatus(s), why) \cup PostProcessing(m)
      BY <1>4 DEF StopMeeting
    <2> QED BY <1>3, <2>1, <2>2
  <1>5. ASSUME NEW m \in Meetings, NEW s \in FailStatus, NEW why \in Reasons,
               FailMeeting(m, s, why)
        PROVE  OutcomeTold'
    <2>1. /\ RecordTransition(m, s, why)
          /\ outbox' = outbox \cup StatusWebhooks(m, s, why) \cup {}
          /\ {} \in SUBSET PostProcessing(m)
          /\ s \in Finished \cup FailStatus
      BY <1>5 DEF FailMeeting
    <2> QED BY <1>3, <2>1
  <1>6. CASE ClearQueued \/ Tick \/ UNCHANGED vars
    BY <1>6 DEF ClearQueued, Tick, vars, OutcomeTold
  <1> QED BY <1>2, <1>4, <1>5, <1>6 DEF Next

\* JobAI is told the outcome of every meeting that has ended.
THEOREM OutcomeToldCorrect == Spec => []OutcomeTold
  <1>1. Init => OutcomeTold
    BY DEF Init, OutcomeTold, Terminal, Finished, FailStatus, Absent
  <1> QED BY <1>1, OutcomeToldNext, InvCorrect, PTL DEF Spec

\* Ending a meeting that was open is the abstract End; repeating its end is a
\* stutter, for the pair told then was told before.
LEMMA PromiseRecord ==
    ASSUME Inv, OutcomeTold, NEW m \in Meetings, NEW to \in Finished \cup FailStatus,
           NEW why \in Reasons, RecordTransition(m, to, why),
           NEW post \in SUBSET PostProcessing(m),
           outbox' = outbox \cup StatusWebhooks(m, to, why) \cup post
    PROVE  \/ /\ outcomeOf[m] = "open"
              /\ outcomeOf' = [outcomeOf EXCEPT ![m] = to]
              /\ toldOf' = toldOf \cup {<<m, to>>}
           \/ UNCHANGED <<outcomeOf, toldOf>>
  <1> DEFINE t == Move(status[m], to, why)
             ended(S) == {x \in S : x.eventType = "meeting.status.changed"
                                    /\ x.transition.toStatus \in Terminal}
  <1>1. /\ status[m] \in MeetingStatus
        /\ status' = [status EXCEPT ![m] = to]
        /\ status[m] \in Terminal => to = status[m]
    BY TerminalHasNoExit DEF RecordTransition, Inv, TypeOK
  <1>2. to \in Terminal /\ to \notin Open /\ to # Absent
    BY DEF Terminal, Finished, FailStatus, Open, Absent
  <1>3. /\ StatusWebhooks(m, to, why) = {StatusEvent(m, t)}
        /\ StatusEvent(m, t).eventType = "meeting.status.changed"
        /\ StatusEvent(m, t).meeting = m
        /\ StatusEvent(m, t).transition.toStatus = to
    BY DEF StatusWebhooks, StatusEvent, Move
  <1>4. ended(outbox') = ended(outbox) \cup {StatusEvent(m, t)}
    <2>1. \A x \in post : x.eventType # "meeting.status.changed"
      BY EventShapes
    <2> HIDE DEF t
    <2> QED BY <1>2, <1>3, <2>1
  <1>5. toldOf' = toldOf \cup {<<m, to>>}
    <2> HIDE DEF t
    <2>1. toldOf = {<<e.meeting, e.transition.toStatus>> : e \in ended(outbox)}
      BY DEF toldOf
    <2>2. toldOf' = {<<e.meeting, e.transition.toStatus>> : e \in ended(outbox')}
      BY DEF toldOf
    <2> HIDE DEF ended
    <2> QED BY <1>3, <1>4, <2>1, <2>2
  <1>6. CASE status[m] \in Open
    <2>1. status[m] # Absent
      BY DEF RecordTransition
    <2>2. outcomeOf[m] = "open"
      BY <1>6, <2>1 DEF outcomeOf
    <2>3. outcomeOf' = [outcomeOf EXCEPT ![m] = to]
      BY <1>1, <1>2 DEF outcomeOf, Inv, TypeOK
    <2> QED BY <1>5, <2>2, <2>3
  <1>7. CASE status[m] \in Terminal
    <2>1. status' = status
      BY <1>1, <1>7 DEF Inv, TypeOK
    <2>2. outcomeOf' = outcomeOf
      BY <2>1 DEF outcomeOf
    <2>3. <<m, to>> \in toldOf
      <3>1. PICK e \in outbox : /\ e.eventType = "meeting.status.changed"
                                /\ e.meeting = m
                                /\ e.transition.toStatus = status[m]
        BY <1>7 DEF OutcomeTold
      <3> QED BY <1>1, <1>7, <3>1 DEF toldOf
    <2> QED BY <1>5, <2>2, <2>3
  <1> QED BY <1>1, <1>6, <1>7 DEF MeetingStatus

\* A started meeting is open, and a start tells no outcome.
LEMMA PromiseStart ==
    ASSUME Inv, NEW m \in Meetings, StartMeeting(m)
    PROVE  /\ outcomeOf[m] = "none"
           /\ outcomeOf' = [outcomeOf EXCEPT ![m] = "open"]
           /\ toldOf' = toldOf
  <1> DEFINE starting == Move("pending", "starting", "meeting_start_requested")
             started  == Move("starting", "in_meeting", "meeting_started")
             ended(S) == {x \in S : x.eventType = "meeting.status.changed"
                                    /\ x.transition.toStatus \in Terminal}
  <1>1. /\ status[m] = Absent
        /\ status' = [status EXCEPT ![m] = "in_meeting"]
        /\ outbox' = outbox \cup {StatusEvent(m, starting), StatusEvent(m, started)}
    BY DEF StartMeeting
  <1>2. outcomeOf[m] = "none"
    BY <1>1 DEF outcomeOf
  <1>3. outcomeOf' = [outcomeOf EXCEPT ![m] = "open"]
    BY <1>1 DEF outcomeOf, Inv, TypeOK, Open, Absent
  <1>4. /\ StatusEvent(m, starting).transition.toStatus \notin Terminal
        /\ StatusEvent(m, started).transition.toStatus \notin Terminal
    BY DEF StatusEvent, Move, Terminal, Finished, FailStatus
  <1>5. ended(outbox') = ended(outbox)
    <2> HIDE DEF starting, started
    <2> QED BY <1>1, <1>4
  <1>6. toldOf' = toldOf
    BY <1>5 DEF toldOf
  <1> QED BY <1>2, <1>3, <1>6

\* Every step of the pipeline is a step of the promise, or a stutter of it.
LEMMA PromiseStep ==
    ASSUME Inv, OutcomeTold, [Next]_vars
    PROVE  [Promise!Next]_(Promise!vars)
  <1>1. SUFFICES \/ \E m \in Meetings :
                       /\ outcomeOf[m] = "none"
                       /\ outcomeOf' = [outcomeOf EXCEPT ![m] = "open"]
                       /\ toldOf' = toldOf
                 \/ \E m \in Meetings, o \in Terminal :
                       /\ outcomeOf[m] = "open"
                       /\ outcomeOf' = [outcomeOf EXCEPT ![m] = o]
                       /\ toldOf' = toldOf \cup {<<m, o>>}
                 \/ UNCHANGED <<outcomeOf, toldOf>>
    BY DEF Promise!Next, Promise!Open, Promise!End, Promise!vars, outcomeOf, toldOf
  <1>2. ASSUME NEW m \in Meetings, NEW to \in Finished \cup FailStatus, NEW why \in Reasons,
               RecordTransition(m, to, why), NEW post \in SUBSET PostProcessing(m),
               outbox' = outbox \cup StatusWebhooks(m, to, why) \cup post
        PROVE  \/ \E o \in Terminal :
                     /\ outcomeOf[m] = "open"
                     /\ outcomeOf' = [outcomeOf EXCEPT ![m] = o]
                     /\ toldOf' = toldOf \cup {<<m, o>>}
               \/ UNCHANGED <<outcomeOf, toldOf>>
    BY <1>2, PromiseRecord DEF Terminal
  <1>3. ASSUME NEW m \in Meetings, NEW s \in Finished \cup {Absent}, NEW why \in Reasons,
               StopMeeting(m, s, why)
        PROVE  \/ \E o \in Terminal :
                     /\ outcomeOf[m] = "open"
                     /\ outcomeOf' = [outcomeOf EXCEPT ![m] = o]
                     /\ toldOf' = toldOf \cup {<<m, o>>}
               \/ UNCHANGED <<outcomeOf, toldOf>>
    <2>1. FinalStatus(s) \in Finished \cup FailStatus
      BY FinalStatusType
    <2>2. /\ RecordTransition(m, FinalStatus(s), why)
          /\ outbox' = outbox \cup StatusWebhooks(m, FinalStatus(s), why) \cup PostProcessing(m)
      BY <1>3 DEF StopMeeting
    <2> QED BY <1>2, <2>1, <2>2
  <1>4. ASSUME NEW m \in Meetings, NEW s \in FailStatus, NEW why \in Reasons,
               FailMeeting(m, s, why)
        PROVE  \/ \E o \in Terminal :
                     /\ outcomeOf[m] = "open"
                     /\ outcomeOf' = [outcomeOf EXCEPT ![m] = o]
                     /\ toldOf' = toldOf \cup {<<m, o>>}
               \/ UNCHANGED <<outcomeOf, toldOf>>
    <2>1. /\ RecordTransition(m, s, why)
          /\ outbox' = outbox \cup StatusWebhooks(m, s, why) \cup {}
          /\ {} \in SUBSET PostProcessing(m)
          /\ s \in Finished \cup FailStatus
      BY <1>4 DEF FailMeeting
    <2> QED BY <1>2, <2>1
  <1>5. CASE ClearQueued \/ Tick \/ UNCHANGED vars
    BY <1>5 DEF ClearQueued, Tick, vars, outcomeOf, toldOf
  <1> QED BY <1>3, <1>4, <1>5, PromiseStart DEF Next

\* The meeting pipeline implements the promise made of it.
THEOREM PromiseKept == Spec => ImplementsOutcome
  <1>1. Init => Promise!Init
    BY DEF Init, Promise!Init
  <1>2. Inv /\ OutcomeTold /\ [Next]_vars => [Promise!Next]_(Promise!vars)
    BY PromiseStep
  <1> QED BY <1>1, <1>2, InvCorrect, OutcomeToldCorrect, PTL
          DEF Spec, ImplementsOutcome, Promise!Spec
=============================================================================
