----------------------------- MODULE AvatarSession -----------------------------
(***************************************************************************)
(* The avatar of a meeting: the session on the GPU pod, which startMeeting *)
(* asks for without awaiting it and stopMeeting and failMeeting delete     *)
(* without awaiting it; the pod's last known state (AvatarStateStore); and *)
(* the callbacks of the pod (POST /avatar/events), which also move the     *)
(* question the candidate is shown.                                        *)
(*                                                                         *)
(* The requests cross the network: they may be executed late, out of       *)
(* order, or not at all, and an answer may be lost.  A pod may still run a *)
(* session of an earlier gateway process for the same meeting.             *)
(***************************************************************************)
EXTENDS MeetingLifecycle, Integers, FiniteSets

CONSTANTS Sources,   \* what a question is advanced by: response ids, command ids
          NoSource,  \* a response_done without a response id
          MaxIndex   \* bound: the question index

ASSUME SourceAssumption == NoSource \notin Sources /\ MaxIndex \in Nat

VARIABLES
    entry,    \* entry[m]: the AvatarStateStore's state of m, or NoEntry
    kick,     \* kick[m]: how far kickoffAvatar has come
    pod,      \* pod[m]: the sessions the pod runs for m
    ran,      \* ran[m]: the sessions it has run; callbacks of any may arrive late
    deletes,  \* the <<meeting, session>> whose DELETE is on its way
    question, \* question[m]: question_index and question_last_source_id
    heard,    \* history variable: the sources that advanced m's question
    avatarExcused \* history variable: what went wrong outside, "lost" deletes,
              \* deletes that "raced" the creation, "foreign" callbacks, and
              \* sources that came "again"

avatarVars == <<entry, kick, pod, ran, deletes, question, heard, avatarExcused>>
avatarMeetingVars == <<vars, avatarVars>>

Sessions == {"own", "old"}  \* of this process, of an earlier one
NoEntry == [session |-> "none", phase |-> "unknown", avatarReady |-> FALSE]

\* The phases recordEvent is called with; the other callbacks are patches.
Phase == {"ready", "transcript_delta", "transcript_completed", "response_done", "stopped", "failed"}

-----------------------------------------------------------------------------
(* AvatarStateStore                                                        *)

upsertStart(m) ==
    [entry EXCEPT ![m] = [session |-> "own", phase |-> "starting", avatarReady |-> FALSE]]

\* Mutant: an event of an unknown meeting creates its state.
recordEvent_Upserts(m, session, phase) ==
    [entry EXCEPT ![m] = [session |-> IF @ = NoEntry THEN session ELSE @.session,
                          phase |-> phase, avatarReady |-> phase = "ready"]]

\* Mutant: ready once, ready for ever.
recordEvent_Sticky(m, session, phase) ==
    IF entry[m] = NoEntry THEN entry
    ELSE [entry EXCEPT ![m].phase = phase, ![m].avatarReady = @ \/ phase = "ready"]

\* The session of the event is compared and reported, not stored.
recordEvent(m, session, phase) ==
    IF entry[m] = NoEntry THEN entry
    ELSE [entry EXCEPT ![m].phase = phase, ![m].avatarReady = phase = "ready"]

\* telemetry, engine_degraded, speaker_changed: the event's session is stored.
patch(m, session) ==
    IF entry[m] = NoEntry THEN entry ELSE [entry EXCEPT ![m].session = session]

-----------------------------------------------------------------------------
AvatarInit ==
    /\ Init
    /\ entry = [m \in Meetings |-> NoEntry]
    /\ kick = [m \in Meetings |-> "none"]
    /\ pod \in [Meetings -> {{}, {"old"}}]
    /\ ran = pod
    /\ deletes = {}
    /\ question = [m \in Meetings |-> [index |-> -1, lastSource |-> NoSource]]
    /\ heard = [m \in Meetings |-> {}]
    /\ avatarExcused = [m \in Meetings |-> {}]

\* startMeeting with kickoffAvatar: the call is provisioned first.
StartWithAvatar(m) ==
    /\ StartMeeting(m)
    /\ entry' = upsertStart(m)
    /\ kick' = [kick EXCEPT ![m] = "provisioning"]
    /\ UNCHANGED <<pod, ran, deletes, question, heard, avatarExcused>>

\* teardownAvatar deletes the session the state names and forgets the state.
Teardown(m) ==
    /\ entry' = [entry EXCEPT ![m] = NoEntry]
    /\ deletes' = deletes \cup (IF entry[m] = NoEntry THEN {} ELSE {<<m, entry[m].session>>})
    /\ UNCHANGED <<kick, pod, ran, question, heard, avatarExcused>>

StopWithAvatar(m, input, why) == StopMeeting(m, input, why) /\ Teardown(m)

\* Mutant: only a stopped meeting has its avatar torn down.
FailWithAvatar_KeepsAvatar(m, failStatus, why) ==
    FailMeeting(m, failStatus, why) /\ UNCHANGED avatarVars

FailWithAvatar(m, failStatus, why) == FailMeeting(m, failStatus, why) /\ Teardown(m)

-----------------------------------------------------------------------------
(* kickoffAvatar after its first await                                     *)

\* The POST /sessions is sent whatever became of the meeting meanwhile.
Provisioned(m) ==
    /\ kick[m] = "provisioning"
    /\ kick' = [kick EXCEPT ![m] = "creating"]
    /\ UNCHANGED <<vars, entry, pod, ran, deletes, question, heard, avatarExcused>>

\* The pod executes the POST, even one the gateway has given up.
SessionCreated(m) ==
    /\ kick[m] \in {"creating", "lost"}
    /\ kick' = [kick EXCEPT ![m] = IF @ = "creating" THEN "created" ELSE "done"]
    /\ pod' = [pod EXCEPT ![m] = @ \cup {"own"}]
    /\ ran' = [ran EXCEPT ![m] = @ \cup {"own"}]
    /\ UNCHANGED <<vars, entry, deletes, question, heard, avatarExcused>>

KickoffAccepted(m) ==
    /\ kick[m] = "created"
    /\ kick' = [kick EXCEPT ![m] = "done"]
    /\ UNCHANGED <<vars, entry, pod, ran, deletes, question, heard, avatarExcused>>

\* Provisioning or the POST fails, is refused, or is not answered in time (its
\* request may then be executed later, or never).
KickoffFailed(m) ==
    /\ kick[m] \in {"provisioning", "creating", "created"}
    /\ \/ kick' = [kick EXCEPT ![m] = "done"]
       \/ kick[m] = "creating" /\ kick' = [kick EXCEPT ![m] = "lost"]
    /\ entry' = recordEvent(m, "own", "failed")
    /\ UNCHANGED <<vars, pod, ran, deletes, question, heard, avatarExcused>>

NeverExecuted(m) ==
    /\ kick[m] = "lost"
    /\ kick' = [kick EXCEPT ![m] = "done"]
    /\ UNCHANGED <<vars, entry, pod, ran, deletes, question, heard, avatarExcused>>

\* The pod executes a DELETE: 404 when it does not run the session.
Deleted(m, s) ==
    /\ <<m, s>> \in deletes
    /\ deletes' = deletes \ {<<m, s>>}
    /\ pod' = [pod EXCEPT ![m] = @ \ {s}]
    /\ avatarExcused' = [avatarExcused EXCEPT ![m] = IF s \in pod[m] THEN @ ELSE @ \cup {"raced"}]
    /\ UNCHANGED <<vars, entry, kick, ran, question, heard>>

\* deleteSession swallows every error; nothing retries it.
DeleteLost(m, s) ==
    /\ <<m, s>> \in deletes
    /\ deletes' = deletes \ {<<m, s>>}
    /\ avatarExcused' = [avatarExcused EXCEPT ![m] = @ \cup {"lost"}]
    /\ UNCHANGED <<vars, entry, kick, pod, ran, question, heard>>

-----------------------------------------------------------------------------
(* Callbacks and the question                                              *)

\* Mutant: the last source is not looked at.
AlreadyAdvanced_Never(m, source) == FALSE

\* advanceQuestionIndex remembers the last source only.
AlreadyAdvanced(m, source) == source # NoSource /\ source = question[m].lastSource

\* The source has advanced the question, but is not the one remembered.
Forgotten(m, source) ==
    source \in heard[m] /\ (source = NoSource \/ source # question[m].lastSource)

\* There is no condition on the meeting's status.
AdvanceQuestion(m, source) ==
    IF AlreadyAdvanced(m, source)
    THEN UNCHANGED <<question, heard, avatarExcused>>
    ELSE /\ question[m].index < MaxIndex
         /\ question' = [question EXCEPT ![m] = [index |-> @.index + 1, lastSource |-> source]]
         /\ heard' = [heard EXCEPT ![m] = @ \cup {source}]
         /\ avatarExcused' = [avatarExcused EXCEPT ![m] =
                           IF Forgotten(m, source) THEN @ \cup {"again"} ELSE @]

PodEvent(m, s, phase) ==
    /\ s \in ran[m]
    /\ entry' = recordEvent(m, s, phase)
    /\ IF phase = "response_done" /\ status[m] # Absent
       THEN \E source \in Sources \cup {NoSource} : AdvanceQuestion(m, source)
       ELSE UNCHANGED <<question, heard, avatarExcused>>
    /\ UNCHANGED <<vars, kick, pod, ran, deletes>>

PodTelemetry(m, s) ==
    /\ s \in ran[m]
    /\ entry' = patch(m, s)
    /\ avatarExcused' = [avatarExcused EXCEPT ![m] =
                      IF entry[m] # NoEntry /\ s # "own" THEN @ \cup {"foreign"} ELSE @]
    /\ UNCHANGED <<vars, kick, pod, ran, deletes, question, heard>>

\* The operator's agent.force_next_question, each with a command id of its own.
ForceNextQuestion(m, command) ==
    /\ status[m] # Absent
    /\ command \in Sources \ heard[m]
    /\ AdvanceQuestion(m, command)
    /\ UNCHANGED <<vars, entry, kick, pod, ran, deletes>>

\* The clock (Tick) plays no part here.
AvatarNext ==
    \/ \E m \in Meetings :
          \/ StartWithAvatar(m) \/ Provisioned(m) \/ SessionCreated(m)
          \/ KickoffAccepted(m) \/ KickoffFailed(m) \/ NeverExecuted(m)
          \/ \E s \in Finished \cup {Absent}, why \in Reasons : StopWithAvatar(m, s, why)
          \/ \E s \in FailStatus, why \in Reasons : FailWithAvatar(m, s, why)
          \/ \E s \in Sessions :
                \/ Deleted(m, s) \/ DeleteLost(m, s) \/ PodTelemetry(m, s)
                \/ \E phase \in Phase : PodEvent(m, s, phase)
          \/ \E command \in Sources : ForceNextQuestion(m, command)
    \/ ClearQueued /\ UNCHANGED avatarVars

AvatarSpec == AvatarInit /\ [][AvatarNext]_avatarMeetingVars

-----------------------------------------------------------------------------
(* Properties                                                              *)

\* Every variable has its type; the flag the candidate's page polls says what
\* the phase says, through events and patches alike.
AvatarTypeOK ==
    /\ TypeOK
    /\ entry \in [Meetings -> [session: Sessions, phase: Phase \cup {"starting"},
                               avatarReady: BOOLEAN] \cup {NoEntry}]
    /\ \A m \in Meetings : entry[m].avatarReady <=> entry[m].phase = "ready"
    /\ kick \in [Meetings -> {"none", "provisioning", "creating", "created", "lost", "done"}]
    /\ pod \in [Meetings -> SUBSET Sessions] /\ ran \in [Meetings -> SUBSET Sessions]
    /\ deletes \subseteq Meetings \X Sessions
    /\ question \in [Meetings -> [index: -1..MaxIndex, lastSource: Sources \cup {NoSource}]]
    /\ heard \in [Meetings -> SUBSET (Sources \cup {NoSource})]
    /\ avatarExcused \in [Meetings -> SUBSET {"lost", "raced", "foreign", "again"}]

\* The store knows the avatar of exactly the open meetings: callbacks that come
\* late and kickoffs that fail late never bring an ended meeting's avatar back.
EntryIffOpen ==
    \A m \in Meetings : entry[m] # NoEntry <=> status[m] \in Open

\* Once everything is answered, the pod runs the session of an ended meeting
\* only if the DELETE was lost, overtook the POST, or named another session.
PodOutlivesMeetingForAReason ==
    \A m \in Meetings :
        status[m] \in Terminal /\ "own" \in pod[m] /\ kick[m] = "done"
        /\ (\A s \in Sessions : <<m, s>> \notin deletes)
            => avatarExcused[m] \cap {"lost", "raced", "foreign"} # {}

\* The question index counts the responses and commands that advance it, each
\* once, unless a callback is repeated after another one or names no response.
QuestionsCounted ==
    \A m \in Meetings :
        "again" \notin avatarExcused[m] => question[m].index + 1 = Cardinality(heard[m])

=============================================================================
