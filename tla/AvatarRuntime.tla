----------------------------- MODULE AvatarRuntime -----------------------------
(***************************************************************************)
(* The gateway's own avatar of one meeting: AvatarRuntimeSessionManager    *)
(* keeps a session per meeting, the session an engine, the engine a        *)
(* publisher that joins the Stream call.  startForMeeting awaits the       *)
(* session-state store, the health of the frame worker and the call, and   *)
(* reads nothing again after an await, while pause, resume, interrupt and  *)
(* stop are synchronous and come from the meeting routes, the control      *)
(* socket, the realtime events and the sweeper.                            *)
(*                                                                         *)
(* Every call of startForMeeting has a session object, an engine and a     *)
(* publisher of its own, named after the call.  upsert writes in the order *)
(* it is called in, so that it is one step with its caller.  Of whose turn *)
(* it is, only what is shown of the agent is here.                         *)
(***************************************************************************)
EXTENDS Naturals, FiniteSets

CONSTANTS Starts,  \* calls of startForMeeting
          None     \* no session

VARIABLES
    pipeline,  \* resolveRuntimeVideoEngine and what it needs: configuration
    sessions,  \* the meeting's session: the call that made it, or None
    routed,    \* numericToInternal has the meeting
    start,     \* how far each call is
    session,   \* its session object
    engine,    \* its engine
    publisher, \* its publisher
    joined,    \* the calls whose publisher is in the Stream call
    tapped,    \* the calls whose facial tap is subscribed
    phase,     \* the meeting's phase in the session-state store
    activity,  \* what the control socket has been told the agent does
    output,    \* what the last step has sent out: by whom, and what
    since,     \* what has changed the phase or the activity of a paused session since
    overtaken, \* sessions that pause, resume or stop has changed while they started
    abandoned  \* those that stop did not find in the call yet, that failed after they had
               \* joined it, and those that could not leave it

histories == <<overtaken, abandoned>>
runtimeVars == <<pipeline, sessions, routed, start, session, engine, publisher, joined,
                 tapped, phase, activity, output, since, histories>>

Quiet == output' = {}
StillStarting(s) == start[s] \in {"saving", "probing", "connecting"}

\* pause, resume and stop, of a session that is still starting
IfStarting(s) == IF StillStarting(s) THEN {s} ELSE {}
Overtake(s) == overtaken' = overtaken \cup IfStarting(s)

\* publishActivity of the agent, as all call it but setActiveSpeaker: a session that is
\* paused is shown as paused.
publishActivity(s, value) == activity' = IF session[s].paused THEN "paused" ELSE value
ShownAgain == since' = since \ {"candidate"}

RuntimeInit ==
    /\ pipeline \in {"none", "behavior_static", "arachne"}
    /\ sessions = None
    /\ routed = FALSE
    /\ start = [s \in Starts |-> "new"]
    /\ session = [s \in Starts |-> [state |-> "idle", paused |-> FALSE]]
    /\ engine = [s \in Starts |-> [held |-> FALSE, running |-> FALSE, paused |-> FALSE,
                                   timers |-> FALSE]]
    /\ publisher = [s \in Starts |-> "idle"]
    /\ joined = {} /\ tapped = {}
    /\ phase = "none"
    /\ activity = "listening"
    /\ output = {}
    /\ since = {}
    /\ overtaken = {} /\ abandoned = {}

-----------------------------------------------------------------------------
(* startForMeeting                                                         *)

\* Mutant: a start does not look for the session that is there.
NoSession_Always == TRUE

\* stop removes the session it stops: one that is there has not stopped.
NoSession == sessions = None

startForMeeting(s) ==
    /\ start[s] = "new"
    /\ IF ~NoSession
       THEN /\ start' = [start EXCEPT ![s] = "done"]
            /\ UNCHANGED <<sessions, session, phase>>
       ELSE /\ start' = [start EXCEPT ![s] = "saving"]
            /\ sessions' = s
            /\ session' = [session EXCEPT ![s] = [state |-> "starting", paused |-> FALSE]]
            /\ phase' = "starting"
    /\ Quiet
    /\ since' = IF NoSession THEN {} ELSE since
    /\ UNCHANGED <<pipeline, routed, engine, publisher, joined, tapped, activity, histories>>

\* After the first await: the number is routed, and without a video engine that is all.
withoutVideo(s) ==
    /\ start[s] = "saving"
    /\ pipeline = "none"
    /\ routed' = TRUE
    /\ session' = [session EXCEPT ![s].state = "active"]
    /\ phase' = "in_meeting"
    /\ start' = [start EXCEPT ![s] = "done"]
    /\ Quiet
    /\ UNCHANGED <<pipeline, sessions, engine, publisher, joined, tapped, activity, since,
                   histories>>

probeWorker(s) ==
    /\ start[s] = "saving"
    /\ pipeline = "arachne"
    /\ routed' = TRUE
    /\ start' = [start EXCEPT ![s] = "probing"]
    /\ Quiet
    /\ UNCHANGED <<pipeline, sessions, session, engine, publisher, joined, tapped, phase,
                   activity, since, histories>>

\* engine.start up to its await, for whichever session the call holds.
startEngine(s) ==
    /\ engine' = [engine EXCEPT ![s].held = TRUE, ![s].running = TRUE]
    /\ publisher' = [publisher EXCEPT ![s] = "connecting"]
    /\ start' = [start EXCEPT ![s] = "connecting"]

startBehaviorStatic(s) ==
    /\ start[s] = "saving"
    /\ pipeline = "behavior_static"
    /\ routed' = TRUE
    /\ tapped' = tapped \cup {s}
    /\ startEngine(s)
    /\ Quiet
    /\ UNCHANGED <<pipeline, sessions, session, joined, phase, activity, since, histories>>

workerReady(s) ==
    /\ start[s] = "probing"
    /\ startEngine(s)
    /\ Quiet
    /\ UNCHANGED <<pipeline, sessions, routed, session, joined, tapped, phase, activity, since,
                   histories>>

\* The end of a start that has failed; the engine is let go of, not stopped.
degrade(s) ==
    /\ session' = [session EXCEPT ![s].state = "degraded"]
    /\ phase' = "degraded"
    /\ start' = [start EXCEPT ![s] = "done"]

workerNotReady(s) ==
    /\ start[s] = "probing"
    /\ degrade(s)
    /\ Quiet
    /\ UNCHANGED <<pipeline, sessions, routed, engine, publisher, joined, tapped, activity,
                   since, histories>>

\* connect has joined the call, whatever has become of the publisher meanwhile, and
\* start goes on: the timers, and then the stop controller, which stop has set to null.
connected(s) ==
    /\ start[s] = "connecting"
    /\ publisher' = [publisher EXCEPT ![s] = "connected"]
    /\ joined' = joined \cup {s}
    /\ IF engine[s].running
       THEN /\ engine' = [engine EXCEPT ![s].timers = TRUE]
            /\ session' = [session EXCEPT ![s].state = "active"]
            /\ phase' = "in_meeting"
            /\ start' = [start EXCEPT ![s] = "done"]
            /\ UNCHANGED tapped
       ELSE /\ engine' = [engine EXCEPT ![s].timers = TRUE, ![s].held = FALSE]
            /\ tapped' = tapped \ {s}
            /\ degrade(s)
    /\ Quiet
    /\ UNCHANGED <<pipeline, sessions, routed, activity, since, histories>>

\* connect has failed, before or after it joined the call.
notConnected(s) ==
    /\ start[s] = "connecting"
    /\ joined' \in {joined, joined \cup {s}}
    /\ engine' = [engine EXCEPT ![s].held = FALSE]
    /\ tapped' = tapped \ {s}
    /\ degrade(s)
    /\ abandoned' = abandoned \cup (joined' \ joined)
    /\ Quiet
    /\ UNCHANGED <<pipeline, sessions, routed, publisher, activity, since, overtaken>>

-----------------------------------------------------------------------------
(* The commands, of the session that the meeting has                       *)

pause ==
    /\ ~NoSession
    /\ session' = [session EXCEPT ![sessions] = [state |-> "paused", paused |-> TRUE]]
    /\ phase' = "paused"
    /\ engine' = [engine EXCEPT ![sessions].paused = @ \/ (engine[sessions].held
                                                           /\ engine[sessions].running)]
    /\ activity' = "paused"
    /\ Overtake(sessions)
    /\ Quiet
    /\ since' = {}
    /\ UNCHANGED <<pipeline, sessions, routed, start, publisher, joined, tapped, abandoned>>

resume ==
    /\ ~NoSession
    /\ LET state == IF engine[sessions].held THEN "active" ELSE "degraded"
       IN  /\ session' = [session EXCEPT ![sessions] = [state |-> state, paused |-> FALSE]]
           /\ phase' = IF engine[sessions].held THEN "in_meeting" ELSE "degraded"
    /\ engine' = [engine EXCEPT ![sessions].paused = @ /\ ~(engine[sessions].held
                                                            /\ engine[sessions].running)]
    /\ activity' = "listening"
    /\ Overtake(sessions)
    /\ Quiet
    /\ since' = {}
    /\ UNCHANGED <<pipeline, sessions, routed, start, publisher, joined, tapped, abandoned>>

interrupt ==
    /\ ~NoSession
    /\ phase' = IF session[sessions].paused THEN "paused" ELSE "in_meeting"
    /\ publishActivity(sessions, "listening")
    /\ since' = {}
    /\ Quiet
    /\ UNCHANGED <<pipeline, sessions, routed, start, session, engine, publisher, joined,
                   tapped, histories>>

\* Mutant: the publisher is left in the call.
close_Never(s) ==
    /\ abandoned' = abandoned \cup IfStarting(s)
    /\ UNCHANGED <<publisher, joined>>

\* close: only the call that connect has put in the publisher is left, and that leave()
\* may fail is passed over.
close(s) ==
    /\ publisher' = [publisher EXCEPT ![s] = "closed"]
    /\ \E leaves \in {TRUE, publisher[s] # "connected"} :
          /\ joined' = IF publisher[s] = "connected" /\ leaves THEN joined \ {s} ELSE joined
          /\ abandoned' = abandoned \cup IfStarting(s) \cup IF leaves THEN {} ELSE {s}

\* The routes, deinit and the sweeper.
stop ==
    /\ ~NoSession
    /\ LET s == sessions
       IN  /\ session' = [session EXCEPT ![s] = [state |-> "stopped", paused |-> TRUE]]
           /\ tapped' = tapped \ {s}
           /\ IF engine[s].held /\ engine[s].running
              THEN /\ engine' = [engine EXCEPT ![s].running = FALSE, ![s].timers = FALSE]
                   /\ close(s)
              ELSE /\ abandoned' = abandoned \cup IfStarting(s)
                   /\ UNCHANGED <<engine, publisher, joined>>
           /\ Overtake(s)
    /\ phase' = "stopped"
    /\ activity' = "paused"
    /\ routed' = FALSE
    /\ sessions' = None
    /\ since' = {}
    /\ Quiet
    /\ UNCHANGED <<pipeline, start>>

-----------------------------------------------------------------------------
(* The realtime events and the timer                                       *)

\* The phase is set whether the session is paused or not.
responseCreated ==
    /\ ~NoSession
    /\ phase' = "in_meeting"
    /\ publishActivity(sessions, "thinking")
    /\ since' = IF session[sessions].paused THEN {"response"} ELSE {}
    /\ Quiet
    /\ UNCHANGED <<pipeline, sessions, routed, start, session, engine, publisher, joined,
                   tapped, histories>>

responseDone ==
    /\ ~NoSession
    /\ publishActivity(sessions, "listening")
    /\ ShownAgain
    /\ Quiet
    /\ UNCHANGED <<pipeline, sessions, routed, start, session, engine, publisher, joined,
                   tapped, phase, histories>>

\* A command gives the floor to the candidate, which shows the agent as listening even if
\* it is paused, or to the assistant.
setActiveSpeaker ==
    /\ ~NoSession
    /\ \/ /\ activity' = "listening"
          /\ since' = since \cup IF session[sessions].paused THEN {"candidate"} ELSE {}
       \/ /\ publishActivity(sessions, "speaking")
          /\ ShownAgain
    /\ Quiet
    /\ UNCHANGED <<pipeline, sessions, routed, start, session, engine, publisher, joined,
                   tapped, phase, histories>>

\* Mutant: a transcript is published whether the session is paused or not.
Speaks_Always(s) == TRUE

\* publishSubtitle and ingestOpenAiAudioDelta go no further with a paused session.
Speaks(s) == ~session[s].paused

\* A transcript: subtitles.
transcriptDelta ==
    /\ ~NoSession
    /\ publishActivity(sessions, "speaking")
    /\ ShownAgain
    /\ output' = IF Speaks(sessions) THEN {[by |-> sessions, what |-> "subtitle"]} ELSE {}
    /\ UNCHANGED <<pipeline, sessions, routed, start, session, engine, publisher, joined,
                   tapped, phase, histories>>

\* Audio, when its source is the assistant: to A2F, and through the engine to the call.
audioDelta ==
    /\ ~NoSession
    /\ publishActivity(sessions, "speaking")
    /\ ShownAgain
    /\ LET s == sessions
           calls == /\ engine[s].held /\ engine[s].running /\ ~engine[s].paused
                    /\ publisher[s] = "connected"
       IN  output' \in {{}, IF ~Speaks(s) THEN {}
                            ELSE {[by |-> s, what |-> "face"]} \cup
                                 (IF calls THEN {[by |-> s, what |-> "audio"]} ELSE {})}
    /\ UNCHANGED <<pipeline, sessions, routed, start, session, engine, publisher, joined,
                   tapped, phase, histories>>

\* videoTick of any engine that has timers, its session the meeting's or not.
videoTick(s) ==
    /\ engine[s].timers
    /\ output' = IF engine[s].running /\ ~engine[s].paused /\ publisher[s] = "connected"
                 THEN {[by |-> s, what |-> "frame"]} ELSE {}
    /\ UNCHANGED <<pipeline, sessions, routed, start, session, engine, publisher, joined,
                   tapped, phase, activity, since, histories>>

-----------------------------------------------------------------------------
RuntimeNext ==
    \/ \E s \in Starts :
          \/ startForMeeting(s) \/ withoutVideo(s) \/ startBehaviorStatic(s)
          \/ probeWorker(s) \/ workerReady(s) \/ workerNotReady(s)
          \/ connected(s) \/ notConnected(s) \/ videoTick(s)
    \/ pause \/ resume \/ interrupt \/ stop
    \/ responseCreated \/ responseDone \/ setActiveSpeaker \/ transcriptDelta \/ audioDelta

RuntimeSpec == RuntimeInit /\ [][RuntimeNext]_runtimeVars

-----------------------------------------------------------------------------
(* Properties                                                              *)

RuntimeTypeOK ==
    /\ pipeline \in {"none", "behavior_static", "arachne"}
    /\ sessions \in Starts \cup {None}
    /\ routed \in BOOLEAN
    /\ start \in [Starts -> {"new", "saving", "probing", "connecting", "done"}]
    /\ session \in [Starts -> [state: {"idle", "starting", "active", "degraded", "paused",
                                       "stopped"}, paused: BOOLEAN]]
    /\ engine \in [Starts -> [held: BOOLEAN, running: BOOLEAN, paused: BOOLEAN,
                              timers: BOOLEAN]]
    /\ publisher \in [Starts -> {"idle", "connecting", "connected", "closed"}]
    /\ joined \cup tapped \cup overtaken \cup abandoned \subseteq Starts
    /\ since \subseteq {"response", "candidate"}
    /\ phase \in {"none", "starting", "in_meeting", "paused", "degraded", "stopped"}
    /\ activity \in {"listening", "speaking", "thinking", "paused"}
    /\ output \subseteq [by: Starts, what: {"subtitle", "face", "audio", "frame"}]

\* The agent that is in the Stream call is the one of the meeting's session: a
\* publisher is left behind there only when its start was overtaken by a stop, when it
\* failed after it had joined, or when it could not leave.
NobodyLeftInTheCall == \A s \in joined : s = sessions \/ s \in abandoned

\* "no stale speaking resumes during pause" (docs/phase2-sprint1-2-checklist.md:36):
\* a paused session sends out no subtitle, no sound, no frame, unless it was paused or
\* stopped before it had an engine to pause; and it is shown as paused, unless a command
\* has given the floor to the candidate since: then as listening, never as speaking.
QuietWhilePaused ==
    /\ \A o \in output : session[o.by].paused => o.by \in overtaken /\ o.what = "frame"
    /\ ~NoSession /\ session[sessions].paused
          => activity = IF "candidate" \in since THEN "listening" ELSE "paused"

\* Unless a pause, a resume or a stop overtook a start, what the session-state store says
\* of the meeting is what the manager has: stopped when there is no session, starting
\* while it starts only, and paused if and only if it is paused, except that a response
\* that is created sets the phase of a paused session to in_meeting, until the next
\* pause, resume or interruption.  A degraded session has no engine.
PhaseFollowsSession ==
    overtaken = {} =>
        /\ NoSession => phase \in {"none", "stopped"}
        /\ ~NoSession => /\ phase # "stopped"
                         /\ phase = "starting" => StillStarting(sessions)
                         /\ phase = "paused"
                               <=> session[sessions].paused /\ "response" \notin since
        /\ ~NoSession /\ session[sessions].state = "degraded"
              => ~engine[sessions].held

\* Calls by the meeting's number reach its session once it has started, and lead
\* nowhere when there is none, unless a stop has overtaken the start.
NumberLeadsToSession ==
    /\ ~NoSession => (routed <=> start[sessions] # "saving") \/ overtaken # {}
    /\ NoSession /\ routed => overtaken # {}
=============================================================================
