----------------------------- MODULE RtmpPublisher -----------------------------
(***************************************************************************)
(* The text-to-speech publisher of one meeting (RtmpTtsSessionManager): an *)
(* ffmpeg process that start spawns, after it has awaited the stop of the  *)
(* process before it, and makes the session once it has run for 300 ms.    *)
(*                                                                         *)
(* Each start spawns one process, so a process is named by its start.      *)
(* Starts and stops may overlap; who calls them is in ControlMeeting.      *)
(***************************************************************************)
EXTENDS Naturals, FiniteSets

CONSTANTS Starts,    \* bound: the calls of start
          NoSession  \* no process

ASSUME StartsAssumption == NoSession \notin Starts

VARIABLES
    session,    \* sessions[meeting]: the process that is written to
    snapshot,   \* snapshots[meeting]
    call,       \* call[p]: how far start p has come
    awaits,     \* awaits[p]: the process whose stop start p awaits
    proc,       \* proc[p]: the process of start p
    asked,      \* history variable: the processes stop was called on
    notified,   \* history variable: the processes whose exit the listeners heard of
    overlapped  \* history variable: the starts that ran at the same time as another

publisherVars == <<session, snapshot, call, awaits, proc, asked, notified, overlapped>>

Pending == {p \in Starts : call[p] \in {"stopping", "startup", "failing"}}

getSnapshot ==
    IF session = NoSession THEN snapshot
    ELSE [status |-> IF snapshot.status = "starting" THEN "starting" ELSE "spawned", active |-> TRUE]

Inactive(status) == [status |-> status, active |-> FALSE]

-----------------------------------------------------------------------------
PublisherInit ==
    /\ session = NoSession
    /\ snapshot = Inactive("missing_agent_rtmp_url")
    /\ call = [p \in Starts |-> "new"]
    /\ awaits = [p \in Starts |-> NoSession]
    /\ proc = [p \in Starts |-> "none"]
    /\ asked = {}
    /\ notified = {}
    /\ overlapped = {}

\* Mutant: the snapshot is left as it was.
stop_KeepsSnapshot(exits) ==
    IF session = NoSession
    THEN proc' = exits /\ UNCHANGED <<session, snapshot, asked>>
    ELSE /\ session' = NoSession
         /\ proc' = [exits EXCEPT ![session] = "terminating"]
         /\ asked' = asked \cup {session}
         /\ UNCHANGED snapshot

\* stop up to its await; "exits" is what the processes are already known to be.
stop(exits) ==
    IF session = NoSession
    THEN proc' = exits /\ UNCHANGED <<session, snapshot, asked>>
    ELSE /\ session' = NoSession
         /\ snapshot' = Inactive("stopped")
         /\ proc' = [exits EXCEPT ![session] = "terminating"]
         /\ asked' = asked \cup {session}

\* ffmpeg is spawned.  A spawn that throws is a process that fails at once.
SpawnNow(p) ==
    /\ snapshot' = Inactive("starting")
    /\ call' = [call EXCEPT ![p] = "startup"]
    /\ proc' = [proc EXCEPT ![p] = "running"]

Overlap(p) == IF Pending = {} THEN overlapped ELSE overlapped \cup Pending \cup {p}

\* Mutant: start leaves the session before it alone.
Start_NoStop(p) ==
    /\ call[p] = "new"
    /\ SpawnNow(p)
    /\ overlapped' = Overlap(p)
    /\ UNCHANGED <<session, awaits, asked, notified>>

\* Without a session, "await this.stop" goes on in the same turn.
Start(p) ==
    /\ call[p] = "new"
    /\ overlapped' = Overlap(p)
    /\ awaits' = [awaits EXCEPT ![p] = session]
    /\ IF session = NoSession
       THEN SpawnNow(p) /\ UNCHANGED <<session, asked>>
       ELSE stop(proc) /\ call' = [call EXCEPT ![p] = "stopping"]
    /\ UNCHANGED notified

\* Mutant: the force-kill timer kills and waits on.
StopAwaited_Exit(p) == awaits[p] \notin {q \in Starts : proc[q] \in {"terminating", "killed"}}

\* stop returns when the process has exited, or is killed after 3 s.
StopAwaited(p) == awaits[p] \notin {q \in Starts : proc[q] = "terminating"}

Spawn(p) ==
    /\ call[p] = "stopping" /\ StopAwaited(p)
    /\ SpawnNow(p)
    /\ UNCHANGED <<session, awaits, asked, notified, overlapped>>

\* The process has run for 300 ms: it is the session, whatever was before.
Started(p) ==
    /\ call[p] = "startup"
    /\ call' = [call EXCEPT ![p] = "done"]
    /\ session' = p
    /\ snapshot' = [status |-> "spawned", active |-> TRUE]
    /\ UNCHANGED <<awaits, proc, asked, notified, overlapped>>

Exited(p) == [proc EXCEPT ![p] = "exited"]

\* Mutant: the exit does not stop the timer that resolves the start.
StartupExit_TimerRuns(p) ==
    /\ call[p] = "startup"
    /\ proc' = Exited(p)
    /\ snapshot' = Inactive("failed")
    /\ UNCHANGED <<call, session, awaits, asked, notified, overlapped>>

\* The process exits, or reports an error, in its first 300 ms: start stops
\* whatever is the session and then fails.
StartupExit(p) ==
    /\ call[p] = "startup"
    /\ awaits' = [awaits EXCEPT ![p] = session]
    /\ call' = [call EXCEPT ![p] = IF session = NoSession THEN "failed" ELSE "failing"]
    /\ IF session = NoSession
       THEN /\ snapshot' = Inactive("failed")
            /\ proc' = Exited(p)
            /\ UNCHANGED <<session, asked>>
       ELSE stop(Exited(p))
    /\ UNCHANGED <<notified, overlapped>>

Rejected(p) ==
    /\ call[p] = "failing" /\ StopAwaited(p)
    /\ call' = [call EXCEPT ![p] = "failed"]
    /\ UNCHANGED <<session, snapshot, awaits, proc, asked, notified, overlapped>>

\* Mutant: the exit of a process that is the session no more ends the session.
RuntimeExit_AnyProcess(p) ==
    /\ call[p] = "done" /\ proc[p] # "exited"
    /\ proc' = Exited(p)
    /\ session' = NoSession
    /\ snapshot' = Inactive("exited")
    /\ notified' = notified \cup {p}
    /\ UNCHANGED <<call, awaits, asked, overlapped>>

\* The process exits later; the listeners hear of it if it is the session.
RuntimeExit(p) ==
    /\ call[p] = "done" /\ proc[p] # "exited"
    /\ proc' = Exited(p)
    /\ IF session = p
       THEN /\ session' = NoSession
            /\ snapshot' = Inactive("exited")
            /\ notified' = notified \cup {p}
       ELSE UNCHANGED <<session, snapshot, notified>>
    /\ UNCHANGED <<call, awaits, asked, overlapped>>

\* The timer of stop.
ForceKill(p) ==
    /\ proc[p] = "terminating"
    /\ proc' = [proc EXCEPT ![p] = "killed"]
    /\ UNCHANGED <<session, snapshot, call, awaits, asked, notified, overlapped>>

\* What a process writes to stderr is merged into what getSnapshot returns.
Stderr(p) ==
    /\ proc[p] \in {"running", "terminating", "killed"}
    /\ snapshot' = getSnapshot
    /\ UNCHANGED <<session, call, awaits, proc, asked, notified, overlapped>>

Stop == stop(proc) /\ UNCHANGED <<call, awaits, notified, overlapped>>

StartStep(p) == Spawn(p) \/ Started(p) \/ StartupExit(p) \/ Rejected(p)

PublisherNext ==
    \/ Stop
    \/ \E p \in Starts : Start(p) \/ StartStep(p) \/ RuntimeExit(p) \/ ForceKill(p) \/ Stderr(p)

PublisherSpec == PublisherInit /\ [][PublisherNext]_publisherVars

\* The timers fire and a start that may go on does; no process need ever exit.
FairPublisherSpec ==
    /\ PublisherSpec
    /\ \A p \in Starts : WF_publisherVars(StartStep(p)) /\ WF_publisherVars(ForceKill(p))

-----------------------------------------------------------------------------
(* Properties                                                              *)

\* Every variable has its type; the session is a process that was started, runs
\* and was not asked to stop.
PublisherTypeOK ==
    /\ session \in {p \in Starts \ (asked \cup notified) : call[p] = "done" /\ proc[p] = "running"}
                   \cup {NoSession}
    /\ snapshot \in [status: {"missing_agent_rtmp_url", "starting", "spawned", "exited", "failed", "stopped"},
                     active: BOOLEAN]
    /\ call \in [Starts -> {"new", "stopping", "startup", "failing", "done", "failed"}]
    /\ awaits \in [Starts -> Starts \cup {NoSession}]
    /\ proc \in [Starts -> {"none", "running", "terminating", "killed", "exited"}]
    /\ asked \subseteq Starts /\ notified \subseteq Starts /\ overlapped \subseteq Starts

\* A process that was started runs on only as the session, where stop finds it,
\* unless its start ran at the same time as another: then the later one to end
\* takes the session, and nobody can stop the earlier process.
RunningIsOwned ==
    \A p \in Starts :
        call[p] = "done" /\ proc[p] = "running" => session = p \/ p \in overlapped

\* What the control plane decides by, the snapshot, says "active" of exactly the
\* publishers that can be written to, and once no start runs it does not say
\* that one does; stderr that comes late does not bring an old state back.
SnapshotTellsTheSession ==
    /\ getSnapshot.active <=> session # NoSession
    /\ snapshot.active => session # NoSession
    /\ session = NoSession /\ Pending = {} => snapshot.status \notin {"starting", "spawned"}

\* The listeners, which declare the meeting degraded, hear of a process that
\* exits by itself and never of one that was stopped.
ExitsNotified ==
    /\ asked \cap notified = {}
    /\ \A p \in Starts \ (asked \cup overlapped) :
          call[p] = "done" /\ proc[p] = "exited" => p \in notified

\* Every start ends although the process it replaces need not: the meeting
\* that waits for it is not left half started.
StartsEnd == \A p \in Starts : p \in Pending ~> p \notin Pending
=============================================================================
