---------------------------- MODULE RuntimeCommands ----------------------------
(***************************************************************************)
(* POST /runtime/:meetingId/commands for one meeting: commands are         *)
(* serialised by a lease in Redis that expires, recorded in the event log, *)
(* and, for a setting of the avatar, applied to the gateway's avatar       *)
(* state, sent to the pod, and applied to the running avatar, each after   *)
(* an await.  The log is RuntimeEvents'; here it is its revision and its   *)
(* last command.                                                           *)
(*                                                                         *)
(* The setting is the one that is written most: who speaks.  It is named   *)
(* by the command that set it last; Nobody is a value that was set         *)
(* otherwise: by a new session, a turn of the talk or the pod itself.      *)
(***************************************************************************)
EXTENDS Naturals, FiniteSets

CONSTANTS Commands,   \* requests, each for a value of its own of one setting
          LockOwners,     \* commandId: the client's, or a new one
          Nobody      \* no lease, no owner, the value of no command

ASSUME CommandsAssumption ==
    /\ Nobody \notin Commands \cup LockOwners
    /\ Nobody \notin [owner: LockOwners, by: Commands]

VARIABLES
    lease,       \* the lease in Redis: its owner, and the command that set it
    command,     \* how far each command is, its owner and its revision
    revision,    \* of the event log
    lastCommand, \* of recordCommand
    configured,  \* whether there is a pod to speak to, for good
    known,       \* whether the avatar state store has the meeting
    running,     \* whether the meeting has a session of the running avatar
    gateway,     \* the value in the avatar state store
    runtime,     \* the value in the avatar's orchestrator
    pod,         \* the value the pod has
    inTransit,   \* commands on their way to the pod
    taken,       \* commands the pod has taken
    synced,      \* commands with a runtime.state.synced event
    others,      \* copies of the setting that missed the last command that set it, or
                 \* that somebody else has set since
    troubles     \* has a lease "expired" under its command, was a command still on its
                 \* way to the pod at the "timeout"?

present == <<configured, known, running>>
settings == <<present, gateway, runtime, pod, inTransit, taken, synced, others>>
commandVars == <<lease, command, revision, lastCommand, settings, troubles>>

Working == {"holding", "leased", "requested", "recorded", "syncing", "synced",
            "releasing", "deleting"}
Ended == {"refused", "done"}

Goes(k, pc) == command' = [command EXCEPT ![k].pc = pc]

CommandsInit ==
    /\ lease = Nobody
    /\ command = [k \in Commands |-> [pc |-> "new", owner |-> Nobody, revision |-> 0]]
    /\ revision = 0
    /\ lastCommand = Nobody
    /\ configured \in BOOLEAN /\ known \in BOOLEAN /\ running \in BOOLEAN
    /\ gateway = Nobody /\ runtime = Nobody /\ pod = Nobody
    /\ inTransit = {} /\ taken = {} /\ synced = {}
    /\ others = {}
    /\ troubles = {}

-----------------------------------------------------------------------------
(* The lease                                                               *)

\* An observer's command is refused before it asks for the lease.
deny(k) ==
    /\ command[k].pc = "new"
    /\ Goes(k, "refused")
    /\ revision' = revision + 1
    /\ UNCHANGED <<lease, lastCommand, settings, troubles>>

\* Mutant: SET without NX.
Free_Always == TRUE

Free == lease = Nobody

\* SET NX: the command has the lease, or somebody else does, or Redis does not
\* answer, and the command counts as refused although the lease may be its own.
acquire(k) ==
    /\ command[k].pc = "new"
    /\ \E o \in LockOwners, answer \in {"OK", "error"} :
          /\ lease' \in IF ~Free THEN {lease}
                        ELSE IF answer = "OK" THEN {[owner |-> o, by |-> k]}
                        ELSE {lease, [owner |-> o, by |-> k]}
          /\ command' = [command EXCEPT ![k].owner = o,
                                        ![k].pc = IF Free /\ answer = "OK" THEN "holding"
                                                  ELSE "rejected"]
    /\ UNCHANGED <<revision, lastCommand, settings, troubles>>

\* The lease event; a command without the lease is answered 409.
leaseEvent(k) ==
    /\ command[k].pc \in {"holding", "rejected"}
    /\ Goes(k, IF command[k].pc = "holding" THEN "leased" ELSE "refused")
    /\ revision' = revision + 1
    /\ UNCHANGED <<lease, lastCommand, settings, troubles>>

\* PX: 5 seconds, and the pod may take 15 to answer.
expire ==
    /\ lease # Nobody
    /\ lease' = Nobody
    /\ troubles' = troubles \cup IF command[lease.by].pc \in Working THEN {"expired"} ELSE {}
    /\ UNCHANGED <<command, revision, lastCommand, settings>>

\* release: GET; the lease of another one, and one that is gone, are left alone.
releaseReads(k) ==
    /\ command[k].pc = "releasing"
    /\ \/ /\ lease # Nobody /\ lease.owner = command[k].owner
          /\ Goes(k, "deleting")
       \/ Goes(k, "done")   \* not its own, or GET has failed
    /\ UNCHANGED <<lease, revision, lastCommand, settings, troubles>>

\* release: DEL of whatever lease is there by now; it may fail.
releaseDeletes(k) ==
    /\ command[k].pc = "deleting"
    /\ lease' \in {Nobody, lease}
    /\ Goes(k, "done")
    /\ UNCHANGED <<revision, lastCommand, settings, troubles>>

-----------------------------------------------------------------------------
(* The command                                                             *)

intent(k) ==
    /\ command[k].pc = "leased"
    /\ revision' = revision + 1
    /\ command' = [command EXCEPT ![k].pc = "requested", ![k].revision = revision + 1]
    /\ UNCHANGED <<lease, lastCommand, settings, troubles>>

recordsCommand(k) ==
    /\ command[k].pc = "requested"
    /\ lastCommand' = k
    /\ Goes(k, "recorded")
    /\ UNCHANGED <<lease, revision, settings, troubles>>

\* The log that Redis has cannot be parsed, or the meeting whose question is to be
\* advanced is unknown: the route ends with an error and its lease stays.
fails(k) ==
    /\ command[k].pc \in {"holding", "recorded"}
    /\ Goes(k, IF command[k].pc = "holding" THEN "refused" ELSE "done")
    /\ UNCHANGED <<lease, revision, lastCommand, settings, troubles>>

\* A command that is no setting of the avatar goes on to the release.
applyOther(k) ==
    /\ command[k].pc = "recorded"
    /\ Goes(k, "releasing")
    /\ UNCHANGED <<lease, revision, lastCommand, settings, troubles>>

\* Mutant: the pod's answer is not awaited.
patch_NotAwaited(k) ==
    /\ command[k].pc = "recorded"
    /\ gateway' = IF known THEN k ELSE gateway
    /\ inTransit' = IF configured THEN inTransit \cup {k} ELSE inTransit
    /\ others' = (IF known THEN {} ELSE {"gateway"}) \cup (IF configured THEN {} ELSE {"pod"})
    /\ Goes(k, "synced")
    /\ UNCHANGED <<lease, revision, lastCommand, present, runtime, pod, taken, synced,
                   troubles>>

\* The state store takes the value, unless it does not know the meeting, and the pod is
\* sent the command, if there is one.
patch(k) ==
    /\ command[k].pc = "recorded"
    /\ gateway' = IF known THEN k ELSE gateway
    /\ inTransit' = IF configured THEN inTransit \cup {k} ELSE inTransit
    /\ others' = (IF known THEN {} ELSE {"gateway"}) \cup (IF configured THEN {} ELSE {"pod"})
    /\ Goes(k, "syncing")
    /\ UNCHANGED <<lease, revision, lastCommand, present, runtime, pod, taken, synced,
                   troubles>>

\* The pod takes the command, or the network or the pod drops it.
podTakes(k) ==
    /\ k \in inTransit
    /\ inTransit' = inTransit \ {k}
    /\ pod' = k
    /\ taken' = taken \cup {k}
    /\ others' = others \ {"pod"}
    /\ UNCHANGED <<lease, command, revision, lastCommand, present, gateway, runtime, synced,
                   troubles>>

podDrops(k) ==
    /\ k \in inTransit
    /\ inTransit' = inTransit \ {k}
    /\ others' = others \cup {"pod"}
    /\ UNCHANGED <<lease, command, revision, lastCommand, present, gateway, runtime, pod,
                   taken, synced, troubles>>

\* The pod is waited for no longer; what is still on its way may come late.
Awaited(k) == troubles' = troubles \cup IF k \in inTransit THEN {"timeout"} ELSE {}

\* postSessionCommand returns on any answer, on an error and on its timeout alike, so
\* that syncPodCommandWithRetry tries once and appends runtime.state.synced.
syncPodCommandWithRetry(k) ==
    /\ command[k].pc = "syncing"
    /\ configured
    /\ Goes(k, "synced")
    /\ synced' = synced \cup {k}
    /\ revision' = revision + 1
    /\ Awaited(k)
    /\ UNCHANGED <<lease, lastCommand, present, gateway, runtime, pod, inTransit, taken,
                   others>>

\* Without a pod to speak to it throws, three times: the log has session_failed, and the
\* route goes on all the same.
syncFails(k) ==
    /\ command[k].pc = "syncing"
    /\ ~configured
    /\ Goes(k, "synced")
    /\ revision' = revision + 1
    /\ UNCHANGED <<lease, lastCommand, settings, troubles>>

\* setActiveSpeaker, like setDuplexMode and setVideoAudioSource: without a session of the
\* running avatar it does nothing.
setRuntime(k) ==
    /\ command[k].pc = "synced"
    /\ runtime' = IF running THEN k ELSE runtime
    /\ others' = IF running THEN others \ {"runtime"} ELSE others \cup {"runtime"}
    /\ Goes(k, "releasing")
    /\ UNCHANGED <<lease, revision, lastCommand, present, gateway, pod, inTransit, taken,
                   synced, troubles>>

-----------------------------------------------------------------------------
(* Who else sets it: nobody of these asks for the lease                    *)

\* speaker_changed of the pod is patched into the state store.
speakerChanged ==
    /\ known
    /\ gateway' = Nobody
    /\ others' = others \cup {"gateway"}
    /\ UNCHANGED <<lease, command, revision, lastCommand, present, runtime, pod, inTransit,
                   taken, synced, troubles>>

\* A kickoff of the meeting: its state begins anew.
upsertStart ==
    /\ configured
    /\ known' = TRUE
    /\ gateway' = Nobody
    /\ others' = others \cup {"gateway"}
    /\ UNCHANGED <<lease, command, revision, lastCommand, configured, running, runtime, pod,
                   inTransit, taken, synced, troubles>>

\* A session of the running avatar begins with its defaults, and ends with all it has.
startForMeeting ==
    /\ ~running
    /\ running' = TRUE
    /\ others' = others \cup {"runtime"}
    /\ UNCHANGED <<lease, command, revision, lastCommand, configured, known, gateway, runtime,
                   pod, inTransit, taken, synced, troubles>>

stopForMeeting ==
    /\ running
    /\ running' = FALSE
    /\ runtime' = Nobody
    /\ others' = others \cup {"runtime"}
    /\ UNCHANGED <<lease, command, revision, lastCommand, configured, known, gateway, pod,
                   inTransit, taken, synced, troubles>>

\* Who speaks follows the talk: speech, responses, pause, resume and interruption.
turnChanges ==
    /\ running
    /\ runtime' = Nobody
    /\ others' = others \cup {"runtime"}
    /\ UNCHANGED <<lease, command, revision, lastCommand, present, gateway, pod, inTransit,
                   taken, synced, troubles>>

\* The pod, too, goes with the talk, or begins a new session.
podChanges ==
    /\ configured
    /\ pod' = Nobody
    /\ others' = others \cup {"pod"}
    /\ UNCHANGED <<lease, command, revision, lastCommand, present, gateway, runtime, inTransit,
                   taken, synced, troubles>>

-----------------------------------------------------------------------------
Elsewhere ==
    \/ speakerChanged \/ upsertStart \/ startForMeeting \/ stopForMeeting \/ turnChanges
    \/ podChanges

CommandsNext ==
    \/ \E k \in Commands :
          \/ deny(k) \/ acquire(k) \/ leaseEvent(k) \/ intent(k) \/ recordsCommand(k)
          \/ applyOther(k) \/ patch(k) \/ podTakes(k) \/ podDrops(k)
          \/ syncPodCommandWithRetry(k) \/ syncFails(k) \/ setRuntime(k)
          \/ fails(k) \/ releaseReads(k) \/ releaseDeletes(k)
    \/ expire
    \/ Elsewhere

CommandsSpec == CommandsInit /\ [][CommandsNext]_commandVars

-----------------------------------------------------------------------------
(* Properties                                                              *)

\* The copies of the setting.
Copies == {"gateway", "runtime", "pod"}
Copy(c) == [gateway |-> gateway, runtime |-> runtime, pod |-> pod][c]

CommandsTypeOK ==
    /\ lease \in {Nobody} \cup [owner: LockOwners, by: Commands]
    /\ command \in [Commands -> [pc: {"new", "rejected"} \cup Working \cup Ended,
                                 owner: LockOwners \cup {Nobody}, revision: Nat]]
    /\ revision \in Nat
    /\ lastCommand \in Commands \cup {Nobody}
    /\ {configured, known, running} \subseteq BOOLEAN
    /\ {gateway, runtime, pod} \subseteq Commands \cup {Nobody}
    /\ inTransit \cup taken \cup synced \subseteq Commands
    /\ others \subseteq Copies
    /\ troubles \subseteq {"expired", "timeout"}

\* Two commands are under way at once only after a lease has expired under a command
\* that was: then release may also delete the lease of the next one.
OneCommandAtATime ==
    "expired" \notin troubles =>
        \A j, k \in Commands :
            command[j].pc \in Working /\ command[k].pc \in Working => j = k

\* The last command on record is the newest of those that were recorded.
LastCommandIsNewest ==
    "expired" \notin troubles =>
        \A k \in Commands :
            lastCommand # Nobody /\ command[k].pc \in Working \cup Ended
                /\ command[k].pc \notin {"holding", "leased", "requested"}
                => command[k].revision <= command[lastCommand].revision

\* When no command is under way, the gateway, the running avatar and the pod have the
\* same setting, but for those that missed the last command, because they were not there
\* or the network dropped it, or that something else has set since.  What was amiss
\* before that command is over, except that a lease expired under its command or that
\* the pod took longer than its timeout.
SettingsAgree ==
    troubles = {} /\ (\A k \in Commands : command[k].pc \notin Working)
        => \A c, d \in Copies \ others : Copy(c) = Copy(d)

\* "on success emit `runtime.state.synced`, on failure emit `session_failed`"
\* (docs/avatar-integration-contracts.md:53): an event says that the pod took the
\* command only if it did.
SyncedMeansTaken == synced \subseteq taken
=============================================================================
