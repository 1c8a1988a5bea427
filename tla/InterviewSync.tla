----------------------------- MODULE InterviewSync -----------------------------
(***************************************************************************)
(* The gateway's projection of JobAI's interviews.  JobAI owns an          *)
(* interview's status; the gateway holds a copy that webhooks, requests of *)
(* its own and their answers write, and adds what only it knows: invites,  *)
(* the meeting, the recording.  Handlers await JobAI between reading the   *)
(* copy and writing the answer over it, nothing locks an interview, and a  *)
(* webhook may be delayed, overtaken or delivered twice.                   *)
(*                                                                         *)
(* The three invite tokens and the numeric meeting id of a record are      *)
(* drawn at random, together and until they are new: a draw is numbered    *)
(* here, and the number stands for what was drawn.                         *)
(***************************************************************************)
EXTENDS Naturals, FiniteSets

CONSTANTS Interviews,   \* JobAI's interview ids
          Requests,     \* handlers that await JobAI, at most this many at a time
          None,         \* undefined
          Targets,      \* the statuses transitionStatus is asked for
          MaxRestarts   \* bound: restarts of the gateway

JobAiStatus == {"pending", "received", "in_meeting", "completed",
                "stopped_during_meeting", "canceled", "meeting_not_started"}

allowedJobAiTransitions ==
    [s \in JobAiStatus |->
        CASE s = "pending"    -> {"received", "canceled"}
          [] s = "received"   -> {"canceled", "in_meeting", "meeting_not_started"}
          [] s = "in_meeting" -> {"completed", "stopped_during_meeting"}
          [] OTHER            -> {}]

TERMINAL_LOCK_STATUSES == {"canceled", "completed"}

FINISHED_JOBAI_STATUSES ==
    {"completed", "stopped_during_meeting", "canceled", "meeting_not_started"}

NullxesStatus == {"idle", "in_meeting", "completed", "stopped_during_meeting", "failed"}

\* What attachSession is given by the meeting's routes; the others come over HTTP only.
LinkStatus == {"in_meeting", "stopped_during_meeting"}

\* A StoredInterview: rawPayload.status, and of the projection nullxesStatus, whether
\* nullxesMeetingId is set, whether recording is, and the draw of the invites
\* (0: a record that an earlier version saved without any).
Records == [status: JobAiStatus, nullxesStatus: NullxesStatus,
            meeting: BOOLEAN, recording: BOOLEAN, invites: Nat]

ASSUME SyncAssumption ==
    /\ Targets \subseteq JobAiStatus
    /\ MaxRestarts \in Nat
    /\ None \notin Records

VARIABLES
    remote,        \* the status JobAI holds
    past,          \* the statuses JobAI has held; it sends a webhook of each
    byJobAiId,     \* the gateway's records
    byInviteToken, \* the draws whose tokens are in the index
    draws,         \* how many sets of invites were drawn for an interview
    saved,         \* the records in Redis, one key each
    legacy,        \* what the one key of an earlier version has of each interview
    unread,        \* interviews the last start did not find: the GET of their key failed
    request,       \* what each handler awaits
    sent,          \* the status mutation the last step sent to JobAI, if any
    canceledSeen,  \* interviews whose canceled webhook was taken in
    linked,        \* interviews linked to a meeting
    relinked,      \* interviews linked to a meeting after they had finished
    restarts

recordVars == <<byJobAiId, byInviteToken, draws, saved>>
startVars == <<legacy, unread, restarts>>
syncVars == <<remote, past, recordVars, request, sent, canceledSeen, linked, relinked,
              startVars>>

-----------------------------------------------------------------------------
(* InMemoryInterviewStore                                                  *)

Known(i) == byJobAiId[i] # None

Finished(rec) ==
    \/ rec.status \in FINISHED_JOBAI_STATUSES
    \/ rec.nullxesStatus \in {"completed", "stopped_during_meeting"}

\* Mutant: the runtime status follows JobAI's, also back.
resolveNullxesStatus_Follows(jobAiStatus, current) ==
    CASE jobAiStatus = "completed" -> "completed"
      [] jobAiStatus \in {"stopped_during_meeting", "canceled", "meeting_not_started"}
            -> "stopped_during_meeting"
      [] jobAiStatus = "in_meeting" -> "in_meeting"
      [] OTHER -> "idle"

resolveNullxesStatus(jobAiStatus, current) ==
    CASE jobAiStatus = "completed" -> "completed"
      [] jobAiStatus \in {"stopped_during_meeting", "canceled", "meeting_not_started"}
            -> "stopped_during_meeting"
      [] OTHER -> current

\* The record after the write reaches Redis, or does not ("failed to persist").
persistInterview(i, rec) ==
    saved' \in {saved, [saved EXCEPT ![i] = rec]}

\* Tokens and a meeting id that no other record has.
Drawn(i) == draws[i] + 1

\* What a record has stays; what it lacks is drawn.
ensureInviteProjection(i, invites) == IF invites = 0 THEN Drawn(i) ELSE invites

\* Mutant: the projection is built anew, invites included.
inviteProjection_Anew(i) == Drawn(i)

\* getOrCreateInviteProjection
inviteProjection(i) ==
    IF Known(i) THEN ensureInviteProjection(i, byJobAiId[i].invites) ELSE Drawn(i)

\* unindexInviteProjection of the old record, indexInviteProjection of the new one.
Index(rec) == {rec.invites}

\* Mutant: the link to the meeting is not carried over.
projection_Unlinked(i, status) ==
    [status        |-> status,
     nullxesStatus |-> resolveNullxesStatus(status,
                          IF Known(i) THEN byJobAiId[i].nullxesStatus ELSE "idle"),
     meeting       |-> FALSE,
     recording     |-> FALSE,
     invites       |-> inviteProjection(i)]

\* What upsert keeps of the record it replaces: the recording is not among it.
projection(i, status) ==
    [status        |-> status,
     nullxesStatus |-> resolveNullxesStatus(status,
                          IF Known(i) THEN byJobAiId[i].nullxesStatus ELSE "idle"),
     meeting       |-> Known(i) /\ byJobAiId[i].meeting,
     recording     |-> FALSE,
     invites       |-> inviteProjection(i)]

upsert(i, status) ==
    LET rec == projection(i, status)
    IN  /\ byJobAiId' = [byJobAiId EXCEPT ![i] = rec]
        /\ byInviteToken' = [byInviteToken EXCEPT ![i] = Index(rec)]
        /\ draws' = [draws EXCEPT ![i] = IF rec.invites > @ THEN rec.invites ELSE @]
        /\ persistInterview(i, rec)

\* The record an earlier version saved for a pending interview.
Legacy == [status |-> "pending", nullxesStatus |-> "idle", meeting |-> FALSE,
           recording |-> FALSE, invites |-> 0]

Hydrated(rec, drawn) == [rec EXCEPT !.invites = IF @ = 0 THEN drawn ELSE @]

\* hydrate of the record in an interview's own key; the GET of any key may fail.
own(i, skipped) ==
    IF saved[i] = None \/ i \in skipped THEN None ELSE Hydrated(saved[i], Drawn(i))

\* hydrate of what the old key has of it, over that.
hydrate(i, blob, skipped) ==
    IF blob[i] = None THEN own(i, skipped) ELSE Hydrated(blob[i], Drawn(i) + 1)

NoBlob == [i \in Interviews |-> None]

\* The interviews' own keys, and then the old one, which may be passed over like any
\* other.  A record that was changed, or was in the old key, is saved, which may fail;
\* and the old key is deleted, which may fail too.
loadAll ==
    \E blob \in {legacy, NoBlob}, skipped \in SUBSET {i \in Interviews : saved[i] # None} :
       /\ byJobAiId' = [i \in Interviews |-> hydrate(i, blob, skipped)]
       /\ byInviteToken' = [i \in Interviews |->
                               IF byJobAiId'[i] = None THEN {} ELSE Index(byJobAiId'[i])]
       /\ draws' = [i \in Interviews |->
                       IF byJobAiId'[i] # None /\ byJobAiId'[i].invites > draws[i]
                       THEN byJobAiId'[i].invites ELSE draws[i]]
       /\ \E first, second \in SUBSET Interviews :
             saved' = [i \in Interviews |->
                          IF blob[i] # None /\ i \in second THEN byJobAiId'[i]
                          ELSE IF own(i, skipped) # None /\ i \in first THEN own(i, skipped)
                          ELSE saved[i]]
       /\ unread' = {i \in skipped : blob[i] = None}
       /\ legacy' \in {legacy} \cup IF blob = legacy THEN {NoBlob} ELSE {}

\* The first start found what an earlier version had saved, and may have failed to save
\* the invites it drew, or to delete the old key.
SyncInit ==
    /\ remote = [i \in Interviews |-> "pending"]
    /\ past = [i \in Interviews |-> {"pending"}]
    /\ saved \in [Interviews -> {None, Legacy, Hydrated(Legacy, 1)}]
    /\ legacy \in [Interviews -> {None, Legacy}]
    /\ byJobAiId = [i \in Interviews |-> IF saved[i] = None /\ legacy[i] = None THEN None
                                         ELSE Hydrated(Legacy, 1)]
    /\ byInviteToken = [i \in Interviews |-> IF Known(i) THEN {1} ELSE {}]
    /\ draws = [i \in Interviews |-> IF Known(i) THEN 1 ELSE 0]
    /\ request = [r \in Requests |-> None]
    /\ sent = None
    /\ canceledSeen = {}
    /\ linked = {}
    /\ relinked = {}
    /\ unread = {}
    /\ restarts = 0

-----------------------------------------------------------------------------
(* JobAI                                                                   *)

\* An interview moves on at JobAI's side.
JobAiMoves(i) ==
    /\ \E s \in allowedJobAiTransitions[remote[i]] :
          /\ remote' = [remote EXCEPT ![i] = s]
          /\ past' = [past EXCEPT ![i] = @ \cup {s}]
    /\ sent' = None
    /\ UNCHANGED <<recordVars, request, canceledSeen, linked, relinked, startVars>>

Awaits(r) == request[r] # None /\ request[r].answer = None

Answered(r, status) == request' = [request EXCEPT ![r].answer = status]

Forgotten(r) == request' = [request EXCEPT ![r] = None]

\* JobAI answers a read with what it holds.
AnswerGet(r) ==
    /\ Awaits(r) /\ request[r].call = "get"
    /\ Answered(r, remote[request[r].interview])
    /\ sent' = None
    /\ UNCHANGED <<remote, past, recordVars, canceledSeen, linked, relinked, startVars>>

\* JobAI takes a mutation that its own table allows; the answer may be lost.
AnswerUpdate(r) ==
    /\ Awaits(r) /\ request[r].call = "update"
    /\ LET i == request[r].interview
           target == request[r].target
       IN  /\ target \in allowedJobAiTransitions[remote[i]]
           /\ remote' = [remote EXCEPT ![i] = target]
           /\ past' = [past EXCEPT ![i] = @ \cup {target}]
           /\ Answered(r, target) \/ Forgotten(r)
    /\ sent' = None
    /\ UNCHANGED <<recordVars, canceledSeen, linked, relinked, startVars>>

\* Mutant: the status asked for is stored although the request failed.
Fails_Optimistic(r) ==
    /\ Awaits(r)
    /\ Forgotten(r)
    /\ IF request[r].call = "update" THEN upsert(request[r].interview, request[r].target)
       ELSE UNCHANGED recordVars
    /\ sent' = None
    /\ UNCHANGED <<remote, past, canceledSeen, linked, relinked, startVars>>

\* A request fails, or JobAI refuses it: the record stays as it is, and a
\* synchronisation ends.
Fails(r) ==
    /\ Awaits(r)
    /\ Forgotten(r)
    /\ sent' = None
    /\ UNCHANGED <<remote, past, recordVars, canceledSeen, linked, relinked, startVars>>

-----------------------------------------------------------------------------
(* Requests of the gateway                                                 *)

\* GET /ai-api/interviews/{id}, before the mutation the handler was asked for, if any.
Get(i, target) == [call |-> "get", interview |-> i, target |-> target, answer |-> None]

\* POST /ai-api/interviews/{id}/status.
Update(i, target) ==
    [call |-> "update", interview |-> i, target |-> target, answer |-> None]

\* The mutation names the recorded call, or else the meeting the record is linked to.
updateInterviewStatus(r, i, target, rec) ==
    /\ request' = [request EXCEPT ![r] = Update(i, target)]
    /\ sent' = [target |-> target, linked |-> i \in linked,
                named |-> rec.recording \/ rec.meeting, canceled |-> i \in canceledSeen]

End(r) == Forgotten(r) /\ sent' = None

\* transitionStatus, once the record is there: its check, then the mutation.
Transition(r, i, target, rec) ==
    IF target \in allowedJobAiTransitions[rec.status]
    THEN updateInterviewStatus(r, i, target, rec)
    ELSE End(r)

\* Mutant: a webhook is taken as it comes.
Locked_Never(i, status) == FALSE

Locked(i, status) ==
    Known(i) /\ byJobAiId[i].status \in TERMINAL_LOCK_STATUSES
             /\ byJobAiId[i].status # status

\* A webhook that finds the interview locked changes nothing.
ingestWebhook(i) ==
    /\ \E status \in past[i] :
          /\ ~Locked(i, status)
          /\ upsert(i, status)
          /\ canceledSeen' = canceledSeen \cup IF status = "canceled" THEN {i} ELSE {}
          /\ IF status = "pending"
             THEN \E r \in Requests :
                     /\ request[r] = None
                     /\ updateInterviewStatus(r, i, "received", projection(i, status))
             ELSE UNCHANGED request /\ sent' = None
    /\ UNCHANGED <<remote, past, linked, relinked, startVars>>

\* POST /interviews/{id}/status, and the changes the meeting's routes ask for: an
\* interview that is not known is read from JobAI first.
transitionStatus(r, i) ==
    /\ request[r] = None
    /\ \E target \in Targets :
          IF Known(i) THEN /\ target \in allowedJobAiTransitions[byJobAiId[i].status]
                           /\ updateInterviewStatus(r, i, target, byJobAiId[i])
          ELSE /\ request' = [request EXCEPT ![r] = Get(i, target)]
               /\ sent' = None
    /\ UNCHANGED <<remote, past, recordVars, canceledSeen, linked, relinked, startVars>>

\* GET /interviews/{id}?sync=1.  POST /jobai/sync reads a page of JobAI's list, and
\* then does the same for each interview of the page, one after the other.
synchronize(r, i) ==
    /\ request[r] = None
    /\ request' = [request EXCEPT ![r] = Get(i, None)]
    /\ sent' = None
    /\ UNCHANGED <<remote, past, recordVars, canceledSeen, linked, relinked, startVars>>

\* The answer is written over whatever the record has become since.
Store(r) ==
    LET req == request[r]
    IN  /\ request[r] # None /\ req.answer # None
        /\ upsert(req.interview, req.answer)
        /\ IF req.call = "get" /\ req.target # None
           THEN Transition(r, req.interview, req.target, projection(req.interview, req.answer))
           ELSE End(r)
        /\ UNCHANGED <<remote, past, canceledSeen, linked, relinked, startVars>>

-----------------------------------------------------------------------------
(* What the gateway adds                                                   *)

Write(i, rec) ==
    /\ byJobAiId' = [byJobAiId EXCEPT ![i] = rec]
    /\ UNCHANGED <<byInviteToken, draws>>

\* attachSession, by the meeting's routes and by POST /interviews/{id}/session-link.
attachSession(i) ==
    /\ Known(i)
    /\ \E status \in LinkStatus \cup {byJobAiId[i].nullxesStatus} :
          LET rec == [byJobAiId[i] EXCEPT !.meeting = TRUE, !.nullxesStatus = status]
          IN  Write(i, rec) /\ persistInterview(i, rec)
    /\ linked' = linked \cup {i}
    /\ relinked' = relinked \cup IF Finished(byJobAiId[i]) THEN {i} ELSE {}
    /\ sent' = None
    /\ UNCHANGED <<remote, past, request, canceledSeen, startVars>>

\* attachRecording is the one write that is not saved.
attachRecording(i) ==
    /\ Known(i) /\ ~byJobAiId[i].recording
    /\ Write(i, [byJobAiId[i] EXCEPT !.recording = TRUE])
    /\ sent' = None
    /\ UNCHANGED <<remote, past, saved, request, canceledSeen, linked, relinked, startVars>>

\* The requests die with the process; links that were not saved are gone.
Restart ==
    /\ restarts < MaxRestarts
    /\ restarts' = restarts + 1
    /\ loadAll
    /\ request' = [r \in Requests |-> None]
    /\ linked' = {i \in linked : byJobAiId'[i] # None /\ byJobAiId'[i].meeting}
    /\ sent' = None
    /\ UNCHANGED <<remote, past, canceledSeen, relinked>>

-----------------------------------------------------------------------------
SyncNext ==
    \/ \E i \in Interviews :
          \/ JobAiMoves(i) \/ ingestWebhook(i) \/ attachSession(i) \/ attachRecording(i)
          \/ \E r \in Requests : transitionStatus(r, i) \/ synchronize(r, i)
    \/ \E r \in Requests :
          AnswerGet(r) \/ AnswerUpdate(r) \/ Store(r) \/ Fails(r)
    \/ Restart

SyncSpec == SyncInit /\ [][SyncNext]_syncVars

-----------------------------------------------------------------------------
(* Properties                                                              *)

SyncTypeOK ==
    /\ remote \in [Interviews -> JobAiStatus]
    /\ \A i \in Interviews : Known(i) => byJobAiId[i] \in Records
    /\ \A i \in Interviews : byInviteToken[i] \subseteq 1..draws[i]
    /\ canceledSeen \cup linked \cup relinked \subseteq Interviews
    /\ unread \subseteq Interviews
    /\ restarts \in 0..MaxRestarts

\* A restart reads the interview's own key, and nothing over it.
FoundAgain(i) == legacy[i] = None /\ i \notin unread'

\* However requests, webhooks and answers overtake each other, the gateway never
\* holds a status that JobAI has not held itself.
HeldStatusWasReported ==
    \A i \in Interviews : Known(i) => byJobAiId[i].status \in past[i]

\* An invite that get-by-token has refused as finished stays refused, also when a
\* late answer takes the status back, unless the interview is linked to a meeting
\* anew or the gateway restarts without its record: from an older one, from that of the
\* old key, or past a GET that failed.
FinishedStaysFinished ==
    [][\A i \in Interviews :
          Known(i) /\ Finished(byJobAiId[i]) /\ i \notin relinked'
             /\ (restarts' # restarts => saved[i] = byJobAiId[i] /\ FoundAgain(i))
             => Known(i)' /\ Finished(byJobAiId'[i])]_syncVars

\* A webhook cannot take back that an interview was canceled or completed: in the life
\* of a process only the answer to a request does that, by a status that JobAI held
\* before.
UnlockedOnlyByAnswer ==
    [][\A i \in Interviews :
          Known(i) /\ byJobAiId[i].status \in TERMINAL_LOCK_STATUSES
             /\ restarts' = restarts /\ byJobAiId'[i].status # byJobAiId[i].status
             => \E r \in Requests :
                   /\ request[r] # None /\ request[r].interview = i
                   /\ request[r].answer = byJobAiId'[i].status
                   /\ request'[r] # request[r]]_syncVars

\* The links of an interview resolve as long as the gateway knows it: over every
\* write, and over a restart if its invites had been saved and are read back.
InviteLinksLive ==
    [][\A i \in Interviews :
          byInviteToken[i] # {}
             /\ (restarts' # restarts => /\ saved[i] # None
                                         /\ saved[i].invites \in byInviteToken[i]
                                         /\ FoundAgain(i))
             => byInviteToken'[i] = byInviteToken[i]]_syncVars

\* The outcome JobAI is told of an interview that is linked to a meeting names the
\* call, although an upsert drops the recording from the projection.
OutcomeNamesCall ==
        sent # None /\ sent.linked /\ sent.target \in {"completed", "stopped_during_meeting"}
        => sent.named

\* "once canceled webhook is received, do NOT perform any outbound status mutations
\* from our side" (interviewSyncService.ts:45).
NothingSentAfterCanceled == sent # None => ~sent.canceled
=============================================================================
