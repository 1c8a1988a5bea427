# Verification of the NULLXES gateway

TLA+ models of the gateway under `src/src`: a Node.js service that runs AI job
interviews. It keeps meetings and their candidates, tells JobAI (the customer's
system) what becomes of them by webhooks, drives an avatar pod, a recording
service and media processes, and keeps its state in memory with a write-behind
copy in Redis. The repository has no tests; these models and proofs are about
what the source does.

Line numbers below and in `PROJECT.json` are those of the files under `src/`.

## 1. Inventory

The gateway is one single-threaded process. A handler is atomic up to its first
`await`; everything that is hard comes from what happens between two awaits, from
work that is started and never awaited (`void ...`), from timers, from several
replicas or a restarted process over one Redis, and from the external services.

| component (files under `src/src`) | state | operations | what is hard | what makes it correct |
|---|---|---|---|---|
| Meeting lifecycle (`meetingOrchestrator`, `meetingStateMachine`, `meetingStore`, `postMeetingProcessor`) | a record and a history per meeting, the set of meetings queued for post-processing | start, stop, fail, advance the question, record a recording signal | repeated and contradictory ends from HR, JobAI, the presence sweeper and the realtime session | one outcome, told once and for all; the history is a path of the state machine |
| Persistence (`persisted*Store`, `redisClient`, `storageFactory`) | a copy of each record in Redis; the client's sockets, commands in flight, commands waiting | set, get, scan, reconnect, hydrate | un-awaited writes, overflow, reconnection, replies matched by position, crash between two writes | what is restored is a state the meeting was in; a webhook is never restored without its transition; a caller gets its own reply |
| Candidate admission (`meetingStore`) | owner of the seat, queue, decisions | acquire, release, approve, deny | expiry of the owner while others wait, full queue, HR deciding about people who left | one place per participant, order of requests, an active owner is not displaced |
| Webhook delivery (`webhookOutbox`, `webhookDispatcher`) | items with status and attempts | enqueue, pass, answer, retry | overlapping passes, lost answers, restarts | at-least-once delivery, bounded attempts, no false "delivered" |
| Avatar pod and recording (`avatarStateStore`, `avatarClient`, `streamRecordingService`, `streamProvisioner`) | the pod's last known state, the provider's recording | create / delete a pod session, callbacks, start / stop a recording with retries | both are started without being awaited and race the end of the meeting | nothing keeps running for a meeting that ended |
| Candidate presence and control plane (`meeting.routes`, `meetingCandidatePresence`, `meetingDeinitRunner`, `jobaiWebrtcProxy.routes`, `app`) | pings per meeting, sessions started | start, stop, ping, deinit, sweeper | handlers that await between their checks and their effects | a stopped meeting has no publisher, no presence entry and a final projection |
| RTMP publisher (`rtmpTtsSessionManager`) | one ffmpeg process and its snapshot | start, stop, process exit | start awaits the stop of the previous process and its own startup | every process has an owner that can stop it |
| Interview projection (`interviewStore`, `interviewSyncService`, `jobaiClient`) | JobAI's status, the projected status, the invite tokens and their index, the link with a meeting | ingest a webhook, synchronize, transition, hydrate | a webhook arriving while JobAI is being asked, repairs that draw tokens anew | the gateway holds only what JobAI said; a finished interview stays finished; links that were given out go on working |
| Runtime events, leases, commands (`runtime*`, `runtime.routes`) | an event log per key, a lease per session, the settings of the avatar | append, acquire, release, command | cold keys loaded twice, leases that expire under their holder, a pod that does not answer | one event per idempotency key; one command at a time; all who keep a setting agree |
| Join links and tickets (`joinToken*`, `joinLinks.routes`, `observerSessionTicket*`) | the audit list, revoked and used ids | issue, consume, revoke | requests that read and write one list, a Redis that may be silent, the edge of an expiry | a revoked link lets nobody in; a ticket is redeemed once |
| Realtime sessions (`sessionStore`, `persistedSessionStore`, `realtime.routes`) | sessions and their timestamps | create, touch, close, sweep, hydrate | the sweeper racing use, an old blob hydrated over newer keys | a closed session is not revived; Redis is never ahead of memory |
| Avatar runtime (`avatarRuntimeSessionManager`, `avatarRuntimeEngine`, `streamAgentPublisher`, `clipBuffer`, `audioRingBuffer`) | a session per meeting, an engine, a publisher in the call, buffers of audio and clips | start, stop, pause, interrupt, speech, ticks | stop and pause during a start, clips answered late and out of order, three clocks | nobody is left in the call; nothing of before an interruption is heard or shown |
| A2F runtime (`a2f-runtime/*`) | a ring of samples, an outbox of frames; sockets and a queue to a GPU pod | start, stop, ingest, inference, reconnect | overrun of a ring read in overlapping windows, error and close of one socket | frames follow the audio; a stopped session is silent |
| Avatar generation (`avatarGenerate*`, `runpodWorkerClient`) | jobs | submit, attempts, patch, sweep | a late answer for a job the sweeper failed, a crash under the job | a job ends, and ends once |
| Websocket hub (`meetingControlWsHub`) | sockets per meeting | connect, command, broadcast, close all | sockets that close after the meeting was started anew | every open page is told what the agent does |
| Process shell, helpers | - | configuration, logging, metrics, conversions | - | not modelled |

`PROJECT.json` lists every component with its status and every hazard with its
line and the properties that would catch it.

## 2. Modules

A module models one component. Its last section has its properties; definitions
named `x_Something` are mutated forms of `x` (section 3). The five modules whose
names begin with `MC` compose components for TLC.

### MeetingLifecycle, MeetingOutcome

`MeetingLifecycle` is the core: `status` and `history` are the two maps of
`InMemoryMeetingStore`, `outbox` the events in `WebhookOutbox` (as a set: the
outbox drops an event whose key, a hash of its fields, it has seen),
`queuedMeetings` the set of `PostMeetingProcessor`, `now` the clock.
`StartMeeting`, `StopMeeting` and `FailMeeting` are the orchestrator's methods,
each one turn of the event loop: guard (`assertTransition`), record, history
entry, status webhook, post-processing. `ClearQueued` is the processor's interval.
The recording and the avatar that the same methods start without awaiting them
do not touch these variables; they are `AvatarSession` and `MeetingRecording`.

`MeetingOutcome` is the promise made to JobAI: a meeting is opened at most once,
ends at most once, and the outcome told is the one it ended with, from the step
that ends it. `ImplementsOutcome` instantiates it under a refinement mapping.

### MeetingRecovery, RedisClient

`MeetingRecovery` extends `MeetingLifecycle` with Redis: every change sends `SET`
commands (`Writes`, in the order of the code: the record, then the new webhook
items), the client carries them (`pipe`: written and not executed; `waiting`:
queued while there is no connection, bounded by `QueueLimit`), and `Restart` loads
what Redis holds, but for keys whose GET is rejected: `loadAll` passes over those and
leaves them in Redis, where the running process does not know them (`passedHistory`,
`passedItems`), and since callers choose the ids, a meeting that was passed over may be
started anew. A GET is rejected when the connection is lost between the SCAN and the
answer, so such a restart counts as a connection that was lost (`reconnected`). A key
whose JSON is bad is passed over likewise; a webhook item with bad JSON ends the start
of the process instead (`webhookOutbox.ts:37` has no `try`). The record and the history
are one value, because one `SET` carries both. `Connect` and `Ready` are apart because
`connected` is set before the handshake has ended; a command issued in between is
written before those that wait.

`RedisClient` is the client underneath, which `MeetingRecovery` takes for granted:
sockets that connect, answer in pieces, fail and close (`link`), the one the client
thinks it has (`socket`), the commands in flight whose replies are matched by
position, the buffer that all sockets share, the heartbeat and the reconnect timer.
`OwnReply` says what callers rely on. It has two exceptions, both in the code: the
timer opens a socket without looking whether there is one (`"two"`), and a socket
that ends in the middle of a reply leaves its part in the buffer (`"half"`). The handshake
(AUTH, SELECT, PING) is one PING, and the process's first `connect()` is its boot's.

### CandidateAdmission

One meeting's seat: `owner`, `pending`, the last decision and the clock. One
action per outcome of `acquireCandidateAdmission` (refreshed, auto-granted,
asked again, enqueued), of `releaseCandidateAdmission` and of
`decideCandidateAdmission`.

### WebhookDelivery

`items` is the outbox, `todo[i]` what dispatch pass `i` has yet to post (its head
is on its way), `saved` the items in Redis. `StartPass` is the interval,
`Answer` everything `dispatch` does once its `fetch` has ended, followed by the
next item of the pass; `PassWhileDisabled` is the pass with
`JOBAI_WEBHOOK_ENABLED=false`; that it is enabled without a URL or a secret
(`webhookDispatcher.ts:60`) cannot happen, since `env.ts:202` refuses to start. The
times of retries are abstracted to whether they have come (`Due`). `deliveryExcused`
remembers the events on which two passes
overlapped or which a restart set back: the retry policy is about the others.

### AvatarSession

Extends `MeetingLifecycle` with the avatar. `StartWithAvatar` is the start of a
meeting with the first turn of `kickoffAvatar`, `StopWithAvatar` and
`FailWithAvatar` its end with `teardownAvatar`; `Provisioned`, `KickoffAccepted` and
`KickoffFailed` are the turns after the kickoff's awaits. The pod is the set of
sessions it runs; `SessionCreated`, `NeverExecuted`, `Deleted` and `DeleteLost` are
the requests on their way, in any order. `PodEvent` and `PodTelemetry` are the
callbacks, of the meeting's own session or of one an earlier process left behind, at
any time. `ForceNextQuestion` and the callbacks reach `advanceQuestionIndex`. The
readiness flag follows the phase of the last event, as the code has it: a transcript
event makes an avatar that publishes "not ready". `avatarExcused` names what left a
session behind: a lost DELETE, one that overtook the POST or named another session,
and a callback that is repeated after another one.

### MeetingRecording

Extends `MeetingLifecycle` with the recording of the meeting's call. A call of
`StreamRecordingService` is a record with its stage (settings, POST, backoff, GET,
answer); `StartRecorded` and `StopRecorded` begin one in the background, `Route` is
the three recording routes, `Applied` the write of the answer to the meeting's
metadata. `strays` are POSTs given up after 10 s that the provider may still execute.
A refusal that is not retried ends a call like a lost answer, and the provider's states
`starting` and `stopping` are left out: what it has executed has taken effect.
`failMeeting` leaves the recording alone, so `FailRecorded` does too.
`recordingExcused` names a start that raced the stop, a stop that did not take, lost
answers and overlapping calls.

### RtmpPublisher, ControlMeeting

`RtmpPublisher` is `RtmpTtsSessionManager` for one meeting. A start is cut at its two
awaits: the stop of the process before it (`Start`, `Spawn`) and the 300 ms of startup
(`Started`, `StartupExit`, `Rejected`). `RuntimeExit` is the exit of ffmpeg,
`ForceKill` the 3 s timer of `stop`, `Stderr` the merge of a stderr line into the
snapshot. Starts and stops are free here; `overlapped` names the starts that ran at
the same time. A `spawn` that throws is folded into `StartupExit`.

`ControlMeeting` composes `MeetingLifecycle` and `RtmpPublisher` with the handlers:
`StartFresh` and `StartRecovery` are the two ways `/meetings/start` reaches the
publisher, `StartEnds` and `StartFails` what it does after the await; `StopControl` is
`/meetings/stop`, `LegacyRoutes` the routes that know the meeting only,
`RequestDeinit` the candidate's goodbye, `Sweep` the presence tracker's timer,
`DeinitBegins`, `DeinitStops` and `DeinitEnds` the three turns of a deinit run,
`JobAiEnds` a final status from JobAI. It is the configuration with the RTMP
ingress enabled. The times of pings are abstracted to whether the sweeper finds the
candidate absent.

### InterviewSync

The gateway's projection of JobAI's interviews. `remote` is what JobAI holds,
`byJobAiId` the gateway's record, `request[r]` a handler that awaits JobAI and the
answer it will get. An answer is formed when JobAI executes the call and stored when
the handler's await ends (`Store`, `Transition`); webhooks, of any status JobAI has
held, come in between, late or twice. The three invite tokens of a record are drawn
together, so a draw is numbered and the number stands for the tokens: every upsert,
hydration and legacy record goes through the same repair as in the code. `loadAll`
passes over keys whose GET fails (`unread`), and then hydrates the blob of an earlier
release (`legacy`) over the records it has read, and writes them back: a finished status,
the terminal lock or invites that were given out may be lost by either. The properties
say what holds of a restart that read an interview's own key and nothing over it
(`FoundAgain`). The blob's record is a pending one without invites, and it is found again
at the next restart when its deletion failed.

### RuntimeEvents, RuntimeCommands

`RuntimeEvents` is the log of one key. A state of the log is an object that calls
hold on to (`heap`), and the one set last is the key's (`loaded`): two calls that
find the key cold read one object each. A call is the load and the synchronous step
after it (`append`, `recordCommand`), with the SET. `spoilt` names what the log has no
answer to: a replaced object, a load that failed, a SET that a crash lost, events
that were trimmed.

`RuntimeCommands` is `POST /runtime/:meetingId/commands`: each await of the route is a
step of `command[k]`, from the lease to its release, with the avatar state, the
running avatar and the pod as three copies of one setting, the active speaker, which has
the most writers. `expire` is the lease's 5 s. A copy may not be there: without a session
of the running avatar `setActiveSpeaker` returns, the state store ignores a patch of a
meeting it does not know, and without a configured pod `postSessionCommand` throws
(`syncFails`). `fails` is a route that ends with an error and leaves its lease. Others
write the setting without asking for the lease: the pod's `speaker_changed`, a kickoff,
the begin and the end of a session, and every turn of the talk (`sessionOrchestrator`).
`others` has the copies that missed the last command that set them or were written by one
of these since; `SettingsAgree` is about the rest.

### JoinLinks, ObserverTickets

`JoinLinks` is one interview's links: requests that issue, revoke, verify, resolve and
exchange links run side by side and await Redis at each step; Redis may stay silent
or lose a write (`mishaps`), and the audit list is read and written back whole.
`ObserverTickets` is one-time redemption: `verifyTicket` looks at the clock and
computes the time left, `consumeOnce` is the `SET NX` with that time. A redemption that
reaches Redis after the ticket's expiry is `late` and is not claimed to be single.

### RealtimeSessions

The `/realtime` routes over the session store: `token`, `createRealtimeCall` and its
answer, events, `delete`, the sweeper, the expiry of keys in Redis, and a restart that
reads the sessions' keys, but for those whose GET fails (`unread`), and then the blob of
an earlier release over them, unless that read fails.

### AvatarRuntime, ClipPipeline

`AvatarRuntime` is the session manager of one meeting with its two pipelines. Every
call of `startForMeeting` has a session, an engine and a publisher of its own, named
after the call, and is cut at its awaits (the session-state store, the health of the
frame worker, the Stream call). `pause`, `resume`, `interrupt` and `stop` are
synchronous and come at any time; `overtaken` names the sessions that a pause, a resume
or a stop changed while they started. A stop that comes while the publisher connects
leaves the agent in the call, and so do a start that fails after it joined and a
`leave()` that fails (`abandoned`): the exceptions of `NobodyLeftInTheCall`. Of a paused
session `response.created` sets the phase to in_meeting all the same, and
`setActiveSpeaker` shows the agent as listening when it gives the floor to the
candidate. `since` names which of the two has happened, and ends with what puts the
phase or the mode right again; `PhaseFollowsSession` and `QuietWhilePaused` say what holds
with and without them. A2F's ring and outbox are not cleared by any of this.

`ClipPipeline` is the media of one running engine: the ring of speech with stamps, the
requests to the frame worker and their answers in any order, the clip buffer, the
video timer and the epochs. Time is in units of one piece of audio. `lastFrame` is the
buffer's held frame, which an invalidated epoch leaves: after an interruption it is
shown, of the old epoch as it is, until the buffer has a frame for the time.
Deltas that the gateway stamps with `Date.now()` and that come faster than they play
overlap in the ring, and `QueueBounded` is not about those.

### A2FRuntime, GpuRuntime

`A2FRuntime` is the local service: a ring whose slots hold the number of a sample,
read in windows that overlap, moved on by overruns and by `skipHop`, and the outbox
of frames. That a hop is at most a window and a window at most the ring is an assumption
about the configuration (`A2F_RUNTIME_*`), which nothing in the code checks. The
Int32 cursors wrap after 37 hours of audio, which is out of bounds here.

`GpuRuntime` is the client of the GPU pod: a session object per start, its socket,
timer, heartbeat and bounded queue. `errors` and `closes` are two events of a socket,
and each of them calls `handleDisconnect`: a socket whose close is slow connects the
session twice (`slowClose`). As in the code, a session is announced to the pod when its
socket opens, through the same queue as the audio that waits, and a stop between two
connections is not announced at all. `heard` is everything the pod has got, the messages
about sessions and the pings among the audio.

### AvatarGeneration

A job's record in Redis and `runJob` over it: three attempts, a wall-clock budget,
changes made by reading, merging and writing back (`patchReads`, `patchWrites`), each of
which may fail; the sweeper's snapshot (`listJobs`) and what it fails of it (`sweep`);
crashes, after which nobody works on a job.

### MeetingHub

The websockets of one meeting: pages come, are told the agent's mode, command a pause,
leave, and are closed together with the meeting; a socket says that it is closed later,
when the meeting may have an entry again. A page is told the mode when it comes, and a
broadcast arrives at once: the property is about which pages are reached.

### Compositions

`ControlMeeting`, `AvatarSession`, `MeetingRecording` and `MeetingRecovery` compose
components that interact. The `MC` modules put side by side components that share
nothing: `part` says which of them moves, the others stay as they begin, so that TLC
explores the sum of their states and not the product. Their properties are
conjunctions, named in the `MC` module, of the properties of the components.

| module | parts |
|---|---|
| `MCMeetingServices` | the lifecycle alone (two meetings), the control plane with its publisher, the publisher alone (free starts), the avatar, webhook delivery, avatar generation |
| `MCRecovery` | meetings in Redis, webhook delivery with a restart |
| `MCGateway` | admission, event log, commands, join links, observer tickets, realtime sessions |
| `MCInterviewSync` | one interview, two handlers |
| `MCConnections` | recording, Redis client, GPU client, A2F service, avatar runtime, clips, websocket hub |

## 3. Runs

| run | question | bounds |
|---|---|---|
| `meeting_services` | what must end with a meeting or beside it: one outcome and the promise kept, control handlers over their awaits, overlapping starts, avatar kickoff and teardown, overlapping webhook passes, generation with crashes; with liveness | 2 meetings, 1 reason, histories of up to 5 (creation, two transitions of the start, an end and a repetition), 3 clock values; 2 starts (one that starts and one that recovers, or two that overlap); a pod session of this process and one of an earlier, 2 sources of questions; 2 events, 2 passes, 2 attempts, a status of each class; 1 job, whose sweep comes after its budget |
| `meeting_recovery` | what a crash or a lost connection at any point leaves in Redis, and what a restart may fail to read of it; false "delivered" across a restart | 1 meeting (meetings share only the connection), histories of up to 4 (a start and an end, or a creation that was passed over and another start), any number of restarts, 1 of them passing over keys; a queue of 3 (a start overflows it, an end fills it in part); 2 events, 2 passes, 1 restart, one status for each outcome |
| `gateway` | the stores that requests, replicas or lives of the process share | 4 participants (owner, full queue of 2, and a newcomer); 3 calls on 2 keys, a log that keeps 2 events, 1 crash; 2 commands of 2 owners, with and without a pod, a known meeting and a running avatar; 2 links, 2 requests, a list of 2; 2 tickets, 2 redemptions, a clock that passes the expiry; 2 sessions, 1 restart that reads any subset of the keys |
| `interview_sync` | webhooks and answers that overtake each other, links over repairs and restarts | 1 interview, 2 handlers that await at the same time, 1 restart that reads its key or not, with and without the old blob |
| `connections` | what is kept running against somebody slow, silent or gone | 2 recording calls, 2 attempts; ring of 4, window of 2 and hop of 1, 9 samples (the ring goes round twice); 2 GPU sessions, 3 sockets, 3 chunks, a queue of 2; 2 Redis commands, 3 sockets; 2 starts of the avatar; clips within 5 ticks, 2 requests at a time, 3 epochs; 3 pages |
| `recovery_survives` | README line 322, "survive restart": violated | 1 meeting, histories of up to 5, a queue of 5 (a start fills it exactly), restarts that read every key |
| `webhook_overlap` | README line 136, "2xx => delivered": violated | 1 event, 2 passes |
| `control_budget` | the presence tracker's "wall-clock session budget": violated | 1 meeting, 2 starts |
| `interview_canceled` | "once canceled webhook is received, do NOT perform any outbound status mutations": violated | 1 interview, 1 handler |
| `join_audit` | "Audit is non-atomic; fine for single gateway instance": violated | 2 links, 2 requests |
| `avatar_clocks` | "`timestampMs` should correspond to the audio master clock": violated | a gateway clock ahead of the engine's |
| `pod_synced` | "on success emit `runtime.state.synced`": violated | 2 commands |

`CHECK_DEADLOCK FALSE` is set because the bounds (histories, clocks, restarts, sockets)
make the systems stop; that something waits for what never comes is the subject of
`SomebodyReconnects` and of the liveness properties. Symmetry is used for safety only. In
`gateway` two parts are symmetric, and since one part moves at a time their permutations
are taken together (`GatewaySymmetry`). The view of `interview_sync` leaves out what is in
Redis once no restart is left to read it: the properties look at it in a restart only.

Each property of a passing run has a mutant in `PROJECT.json`: a plausible bug of
the mapped code, under which TLC finds the property violated.

Some properties carry an exception: a history variable names what happened outside
the normal course, and the property says what holds without it. Section 2 names the
exceptions; they are the known weaknesses of the code, not assumptions about its use.

**Fairness** is assumed in `meeting_services` (`ServicesFairness`) and, the part of it
that they need, in `control_budget` and `webhook_overlap`.

* Intervals fire again and again (`setInterval`): the webhook pass, the presence
  sweeper, the generation sweeper. Retry times come. Every request ends (`fetch` has
  its own timeouts). JobAI's answers are free: it may answer 500 for ever, and the item
  is then given up.
* The publisher's timers of 300 ms and 3 s fire, and a start whose await has ended goes
  on; no process need ever exit. A deinit run goes on, since the forwarding and the
  recording's stop have timeouts of their own. No candidate need ping, leave or be
  absent, and JobAI need not end anything.
* A generation's promise goes on while its process lives. Strong fairness is needed
  twice: for the clock, which stands still while a sweep goes on, and for the sweep of
  a stale job, which a failing read of Redis may postpone but not for ever.

### Disagreements met

* `recovery_survives`: README line 322 says meetings survive a restart with the
  Redis backend. `MinimalRedisClient` marks itself connected before its
  handshake has ended, so a new write overtakes the writes that wait and is then
  overwritten by them. Without a lost connection the claim holds for all writes
  that have landed (`CaughtUp`).
* `webhook_overlap`: README line 136 says a 2xx answer means delivered. When a
  pass takes longer than the interval a second pass posts the same item, and the
  later answer wins.
* `control_budget`: a deinit run that is still closing when the meeting is started
  (the candidate left before) ends by stopping the presence row of the new
  meeting, and neither absence nor the budget ends it. `WatchedMeetingEnds` is the
  same property without that start.
* `interview_canceled`: a handler that awaits JobAI when the canceled webhook comes
  stores its older answer over it; the terminal lock is open again, and this handler or
  the next one sends. `UnlockedOnlyByAnswer` says that nothing else opens it.
* `join_audit`: two requests of one instance read the audit list before either has
  written it back, and an issued link is missing from it. `AuditTrue` is the same without
  the overlap.
* `avatar_clocks`: speech is stamped with `Date.now()` unless the client sends a stamp,
  while windows are cut by a clock that counts from the engine's start, so the audio of a
  clip's time is not sent with the clip. The passing run also has clients whose stamps
  are the engine's time (`ClientClock`).
* `pod_synced`: the avatar client swallows the pod's refusal, so the retry around it
  never retries and the command is reported as synced. `SettingsAgree` says what holds
  of the copies that have the command.

## 4. Proofs

The proofs hold for every value of the constants: any sets of meetings, participants,
starts, links, tickets, calls, commands, interviews, jobs and passes, and any bounds that
satisfy the named assumptions. These ask for naturals where the code has a number
(at least 1 for a limit of attempts, of the queue, of the log and for the ring's sizes,
with hop <= window <= capacity), for statuses of HTTP, and for values that stand for
nothing (`None`, `NoOwner`, `NoKey`, `Nobody`, `NoSession`, `NoSource`, the key `"item"`)
to be none of the others. Four say more: `GenerationAssumption`, that a job is stale
only after its own budget has run out (the defaults of the two variables);
`ControlAssumption`, that the meeting of the control plane is one of the meetings and
that `manual_stop`, the reason its handlers give, is one of the reasons; finiteness of
`Passes`; and, in `ConnectionsAssumption`, that a clip's window and the clip buffer's
limit together are less than `Date.now()`, since `ClipBuffer.push` trims by the latter
clips whose times count from the engine's start. TLC evaluates each on a run.

**The argument is the same throughout.** A property is seldom inductive: what a step
writes was read earlier, and comes out of a request, a queue or a copy in Redis. The
invariant therefore says of everything that may be written some day, wherever it waits,
what must be true of it when it is written. One lemma per action preserves it, and a
lemma for the functions of the code that are applied on the way.

`MeetingLifecycleProofs`

* `TypeCorrect`, `OneOutcomeCorrect`, `PostProcessingCorrect`: from the inductive
  invariant `Inv`. `OneOutcome` is inductive only together with the types;
  `PostProcessingIffFinished` needs in addition that a meeting in
  `queuedMeetings` was announced, otherwise the deduplication could swallow the
  first announcement.
* `TerminalCorrect`: the action property, from what a step can do to a status.
* `HistoryCorrect`, `ReportCorrect`: from `HistoryInv`, the path and the report of
  each meeting; one lemma for the creation path, one for an appended transition,
  one for the meetings a step leaves alone.
* `PromiseKept`: every step maps to `Open`, `End` or a stutter of
  `MeetingOutcome`. A repeated end is a stutter because the outcome was told
  before (`OutcomeTold`).

`MeetingRecoveryProofs`, on top of these

* `SavedIsPastCorrect`: not inductive by itself, since what lands comes from the pipe
  and the pipe from the queue. `IInv` says of every command in either that its history
  is a prefix of the meeting's (`AllPast`); histories and the outbox only grow
  (`Grows`), but for a restart, which leaves no command behind and names what it has
  passed over. A key that was passed over stays as it was, until a write of the meeting's
  new life replaces it whole. It needs nothing about
  the order of the writes, which is why it survives the overtaking of
  `recovery_survives`. `RecoveryTypeCorrect` is its first conjunct.
* `NeverAheadCorrect`: while no connection is lost, the writes of a meeting are in
  order (`Ordered`) and the record of each webhook item is in Redis or before it in the
  pipe (`Backed`). The order of `updateMeetingStatus`, record first, is what makes
  `Backed` hold for the writes of an end.
* `HealthyOneOutcomeCorrect`: a restart takes the outbox and the histories from Redis,
  perhaps of different times. A history keeps its first terminal status (`Settled`), and
  so does each of its prefixes; `WebhookNeverAheadOfRecord` ties the restored outbox
  to the restored histories.
* `CaughtUpCorrect`: what Redis lacks of a history or of the outbox is on its way
  (`KeptInv`). The last write of a call carries the whole history, and with `Ordered` it
  is the last to land.
* `DeliveredMeansAcceptedCorrect`, of the outbox that `MCRecovery` instantiates beside the
  meetings: the requests for an event are those its item counts, and one more while a
  pass is posting it, of which there is one at most (`RequestsCounted`); an item
  waiting for another attempt has one left, in Redis too, and what Redis has as delivered
  was accepted, because a restart takes both from there (`AttemptsLeft`,
  `AcceptedFirst`).
* `RestartsImplementParts`: the composed system is, step by step, a behaviour of
  `RecoverySpec` and of the delivery's own specification.

`ServicesProofs`, what runs beside a meeting

* `ServicesTypesCorrect`, `NothingOutlivesCorrect`, `ControlInOrderCorrect`,
  `QuestionsCountedCorrect`, `RetriesCorrect`: from `ServicesInv`, which has an invariant
  for each part.
  `GenerationInv` relates what a worker has posted to the attempt it is in and to what
  its patch will write, and what the sweeper has listed to the time that has passed.
  `DeliveryInv` says that the item a pass posts is ready, and posted by this pass alone.
  `AvatarInv` says where the pod's session of an ended meeting is: being deleted, or
  deleted after it ran. `ControlInv` says, for each place a handler waits at, what may
  have happened to the meeting and the publisher in the meantime; it takes
  `PublisherInv` along.
* `FinalIsFinalCorrect`: the action property, from the same invariant.
* `ServicesImplementParts`: the composed specification implies those of the lifecycle,
  the publisher, the delivery and the generation. Hence `ServicesCorrect`, which carries
  what is proved of the lifecycle and of the publisher alone over to the composition.

`GatewayProofs`, the stores that requests, replicas and lives of the process share

* `CommandsInOrderCorrect`: who is at work holds the lease until one runs out
  (`LeaseIsHeld`). A copy that a command under way has passed has its value, or was missed
  or written by others since, and with no command under way the copies not in `others`
  are the same (`SettingUnderWay`). A command's `patch` empties `others` of what went
  before, so that a difference does not last beyond the next command; that nothing is on its
  way to a pod that is not configured (`PodIsThere`) is what makes its failure final.
* `AppendedOnceCorrect`: while nothing was spoilt, all copies of a key's log, in memory,
  in Redis and in the calls that have loaded it, are the same (`OneLog`), and hold every
  event that was returned, with its key (`HasAll`).
* `SavedNeverAheadCorrect`, `ClosedStaysClosedCorrect`: every write of a session writes
  what memory has; what the last restart failed to read, memory does not have at all, and no
  route brings it back, as a session's id is drawn at random; the legacy blob, hydrated
  last, holds sessions that have no key of their own until they are read from it
  (`LegacyWaits`).
* `RedeemedOnceCorrect`: that a redeemed ticket still has its key has to be known
  (`KeyUntilExpiry`), and that follows from how long each request on its way will set it
  for (`RequestsReachExpiry`). After the expiry a redemption is late.
* `LinksKeptCorrect`: a link that was revoked has its key until it expires
  (`BarredAreShut`), and without overlapping requests the list that one is about to
  write back is the one that is there (`ReadsAreFresh`).
* `NothingForNoReasonCorrect`: from `LeavesQueueCorrect` and `ClosedStaysClosedCorrect`.
* `GatewayImplementsParts`, `GatewayCorrect`: a run of the composed gateway is a run of
  each of the six parts, so that all of this holds of it.

`InterviewSyncProofs`

* `OnlyWhatHappenedCorrect`, `TerminalLockCorrect`, `InviteLinksCorrect`: from `IInv`.
  Requests, webhooks and answers arrive in any order, so that every record in memory, in
  Redis, in the old blob or in an answer on its way must be one that was good to store
  (`Good`): its status was JobAI's, its invites were drawn, and a finished interview that
  was not linked anew has a final status of ours. Which of them a restart takes does not
  matter to `OnlyWhatHappened`; the other two compare with the record that was read.

`CandidateAdmissionProofs`

* `TypeCorrect`, `OneSeatCorrect`, `QueueInOrderCorrect`, `FreeSeatCorrect`,
  `ActiveOwnerCorrect`, `LeavesQueueCorrect`: from `TypeOK /\ OneSeat`. The lemmas say what
  the three ways of taking an entry out of a queue leave: a queue within the queue, with
  everybody in it but the one who was taken out.

`RtmpPublisherProofs`

* `PublisherTypeCorrect`, `OwnerCorrect`, `SnapshotCorrect`, `NotificationCorrect`: from
  `PublisherInv`. `RunningIsOwned` is not inductive: `Started` takes the
  session from another process without stopping it. Two facts close the gap:
  starts in progress together are all overlapped (`PendingOverlap`), and a session
  that is there during a start's await was made in it (`SessionOverlap`).

`ConnectionsProofs`, an invariant for each part of `MCConnections`

* `PartsAreImplemented`: the parts share no variable, so the composed specification
  implies each part's own, and what is proved of a part alone holds of the whole. The
  theorems are stated of `ConnectionsSpec` with the run's definitions.
* `RecordingKeptCorrect` (`RecordingInv`): a stopped meeting that is still recorded has a
  call that is about to post the stop, and none that starts (`StopComes`). While no calls
  overlapped and no answer was lost, the one call that runs either leaves the metadata
  true or has read what the provider does and will write it (`CallTells`). One lemma,
  `StepKeeps`, says what any step of a call must do; each kind of step is shown to do it.
* `OwnReplyCorrect` (`ClientInv`): replies are matched by position, so that the proof is
  that the positions agree: with one socket at a time, what is in flight is exactly what
  that socket owes, and the buffer holds at most the beginning of the reply to its head
  (`InStep`). That fails with a second socket or a half reply, the two exceptions.
* `SomebodyReconnectsCorrect`: commands wait only with a timer, a connection or a
  handshake before them; the handshake's PING is in flight, and every way in which it can
  leave (answer, error, disconnect) drains what waits or sets the timer. Of the GPU
  client the same, with the sockets of its session.
* `NothingOutlivesItsSessionCorrect`: on the pod (`GpuInv`) the current session owns its
  socket and all its others have closed, unless a close was slow (`GpuOthersClosed`). In
  the call (`RuntimeInv`) a start that nobody overtook is the meeting's own (`StartsOwn`),
  its engine is as far as the start is (`EngineFollowsStart`), and who has joined has a
  running engine (`JoinedRuns`), but for those in `abandoned`. The phase is paused exactly
  when the session is and `since` has no response, which every action shows for itself.
* `QuietAfterInterruptionCorrect`: a paused session has a paused engine
  (`PausedEngine`); every request and every clip is of an epoch, and the answers of an
  earlier epoch are dropped. A frame of an earlier epoch is the held one, and it is shown
  only while the buffer has none for the time (`TickShows`).
* `ClipsCountedCorrect` and `PictureGoesForwardCorrect` (`ClipsInv`): pieces of audio in
  order are at least their number apart (`Spread`), from which what is left of the ring
  follows in length. The clip buffer never holds more than one clip (`OneClip`): each
  push trims by `Date.now()` what is timed by another clock. The one clip is never earlier
  than the last frame shown, if that is of its epoch, and the last frame is of no later
  epoch (`Forward`).
* `RingHoldsUnreadCorrect`: inductive once the cursors are natural numbers. Two samples
  with one slot are at least a capacity apart (`SlotsApart`), and the unread ones are
  not (`UnreadIsLast`), so that a write past the end of the ring only takes slots whose
  samples it has moved the read cursor past. `data` needs no type.
* `HeardAndShownInOrderCorrect`: what the pod has got, and what waits for it behind that,
  is in order (`GpuOrder`); frames are windows of consecutive samples that begin before
  the read cursor (`FramesInv`), which needs `RingHoldsUnread`; the pages by `HubInv`.

Every safety property that a passing run checks is stated by a theorem, with the run's own
definition; `PROJECT.json` has the pairs. The other theorems
are about properties that no run lists: `OneOutcome` and `TerminalIsForever` follow from
`ImplementsOutcome`; `HistoryIsPath`, `FreeSeatOnlyAfterDenial` and `ExitsNotified` are
proved for every instance; and the composition theorems say that putting parts side by
side adds nothing to what each may do.

**Model-checked only:**

* liveness under fairness (`EventuallySettled`, `WorkEnds`, `WatchedMeetingEnds`), which is
  out of the prover's reach, as are `ENABLED` and what a recursive definition computes for
  every input; no proved module declares a `RECURSIVE` operator;
* the properties that fail (section 3).

The prover does not see the theorems of an instantiated module, so that the delivery's
invariant is stated twice: in `ServicesProofs` for `WebhookDelivery` as extended, in
`MeetingRecoveryProofs` for `W`, its instance.

## 5. Not modelled

* The RTMP receiver and its bridge to speech recognition: `ENABLE_RTMP_RECEIVER` is the
  constant false (`meeting.routes.ts:64`), so that nothing starts them.
* The process shell (configuration, logging, metrics, HTTP plumbing) and the pure
  helpers of media and text: no state of theirs matters to the properties.
* Runtime snapshots, which only read, and the event stream to clients; the LiveKit invite
  cache; listings, templates and authorization.
* Of the avatar runtime: pixels, codecs, the media SDKs and drift repair. Of the A2F
  runtime: executors, statistics (`getStats` counts dropped samples twice), the frame hub
  and the protobuf encoding. Of generation: the second generator (`videoGenerator`) and
  the heartbeat.
* The migration of the meetings' legacy blob (`persistedMeetingStore.ts:59`):
  `MeetingRecovery` begins with a Redis that this release has written from the start, and
  its properties say nothing of an upgrade. Those of realtime sessions and of
  interviews, which have the same form, are in `RealtimeSessions` and `InterviewSync`.

## 6. Next

1. The migration of the meetings' blob in `MeetingRecovery`, drift repair in
   `ClipPipeline`, and the other two settings (duplex mode, video audio source) with
   their fewer writers in `RuntimeCommands`.
2. `connections` as a product: the parts that the session manager drives (the runtime,
   its clips, the pod) in one state, with the calls between them.
