---------------------------- MODULE MeetingRecovery ----------------------------
(***************************************************************************)
(* MeetingLifecycle with STORAGE_BACKEND=redis: PersistedMeetingStore and  *)
(* WebhookOutbox write every change to Redis without awaiting the write,   *)
(* MinimalRedisClient carries the writes, and a restarted process loads    *)
(* what Redis holds, but for the keys whose GET is rejected: these are     *)
(* passed over and stay in Redis.                                          *)
(*                                                                         *)
(* The client sends commands in order on one connection.  While it has no  *)
(* connection they wait in a bounded queue, drained only after the         *)
(* handshake of a new connection; but a command issued during the          *)
(* handshake is written at once, so it overtakes those that wait.          *)
(*                                                                         *)
(* Redis begins empty: what a release before this one has left there, in   *)
(* one key for all meetings, is not modelled.                              *)
(***************************************************************************)
EXTENDS MeetingLifecycle, FiniteSets, SequencesExt

CONSTANTS QueueLimit,   \* REDIS_COMMAND_QUEUE_LIMIT
          MaxPassed     \* bound: hydrations that pass over keys

ASSUME QueueAssumption == QueueLimit \in Nat /\ MaxPassed \in Nat

\* The key of the items is none of a meeting's.
ASSUME KeyAssumption == "item" \notin Meetings

VARIABLES
    conn,         \* the client's connection: "up", "down", or "handshake"
    pipe,         \* commands written to the socket and not executed yet
    waiting,      \* commands queued while there was no connection
    savedHistory, \* what Redis holds under each meeting's key (record + history)
    savedOutbox,  \* the webhook items Redis holds
    reconnected,  \* history variable: was a connection ever lost, to a hydration too?
    rejected,     \* history variable: was a write ever rejected?
    passedHistory, \* history variable: under each meeting's key, the record that the
                   \* last hydration passed over
    passedItems,   \* history variable: the items that it passed over
    passedOver     \* bounds the hydrations that pass over keys

passed == <<passedHistory, passedItems, passedOver>>
witnesses == <<reconnected, rejected, passed>>
redisVars == <<conn, pipe, waiting, savedHistory, savedOutbox, witnesses>>
recoveryVars == <<vars, redisVars>>

Nothing == <<>>
NothingPassed == [m \in Meetings |-> Nothing]

-----------------------------------------------------------------------------
(* Commands.  A SET of a meeting carries the record and its history as of  *)
(* the call (JSON.stringify runs before the first await), and the record's *)
(* status is the history's last, so the history stands for both.           *)

\* Mutant: the payload holds the record alone; loadAll then hydrates no history.
SetMeeting_RecordOnly(m, h) == [key |-> m, history |-> <<Last(h)>>]

SetMeeting(m, h) == [key |-> m, history |-> h]
SetItem(e) == [key |-> "item", event |-> e]

IsSetMeeting(c) == c.key # "item"

Commands == [key: Meetings, history: Seq(Transition)]
            \cup [key: {"item"}, event: StatusEvents \cup PostEvents]

\* Mutant: the queue limit is not looked at.
Send_Unlimited(cmds) ==
    /\ UNCHANGED <<conn, savedHistory, savedOutbox, witnesses>>
    /\ IF conn = "down" THEN waiting' = waiting \o cmds /\ UNCHANGED pipe
                        ELSE pipe' = pipe \o cmds /\ UNCHANGED waiting

\* command(): write when connected, else wait, or be rejected when the queue
\* is full (the callers swallow the rejection).
Send(cmds) ==
    LET queued == waiting \o cmds
    IN  /\ UNCHANGED <<conn, savedHistory, savedOutbox, reconnected, passed>>
        /\ \/ /\ conn = "down"
              /\ waiting' = IF Len(queued) > QueueLimit THEN SubSeq(queued, 1, QueueLimit)
                                                       ELSE queued
              /\ rejected' = (rejected \/ Len(queued) > QueueLimit)
              /\ UNCHANGED pipe
           \/ /\ conn # "down"
              /\ pipe' = pipe \o cmds
              /\ UNCHANGED <<waiting, rejected>>

\* Redis executes one SET.
Executed(c) ==
    IF IsSetMeeting(c)
    THEN /\ savedHistory' = [savedHistory EXCEPT ![c.key] = c.history]
         /\ UNCHANGED savedOutbox
    ELSE /\ savedOutbox' = savedOutbox \cup {c.event}
         /\ UNCHANGED savedHistory

-----------------------------------------------------------------------------
RecoveryInit ==
    /\ Init
    /\ conn = "up"
    /\ pipe = <<>>
    /\ waiting = <<>>
    /\ savedHistory = [m \in Meetings |-> Nothing]
    /\ savedOutbox = {}
    /\ reconnected = FALSE
    /\ rejected = FALSE
    /\ passedHistory = NothingPassed
    /\ passedItems = {}
    /\ passedOver = 0

\* createMeeting and the two transitions, each followed by its writes.  The
\* caller chooses the id, so a meeting whose record was passed over can start again
\* (bound: MaxHistory limits the transitions of both its lives).
PersistedStart(m) ==
    /\ Len(passedHistory[m]) + 3 <= MaxHistory
    /\ StartMeeting(m)
    /\ LET h == history'[m]
       IN  Send(<<SetMeeting(m, SubSeq(h, 1, 1)),
                  SetMeeting(m, SubSeq(h, 1, 2)), SetItem(StatusEvent(m, h[2])),
                  SetMeeting(m, h),               SetItem(StatusEvent(m, h[3]))>>)

\* Mutant: updateMeetingStatus is not overridden, so only the item is written.
Writes_NoRecord(m) == SetToSeq({SetItem(e) : e \in outbox' \ outbox})

\* Mutant: the webhook is enqueued before the status is updated.
Writes_EventFirst(m) ==
    SetToSeq({SetItem(e) : e \in outbox' \ outbox}) \o <<SetMeeting(m, history'[m])>>

\* updateMeetingStatus persists the record first; each item that is new to the
\* outbox follows.
Writes(m) ==
    <<SetMeeting(m, history'[m])>> \o SetToSeq({SetItem(e) : e \in outbox' \ outbox})

PersistedStop(m, input, why) ==
    /\ StopMeeting(m, input, why)
    /\ Send(Writes(m))

PersistedFail(m, failStatus, why) ==
    /\ FailMeeting(m, failStatus, why)
    /\ Send(Writes(m))

Land ==
    /\ pipe # <<>>
    /\ Executed(Head(pipe))
    /\ pipe' = Tail(pipe)
    /\ UNCHANGED <<vars, conn, waiting, witnesses>>

\* handleDisconnect: what was written and not answered is rejected; what waits
\* goes on waiting.
Disconnect ==
    /\ conn # "down"
    /\ conn' = "down"
    /\ pipe' = <<>>
    /\ reconnected' = TRUE
    /\ rejected' = (rejected \/ pipe # <<>>)
    /\ UNCHANGED <<vars, waiting, savedHistory, savedOutbox, passed>>

\* The socket's connect event: connected is set before AUTH, SELECT and PING.
Connect ==
    /\ conn = "down"
    /\ conn' = "handshake"
    /\ UNCHANGED <<vars, pipe, waiting, savedHistory, savedOutbox, witnesses>>

\* The answer to the handshake's PING: drainWaiting writes what was waiting.
Ready ==
    /\ conn = "handshake"
    /\ conn' = "up"
    /\ pipe' = pipe \o waiting
    /\ waiting' = <<>>
    /\ UNCHANGED <<vars, savedHistory, savedOutbox, witnesses>>

\* The process dies and a new one hydrates its maps from Redis (loadAll of the
\* meeting store and of the outbox), passing over what its GETs failed to read.
Hydrate(skipped, skippedItems) ==
    /\ history' = [m \in Meetings |-> IF m \in skipped THEN Nothing ELSE savedHistory[m]]
    /\ passedHistory' = [m \in Meetings |-> IF m \in skipped THEN savedHistory[m] ELSE Nothing]
    /\ status' = [m \in Meetings |-> IF history'[m] = Nothing THEN Absent
                                    ELSE Last(history'[m]).toStatus]
    /\ outbox' = savedOutbox \ skippedItems
    /\ passedItems' = skippedItems
    /\ passedOver' = IF skipped = {} /\ skippedItems = {} THEN passedOver ELSE passedOver + 1
    /\ reconnected' = (reconnected \/ skipped # {} \/ skippedItems # {})
    /\ queuedMeetings' = {}
    /\ conn' = "up"
    /\ pipe' = <<>>
    /\ waiting' = <<>>
    /\ UNCHANGED <<now, savedHistory, savedOutbox, rejected>>

\* A GET is rejected when the connection is lost between the SCAN and its answer.
Restart ==
    \E skipped \in SUBSET {m \in Meetings : savedHistory[m] # Nothing},
       skippedItems \in SUBSET savedOutbox :
          Hydrate(skipped, skippedItems) /\ passedOver' <= MaxPassed

RecoveryNext ==
    \/ \E m \in Meetings : PersistedStart(m)
    \/ \E m \in Meetings, s \in Finished \cup {Absent}, why \in Reasons : PersistedStop(m, s, why)
    \/ \E m \in Meetings, s \in FailStatus, why \in Reasons : PersistedFail(m, s, why)
    \/ ClearQueued /\ UNCHANGED redisVars
    \/ Tick /\ UNCHANGED redisVars
    \/ Land
    \/ Disconnect
    \/ Connect
    \/ Ready
    \/ Restart

RecoverySpec == RecoveryInit /\ [][RecoveryNext]_recoveryVars

-----------------------------------------------------------------------------
(* Properties                                                              *)

\* Every variable of the recovery layer has its type.
RecoveryTypeOK ==
    /\ TypeOK
    /\ conn \in {"up", "down", "handshake"}
    /\ pipe \in Seq(Commands)
    /\ waiting \in Seq(Commands)
    /\ Len(waiting) <= QueueLimit
    /\ savedHistory \in [Meetings -> Seq(Transition)]
    /\ savedOutbox \subseteq StatusEvents \cup PostEvents
    /\ reconnected \in BOOLEAN /\ rejected \in BOOLEAN
    /\ passedHistory \in [Meetings -> Seq(Transition)]
    /\ passedItems \subseteq StatusEvents \cup PostEvents
    /\ passedOver \in 0..MaxPassed

\* Through lost connections, rejected writes, writes that overtake each other,
\* restarts and reads that fail in them, what Redis holds under a meeting's key is
\* a past of the meeting as the running process knows it, or as it was left the
\* record that the process passed over when it began, never a mixture; and an item
\* that Redis holds is in the outbox or was passed over too.
SavedIsPast ==
    /\ \A m \in Meetings :
          IsPrefix(savedHistory[m], history[m]) \/ savedHistory[m] = passedHistory[m]
    /\ savedOutbox \subseteq outbox \cup passedItems

\* On a connection that was never lost, a restart at any instant finds every
\* webhook it may deliver backed by the record: the record's write goes first.
WebhookNeverAheadOfRecord ==
    ~reconnected =>
        \A e \in savedOutbox :
            e.eventType = "meeting.status.changed"
                => e.transition \in Range(savedHistory[e.meeting])

\* On such a connection, restarts and all, JobAI is told one outcome.
HealthyOneOutcome == ~reconnected => OneOutcome

\* On such a connection, once the writes have landed Redis holds all there is.
CaughtUp ==
    ~reconnected /\ pipe = <<>> => savedHistory = history /\ savedOutbox = outbox

\* README.md:322: "With `STORAGE_BACKEND=redis` the session, meeting, and
\* interview projection state survive restart".  The most favourable reading: a
\* restart that reads every key, as all before it have, keeps every status if no write
\* was ever rejected and none is on its way (persist, MinimalRedisClient.command and
\* drainWaiting).
SurvivesRestart ==
    [][~rejected /\ passedOver = 0 /\ pipe = <<>> /\ waiting = <<>> /\ Hydrate({}, {})
          => UNCHANGED status]_recoveryVars
=============================================================================
