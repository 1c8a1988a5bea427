---------------------------- MODULE RealtimeSessions ----------------------------
(***************************************************************************)
(* The realtime sessions: the /realtime routes, the session store with its *)
(* sweeper, and its copy in Redis, one key per session.  Every change is   *)
(* made in memory and sent to Redis without waiting; one connection keeps  *)
(* the order of the writes, any of which may be lost.  A restart reads     *)
(* back what is there, but for the keys whose GET fails, and after it what *)
(* a key of an earlier release has, which is deleted only then.            *)
(***************************************************************************)
EXTENDS Naturals

CONSTANTS Sessions,
          NoSession,
          Idle,        \* idleTimeoutMs
          MaxTime,     \* bound: the clock
          MaxEvents,   \* bound: events of a session
          MaxRestarts  \* bound

VARIABLES
    now,
    session,  \* in memory
    saved,    \* in Redis
    legacy,   \* in the key of an earlier release
    migrated, \* the sessions that were read from that key
    unread,   \* the sessions that the last restart passed over: their GET failed
    opening,  \* sessions whose call OpenAI has not answered
    restarts

sessionVars == <<now, session, saved, legacy, migrated, unread, opening, restarts>>

Session(status, closed, events, seen) ==
    [status |-> status, closedAt |-> closed, events |-> events, lastActivityAt |-> seen]
Active == Session("active", FALSE, 0, now)

\* What a session may be; NoSession is none of these.
SessionRecords == [status: {"starting", "active", "error", "closed"}, closedAt: BOOLEAN,
                   events: Nat, lastActivityAt: Nat]

\* persist, once or in a row: none of the writes is done, or the last one that is.
Persist(s, writes) ==
    saved' \in {saved} \cup {[saved EXCEPT ![s] = r] : r \in writes}

Patch(s, r) ==
    /\ session' = [session EXCEPT ![s] = r]
    /\ Persist(s, {r})

SessionsInit ==
    /\ now = 0
    /\ session = [s \in Sessions |-> NoSession]
    /\ saved = [s \in Sessions |-> NoSession]
    /\ legacy \in [Sessions -> {NoSession, Active}]
    /\ migrated = {}
    /\ unread = {}
    /\ opening = {}
    /\ restarts = 0

Tick ==
    /\ now < MaxTime
    /\ now' = now + 1
    /\ UNCHANGED <<session, saved, legacy, migrated, unread, opening, restarts>>

-----------------------------------------------------------------------------
(* The routes                                                              *)

New(s) ==
    /\ session[s] = NoSession /\ saved[s] = NoSession /\ legacy[s] = NoSession
    /\ now + Idle < MaxTime   \* bound: there is time for it to be idle

\* GET /token, once OpenAI has given a secret.
token(s) ==
    /\ New(s)
    /\ session' = [session EXCEPT ![s] = Active]
    /\ Persist(s, {[Active EXCEPT !.status = "starting"], Active})
    /\ UNCHANGED <<now, legacy, migrated, unread, opening, restarts>>

\* POST /session, up to its await, and after it.
createRealtimeCall(s) ==
    /\ New(s)
    /\ Patch(s, [Active EXCEPT !.status = "starting"])
    /\ opening' = opening \cup {s}
    /\ UNCHANGED <<now, legacy, migrated, unread, restarts>>

established(s) ==
    /\ s \in opening
    /\ Patch(s, [session[s] EXCEPT !.status = "active"])
    /\ opening' = opening \ {s}
    /\ UNCHANGED <<now, legacy, migrated, unread, restarts>>

markError(s) ==
    /\ s \in opening
    /\ Patch(s, [session[s] EXCEPT !.status = "error"])
    /\ opening' = opening \ {s}
    /\ UNCHANGED <<now, legacy, migrated, unread, restarts>>

\* The client has been told the session's name.
Known(s) == session[s] # NoSession /\ s \notin opening

\* Mutant: an event makes the session active.
registerEvent_Activates(s) ==
    /\ Known(s)
    /\ session[s].events < MaxEvents   \* bound
    /\ Patch(s, [session[s] EXCEPT !.events = @ + 1, !.lastActivityAt = now,
                                   !.status = "active"])
    /\ UNCHANGED <<now, legacy, migrated, unread, opening, restarts>>

\* POST /session/:id/events, whatever the session's status.
registerEvent(s) ==
    /\ Known(s)
    /\ session[s].events < MaxEvents   \* bound
    /\ Patch(s, [session[s] EXCEPT !.events = @ + 1, !.lastActivityAt = now])
    /\ UNCHANGED <<now, legacy, migrated, unread, opening, restarts>>

Closed(r) == [r EXCEPT !.status = "closed", !.closedAt = TRUE]

delete(s) ==
    /\ Known(s)
    /\ Patch(s, Closed(session[s]))
    /\ UNCHANGED <<now, legacy, migrated, unread, opening, restarts>>

-----------------------------------------------------------------------------
(* The sweeper, and the restart                                            *)

IsIdle(s) == now > session[s].lastActivityAt + Idle

\* Of one session: two patches, the status and then the time.
sweep(s) ==
    /\ session[s] # NoSession
    /\ session[s].status = "active" /\ IsIdle(s)
    /\ session' = [session EXCEPT ![s] = Closed(@)]
    /\ Persist(s, {[session[s] EXCEPT !.status = "closed"], Closed(session[s])})
    /\ UNCHANGED <<now, legacy, migrated, unread, opening, restarts>>

\* A session's time in Redis is up; it is that of the last write.
expire(s) ==
    /\ saved[s] # NoSession /\ saved[s].status \in {"closed", "error"}
    /\ saved' = [saved EXCEPT ![s] = NoSession]
    /\ UNCHANGED <<now, session, legacy, migrated, unread, opening, restarts>>

NoBlob == [s \in Sessions |-> NoSession]

\* Mutant: the sessions are not read back.
Hydrated_None(old, skipped) == old

\* loadAll: the sessions' own keys, but for those whose GET fails, and over them what
\* it has read of the old one.
Hydrated(old, skipped) ==
    [s \in Sessions |-> IF old[s] # NoSession THEN old[s]
                       ELSE IF s \in skipped THEN NoSession ELSE saved[s]]

\* The GET of any key may fail; a session of the old key may not be written to its own,
\* and deleting the old key may fail.
Restart ==
    /\ restarts < MaxRestarts
    /\ restarts' = restarts + 1
    /\ \E old \in {legacy, NoBlob}, skipped \in SUBSET {s \in Sessions : saved[s] # NoSession} :
          /\ session' = Hydrated(old, skipped)
          /\ unread' = {s \in skipped : old[s] = NoSession}
          /\ migrated' = migrated \cup {s \in Sessions : old[s] # NoSession}
          /\ \E written \in SUBSET {s \in Sessions : old[s] # NoSession} :
                saved' = [s \in Sessions |-> IF s \in written THEN old[s] ELSE saved[s]]
          /\ legacy' \in {legacy} \cup (IF old = legacy THEN {NoBlob} ELSE {})
    /\ opening' = {}
    /\ UNCHANGED now

-----------------------------------------------------------------------------
SessionsNext ==
    \/ Tick \/ Restart
    \/ \E s \in Sessions :
          \/ token(s) \/ createRealtimeCall(s) \/ established(s) \/ markError(s)
          \/ registerEvent(s) \/ delete(s) \/ sweep(s) \/ expire(s)

SessionsSpec == SessionsInit /\ [][SessionsNext]_sessionVars

-----------------------------------------------------------------------------
(* Properties                                                              *)

\* A session that was closed, by its client or for its silence, is not opened again but
\* by a restart that finds something else than was last written, in its key or in the
\* old one, and is not forgotten but by one that fails to read its key; no late event
\* and no sweep does either.
ClosedStaysClosed ==
    [][\A s \in Sessions :
          session[s] # NoSession /\ session[s].status = "closed"
          /\ (session'[s] = NoSession \/ session'[s].status # "closed")
          => /\ restarts' > restarts
             /\ \/ saved[s] # session[s]
                \/ legacy[s] # NoSession
                \/ s \in unread' /\ session'[s] = NoSession
      ]_sessionVars

\* What Redis has of a session is in memory, or something later is: the copy is closed
\* only if the session is, and has no event that the session has not.  Not so of a
\* session read from the old key, which goes over what its own key has; and of one
\* whose key the process failed to read, memory has nothing at all.
SavedNeverAhead ==
    \A s \in Sessions :
        saved[s] # NoSession /\ s \notin migrated =>
            \/ s \in unread /\ session[s] = NoSession
            \/ /\ session[s] # NoSession
               /\ saved[s].events <= session[s].events
               /\ saved[s].status = "closed" => session[s].status = "closed"
=============================================================================
