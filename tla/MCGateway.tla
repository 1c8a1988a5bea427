------------------------------- MODULE MCGateway -------------------------------
(***************************************************************************)
(* The gateway's own stores and the handlers that share them: who sits in  *)
(* the candidate's seat, the runtime events, the runtime commands, join    *)
(* links, observer tickets and realtime sessions.                          *)
(*                                                                         *)
(* The six do not interact, so TLC explores their sum and not their        *)
(* product: `part' says which one moves, the others stay as they begin.    *)
(***************************************************************************)
EXTENDS CandidateAdmission, RuntimeEvents, RuntimeCommands, ObserverTickets, TLC

CONSTANTS
    Links, LinkRequests, None, MaxTtl, LinkTime, Cap,
    Sessions, NoSession, Idle, SessionTime, SessionEvents, SessionRestarts

VARIABLES
    part,  \* the part that moves
    linkNow, linkExp, audit, revoked, linkRequest, answer, barred, mishaps,
    sessionNow, session, savedSession, legacy, migrated, unread, opening, sessionRestarts

L == INSTANCE JoinLinks WITH
        Requests <- LinkRequests, MaxTime <- LinkTime, now <- linkNow, request <- linkRequest

S == INSTANCE RealtimeSessions WITH
        MaxTime <- SessionTime, MaxEvents <- SessionEvents, MaxRestarts <- SessionRestarts,
        now <- sessionNow, saved <- savedSession, restarts <- sessionRestarts

ASSUME GatewayAssumption ==
    /\ MaxTtl \in Nat /\ Cap \in Nat
    /\ NoSession \notin S!SessionRecords

linkVars == <<linkNow, linkExp, audit, revoked, linkRequest, answer, barred, mishaps>>
sessionVars == <<sessionNow, session, savedSession, legacy, migrated, unread, opening, sessionRestarts>>
allParts == <<part, vars, logVars, commandVars, linkVars, ticketVars,
              sessionVars>>

GatewayInit ==
    /\ part \in {"admission", "events", "commands", "links", "tickets", "sessions"}
    /\ Init /\ LogInit /\ CommandsInit /\ L!LinksInit /\ TicketsInit
    /\ S!SessionsInit
    /\ part # "commands" => ~configured /\ ~known /\ ~running
    /\ part # "sessions" => \A s \in Sessions : legacy[s] = NoSession

InAdmission ==
    /\ part = "admission"
    /\ UNCHANGED <<part, logVars, commandVars, linkVars, ticketVars,
                   sessionVars>>

InEvents ==
    /\ part = "events"
    /\ UNCHANGED <<part, vars, commandVars, linkVars, ticketVars, sessionVars>>

InCommands ==
    /\ part = "commands"
    /\ UNCHANGED <<part, vars, logVars, linkVars, ticketVars, sessionVars>>

InLinks ==
    /\ part = "links"
    /\ UNCHANGED <<part, vars, logVars, commandVars, ticketVars, sessionVars>>

InTickets ==
    /\ part = "tickets"
    /\ UNCHANGED <<part, vars, logVars, commandVars, linkVars, sessionVars>>

InSessions ==
    /\ part = "sessions"
    /\ UNCHANGED <<part, vars, logVars, commandVars, linkVars, ticketVars>>

AdmissionStep ==
    \/ \E p \in Participants :
          \/ InAdmission /\ Acquire(p)
          \/ InAdmission /\ Release(p)
          \/ InAdmission /\ Decide(p)
    \/ InAdmission /\ Tick

EventStep ==
    \/ \E c \in Calls :
          \/ InEvents /\ BeginCall(c)
          \/ InEvents /\ Load(c)
          \/ InEvents /\ append(c)
          \/ InEvents /\ recordCommand(c)
    \/ InEvents /\ Crash

CommandStep ==
    \/ \E k \in Commands :
          \/ InCommands /\ deny(k)
          \/ InCommands /\ acquire(k)
          \/ InCommands /\ leaseEvent(k)
          \/ InCommands /\ intent(k)
          \/ InCommands /\ recordsCommand(k)
          \/ InCommands /\ applyOther(k)
          \/ InCommands /\ patch(k)
          \/ InCommands /\ podTakes(k)
          \/ InCommands /\ podDrops(k)
          \/ InCommands /\ syncPodCommandWithRetry(k)
          \/ InCommands /\ syncFails(k)
          \/ InCommands /\ setRuntime(k)
          \/ InCommands /\ fails(k)
          \/ InCommands /\ releaseReads(k)
          \/ InCommands /\ releaseDeletes(k)
    \/ InCommands /\ expire
    \/ InCommands /\ speakerChanged
    \/ InCommands /\ upsertStart
    \/ InCommands /\ startForMeeting
    \/ InCommands /\ stopForMeeting
    \/ InCommands /\ turnChanges
    \/ InCommands /\ podChanges

LinkStep ==
    \/ \E r \in LinkRequests :
          \/ InLinks /\ L!issue(r)
          \/ InLinks /\ L!readAuditList(r)
          \/ InLinks /\ L!recordIssued(r)
          \/ InLinks /\ L!revoke(r)
          \/ InLinks /\ L!revokedInAudit(r)
          \/ InLinks /\ L!verify(r)
          \/ InLinks /\ L!resolve(r)
          \/ InLinks /\ L!sessionTicket(r)
          \/ InLinks /\ L!issueTicket(r)
    \/ InLinks /\ L!Tick

TicketStep ==
    \/ \E t \in Tickets :
          \/ InTickets /\ issueTicket(t)
          \/ \E c \in Consumers : InTickets /\ verifyTicket(c, t)
    \/ \E c \in Consumers : InTickets /\ consumeOnce(c)
    \/ InTickets /\ clockTicks

SessionStep ==
    \/ \E s \in Sessions :
          \/ InSessions /\ S!token(s)
          \/ InSessions /\ S!createRealtimeCall(s)
          \/ InSessions /\ S!established(s)
          \/ InSessions /\ S!markError(s)
          \/ InSessions /\ S!registerEvent(s)
          \/ InSessions /\ S!delete(s)
          \/ InSessions /\ S!sweep(s)
          \/ InSessions /\ S!expire(s)
    \/ InSessions /\ S!Tick
    \/ InSessions /\ S!Restart

GatewayNext ==
    \/ AdmissionStep \/ EventStep \/ CommandStep \/ LinkStep \/ TicketStep
    \/ SessionStep

GatewaySpec == GatewayInit /\ [][GatewayNext]_allParts

\* The links and the commands have by far the most states; only safety is checked.  As
\* one part moves at a time, what is exchanged in two parts is exchanged together.
Fixed(p) == \A x \in DOMAIN p : p[x] = x
Together(A, B) ==
    LET Pairs == {pq \in Permutations(A) \X Permutations(B) : Fixed(pq[1]) <=> Fixed(pq[2])}
    IN  {pq[1] @@ pq[2] : pq \in Pairs}

GatewaySymmetry == Together(Links, Commands) \cup Together(LinkRequests, LockOwners)

-----------------------------------------------------------------------------
\* Appending an event is done once for each idempotency key, and what is kept of the
\* events is in order, unless two appends loaded the same key or Redis lost a write.
AppendedOnce == LogTypeOK /\ LogsAreGood /\ OneEventPerKey

\* The commands of one avatar go one after the other, the last one recorded is the
\* newest, and afterwards all who keep a setting keep the same, but for those that missed
\* the last command or were set by somebody else since, unless a lease ran out or the pod
\* did not answer in time.
CommandsInOrder == CommandsTypeOK /\ OneCommandAtATime /\ LastCommandIsNewest /\ SettingsAgree

\* A link that was revoked lets nobody in, and what the audit list says of a link is
\* true, unless the list was overwritten.
LinksKept == TicketsTypeOK /\ L!RevokedStaysOut /\ L!AuditTrue

\* Redis never has more of a realtime session than memory had.
SavedNeverAhead == S!SavedNeverAhead

\* Nobody who waits for the seat is passed over, and no realtime session that was
\* closed opens again, without a reason.
NothingForNoReason == LeavesQueueForAReason /\ S!ClosedStaysClosed

=============================================================================
