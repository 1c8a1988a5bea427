------------------------------- MODULE JoinLinks -------------------------------
(***************************************************************************)
(* Join links of one interview.  A link is a signed token that carries its *)
(* own expiry; Redis has the audit list of the links that were issued,     *)
(* read and written back whole, and a key per revoked link, with a time to *)
(* live.  Requests run side by side and await Redis at every step; Redis   *)
(* may fail to answer.                                                     *)
(*                                                                         *)
(* A signature is right or wrong and a wrong one is refused at once, so    *)
(* that verify is the comparison of the expiry with the clock.             *)
(***************************************************************************)
EXTENDS Naturals, Sequences

CONSTANTS Links,     \* jti of join links
          Requests,  \* HTTP requests under way at one time
          None,
          MaxTtl,    \* 7 days, the longest a link lives
          MaxTime,   \* bound: the clock
          Cap        \* capPerJobAiId

VARIABLES
    now,
    linkExp,   \* expiry of the links issued so far, 0 of the others
    audit,     \* the audit list in Redis, newest first
    revoked,   \* until when Redis has the revoked key of a link, or 0
    request,   \* what each request is doing, and what it has read
    answer,    \* the link that the last step has let somebody in with
    barred,    \* links whose revocation Redis has taken and the route has answered
    mishaps    \* what has befallen the audit list

linkVars == <<now, linkExp, audit, revoked, request, answer, barred, mishaps>>

NoRequest == [pc |-> "idle", jti |-> None, list |-> <<>>, flag |-> FALSE]
Silent == answer' = None
Answers(r, ok) ==
    answer' = IF ok THEN [jti |-> request[r].jti, barred |-> request[r].flag] ELSE None

Goes(r, pc) == request' = [request EXCEPT ![r].pc = pc]
Begins(r, pc, jti, flag) ==
    request' = [request EXCEPT ![r] = [NoRequest EXCEPT !.pc = pc, !.jti = jti, !.flag = flag]]
Ends(r) == request' = [request EXCEPT ![r] = NoRequest]

LinksInit ==
    /\ now = 0
    /\ linkExp = [l \in Links |-> 0]
    /\ audit = <<>>
    /\ revoked = [l \in Links |-> 0]
    /\ request = [r \in Requests |-> NoRequest]
    /\ answer = None
    /\ barred = {}
    /\ mishaps = {}

Tick ==
    /\ now < MaxTime
    /\ now' = now + 1
    /\ revoked' = [l \in Links |-> IF now + 1 < revoked[l] THEN revoked[l] ELSE 0]
    /\ Silent
    /\ UNCHANGED <<linkExp, audit, request, barred, mishaps>>

\* A link can be used, and revoked, once its issue is answered.
Issued == {l \in Links : linkExp[l] # 0 /\ \A r \in Requests :
                            ~(request[r].pc \in {"issuing", "issuing_read"}
                              /\ request[r].jti = l)}

-----------------------------------------------------------------------------
(* The audit list: read it, and write it back with a change                *)

WritesAudit(r) == request[r].pc \in {"issuing_read", "revoking_read"}

\* Bound: Redis fails the audit list once.
MayFail == mishaps \cap {"unread", "unwritten"} = {}

\* readAuditList: a list that cannot be read counts as an empty one.
readAuditList(r) ==
    /\ request[r].pc \in {"issuing", "revoking_audit"}
    /\ \E list \in {audit} \cup (IF MayFail THEN {<<>>} ELSE {}) :
          /\ request' = [request EXCEPT ![r].list = list,
                                        ![r].pc = IF @ = "issuing" THEN "issuing_read"
                                                  ELSE "revoking_read"]
          /\ mishaps' = mishaps \cup
                (IF list # audit THEN {"unread"} ELSE {}) \cup
                (IF \E q \in Requests \ {r} : WritesAudit(q) THEN {"overlap"} ELSE {})
    /\ Silent
    /\ UNCHANGED <<now, linkExp, audit, revoked, barred>>

Capped(list) == IF Len(list) > Cap THEN SubSeq(list, 1, Cap) ELSE list

\* SET, or its failure, which is logged.
writeAudit(list) ==
    \/ audit' = list /\ UNCHANGED mishaps
    \/ MayFail /\ audit' = audit /\ mishaps' = mishaps \cup {"unwritten"}

-----------------------------------------------------------------------------
(* POST links/candidate, links/spectator and links/revoke                  *)

issue(r) ==
    /\ request[r].pc = "idle"
    /\ \E l \in Links, ttl \in 1..MaxTtl :
          /\ linkExp[l] = 0
          /\ linkExp' = [linkExp EXCEPT ![l] = now + ttl]
          /\ Begins(r, "issuing", l, FALSE)
    /\ Silent
    /\ UNCHANGED <<now, audit, revoked, barred, mishaps>>

recordIssued(r) ==
    /\ request[r].pc = "issuing_read"
    /\ writeAudit(Capped(<<[jti |-> request[r].jti, revoked |-> FALSE]>> \o request[r].list))
    /\ Silent
    /\ Ends(r)
    /\ UNCHANGED <<now, linkExp, revoked, barred>>

\* Mutant: the key lives as long as the shortest link.
RevokedUntil_Short == now + 1

\* The longest time to live of any link, from now on.
RevokedUntil == now + MaxTtl

\* revoke sets the key first; that this failed is logged, and the route goes on.
revoke(r) ==
    /\ request[r].pc = "idle"
    /\ \E l \in Issued, ok \in BOOLEAN :
          /\ revoked' = IF ok THEN [revoked EXCEPT ![l] = RevokedUntil] ELSE revoked
          /\ Begins(r, "revoking_audit", l, ok)
    /\ Silent
    /\ UNCHANGED <<now, linkExp, audit, barred, mishaps>>

\* Mutant: only the newest entry is looked at.
Marked_Head(list, jti) ==
    IF list # <<>> /\ Head(list).jti = jti THEN [list EXCEPT ![1].revoked = TRUE] ELSE list

Marked(list, jti) ==
    [i \in DOMAIN list |-> IF list[i].jti = jti THEN [list[i] EXCEPT !.revoked = TRUE]
                           ELSE list[i]]

revokedInAudit(r) ==
    /\ request[r].pc = "revoking_read"
    /\ LET list == Marked(request[r].list, request[r].jti)
       IN  IF list = request[r].list THEN UNCHANGED <<audit, mishaps>> ELSE writeAudit(list)
    /\ barred' = IF request[r].flag THEN barred \cup {request[r].jti} ELSE barred
    /\ Silent
    /\ Ends(r)
    /\ UNCHANGED <<now, linkExp, revoked>>

-----------------------------------------------------------------------------
(* GET join/:role/:token and POST .../session-ticket                       *)

\* verify: an expired link goes no further.
verify(r) ==
    /\ request[r].pc = "idle"
    /\ \E l \in Issued, what \in {"resolving", "ticketing"} :
          now < linkExp[l] /\ Begins(r, what, l, l \in barred)
    /\ Silent
    /\ UNCHANGED <<now, linkExp, audit, revoked, barred, mishaps>>

\* Mutant: a store that does not answer has nothing revoked.
isRevoked_FailsOpen(l) == {revoked[l] # 0, FALSE}

\* The key is there, or the store does not answer and the link counts as revoked.
isRevoked(l) == {revoked[l] # 0, TRUE}

resolve(r) ==
    /\ request[r].pc = "resolving"
    /\ \E no \in isRevoked(request[r].jti) : Answers(r, ~no)
    /\ Ends(r)
    /\ UNCHANGED <<now, linkExp, audit, revoked, barred, mishaps>>

\* A ticket is issued when the link is not revoked and the interview has a meeting that
\* is active, which is looked up last.
sessionTicket(r) ==
    /\ request[r].pc = "ticketing"
    /\ \E no \in isRevoked(request[r].jti) :
          IF no THEN Answers(r, FALSE) /\ Ends(r) ELSE Goes(r, "active") /\ Silent
    /\ UNCHANGED <<now, linkExp, audit, revoked, barred, mishaps>>

issueTicket(r) ==
    /\ request[r].pc = "active"
    /\ \E active \in BOOLEAN : Answers(r, active)
    /\ Ends(r)
    /\ UNCHANGED <<now, linkExp, audit, revoked, barred, mishaps>>

-----------------------------------------------------------------------------
LinksNext ==
    \/ \E r \in Requests :
          \/ issue(r) \/ readAuditList(r) \/ recordIssued(r) \/ revoke(r) \/ revokedInAudit(r)
          \/ verify(r) \/ resolve(r) \/ sessionTicket(r) \/ issueTicket(r)
    \/ Tick

LinksSpec == LinksInit /\ [][LinksNext]_linkVars

-----------------------------------------------------------------------------
(* Properties                                                              *)

\* A link whose revocation was answered, and was taken by Redis, is good for nothing in
\* any later request, as long as the link lives.
RevokedStaysOut ==
    answer # None /\ answer.barred => now >= linkExp[answer.jti]

Listed(l) == \E i \in DOMAIN audit : audit[i].jti = l

\* "Audit is non-atomic (read-modify-write); fine for single gateway instance"
\* (joinTokenStore.ts:101): the list has every link that was issued, up to its length,
\* and every revocation, as long as Redis answers.
AuditComplete ==
    mishaps \cap {"unread", "unwritten"} = {} =>
        /\ \A l \in Issued : Listed(l) \/ Len(audit) = Cap
        /\ \A i \in DOMAIN audit : audit[i].jti \in barred => audit[i].revoked

\* The same when no request reads the list before another one has written it back, and
\* in any case a link is listed once, and listed as revoked only when somebody asked.
AuditTrue ==
    /\ "overlap" \notin mishaps => AuditComplete
    /\ \A i, j \in DOMAIN audit : audit[i].jti = audit[j].jti => i = j
=============================================================================
