-------------------------- MODULE CandidateAdmission --------------------------
(***************************************************************************)
(* Who sits in the candidate's seat of one meeting, and who waits for it:  *)
(* the admission state InMemoryMeetingStore keeps in the meeting's         *)
(* metadata.  Candidates acquire and release; HR approves and denies; an   *)
(* owner not seen for longer than the rejoin window is stale and loses the *)
(* seat to the next one who asks.                                          *)
(*                                                                         *)
(* Each operation is one synchronous call, so one action.  The state does  *)
(* not depend on the meeting's status, and meetings do not share it, so    *)
(* the module is about one meeting.                                        *)
(***************************************************************************)
EXTENDS Naturals, SequencesExt

CONSTANTS Participants,  \* participant ids
          NoOwner,       \* the owner of a free seat (null)
          PendingLimit,  \* PENDING_LIMIT
          RejoinWindow,  \* CANDIDATE_ADMISSION_REJOIN_WINDOW_MS
          MaxTime        \* bound: values of the millisecond clock

ASSUME AdmissionAssumption ==
    /\ PendingLimit \in Nat \ {0}
    /\ RejoinWindow \in Nat
    /\ MaxTime \in Nat

Times == 0..MaxTime
Owners == [participant: Participants, acquiredAt: Times, lastSeenAt: Times]
PendingEntries == [participant: Participants, requestedAt: Times, lastSeenAt: Times]
Decisions == [participant: Participants, action: {"approve", "deny"}]

ASSUME NoOwnerAssumption == NoOwner \notin Owners

VARIABLES
    owner,         \* NoOwner, or who sits since when and was last seen when
    pending,       \* who waits, oldest request first
    lastDecision,  \* the last of HR's decisions (nothing reads older ones), a set
    now            \* Date.now()

vars == <<owner, pending, lastDecision, now>>

-----------------------------------------------------------------------------
OwnedBy(p) == owner # NoOwner /\ owner.participant = p

ownerActive == owner # NoOwner /\ owner.lastSeenAt + RejoinWindow >= now

Waits(p) == \E i \in 1..Len(pending) : pending[i].participant = p

Position(p) == CHOOSE i \in 1..Len(pending) : pending[i].participant = p

\* pending.filter(...): at most one entry goes, as nobody waits twice (OneSeat).
Without(p) == IF Waits(p) THEN RemoveAt(pending, Position(p)) ELSE pending

\* Mutant: lastSeenAt holds the time the seat expires at.
Seat_ExpiresAt(p) ==
    [participant |-> p, acquiredAt |-> now, lastSeenAt |-> now + RejoinWindow]

Seat(p) == [participant |-> p, acquiredAt |-> now, lastSeenAt |-> now]

Init ==
    /\ owner = NoOwner
    /\ pending = <<>>
    /\ lastDecision = {}
    /\ now = 0

-----------------------------------------------------------------------------
(* acquireCandidateAdmission                                               *)

OwnerRefreshed(p) ==
    /\ OwnedBy(p)
    /\ owner' = [owner EXCEPT !.lastSeenAt = now]
    /\ pending' = Without(p)

\* Mutant: one who waited stays in the queue when the seat is granted.
AutoGranted_StaysQueued(p) ==
    /\ ~OwnedBy(p) /\ ~ownerActive
    /\ owner' = Seat(p)
    /\ UNCHANGED pending

\* Mutant: the seat is granted whether or not its owner is still active.
AutoGranted_FromActive(p) ==
    /\ ~OwnedBy(p)
    /\ owner' = Seat(p)
    /\ pending' = Without(p)

\* The seat is free, or its owner is stale: whoever asks gets it, the queue
\* notwithstanding.
AutoGranted(p) ==
    /\ ~OwnedBy(p) /\ ~ownerActive
    /\ owner' = Seat(p)
    /\ pending' = Without(p)

\* Mutant: asking again makes the request a new one.
AwaitingAgain_Renewed(p) ==
    /\ ~OwnedBy(p) /\ ownerActive /\ Waits(p)
    /\ pending' = [pending EXCEPT ![Position(p)].requestedAt = now,
                                  ![Position(p)].lastSeenAt = now]
    /\ UNCHANGED owner

AwaitingAgain(p) ==
    /\ ~OwnedBy(p) /\ ownerActive /\ Waits(p)
    /\ pending' = [pending EXCEPT ![Position(p)].lastSeenAt = now]
    /\ UNCHANGED owner

\* A full queue drops its oldest entry.
Kept == IF Len(pending) >= PendingLimit THEN Tail(pending) ELSE pending

AwaitingApproval(p) ==
    /\ ~OwnedBy(p) /\ ownerActive /\ ~Waits(p)
    /\ pending' = Append(Kept, [participant |-> p, requestedAt |-> now, lastSeenAt |-> now])
    /\ UNCHANGED owner

Acquire(p) ==
    /\ OwnerRefreshed(p) \/ AutoGranted(p) \/ AwaitingAgain(p) \/ AwaitingApproval(p)
    /\ UNCHANGED <<lastDecision, now>>

-----------------------------------------------------------------------------
(* releaseCandidateAdmission and decideCandidateAdmission                  *)

\* Mutant: the seat is freed and nobody is promoted.
ReleaseSeat_NoPromotion(p) ==
    /\ OwnedBy(p)
    /\ owner' = NoOwner
    /\ UNCHANGED <<pending, lastDecision, now>>

\* The owner leaves; the first in the queue is promoted.
ReleaseSeat(p) ==
    /\ OwnedBy(p)
    /\ IF pending = <<>>
       THEN owner' = NoOwner /\ UNCHANGED pending
       ELSE owner' = Seat(Head(pending).participant) /\ pending' = Tail(pending)
    /\ UNCHANGED <<lastDecision, now>>

\* Anyone else stops waiting, if they were.
ReleasePlace(p) ==
    /\ ~OwnedBy(p)
    /\ pending' = Without(p)
    /\ UNCHANGED <<owner, lastDecision, now>>

Release(p) == ReleaseSeat(p) \/ ReleasePlace(p)

\* Mutant: approving one empties the queue.
Approve_ClearsQueue(p) ==
    /\ pending' = <<>>
    /\ owner' = Seat(p)
    /\ lastDecision' = {[participant |-> p, action |-> "approve"]}
    /\ UNCHANGED now

\* "Approve replaces current owner regardless", one who never asked included.
Approve(p) ==
    /\ pending' = Without(p)
    /\ owner' = Seat(p)
    /\ lastDecision' = {[participant |-> p, action |-> "approve"]}
    /\ UNCHANGED now

\* Denying the owner evicts them; nobody is promoted.
Deny(p) ==
    /\ pending' = Without(p)
    /\ owner' = (IF OwnedBy(p) THEN NoOwner ELSE owner)
    /\ lastDecision' = {[participant |-> p, action |-> "deny"]}
    /\ UNCHANGED now

Decide(p) == Approve(p) \/ Deny(p)

Tick ==
    /\ now < MaxTime
    /\ now' = now + 1
    /\ UNCHANGED <<owner, pending, lastDecision>>

Next ==
    \/ \E p \in Participants : Acquire(p) \/ Release(p) \/ Decide(p)
    \/ Tick

Spec == Init /\ [][Next]_vars

-----------------------------------------------------------------------------
(* Properties                                                              *)

\* Every variable has its type.
TypeOK ==
    /\ owner \in Owners \cup {NoOwner}
    /\ pending \in Seq(PendingEntries)
    /\ lastDecision \subseteq Decisions
    /\ now \in Times

\* Whatever acquires, releases and decisions do to the seat and the queue, a
\* participant has one place: the owner does not wait, nobody waits twice, and
\* the queue keeps its limit.
OneSeat ==
    /\ \A i \in 1..Len(pending) : ~OwnedBy(pending[i].participant)
    /\ \A i, j \in 1..Len(pending) :
          pending[i].participant = pending[j].participant => i = j
    /\ Len(pending) <= PendingLimit

\* The queue is in the order of the requests, however often the waiting ask
\* again: release promotes the one who has waited longest.
QueueInOrder ==
    /\ \A i \in 1..Len(pending) : pending[i].requestedAt <= now
    /\ \A i, j \in 1..Len(pending) :
          i < j => pending[i].requestedAt <= pending[j].requestedAt

\* The seat is free while somebody waits only when HR evicted its owner:
\* releases and expiries never leave the queue behind an empty seat.
FreeSeatOnlyAfterDenial ==
    owner = NoOwner /\ pending # <<>> => \E d \in lastDecision : d.action = "deny"

\* An owner inside the rejoin window is replaced only by leaving or by HR,
\* never by the acquire of another candidate or by the clock.
ActiveOwnerKept ==
    [][\A p \in Participants :
          ownerActive /\ OwnedBy(p) /\ ~OwnedBy(p)' => Release(p) \/ \E q \in Participants : Decide(q)]_vars

\* One who waits leaves the queue for the seat, by their own release, by HR's
\* denial, or as the oldest entry of a full queue; no other's arrival,
\* approval or departure loses them their place.
LeavesQueueForAReason ==
    [][\A p \in Participants :
          Waits(p) /\ ~Waits(p)'
              => \/ OwnedBy(p)'
                 \/ Release(p)
                 \/ Deny(p)
                 \/ Len(pending) = PendingLimit /\ pending[1].participant = p
                    /\ \E q \in Participants : AwaitingApproval(q)]_vars
=============================================================================
