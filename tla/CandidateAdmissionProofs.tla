----------------------- MODULE CandidateAdmissionProofs -----------------------
(***************************************************************************)
(* Proofs about CandidateAdmission, for any number of participants, any    *)
(* queue limit and any rejoin window.  The inductive invariant is the type *)
(* invariant with OneSeat: each needs the other, since removing the entry  *)
(* at Position empties the queue of a participant only if nobody waits     *)
(* twice.  The order of the queue rests on both.                           *)
(***************************************************************************)
EXTENDS CandidateAdmission, TLAPS, SequenceTheorems

Distinct(q) ==
    \A i, j \in 1..Len(q) : q[i].participant = q[j].participant => i = j

\* What removing the entry at a position leaves.
LEMMA RemoveAtFact ==
    ASSUME NEW S, NEW q \in Seq(S), NEW k \in 1..Len(q)
    PROVE  /\ RemoveAt(q, k) \in Seq(S)
           /\ Len(RemoveAt(q, k)) = Len(q) - 1
           /\ \A i \in 1..(Len(q) - 1) :
                 RemoveAt(q, k)[i] = (IF i < k THEN q[i] ELSE q[i + 1])
<1> DEFINE front == SubSeq(q, 1, k - 1)
           back == SubSeq(q, k + 1, Len(q))
<1>1. /\ front \in Seq(S) /\ Len(front) = k - 1
      /\ \A i \in 1..(k - 1) : front[i] = q[i]
  BY SubSeqProperties, 1 \in 1..(Len(q) + 1)
<1>2. /\ back \in Seq(S) /\ Len(back) = Len(q) - k
      /\ \A i \in 1..(Len(q) - k) : back[i] = q[i + k]
  BY SubSeqProperties
<1>3. RemoveAt(q, k) = front \o back
  BY DEF RemoveAt
<1> HIDE DEF front, back
<1>4. /\ front \o back \in Seq(S)
      /\ Len(front \o back) = Len(front) + Len(back)
      /\ \A i \in 1..(Len(front) + Len(back)) :
            (front \o back)[i] = (IF i <= Len(front) THEN front[i] ELSE back[i - Len(front)])
  BY <1>1, <1>2, ConcatProperties
<1>5. k \in Nat /\ Len(q) \in Nat /\ 1 <= k /\ k <= Len(q)
  OBVIOUS
<1>6. ASSUME NEW i \in 1..(Len(q) - 1)
      PROVE  (front \o back)[i] = (IF i < k THEN q[i] ELSE q[i + 1])
  <2>a. i \in Int /\ 1 <= i /\ i <= Len(q) - 1 /\ k \in Int /\ Len(q) \in Int
    BY <1>5
  <2>b. Len(front) = k - 1 /\ Len(back) = Len(q) - k
    BY <1>1, <1>2
  <2>c. i \in 1..(Len(front) + Len(back))
    BY <2>a, <2>b
  <2>d. (front \o back)[i] = (IF i <= Len(front) THEN front[i] ELSE back[i - Len(front)])
    BY <1>4, <2>c
  <2>1. CASE i < k
    <3>1. i <= Len(front) /\ i \in 1..(k - 1)
      BY <2>1, <2>a, <2>b
    <3>2. front[i] = q[i]
      BY <3>1, <1>1
    <3> QED BY <2>1, <2>d, <3>1, <3>2
  <2>2. CASE ~(i < k)
    <3>1. ~(i <= Len(front)) /\ i - Len(front) \in 1..(Len(q) - k)
      BY <2>2, <2>a, <2>b
    <3>2. back[i - Len(front)] = q[(i - Len(front)) + k]
      BY <3>1, <1>2
    <3>3. (i - Len(front)) + k = i + 1
      BY <2>a, <2>b
    <3> QED BY <2>2, <2>d, <3>1, <3>2, <3>3
  <2> QED BY <2>1, <2>2
<1> QED BY <1>1, <1>2, <1>3, <1>4, <1>5, <1>6

\* What filter leaves, when nobody waits twice: a queue of the same entries in
\* the same order, without the participant.
LEMMA WithoutFact ==
    ASSUME TypeOK, Distinct(pending), NEW p
    PROVE  /\ Without(p) \in Seq(PendingEntries)
           /\ Len(Without(p)) <= Len(pending)
           /\ \A i \in 1..Len(Without(p)) :
                 /\ \E k \in 1..Len(pending) : Without(p)[i] = pending[k]
                 /\ Without(p)[i].participant # p
           /\ \A i, j \in 1..Len(Without(p)) : i < j =>
                 \E k, l \in 1..Len(pending) :
                    k < l /\ Without(p)[i] = pending[k] /\ Without(p)[j] = pending[l]
<1>1. CASE ~Waits(p)
  BY <1>1 DEF TypeOK, Without, Waits
<1>2. CASE Waits(p)
  <2> DEFINE k == Position(p)
             rest == Without(p)
  <2>1. k \in 1..Len(pending) /\ pending[k].participant = p
    BY <1>2 DEF Waits, Position
  <2>2. pending \in Seq(PendingEntries)
    BY DEF TypeOK
  <2>3. rest = RemoveAt(pending, k)
    BY <1>2 DEF Without
  <2> HIDE DEF k, rest
  <2>4. /\ rest \in Seq(PendingEntries)
        /\ Len(rest) = Len(pending) - 1
        /\ \A i \in 1..(Len(pending) - 1) :
              rest[i] = (IF i < k THEN pending[i] ELSE pending[i + 1])
    BY <2>1, <2>2, <2>3, RemoveAtFact
  <2>5. \A i \in 1..Len(pending) : i # k => pending[i].participant # p
    BY <2>1 DEF Distinct
  <2>6. Len(pending) \in Nat
    BY <2>2
  <2>7. \A i \in 1..Len(rest) :
           /\ \E l \in 1..Len(pending) : rest[i] = pending[l]
           /\ rest[i].participant # p
    <3> TAKE i \in 1..Len(rest)
    <3>1. CASE i < k
      BY <3>1, <2>1, <2>4, <2>5, <2>6
    <3>2. CASE i >= k
      <4>1. i + 1 \in 1..Len(pending) /\ i + 1 # k
        BY <3>2, <2>1, <2>4, <2>6
      <4> QED BY <3>2, <4>1, <2>1, <2>4, <2>5, <2>6
    <3> QED BY <3>1, <3>2, <2>1, <2>4, <2>6
  <2>8. ASSUME NEW i \in 1..Len(rest), NEW j \in 1..Len(rest), i < j
        PROVE  \E l, n \in 1..Len(pending) :
                  l < n /\ rest[i] = pending[l] /\ rest[j] = pending[n]
    <3> DEFINE at(x) == IF x < k THEN x ELSE x + 1
    <3>1. at(i) \in 1..Len(pending) /\ at(j) \in 1..Len(pending) /\ at(i) < at(j)
      BY <2>8, <2>1, <2>4, <2>6
    <3>2. rest[i] = pending[at(i)] /\ rest[j] = pending[at(j)]
      BY <2>1, <2>4, <2>6
    <3> QED BY <3>1, <3>2
  <2>9. Len(rest) <= Len(pending)
    BY <2>4, <2>6
  <2> QED BY <2>4, <2>7, <2>8, <2>9 DEF rest
<1> QED BY <1>1, <1>2

\* What Tail leaves, and what a full queue keeps: a queue in the same order.
LEMMA TailFact ==
    ASSUME NEW q \in Seq(PendingEntries), q # <<>>
    PROVE  /\ Head(q) = q[1] /\ q[1] \in PendingEntries
           /\ Tail(q) \in Seq(PendingEntries)
           /\ Len(Tail(q)) = Len(q) - 1 /\ Len(q) \in Nat /\ Len(q) >= 1
           /\ \A i \in 1..Len(Tail(q)) : i + 1 \in 1..Len(q) /\ Tail(q)[i] = q[i + 1]
<1>1. Len(q) \in Nat /\ Len(q) >= 1
  BY EmptySeq
<1> QED BY <1>1, HeadTailProperties, ElementOfSeq

\* What a full queue keeps, and what a queue that is not full keeps.
LEMMA KeptFact ==
    ASSUME TypeOK, OneSeat
    PROVE  /\ Kept \in Seq(PendingEntries)
           /\ Len(Kept) + 1 <= PendingLimit
           /\ \A i \in 1..Len(Kept) : \E k \in 1..Len(pending) : Kept[i] = pending[k]
           /\ \A i, j \in 1..Len(Kept) : i < j =>
                 \E k, l \in 1..Len(pending) :
                    k < l /\ Kept[i] = pending[k] /\ Kept[j] = pending[l]
<1>1. pending \in Seq(PendingEntries) /\ Len(pending) \in Nat /\ PendingLimit \in Nat \ {0}
  BY AdmissionAssumption DEF TypeOK
<1>2. CASE Len(pending) >= PendingLimit
  <2>1. pending # <<>>
    BY <1>1, <1>2, EmptySeq
  <2>2. Kept = Tail(pending) /\ Len(pending) <= PendingLimit
    BY <1>2 DEF Kept, OneSeat
  <2>3. /\ Tail(pending) \in Seq(PendingEntries)
        /\ Len(Tail(pending)) = Len(pending) - 1
        /\ \A i \in 1..Len(Tail(pending)) :
              i + 1 \in 1..Len(pending) /\ Tail(pending)[i] = pending[i + 1]
    BY <1>1, <2>1, TailFact
  <2>4. \A i, j \in 1..Len(Kept) : i < j =>
           \E k, l \in 1..Len(pending) :
              k < l /\ Kept[i] = pending[k] /\ Kept[j] = pending[l]
    <3> SUFFICES ASSUME NEW i \in 1..Len(Kept), NEW j \in 1..Len(Kept), i < j
                 PROVE  \E k, l \in 1..Len(pending) :
                           k < l /\ Kept[i] = pending[k] /\ Kept[j] = pending[l]
      OBVIOUS
    <3>1. i + 1 < j + 1
      BY <1>1, <2>2, <2>3
    <3> QED BY <3>1, <2>2, <2>3
  <2>5. Kept \in Seq(PendingEntries) /\ Len(Kept) + 1 <= PendingLimit
    BY <1>1, <2>2, <2>3
  <2>6. \A i \in 1..Len(Kept) : \E k \in 1..Len(pending) : Kept[i] = pending[k]
    BY <2>2, <2>3
  <2> QED BY <2>4, <2>5, <2>6
<1>3. CASE ~(Len(pending) >= PendingLimit)
  BY <1>1, <1>3 DEF Kept
<1> QED BY <1>2, <1>3

\* The type invariant and OneSeat hold at first.
LEMMA InitSeat == Init => TypeOK /\ OneSeat
  BY AdmissionAssumption DEF Init, TypeOK, OneSeat, Owners, Times, OwnedBy

\* Every step preserves the types.
LEMMA TypeStep == TypeOK /\ OneSeat /\ [Next]_vars => TypeOK'
<1> SUFFICES ASSUME TypeOK, OneSeat, [Next]_vars PROVE TypeOK'
  OBVIOUS
<1> USE AdmissionAssumption, NoOwnerAssumption
<1>0. Distinct(pending) /\ now \in Times
  BY DEF OneSeat, Distinct, TypeOK
<1>s. \A p \in Participants : Seat(p) \in Owners
  BY <1>0 DEF Seat, Owners
<1>w. \A p : Without(p) \in Seq(PendingEntries)
  BY <1>0, WithoutFact
<1>1. ASSUME NEW p \in Participants, Acquire(p) PROVE TypeOK'
  <2>1. lastDecision' \subseteq Decisions /\ now' \in Times
    BY <1>1 DEF Acquire, TypeOK
  <2>2. CASE OwnerRefreshed(p)
    <3>1. owner \in Owners
      BY <2>2 DEF OwnerRefreshed, OwnedBy, TypeOK
    <3>2. owner' \in Owners
      BY <2>2, <3>1, <1>0 DEF OwnerRefreshed, Owners
    <3> QED BY <2>1, <2>2, <3>2, <1>w DEF OwnerRefreshed, TypeOK
  <2>3. CASE AutoGranted(p)
    BY <2>1, <2>3, <1>s, <1>w DEF AutoGranted, TypeOK
  <2>4. CASE AwaitingAgain(p)
    <3>1. Position(p) \in 1..Len(pending)
      BY <2>4 DEF AwaitingAgain, Waits, Position
    <3>2. pending[Position(p)] \in PendingEntries
      BY <3>1, ElementOfSeq DEF TypeOK
    <3>3. [pending[Position(p)] EXCEPT !.lastSeenAt = now] \in PendingEntries
      BY <3>2, <1>0 DEF PendingEntries
    <3>4. pending' = [pending EXCEPT ![Position(p)] =
                        [pending[Position(p)] EXCEPT !.lastSeenAt = now]]
      BY <2>4 DEF AwaitingAgain
    <3>5. pending' \in Seq(PendingEntries)
      BY <3>1, <3>3, <3>4, ExceptSeq DEF TypeOK
    <3> QED BY <2>1, <2>4, <3>5 DEF AwaitingAgain, TypeOK
  <2>5. CASE AwaitingApproval(p)
    <3>1. [participant |-> p, requestedAt |-> now, lastSeenAt |-> now] \in PendingEntries
      BY <1>0 DEF PendingEntries
    <3>2. pending' \in Seq(PendingEntries)
      BY <2>5, <3>1, KeptFact, AppendProperties DEF AwaitingApproval
    <3> QED BY <2>1, <2>5, <3>2 DEF AwaitingApproval, TypeOK
  <2> QED BY <1>1, <2>2, <2>3, <2>4, <2>5 DEF Acquire
<1>2. ASSUME NEW p \in Participants, ReleaseSeat(p) PROVE TypeOK'
  <2>1. CASE pending = <<>>
    BY <1>2, <2>1 DEF ReleaseSeat, TypeOK
  <2>2. CASE pending # <<>>
    <3>1. Head(pending) \in PendingEntries /\ Tail(pending) \in Seq(PendingEntries)
      BY <2>2, TailFact DEF TypeOK
    <3>2. Head(pending).participant \in Participants
      BY <3>1 DEF PendingEntries
    <3> QED BY <1>2, <2>2, <3>1, <3>2, <1>s DEF ReleaseSeat, TypeOK
  <2> QED BY <2>1, <2>2
<1>3. ASSUME NEW p \in Participants, ReleasePlace(p) PROVE TypeOK'
  BY <1>3, <1>w DEF ReleasePlace, TypeOK
<1>4. ASSUME NEW p \in Participants, Approve(p) PROVE TypeOK'
  <2>1. lastDecision' \subseteq Decisions
    BY <1>4 DEF Approve, Decisions
  <2> QED BY <1>4, <2>1, <1>s, <1>w DEF Approve, TypeOK
<1>5. ASSUME NEW p \in Participants, Deny(p) PROVE TypeOK'
  <2>1. lastDecision' \subseteq Decisions
    BY <1>5 DEF Deny, Decisions
  <2>2. owner' \in Owners \cup {NoOwner}
    BY <1>5 DEF Deny, TypeOK
  <2> QED BY <1>5, <2>1, <2>2, <1>w DEF Deny, TypeOK
<1>6. CASE Tick
  BY <1>6 DEF Tick, TypeOK, Times
<1>7. CASE UNCHANGED vars
  BY <1>7 DEF vars, TypeOK
<1> QED BY <1>1, <1>2, <1>3, <1>4, <1>5, <1>6, <1>7 DEF Next, Release, Decide

-----------------------------------------------------------------------------
(* A queue within another has some of its entries in the same order; it    *)
(* then inherits that nobody waits twice and that requests are in order.   *)

Within(q2, q) ==
    /\ \A i \in 1..Len(q2) : \E k \in 1..Len(q) : q2[i] = q[k]
    /\ \A i, j \in 1..Len(q2) : i < j =>
          \E k, l \in 1..Len(q) : k < l /\ q2[i] = q[k] /\ q2[j] = q[l]

\* Nobody waits twice in a queue within one where nobody does.
LEMMA DistinctWithin ==
    ASSUME NEW q2 \in Seq(PendingEntries), NEW q \in Seq(PendingEntries),
           Within(q2, q), Distinct(q)
    PROVE  Distinct(q2)
<1> SUFFICES ASSUME NEW i \in 1..Len(q2), NEW j \in 1..Len(q2),
                    q2[i].participant = q2[j].participant, i # j
             PROVE  FALSE
  BY DEF Distinct
<1>1. ASSUME NEW a \in 1..Len(q2), NEW b \in 1..Len(q2), a < b,
             q2[a].participant = q2[b].participant
      PROVE  FALSE
  <2>1. PICK k \in 1..Len(q), l \in 1..Len(q) : k < l /\ q2[a] = q[k] /\ q2[b] = q[l]
    BY <1>1 DEF Within
  <2>2. k = l
    BY <2>1, <1>1 DEF Distinct
  <2> QED BY <2>1, <2>2
<1>2. i < j \/ j < i
  OBVIOUS
<1> QED BY <1>1, <1>2

\* A queue within one in the order of requests is in the order of requests.
InOrder(q) ==
    /\ \A i \in 1..Len(q) : q[i].requestedAt <= now
    /\ \A i, j \in 1..Len(q) : i < j => q[i].requestedAt <= q[j].requestedAt

\* A queue within one that is in order is in order.
LEMMA InOrderWithin ==
    ASSUME NEW q2 \in Seq(PendingEntries), NEW q \in Seq(PendingEntries),
           Within(q2, q), InOrder(q)
    PROVE  InOrder(q2)
  BY DEF Within, InOrder

\* The three ways the code takes an entry out leave a queue within the queue.
LEMMA WithoutWithin == ASSUME TypeOK, OneSeat, NEW p PROVE Within(Without(p), pending)
<1>1. Distinct(pending)
  BY DEF OneSeat, Distinct
<1> QED BY <1>1, WithoutFact DEF Within

\* Promotion leaves a queue within the queue.
LEMMA TailWithin ==
    ASSUME NEW q \in Seq(PendingEntries), q # <<>> PROVE Within(Tail(q), q)
<1>1. /\ Len(Tail(q)) = Len(q) - 1 /\ Len(q) \in Nat
      /\ \A i \in 1..Len(Tail(q)) : i + 1 \in 1..Len(q) /\ Tail(q)[i] = q[i + 1]
  BY TailFact
<1>2. ASSUME NEW i \in 1..Len(Tail(q)), NEW j \in 1..Len(Tail(q)), i < j
      PROVE  \E k, l \in 1..Len(q) : k < l /\ Tail(q)[i] = q[k] /\ Tail(q)[j] = q[l]
  <2>1. i + 1 < j + 1
    BY <1>1, <1>2
  <2> QED BY <1>1, <2>1
<1> QED BY <1>1, <1>2 DEF Within

\* Dropping the oldest entry leaves a queue within the queue.
LEMMA KeptWithin == ASSUME TypeOK, OneSeat PROVE Within(Kept, pending)
  BY KeptFact DEF Within

\* Every step preserves that a participant has one place.
LEMMA SeatStep == TypeOK /\ OneSeat /\ [Next]_vars => OneSeat'
<1> SUFFICES ASSUME TypeOK, OneSeat, [Next]_vars PROVE OneSeat'
  OBVIOUS
<1> DEFINE Free(o, q) == \A i \in 1..Len(q) : ~(o # NoOwner /\ o.participant = q[i].participant)
<1> USE AdmissionAssumption, NoOwnerAssumption
<1>0. /\ pending \in Seq(PendingEntries) /\ Distinct(pending)
      /\ Free(owner, pending) /\ Len(pending) \in Nat /\ Len(pending) <= PendingLimit
  BY DEF OneSeat, Distinct, TypeOK, OwnedBy
<1>t. pending' \in Seq(PendingEntries) /\ owner' \in Owners \cup {NoOwner}
  BY TypeStep DEF TypeOK
<1>g. ASSUME Distinct(pending'), Free(owner', pending'), Len(pending') <= PendingLimit
      PROVE  OneSeat'
  BY <1>g DEF OneSeat, Distinct, OwnedBy
<1>w. \A p : /\ Without(p) \in Seq(PendingEntries) /\ Distinct(Without(p))
             /\ Len(Without(p)) \in Nat /\ Len(Without(p)) <= PendingLimit
             /\ Free(owner, Without(p))
             /\ \A i \in 1..Len(Without(p)) : Without(p)[i].participant # p
  <2> TAKE p
  <2>1. /\ Without(p) \in Seq(PendingEntries) /\ Len(Without(p)) <= Len(pending)
        /\ Within(Without(p), pending)
        /\ \A i \in 1..Len(Without(p)) : Without(p)[i].participant # p
    BY <1>0, WithoutFact, WithoutWithin
  <2>2. Distinct(Without(p)) /\ Len(Without(p)) \in Nat
    BY <2>1, <1>0, DistinctWithin
  <2>3. Free(owner, Without(p))
    <3> SUFFICES ASSUME NEW i \in 1..Len(Without(p))
                 PROVE  ~(owner # NoOwner /\ owner.participant = Without(p)[i].participant)
      OBVIOUS
    <3>1. PICK k \in 1..Len(pending) : Without(p)[i] = pending[k]
      BY <2>1 DEF Within
    <3>2. ~(owner # NoOwner /\ owner.participant = pending[k].participant)
      BY <1>0
    <3> QED BY <3>1, <3>2
  <2> QED BY <1>0, <2>1, <2>2, <2>3
<1>s. \A p : Seat(p).participant = p
  BY DEF Seat
<1>1. ASSUME NEW p \in Participants, OwnerRefreshed(p) PROVE OneSeat'
  <2>1. pending' = Without(p) /\ owner \in Owners
    BY <1>1 DEF OwnerRefreshed, OwnedBy, TypeOK
  <2>2. owner'.participant = owner.participant /\ owner # NoOwner
    BY <1>1, <2>1 DEF OwnerRefreshed, Owners
  <2> QED BY <2>1, <2>2, <1>w, <1>g
<1>2. ASSUME NEW p \in Participants, AutoGranted(p) PROVE OneSeat'
  <2>1. pending' = Without(p) /\ owner'.participant = p
    BY <1>2, <1>s DEF AutoGranted
  <2> QED BY <2>1, <1>w, <1>g
<1>3. ASSUME NEW p \in Participants, AwaitingAgain(p) PROVE OneSeat'
  <2>1. Position(p) \in 1..Len(pending)
    BY <1>3 DEF AwaitingAgain, Waits, Position
  <2>2. /\ Len(pending') = Len(pending)
        /\ \A i \in 1..Len(pending) : pending'[i].participant = pending[i].participant
    <3>1. pending[Position(p)] \in PendingEntries
      BY <2>1, <1>0, ElementOfSeq
    <3> QED BY <1>0, <1>3, <2>1, <3>1 DEF AwaitingAgain, PendingEntries
  <2>3. Distinct(pending') /\ owner' = owner
    BY <1>0, <1>3, <2>2 DEF Distinct, AwaitingAgain
  <2> QED BY <1>0, <2>2, <2>3, <1>g
<1>4. ASSUME NEW p \in Participants, AwaitingApproval(p) PROVE OneSeat'
  <2> DEFINE entry == [participant |-> p, requestedAt |-> now, lastSeenAt |-> now]
  <2>1. /\ pending' = Append(Kept, entry) /\ owner' = owner /\ ~OwnedBy(p)
        /\ \A i \in 1..Len(pending) : pending[i].participant # p
    BY <1>4 DEF AwaitingApproval, Waits
  <2>2. entry \in PendingEntries
    BY DEF PendingEntries, TypeOK
  <2>3. /\ Kept \in Seq(PendingEntries) /\ Within(Kept, pending) /\ Len(Kept) \in Nat
        /\ Len(Kept) + 1 <= PendingLimit /\ Distinct(Kept)
    BY <1>0, KeptFact, KeptWithin, DistinctWithin
  <2>4. \A i \in 1..Len(Kept) : Kept[i].participant # p
                                 /\ ~(owner # NoOwner /\ owner.participant = Kept[i].participant)
    <3> SUFFICES ASSUME NEW i \in 1..Len(Kept)
                 PROVE  /\ Kept[i].participant # p
                        /\ ~(owner # NoOwner /\ owner.participant = Kept[i].participant)
      OBVIOUS
    <3>1. PICK k \in 1..Len(pending) : Kept[i] = pending[k]
      BY <2>3 DEF Within
    <3>2. /\ pending[k].participant # p
          /\ ~(owner # NoOwner /\ owner.participant = pending[k].participant)
      BY <1>0, <2>1
    <3> QED BY <3>1, <3>2
  <2>5. entry.participant = p
    OBVIOUS
  <2> HIDE DEF entry
  <2>6. /\ Len(pending') = Len(Kept) + 1 /\ pending'[Len(Kept) + 1] = entry
        /\ \A i \in 1..Len(Kept) : pending'[i] = Kept[i]
    BY <2>1, <2>2, <2>3, AppendProperties
  <2>7. Distinct(pending')
    BY <2>3, <2>4, <2>5, <2>6 DEF Distinct
  <2>8. Free(owner', pending')
    BY <2>1, <2>3, <2>4, <2>5, <2>6 DEF OwnedBy
  <2> QED BY <2>3, <2>6, <2>7, <2>8, <1>g
<1>5. ASSUME NEW p \in Participants, ReleaseSeat(p) PROVE OneSeat'
  <2>1. CASE pending = <<>>
    BY <1>0, <1>5, <2>1, <1>g DEF ReleaseSeat
  <2>2. CASE pending # <<>>
    <3>2. owner'.participant = pending[1].participant /\ pending' = Tail(pending)
      BY <1>0, <1>5, <2>2, <1>s, TailFact DEF ReleaseSeat
    <3>3. /\ Within(Tail(pending), pending) /\ Len(Tail(pending)) = Len(pending) - 1
          /\ \A i \in 1..Len(Tail(pending)) :
                i + 1 \in 1..Len(pending) /\ Tail(pending)[i] = pending[i + 1]
          /\ Len(pending) >= 1 /\ Tail(pending) \in Seq(PendingEntries)
      BY <1>0, <2>2, TailFact, TailWithin
    <3>4. Distinct(pending')
      BY <1>0, <3>2, <3>3, DistinctWithin
    <3>5. ASSUME NEW i \in 1..Len(pending'), pending'[i].participant = pending[1].participant
          PROVE  FALSE
      <4>1. i + 1 \in 1..Len(pending) /\ pending[i + 1].participant = pending[1].participant
        BY <3>2, <3>3, <3>5
      <4>2. i + 1 = 1
        BY <4>1, <1>0, <3>3 DEF Distinct
      <4> QED BY <4>2
    <3>6. Free(owner', pending')
      BY <3>2, <3>5
    <3>7. Len(pending') <= PendingLimit
      BY <1>0, <3>2, <3>3
    <3> QED BY <3>4, <3>6, <3>7, <1>g
  <2> QED BY <2>1, <2>2
<1>6. ASSUME NEW p \in Participants, ReleasePlace(p) PROVE OneSeat'
  <2>1. pending' = Without(p) /\ owner' = owner
    BY <1>6 DEF ReleasePlace
  <2> QED BY <2>1, <1>w, <1>g
<1>7. ASSUME NEW p \in Participants, Approve(p) PROVE OneSeat'
  <2>1. pending' = Without(p) /\ owner'.participant = p
    BY <1>7, <1>s DEF Approve
  <2> QED BY <2>1, <1>w, <1>g
<1>8. ASSUME NEW p \in Participants, Deny(p) PROVE OneSeat'
  <2>1. pending' = Without(p) /\ (owner' = owner \/ owner' = NoOwner)
    BY <1>8 DEF Deny
  <2> QED BY <2>1, <1>w, <1>g
<1>9. CASE Tick \/ UNCHANGED vars
  BY <1>0, <1>9, <1>g DEF Tick, vars
<1> QED BY <1>1, <1>2, <1>3, <1>4, <1>5, <1>6, <1>7, <1>8, <1>9
        DEF Next, Acquire, Release, Decide

-----------------------------------------------------------------------------
(* The theorems                                                            *)

\* The invariant the others rest on: the types, and one place for each.
THEOREM SeatInvariant == Spec => [](TypeOK /\ OneSeat)
<1>1. TypeOK /\ OneSeat /\ [Next]_vars => (TypeOK /\ OneSeat)'
  BY TypeStep, SeatStep
<1> QED BY <1>1, InitSeat, PTL DEF Spec

\* Every variable has its type in every reachable state.
THEOREM TypeCorrect == Spec => []TypeOK
  BY SeatInvariant, PTL

\* However acquires, releases and decisions interleave, the owner does not
\* wait, nobody waits twice and the queue keeps PENDING_LIMIT.
THEOREM OneSeatCorrect == Spec => []OneSeat
  BY SeatInvariant, PTL

\* Every step keeps the queue in the order of the requests.
LEMMA OrderStep == TypeOK /\ OneSeat /\ QueueInOrder /\ [Next]_vars => QueueInOrder'
<1> SUFFICES ASSUME TypeOK, OneSeat, QueueInOrder, [Next]_vars PROVE QueueInOrder'
  OBVIOUS
<1> USE AdmissionAssumption
<1>0. /\ pending \in Seq(PendingEntries) /\ InOrder(pending) /\ now \in Nat /\ now' \in Nat
      /\ now <= now' /\ (\A p \in Participants : Acquire(p) \/ Release(p) \/ Decide(p)
                            => now' = now)
  BY DEF QueueInOrder, InOrder, TypeOK, Times, Next, vars, Tick, Acquire, Release,
         ReleaseSeat, ReleasePlace, Decide, Approve, Deny
<1>t. /\ pending' \in Seq(PendingEntries) /\ \A e \in PendingEntries : e.requestedAt \in Nat
  BY TypeStep DEF TypeOK, PendingEntries, Times
<1>g. ASSUME InOrder(pending') PROVE QueueInOrder'
  <2>1. \A i \in 1..Len(pending') : pending'[i].requestedAt <= now'
    <3> TAKE i \in 1..Len(pending')
    <3>1. pending'[i].requestedAt \in Nat /\ pending'[i].requestedAt <= now
      BY <1>g, <1>t, ElementOfSeq DEF InOrder
    <3> QED BY <3>1, <1>0
  <2> QED BY <2>1, <1>g DEF QueueInOrder, InOrder
<1>w. \A p : InOrder(Without(p))
  <2> TAKE p
  <2>1. Without(p) \in Seq(PendingEntries) /\ Within(Without(p), pending)
    BY WithoutFact, WithoutWithin DEF OneSeat, Distinct
  <2> QED BY <1>0, <2>1, InOrderWithin
<1>1. ASSUME NEW p \in Participants, AwaitingAgain(p) PROVE QueueInOrder'
  <2>1. Position(p) \in 1..Len(pending)
    BY <1>1 DEF AwaitingAgain, Waits, Position
  <2>2. /\ Len(pending') = Len(pending)
        /\ \A i \in 1..Len(pending) : pending'[i].requestedAt = pending[i].requestedAt
    <3>1. pending[Position(p)] \in PendingEntries
      BY <2>1, <1>0, ElementOfSeq
    <3> QED BY <1>0, <1>1, <2>1, <3>1 DEF AwaitingAgain, PendingEntries
  <2> QED BY <1>0, <2>2, <1>g DEF InOrder
<1>2. ASSUME NEW p \in Participants, AwaitingApproval(p) PROVE QueueInOrder'
  <2> DEFINE entry == [participant |-> p, requestedAt |-> now, lastSeenAt |-> now]
  <2>1. pending' = Append(Kept, entry)
    BY <1>2 DEF AwaitingApproval
  <2>2. entry \in PendingEntries /\ entry.requestedAt = now
    BY DEF PendingEntries, TypeOK
  <2> HIDE DEF entry
  <2>3. Kept \in Seq(PendingEntries) /\ InOrder(Kept) /\ Len(Kept) \in Nat
    BY <1>0, KeptFact, KeptWithin, InOrderWithin
  <2>4. /\ Len(pending') = Len(Kept) + 1 /\ pending'[Len(Kept) + 1] = entry
        /\ \A i \in 1..Len(Kept) : pending'[i] = Kept[i]
    BY <2>1, <2>2, <2>3, AppendProperties
  <2>5. InOrder(pending')
    <3>1. \A i \in 1..Len(pending') : pending'[i].requestedAt <= now
      BY <1>0, <2>2, <2>3, <2>4 DEF InOrder
    <3>2. ASSUME NEW i \in 1..Len(pending'), NEW j \in 1..Len(pending'), i < j
          PROVE  pending'[i].requestedAt <= pending'[j].requestedAt
      <4>1. i \in 1..Len(Kept)
        BY <2>3, <2>4, <3>2
      <4>2. CASE j = Len(Kept) + 1
        BY <2>2, <2>4, <3>1, <4>2
      <4>3. CASE j # Len(Kept) + 1
        <5>1. j \in 1..Len(Kept)
          BY <2>3, <2>4, <4>3
        <5> QED BY <2>3, <2>4, <3>2, <4>1, <5>1 DEF InOrder
      <4> QED BY <4>2, <4>3
    <3> QED BY <3>1, <3>2 DEF InOrder
  <2> QED BY <2>5, <1>g
<1>3. ASSUME NEW p \in Participants, ReleaseSeat(p) PROVE QueueInOrder'
  <2>1. CASE pending = <<>>
    BY <1>0, <1>3, <2>1, <1>g DEF ReleaseSeat
  <2>2. CASE pending # <<>>
    <3>1. pending' = Tail(pending)
      BY <1>3, <2>2 DEF ReleaseSeat
    <3>2. InOrder(Tail(pending))
      BY <1>0, <2>2, TailFact, TailWithin, InOrderWithin
    <3> QED BY <3>1, <3>2, <1>g
  <2> QED BY <2>1, <2>2
<1>4. ASSUME NEW p, pending' = Without(p) PROVE QueueInOrder'
  BY <1>4, <1>w, <1>g
<1>5. CASE Tick \/ UNCHANGED vars
  BY <1>0, <1>5, <1>g DEF Tick, vars
<1> QED BY <1>1, <1>2, <1>3, <1>4, <1>5
        DEF Next, Acquire, OwnerRefreshed, AutoGranted, Release, ReleasePlace,
            Decide, Approve, Deny

\* The queue is always in the order of the requests, so the one a release
\* promotes has waited longest.
THEOREM QueueInOrderCorrect == Spec => []QueueInOrder
<1>1. Init => QueueInOrder
  BY DEF Init, QueueInOrder
<1>2. TypeOK /\ OneSeat /\ QueueInOrder /\ [Next]_vars => QueueInOrder'
  BY OrderStep
<1> QED BY <1>1, <1>2, SeatInvariant, PTL DEF Spec

\* Every step leaves a free seat with somebody waiting only after a denial.
LEMMA FreeSeatStep ==
    TypeOK /\ OneSeat /\ FreeSeatOnlyAfterDenial /\ [Next]_vars => FreeSeatOnlyAfterDenial'
<1> SUFFICES ASSUME TypeOK, OneSeat, FreeSeatOnlyAfterDenial, [Next]_vars,
                    owner' = NoOwner, pending' # <<>>
             PROVE  \E d \in lastDecision' : d.action = "deny"
  BY DEF FreeSeatOnlyAfterDenial
<1> USE AdmissionAssumption, NoOwnerAssumption
<1>s. \A p \in Participants : Seat(p) \in Owners /\ Seat(p) # NoOwner
  BY DEF Seat, Owners, TypeOK
<1>w. ASSUME NEW p, pending = <<>> PROVE Without(p) = <<>>
  BY <1>w DEF Without, Waits
<1>1. ASSUME NEW p \in Participants, Acquire(p) PROVE FALSE
  <2>1. CASE OwnerRefreshed(p)
    <3>1. owner \in Owners /\ now \in Times
      BY <2>1 DEF OwnerRefreshed, OwnedBy, TypeOK
    <3>2. owner' \in Owners
      BY <2>1, <3>1 DEF OwnerRefreshed, Owners
    <3> QED BY <3>2
  <2>2. CASE AutoGranted(p)
    BY <2>2, <1>s DEF AutoGranted
  <2>3. CASE AwaitingAgain(p) \/ AwaitingApproval(p)
    BY <2>3 DEF AwaitingAgain, AwaitingApproval, ownerActive
  <2> QED BY <1>1, <2>1, <2>2, <2>3 DEF Acquire
<1>2. ASSUME NEW p \in Participants, ReleaseSeat(p) PROVE FALSE
  <2>1. CASE pending = <<>>
    BY <1>2, <2>1 DEF ReleaseSeat
  <2>2. CASE pending # <<>>
    <3>1. Head(pending).participant \in Participants
      BY <2>2, TailFact DEF TypeOK, PendingEntries
    <3> QED BY <1>2, <2>2, <3>1, <1>s DEF ReleaseSeat
  <2> QED BY <2>1, <2>2
<1>3. ASSUME NEW p \in Participants, ReleasePlace(p)
      PROVE  \E d \in lastDecision' : d.action = "deny"
  BY <1>3, <1>w DEF ReleasePlace, FreeSeatOnlyAfterDenial
<1>4. ASSUME NEW p \in Participants, Approve(p) PROVE FALSE
  BY <1>4, <1>s DEF Approve
<1>5. ASSUME NEW p \in Participants, Deny(p)
      PROVE  \E d \in lastDecision' : d.action = "deny"
  BY <1>5 DEF Deny
<1>6. CASE Tick \/ UNCHANGED vars
  BY <1>6 DEF Tick, vars, FreeSeatOnlyAfterDenial
<1> QED BY <1>1, <1>2, <1>3, <1>4, <1>5, <1>6 DEF Next, Release, Decide

\* The seat is empty in front of a queue only because HR evicted its owner.
THEOREM FreeSeatCorrect == Spec => []FreeSeatOnlyAfterDenial
<1>1. Init => FreeSeatOnlyAfterDenial
  BY DEF Init, FreeSeatOnlyAfterDenial
<1> QED BY <1>1, FreeSeatStep, SeatInvariant, PTL DEF Spec

\* No acquire and no passing of time takes the seat from an active owner.
THEOREM ActiveOwnerCorrect == Spec => ActiveOwnerKept
<1>1. TypeOK /\ [Next]_vars
        => [\A p \in Participants :
               ownerActive /\ OwnedBy(p) /\ ~OwnedBy(p)'
                   => Release(p) \/ \E q \in Participants : Decide(q)]_vars
  <2> SUFFICES ASSUME TypeOK, Next, NEW p \in Participants,
                      ownerActive, OwnedBy(p), ~OwnedBy(p)'
               PROVE  Release(p) \/ \E q \in Participants : Decide(q)
    BY DEF vars
  <2>1. ASSUME NEW q \in Participants, Acquire(q) PROVE FALSE
    <3>1. CASE OwnerRefreshed(q)
      <4>1. owner \in Owners
        BY DEF TypeOK, OwnedBy
      <4>2. owner' \in Owners /\ owner'.participant = owner.participant
        BY <3>1, <4>1 DEF OwnerRefreshed, Owners, TypeOK
      <4> QED BY <4>2, NoOwnerAssumption DEF OwnedBy
    <3>2. CASE AutoGranted(q)
      BY <3>2 DEF AutoGranted
    <3>3. CASE AwaitingAgain(q) \/ AwaitingApproval(q)
      BY <3>3 DEF AwaitingAgain, AwaitingApproval, OwnedBy
    <3> QED BY <2>1, <3>1, <3>2, <3>3 DEF Acquire
  <2>2. ASSUME NEW q \in Participants, Release(q) PROVE Release(p)
    <3>1. CASE ReleaseSeat(q)
      BY <3>1 DEF ReleaseSeat, Release, OwnedBy
    <3>2. CASE ReleasePlace(q)
      BY <3>2 DEF ReleasePlace, OwnedBy
    <3> QED BY <2>2, <3>1, <3>2 DEF Release
  <2>3. ~Tick
    BY DEF Tick, OwnedBy
  <2> QED BY <2>1, <2>2, <2>3 DEF Next
<1> QED BY <1>1, SeatInvariant, PTL DEF Spec, ActiveOwnerKept

\* Taking one participant out of the queue leaves the others in it.
LEMMA WithoutKeeps ==
    ASSUME TypeOK, NEW p, NEW q, p # q, Waits(p)
    PROVE  \E i \in 1..Len(Without(q)) : Without(q)[i].participant = p
<1>1. CASE ~Waits(q)
  BY <1>1 DEF Without, Waits
<1>2. CASE Waits(q)
  <2> DEFINE k == Position(q)
  <2>1. k \in 1..Len(pending) /\ pending[k].participant = q
    BY <1>2 DEF Waits, Position
  <2>2. pending \in Seq(PendingEntries) /\ Len(pending) \in Nat
    BY DEF TypeOK
  <2>3. Without(q) = RemoveAt(pending, k)
    BY <1>2 DEF Without
  <2> HIDE DEF k
  <2>4. /\ Len(Without(q)) = Len(pending) - 1
        /\ \A i \in 1..(Len(pending) - 1) :
              Without(q)[i] = (IF i < k THEN pending[i] ELSE pending[i + 1])
    BY <2>1, <2>2, <2>3, RemoveAtFact
  <2>5. PICK j \in 1..Len(pending) : pending[j].participant = p
    BY DEF Waits
  <2>6. CASE j < k
    BY <2>1, <2>2, <2>4, <2>5, <2>6
  <2>7. CASE j > k
    <3>1. j - 1 \in 1..(Len(pending) - 1) /\ ~(j - 1 < k) /\ (j - 1) + 1 = j
      BY <2>1, <2>2, <2>5, <2>7
    <3> QED BY <2>4, <2>5, <3>1
  <2> QED BY <2>1, <2>2, <2>5, <2>6, <2>7
<1> QED BY <1>1, <1>2

\* Without its first entry, a queue has everybody who waits in it but that one.
LEMMA TailKeeps ==
    ASSUME TypeOK, NEW p, Waits(p), pending[1].participant # p
    PROVE  /\ pending # <<>>
           /\ \E i \in 1..Len(Tail(pending)) : Tail(pending)[i].participant = p
<1>1. pending \in Seq(PendingEntries) /\ Len(pending) \in Nat
  BY DEF TypeOK
<1>2. PICK j \in 1..Len(pending) : pending[j].participant = p
  BY DEF Waits
<1>3. pending # <<>> /\ j # 1
  BY <1>1, <1>2
<1>4. /\ Len(Tail(pending)) = Len(pending) - 1
      /\ \A i \in 1..Len(Tail(pending)) : Tail(pending)[i] = pending[i + 1]
  BY <1>1, <1>3, TailFact
<1>5. j - 1 \in 1..Len(Tail(pending)) /\ (j - 1) + 1 = j
  BY <1>1, <1>2, <1>3, <1>4
<1> QED BY <1>2, <1>3, <1>4, <1>5

\* Whoever leaves the queue has the seat, released their place, was denied, or was the
\* oldest entry of a full queue (acquire, release and decide of the admission).
THEOREM LeavesQueueCorrect == Spec => LeavesQueueForAReason
<1> DEFINE Reason(p) == \/ OwnedBy(p)'
                        \/ Release(p)
                        \/ Deny(p)
                        \/ Len(pending) = PendingLimit /\ pending[1].participant = p
                           /\ \E q \in Participants : AwaitingApproval(q)
<1>1. TypeOK /\ OneSeat /\ [Next]_vars
        => [\A p \in Participants : Waits(p) /\ ~Waits(p)' => Reason(p)]_vars
  <2> SUFFICES ASSUME TypeOK, OneSeat, Next, NEW p \in Participants, Waits(p), ~Waits(p)'
               PROVE  Reason(p)
    BY DEF vars
  <2>1. ASSUME NEW q, pending' = Without(q) PROVE q = p
    BY <2>1, WithoutKeeps DEF Waits
  <2>2. ASSUME pending' = Tail(pending) PROVE pending[1].participant = p
    BY <2>2, TailKeeps DEF Waits
  <2>3. pending' # pending
    BY DEF Waits
  <2>4. pending \in Seq(PendingEntries) /\ Len(pending) \in Nat /\ pending # <<>>
    BY DEF TypeOK, Waits
  <2>5. \A q : owner' = Seat(q) => OwnedBy(q)' \/ owner' = NoOwner
    BY DEF Seat, OwnedBy
  <2>6. ASSUME NEW q \in Participants, owner' = Seat(q) PROVE OwnedBy(q)'
    <3>1. Seat(q) \in Owners
      BY DEF Seat, Owners, TypeOK
    <3> QED BY <2>5, <2>6, <3>1, NoOwnerAssumption
  <2>7. ASSUME NEW q \in Participants, Acquire(q) PROVE Reason(p)
    <3>1. CASE OwnerRefreshed(q)
      <4>1. p = q /\ OwnedBy(p)
        BY <2>1, <3>1 DEF OwnerRefreshed
      <4> QED BY <4>1 DEF OneSeat, Waits
    <3>2. CASE AutoGranted(q)
      BY <2>1, <2>6, <3>2 DEF AutoGranted
    <3>3. CASE AwaitingAgain(q)
      <4> DEFINE k == Position(q)
      <4>1. pending' = [pending EXCEPT ![k].lastSeenAt = now]
        BY <3>3 DEF AwaitingAgain
      <4>2. k \in 1..Len(pending)
        BY <3>3 DEF AwaitingAgain, Waits, Position
      <4> HIDE DEF k
      <4>3. PICK i \in 1..Len(pending) : pending[i].participant = p
        BY DEF Waits
      <4>4. Len(pending') = Len(pending)
        BY <2>4, <4>1
      <4>5. pending'[i].participant = pending[i].participant
        <5>1. pending[i] \in PendingEntries
          BY <2>4
        <5>2. [pending[i] EXCEPT !.lastSeenAt = now].participant = pending[i].participant
          BY <5>1 DEF PendingEntries
        <5>3. pending'[i] = IF i = k THEN [pending[i] EXCEPT !.lastSeenAt = now] ELSE pending[i]
          BY <2>4, <4>1, <4>2
        <5> QED BY <5>2, <5>3
      <4> QED BY <4>3, <4>4, <4>5 DEF Waits
    <3>4. CASE AwaitingApproval(q)
      <4> DEFINE e == [participant |-> q, requestedAt |-> now, lastSeenAt |-> now]
      <4>1. pending' = Append(Kept, e)
        BY <3>4 DEF AwaitingApproval
      <4> HIDE DEF e
      <4>2. e \in PendingEntries
        BY DEF e, PendingEntries, TypeOK
      <4>3. Kept \in Seq(PendingEntries)
        BY KeptFact
      <4>4. \A i \in 1..Len(Kept) : i \in 1..Len(pending') /\ pending'[i] = Kept[i]
        BY <4>1, <4>2, <4>3, AppendProperties
      <4>5. \A i \in 1..Len(Kept) : Kept[i].participant # p
        BY <4>4 DEF Waits
      <4>6. Len(pending) >= PendingLimit /\ Kept = Tail(pending)
        BY <4>5 DEF Kept, Waits
      <4>7. pending[1].participant = p
        BY <4>5, <4>6, TailKeeps
      <4>8. Len(pending) = PendingLimit
        BY <2>4, <4>6, AdmissionAssumption DEF OneSeat
      <4> QED BY <3>4, <4>7, <4>8
    <3> QED BY <2>7, <3>1, <3>2, <3>3, <3>4 DEF Acquire
  <2>8. ASSUME NEW q \in Participants, Release(q) PROVE Reason(p)
    <3>1. CASE ReleaseSeat(q)
      <4>1. owner' = Seat(Head(pending).participant) /\ pending' = Tail(pending)
        BY <2>4, <3>1 DEF ReleaseSeat
      <4>2. Head(pending).participant = p
        BY <2>2, <2>4, <4>1, TailFact
      <4> QED BY <2>6, <4>1, <4>2
    <3>2. CASE ReleasePlace(q)
      <4>1. q = p
        BY <2>1, <3>2 DEF ReleasePlace
      <4> QED BY <2>8, <4>1
    <3> QED BY <2>8, <3>1, <3>2 DEF Release
  <2>9. ASSUME NEW q \in Participants, Decide(q) PROVE Reason(p)
    <3>1. q = p
      BY <2>1, <2>9 DEF Decide, Approve, Deny
    <3>2. Approve(p) => OwnedBy(p)'
      BY <2>6 DEF Approve
    <3> QED BY <2>9, <3>1, <3>2 DEF Decide
  <2>10. ~Tick
    BY <2>3 DEF Tick
  <2> QED BY <2>7, <2>8, <2>9, <2>10 DEF Next
<1> QED BY <1>1, SeatInvariant, PTL DEF Spec, LeavesQueueForAReason
=============================================================================
