------------------------- MODULE MeetingRecoveryProofs -------------------------
(***************************************************************************)
(* Persistence and restart for any meetings, reasons and bounds and any    *)
(* length of the client's queue.                                           *)
(*                                                                         *)
(* SavedIsPast: what makes it inductive is that the same holds of every    *)
(* command that is on its way or waits.  Its history is a prefix of the    *)
(* meeting's, and histories and the outbox only grow (Grows), except in a  *)
(* restart, which leaves no command behind.  What a restart passes over is *)
(* what Redis holds, until a write replaces it.                            *)
(*                                                                         *)
(* WebhookNeverAheadOfRecord: while no connection is lost, the writes on   *)
(* their way are in order (Ordered), and the record that a webhook's item  *)
(* reports is in Redis or before the item (Backed).                        *)
(*                                                                         *)
(* HealthyOneOutcome: a history keeps its first terminal status (Settled), *)
(* so does each of its prefixes, and a restart takes the outbox of a time  *)
(* no later than the histories'.                                           *)
(*                                                                         *)
(* CaughtUp: while no connection is lost, what Redis lacks of a history or *)
(* of the outbox is on its way (KeptInv), as the last write that a call    *)
(* sends carries the whole history.                                        *)
(*                                                                         *)
(* DeliveredMeansAccepted, of the outbox that MCRecovery instantiates: the *)
(* requests for an event are counted by its item, but for the one a pass   *)
(* is posting, and there is one such pass at most (RequestsCounted); an    *)
(* item Redis holds as delivered was accepted as well, since a restart     *)
(* takes it (AcceptedFirst).                                               *)
(***************************************************************************)
EXTENDS MCRecovery, MeetingLifecycleProofs, SequenceTheorems, FiniteSetTheorems,
        WellFoundedInduction

\* What a command would make Redis hold is a past of what the process holds.
Past(c, hist, out) ==
    IF IsSetMeeting(c) THEN IsPrefix(c.history, hist[c.key]) ELSE c.event \in out

AllPast(cmds, hist, out) == \A i \in 1..Len(cmds) : Past(cmds[i], hist, out)

UnopenedHasNoHistory == \A m \in Meetings : status[m] = Absent => history[m] = <<>>

\* The inductive invariant.
IInv ==
    /\ RecoveryTypeOK
    /\ UnopenedHasNoHistory
    /\ AllPast(pipe, history, outbox)
    /\ AllPast(waiting, history, outbox)
    /\ SavedIsPast
    /\ ~reconnected => passedHistory = NothingPassed /\ passedItems = {}

\* The writes of a meeting are in order, and Redis holds what comes before them.
Ordered(cmds, held) ==
    /\ \A k \in 1..Len(cmds) :
          IsSetMeeting(cmds[k]) => IsPrefix(held[cmds[k].key], cmds[k].history)
    /\ \A j, k \in 1..Len(cmds) :
          j < k /\ IsSetMeeting(cmds[j]) /\ IsSetMeeting(cmds[k]) /\ cmds[j].key = cmds[k].key
              => IsPrefix(cmds[j].history, cmds[k].history)

IsStatusItem(c) == ~IsSetMeeting(c) /\ c.event.eventType = "meeting.status.changed"

Carries(c, e) == IsSetMeeting(c) /\ c.key = e.meeting /\ e.transition \in Range(c.history)

\* The transition of a webhook's item is in Redis, or on its way before the item.
Backed(cmds, held) ==
    \A k \in 1..Len(cmds) :
        IsStatusItem(cmds[k]) =>
            \/ cmds[k].event.transition \in Range(held[cmds[k].event.meeting])
            \/ \E j \in 1..(k - 1) : Carries(cmds[j], cmds[k].event)

\* The inductive invariant of connections that were never lost.
OrderInv ==
    /\ IInv
    /\ ~reconnected =>
          /\ conn = "up" /\ waiting = <<>>
          /\ Ordered(pipe, savedHistory) /\ Backed(pipe, savedHistory)
    /\ WebhookNeverAheadOfRecord

\* A step of the lifecycle forgets nothing.
Grows ==
    /\ \A m \in Meetings, h \in Seq(Transition) :
          IsPrefix(h, history[m]) => IsPrefix(h, history'[m])
    /\ outbox \subseteq outbox'

-----------------------------------------------------------------------------
(* Prefixes                                                                *)

\* A prefix agrees with the sequence at each of its places.
LEMMA PrefixPointwise ==
  ASSUME NEW S, NEW s \in Seq(S), NEW t \in Seq(S)
  PROVE  IsPrefix(s, t) <=> Len(s) <= Len(t) /\ \A i \in 1..Len(s) : s[i] = t[i]
  <1>1. Len(s) \in Nat /\ Len(t) \in Nat
    BY LenProperties
  <1>2. SubSeq(s, 1, Len(s)) = s
    BY SubSeqFull
  <1>3. ASSUME Len(s) <= Len(t)
        PROVE  SubSeq(t, 1, Len(s)) = s <=> \A i \in 1..Len(s) : s[i] = t[i]
    <2>1. \A i \in 1..Len(s) : t[i] \in S
      BY <1>1, <1>3, ElementOfSeq
    <2>2. /\ SubSeq(t, 1, Len(s)) \in Seq(S)
          /\ Len(SubSeq(t, 1, Len(s))) = Len(s)
          /\ \A i \in 1..Len(s) : SubSeq(t, 1, Len(s))[i] = t[i]
      BY <1>1, <2>1, SubSeqProperties
    <2>3. ASSUME \A i \in 1..Len(s) : s[i] = t[i]
          PROVE  SubSeq(t, 1, Len(s)) = s
      BY <2>2, <2>3, SeqEqual
    <2> QED
      BY <2>2, <2>3
  <1> QED
    BY <1>2, <1>3 DEF IsPrefix

\* A log is a prefix of itself.
LEMMA PrefixRefl ==
  ASSUME NEW S, NEW s \in Seq(S)
  PROVE  IsPrefix(s, s)
  BY LenProperties DEF IsPrefix

\* Only the empty log is a prefix of the empty one.
LEMMA PrefixOfEmpty ==
  ASSUME NEW S, NEW s \in Seq(S), IsPrefix(s, <<>>)
  PROVE  s = <<>>
  BY EmptySeq, LenProperties DEF IsPrefix

\* The empty log is a prefix of every log.
LEMMA EmptyIsPrefix ==
  ASSUME NEW S, NEW e \in Seq(S), NEW t \in Seq(S), e = <<>>
  PROVE  IsPrefix(e, t)
  <1>1. Len(e) = 0 /\ Len(t) \in Nat
    BY EmptySeq, LenProperties
  <1>2. Len(e) <= Len(t) /\ \A i \in 1..Len(e) : e[i] = t[i]
    BY <1>1
  <1> QED
    BY <1>2, PrefixPointwise

\* A log is a prefix of what is appended to it.
LEMMA PrefixAppend ==
  ASSUME NEW S, NEW s \in Seq(S), NEW t \in Seq(S), NEW x \in S, IsPrefix(s, t)
  PROVE  IsPrefix(s, Append(t, x))
  <1>1. Len(s) <= Len(t) /\ \A i \in 1..Len(s) : s[i] = t[i]
    BY PrefixPointwise
  <1>2. /\ Append(t, x) \in Seq(S)
        /\ Len(Append(t, x)) = Len(t) + 1
        /\ \A i \in 1..Len(t) : Append(t, x)[i] = t[i]
    OBVIOUS
  <1>3. Len(s) \in Nat /\ Len(t) \in Nat
    OBVIOUS
  <1>4. /\ Len(s) <= Len(Append(t, x))
        /\ \A i \in 1..Len(s) : s[i] = Append(t, x)[i]
    BY <1>1, <1>2, <1>3
  <1> QED
    BY <1>2, <1>4, PrefixPointwise

\* Two logs that are prefixes of each other are the same.
LEMMA PrefixAntisymmetric ==
  ASSUME NEW S, NEW s \in Seq(S), NEW t \in Seq(S), IsPrefix(s, t), IsPrefix(t, s)
  PROVE  s = t
  <1>1. /\ Len(s) <= Len(t) /\ Len(t) <= Len(s)
        /\ \A i \in 1..Len(s) : s[i] = t[i]
    BY PrefixPointwise
  <1>2. Len(s) \in Nat /\ Len(t) \in Nat
    BY LenProperties
  <1>3. Len(s) = Len(t)
    BY <1>1, <1>2
  <1> QED
    BY <1>1, <1>3, SeqEqual

\* A prefix of a prefix is a prefix.
LEMMA PrefixTransitive ==
  ASSUME NEW S, NEW s \in Seq(S), NEW t \in Seq(S), NEW u \in Seq(S),
         IsPrefix(s, t), IsPrefix(t, u)
  PROVE  IsPrefix(s, u)
  <1>1. /\ Len(s) <= Len(t) /\ \A i \in 1..Len(s) : s[i] = t[i]
        /\ Len(t) <= Len(u) /\ \A i \in 1..Len(t) : t[i] = u[i]
    BY PrefixPointwise
  <1>2. Len(s) \in Nat /\ Len(t) \in Nat /\ Len(u) \in Nat
    BY LenProperties
  <1>3. Len(s) <= Len(u) /\ \A i \in 1..Len(s) : s[i] = u[i]
    BY <1>1, <1>2
  <1> QED
    BY <1>3, PrefixPointwise

\* What a prefix has, the log has.
LEMMA PrefixRange ==
  ASSUME NEW S, NEW s \in Seq(S), NEW t \in Seq(S), IsPrefix(s, t)
  PROVE  Range(s) \subseteq Range(t)
  <1>1. Len(s) <= Len(t) /\ \A i \in 1..Len(s) : s[i] = t[i]
    BY PrefixPointwise
  <1>2. /\ Len(s) \in Nat /\ Len(t) \in Nat
        /\ DOMAIN s = 1..Len(s) /\ DOMAIN t = 1..Len(t)
    BY LenProperties
  <1> QED
    BY <1>1, <1>2 DEF Range

\* What holds of the commands of two sequences holds of their concatenation.
LEMMA AllPastConcat ==
  ASSUME NEW s \in Seq(Commands), NEW t \in Seq(Commands), NEW hist, NEW out,
         AllPast(s, hist, out), AllPast(t, hist, out)
  PROVE  s \o t \in Seq(Commands) /\ AllPast(s \o t, hist, out)
  <1>1. /\ s \o t \in Seq(Commands)
        /\ Len(s \o t) = Len(s) + Len(t)
        /\ \A i \in 1..Len(s) + Len(t) :
              (s \o t)[i] = IF i <= Len(s) THEN s[i] ELSE t[i - Len(s)]
    BY ConcatProperties
  <1>2. Len(s) \in Nat /\ Len(t) \in Nat
    BY LenProperties
  <1>3. ASSUME NEW i \in 1..Len(s) + Len(t)
        PROVE  Past((s \o t)[i], hist, out)
    <2>1. CASE i <= Len(s)
      BY <1>1, <1>2, <2>1 DEF AllPast
    <2>2. CASE ~(i <= Len(s))
      <3>1. i - Len(s) \in 1..Len(t)
        BY <1>2, <2>2
      <3>2. (s \o t)[i] = t[i - Len(s)]
        BY <1>1, <2>2
      <3> QED
        BY <3>1, <3>2 DEF AllPast
    <2> QED
      BY <2>1, <2>2
  <1> QED
    BY <1>1, <1>3 DEF AllPast

-----------------------------------------------------------------------------
(* What a step of the lifecycle does to pasts                              *)

\* Both kinds of commands, told apart by their keys.
LEMMA CommandKinds ==
  ASSUME NEW c \in Commands
  PROVE  /\ IsSetMeeting(c) => c.key \in Meetings /\ c.history \in Seq(Transition)
         /\ ~IsSetMeeting(c) => c.event \in StatusEvents \cup PostEvents
  BY KeyAssumption DEF Commands, IsSetMeeting

\* The commands sent to Redis are commands, each of its kind and its key.
LEMMA CommandTypes ==
  /\ \A m \in Meetings, h \in Seq(Transition) :
        /\ SetMeeting(m, h) \in Commands
        /\ IsSetMeeting(SetMeeting(m, h))
        /\ SetMeeting(m, h).key = m
        /\ SetMeeting(m, h).history = h
  /\ \A e \in StatusEvents \cup PostEvents :
        /\ SetItem(e) \in Commands
        /\ ~IsSetMeeting(SetItem(e))
        /\ SetItem(e).event = e
  BY KeyAssumption DEF Commands, SetMeeting, SetItem, IsSetMeeting

\* A past stays a past.
LEMMA PastStays ==
  ASSUME Grows, NEW cmds \in Seq(Commands), AllPast(cmds, history, outbox)
  PROVE  AllPast(cmds, history', outbox')
  <1> SUFFICES ASSUME NEW i \in 1..Len(cmds)
               PROVE  Past(cmds[i], history', outbox')
    BY DEF AllPast
  <1>1. cmds[i] \in Commands /\ Past(cmds[i], history, outbox)
    BY ElementOfSeq DEF AllPast
  <1> QED
    BY <1>1, CommandKinds DEF Past, Grows

\* A transition is appended to what the meeting has been through.
LEMMA RecordGrows ==
  ASSUME TypeOK, NEW m \in Meetings, NEW to \in Finished \cup FailStatus,
         NEW why \in Reasons, RecordTransition(m, to, why)
  PROVE  /\ \A n \in Meetings, h \in Seq(Transition) :
               IsPrefix(h, history[n]) => IsPrefix(h, history'[n])
         /\ status'[m] # Absent
         /\ \A n \in Meetings : n # m => status'[n] = status[n] /\ history'[n] = history[n]
  <1>1. status[m] \in MeetingStatus /\ to \in MeetingStatus /\ to # Absent
    BY DEF TypeOK, RecordTransition, MeetingStatus, Terminal, Finished, FailStatus, Absent
  <1>2. Move(status[m], to, why) \in Transition
    BY <1>1, MoveType
  <1>3. /\ history'[m] = Append(history[m], Move(status[m], to, why))
        /\ status'[m] = to
        /\ \A n \in Meetings : n # m => status'[n] = status[n] /\ history'[n] = history[n]
    BY DEF TypeOK, RecordTransition
  <1>4. ASSUME NEW n \in Meetings, NEW h \in Seq(Transition), IsPrefix(h, history[n])
        PROVE  IsPrefix(h, history'[n])
    <2>1. history[n] \in Seq(Transition)
      BY DEF TypeOK
    <2> QED
      BY <1>2, <1>3, <1>4, <2>1, PrefixAppend
  <1> QED
    BY <1>1, <1>3, <1>4

\* A meeting is opened with a history when it had none.
LEMMA StartGrows ==
  ASSUME IInv, NEW m \in Meetings, StartMeeting(m)
  PROVE  TypeOK' /\ Grows /\ UnopenedHasNoHistory'
  <1>1. TypeOK'
    BY TypeStart DEF IInv, RecoveryTypeOK
  <1>2. /\ history[m] = <<>> /\ status'[m] # Absent
        /\ \A n \in Meetings : n # m => status'[n] = status[n] /\ history'[n] = history[n]
    BY DEF IInv, RecoveryTypeOK, TypeOK, UnopenedHasNoHistory, StartMeeting, Absent
  <1>3. ASSUME NEW n \in Meetings, NEW h \in Seq(Transition), IsPrefix(h, history[n])
        PROVE  IsPrefix(h, history'[n])
    <2>1. CASE n = m
      <3>1. h = <<>>
        BY <1>2, <1>3, <2>1, PrefixOfEmpty
      <3>2. history'[n] \in Seq(Transition)
        BY <1>1 DEF TypeOK
      <3> QED
        BY <3>1, <3>2, EmptyIsPrefix
    <2>2. CASE n # m
      BY <1>2, <1>3, <2>2
    <2> QED
      BY <2>1, <2>2
  <1>4. outbox \subseteq outbox'
    BY DEF StartMeeting
  <1> QED
    BY <1>1, <1>2, <1>3, <1>4 DEF Grows, IInv, UnopenedHasNoHistory

\* The end of a meeting keeps the types and only adds to its history.
LEMMA EndGrows ==
  ASSUME IInv, NEW m \in Meetings, NEW why \in Reasons,
         \/ \E s \in Finished \cup {Absent} : StopMeeting(m, s, why)
         \/ \E s \in FailStatus : FailMeeting(m, s, why)
  PROVE  TypeOK' /\ Grows /\ UnopenedHasNoHistory'
  <1>1. TypeOK'
    BY TypeNext DEF IInv, RecoveryTypeOK, Next
  <1>2. PICK to \in Finished \cup FailStatus : RecordTransition(m, to, why)
    BY FinalStatusType DEF StopMeeting, FailMeeting
  <1>3. outbox \subseteq outbox'
    BY DEF StopMeeting, FailMeeting
  <1> QED
    BY <1>1, <1>2, <1>3, RecordGrows DEF Grows, IInv, RecoveryTypeOK, UnopenedHasNoHistory

-----------------------------------------------------------------------------
(* What a step sends                                                       *)

\* The elements of a finite set can be put in a sequence.
LEMMA SetToSeqType ==
  ASSUME NEW S, IsFiniteSet(S)
  PROVE  SetToSeq(S) \in Seq(S)
  <1>1. Cardinality(S) \in Nat /\ \E f \in [1..Cardinality(S) -> S] : IsInjective(f)
    BY FS_CardinalityType DEF ExistsBijection, Bijection, Injection
  <1>2. SetToSeq(S) \in [1..Cardinality(S) -> S]
    BY <1>1 DEF SetToSeq
  <1> QED
    BY <1>1, <1>2

\* Every write of an end carries what the meeting and the outbox hold after it.
LEMMA WritesPast ==
  ASSUME TypeOK', NEW m \in Meetings, NEW a, NEW b, outbox' \ outbox \subseteq {a, b}
  PROVE  Writes(m) \in Seq(Commands) /\ AllPast(Writes(m), history', outbox')
  <1> DEFINE written == {SetItem(e) : e \in outbox' \ outbox}
             record  == <<SetMeeting(m, history'[m])>>
  <1>1. IsFiniteSet({SetItem(a), SetItem(b)})
    <2>1. IsFiniteSet({SetItem(a)})
      BY FS_Singleton
    <2>2. IsFiniteSet({SetItem(a)} \cup {SetItem(b)})
      BY <2>1, FS_AddElement
    <2>3. {SetItem(a)} \cup {SetItem(b)} = {SetItem(a), SetItem(b)}
      OBVIOUS
    <2> QED
      BY <2>2, <2>3
  <1>2. written \in SUBSET {SetItem(a), SetItem(b)}
    OBVIOUS
  <1>3. SetToSeq(written) \in Seq(written)
    BY <1>1, <1>2, FS_Subset, SetToSeqType
  <1>4. \A c \in written : c \in Commands /\ Past(c, history', outbox')
    <2> SUFFICES ASSUME NEW e \in outbox' \ outbox
                 PROVE  SetItem(e) \in Commands /\ Past(SetItem(e), history', outbox')
      OBVIOUS
    <2>1. e \in StatusEvents \cup PostEvents
      BY DEF TypeOK
    <2> QED
      BY <2>1, CommandTypes DEF Past
  <1>5. SetToSeq(written) \in Seq(Commands) /\ AllPast(SetToSeq(written), history', outbox')
    <2>1. written \subseteq Commands
      BY <1>4
    <2>2. SetToSeq(written) \in Seq(Commands)
      BY <1>3, <2>1, SeqMonotonic
    <2>3. \A i \in 1..Len(SetToSeq(written)) : SetToSeq(written)[i] \in written
      BY <1>3, ElementOfSeq
    <2> HIDE DEF written
    <2> QED
      BY <1>4, <2>2, <2>3 DEF AllPast
  <1>6. record \in Seq(Commands) /\ AllPast(record, history', outbox')
    <2>1. history'[m] \in Seq(Transition)
      BY DEF TypeOK
    <2>2. IsPrefix(history'[m], history'[m])
      BY <2>1, PrefixRefl
    <2>3. SetMeeting(m, history'[m]) \in Commands /\ Past(SetMeeting(m, history'[m]), history', outbox')
      BY <2>1, <2>2, CommandTypes DEF Past
    <2> QED
      BY <2>3 DEF AllPast
  <1>7. Writes(m) = record \o SetToSeq(written)
    BY DEF Writes
  <1> HIDE DEF written, record
  <1>8. Writes(m) \in Seq(Commands)
    BY <1>5, <1>6, <1>7, ConcatProperties
  <1>9. AllPast(record \o SetToSeq(written), history', outbox')
    BY <1>5, <1>6, AllPastConcat
  <1> QED
    BY <1>7, <1>8, <1>9

\* The three writes of a start.
LEMMA StartWritesPast ==
  ASSUME TypeOK', NEW m \in Meetings, StartMeeting(m), NEW h, h = history'[m]
  PROVE  LET cmds == <<SetMeeting(m, SubSeq(h, 1, 1)),
                       SetMeeting(m, SubSeq(h, 1, 2)), SetItem(StatusEvent(m, h[2])),
                       SetMeeting(m, h),               SetItem(StatusEvent(m, h[3]))>>
         IN  cmds \in Seq(Commands) /\ AllPast(cmds, history', outbox')
  <1>1. h \in Seq(Transition)
    BY DEF TypeOK
  <1>2. Len(h) = 3 /\ StatusEvent(m, h[2]) \in outbox' /\ StatusEvent(m, h[3]) \in outbox'
    <2>1. h = <<Move(Absent, "pending", "meeting_created"),
                Move("pending", "starting", "meeting_start_requested"),
                Move("starting", "in_meeting", "meeting_started")>>
      BY <1>1 DEF StartMeeting, TypeOK
    <2> QED
      BY <2>1 DEF StartMeeting
  <1>3. ASSUME NEW n \in 1..2
        PROVE  SubSeq(h, 1, n) \in Seq(Transition) /\ IsPrefix(SubSeq(h, 1, n), h)
    <2>1. \A i \in 1..n : h[i] \in Transition
      BY <1>1, <1>2, ElementOfSeq
    <2>2. /\ SubSeq(h, 1, n) \in Seq(Transition)
          /\ Len(SubSeq(h, 1, n)) = n
          /\ \A i \in 1..n : SubSeq(h, 1, n)[i] = h[i]
      BY <2>1, SubSeqProperties
    <2>3. /\ Len(SubSeq(h, 1, n)) <= Len(h)
          /\ \A i \in 1..Len(SubSeq(h, 1, n)) : SubSeq(h, 1, n)[i] = h[i]
      BY <1>2, <2>2
    <2> QED
      BY <1>1, <2>2, <2>3, PrefixPointwise
  <1>4. ASSUME NEW k \in Seq(Transition), IsPrefix(k, h)
        PROVE  SetMeeting(m, k) \in Commands /\ Past(SetMeeting(m, k), history', outbox')
    BY <1>4, CommandTypes DEF Past
  <1>5. ASSUME NEW e \in outbox'
        PROVE  SetItem(e) \in Commands /\ Past(SetItem(e), history', outbox')
    <2>1. e \in StatusEvents \cup PostEvents
      BY DEF TypeOK
    <2> QED
      BY <2>1, CommandTypes DEF Past
  <1>6. IsPrefix(h, h)
    BY <1>1, PrefixRefl
  <1> DEFINE c1 == SetMeeting(m, SubSeq(h, 1, 1))
             c2 == SetMeeting(m, SubSeq(h, 1, 2))
             c3 == SetItem(StatusEvent(m, h[2]))
             c4 == SetMeeting(m, h)
             c5 == SetItem(StatusEvent(m, h[3]))
  <1>7. \A c \in {c1, c2, c3, c4, c5} : c \in Commands /\ Past(c, history', outbox')
    <2>1. c1 \in Commands /\ Past(c1, history', outbox')
      <3>1. 1 \in 1..2
        OBVIOUS
      <3>2. SubSeq(h, 1, 1) \in Seq(Transition) /\ IsPrefix(SubSeq(h, 1, 1), h)
        BY <1>3, <3>1
      <3> QED
        BY <1>4, <3>2
    <2>2. c2 \in Commands /\ Past(c2, history', outbox')
      <3>1. 2 \in 1..2
        OBVIOUS
      <3>2. SubSeq(h, 1, 2) \in Seq(Transition) /\ IsPrefix(SubSeq(h, 1, 2), h)
        BY <1>3, <3>1
      <3> QED
        BY <1>4, <3>2
    <2>3. c3 \in Commands /\ Past(c3, history', outbox')
      BY <1>2, <1>5
    <2>4. c4 \in Commands /\ Past(c4, history', outbox')
      BY <1>1, <1>4, <1>6
    <2>5. c5 \in Commands /\ Past(c5, history', outbox')
      BY <1>2, <1>5
    <2> QED
      BY <2>1, <2>2, <2>3, <2>4, <2>5
  <1> HIDE DEF c1, c2, c3, c4, c5
  <1>8. <<c1, c2, c3, c4, c5>> \in Seq(Commands)
    BY <1>7
  <1>9. \A i \in 1..Len(<<c1, c2, c3, c4, c5>>) :
           <<c1, c2, c3, c4, c5>>[i] \in {c1, c2, c3, c4, c5}
    OBVIOUS
  <1>10. AllPast(<<c1, c2, c3, c4, c5>>, history', outbox')
    BY <1>7, <1>9 DEF AllPast
  <1> QED
    BY <1>8, <1>10 DEF c1, c2, c3, c4, c5

-----------------------------------------------------------------------------
(* The steps                                                               *)

\* There is no meeting at first.
LEMMA RecoveryInitHolds == RecoveryInit => IInv
  <1> SUFFICES ASSUME RecoveryInit
               PROVE  IInv
    OBVIOUS
  <1>1. TypeOK
    BY TypeInit DEF RecoveryInit
  <1>2. <<>> \in Seq(Commands) /\ <<>> \in Seq(Transition) /\ Len(<<>>) = 0
    BY EmptySeq
  <1>3. RecoveryTypeOK
    <2>1. conn \in {"up", "down", "handshake"} /\ reconnected \in BOOLEAN /\ rejected \in BOOLEAN
      BY DEF RecoveryInit
    <2>2. pipe \in Seq(Commands) /\ waiting \in Seq(Commands) /\ Len(waiting) <= QueueLimit
      BY <1>2, QueueAssumption DEF RecoveryInit
    <2>3. savedHistory \in [Meetings -> Seq(Transition)]
      BY <1>2 DEF RecoveryInit, Nothing
    <2>4. /\ savedOutbox \subseteq StatusEvents \cup PostEvents
          /\ passedHistory \in [Meetings -> Seq(Transition)]
          /\ passedItems \subseteq StatusEvents \cup PostEvents /\ passedOver \in 0..MaxPassed
      BY <1>2, QueueAssumption DEF RecoveryInit, NothingPassed, Nothing
    <2> QED
      BY <1>1, <2>1, <2>2, <2>3, <2>4 DEF RecoveryTypeOK
  <1>4. UnopenedHasNoHistory /\ AllPast(pipe, history, outbox) /\ AllPast(waiting, history, outbox)
    BY <1>2 DEF RecoveryInit, Init, UnopenedHasNoHistory, AllPast
  <1>5. ASSUME NEW m \in Meetings
        PROVE  IsPrefix(savedHistory[m], history[m])
    <2>1. savedHistory[m] = history[m] /\ history[m] \in Seq(Transition)
      BY <1>1 DEF RecoveryInit, Init, Nothing, TypeOK
    <2> QED
      BY <2>1, PrefixRefl
  <1>6. SavedIsPast
    BY <1>5 DEF RecoveryInit, SavedIsPast
  <1> QED
    BY <1>3, <1>4, <1>6 DEF IInv, RecoveryInit

\* While nothing was passed over, Redis holds a past of the process.
LEMMA UnlostIsPast ==
  ASSUME IInv, ~reconnected
  PROVE  (\A m \in Meetings : IsPrefix(savedHistory[m], history[m])) /\ savedOutbox \subseteq outbox
  <1>1. ASSUME NEW m \in Meetings, savedHistory[m] = passedHistory[m]
        PROVE  IsPrefix(savedHistory[m], history[m])
    <2>1. /\ savedHistory[m] = <<>> /\ savedHistory[m] \in Seq(Transition)
          /\ history[m] \in Seq(Transition)
      BY <1>1 DEF IInv, RecoveryTypeOK, TypeOK, NothingPassed, Nothing
    <2> QED
      BY <2>1, EmptyIsPrefix
  <1> QED
    BY <1>1 DEF IInv, SavedIsPast

\* A step of the lifecycle that sends pasts: written or queued, or cut where the queue
\* is full.
LEMMA SendPreserves ==
  ASSUME IInv, TypeOK', Grows, UnopenedHasNoHistory', NEW cmds \in Seq(Commands),
         AllPast(cmds, history', outbox'), Send(cmds)
  PROVE  IInv'
  <1> DEFINE queued == waiting \o cmds
             cut    == SubSeq(queued, 1, QueueLimit)
  <1>1. /\ pipe \in Seq(Commands) /\ AllPast(pipe, history', outbox')
        /\ waiting \in Seq(Commands) /\ AllPast(waiting, history', outbox')
    BY PastStays DEF IInv, RecoveryTypeOK
  <1>2. queued \in Seq(Commands) /\ AllPast(queued, history', outbox')
    BY <1>1, AllPastConcat
  <1>3. pipe \o cmds \in Seq(Commands) /\ AllPast(pipe \o cmds, history', outbox')
    BY <1>1, AllPastConcat
  <1>4. ASSUME Len(queued) > QueueLimit
        PROVE  cut \in Seq(Commands) /\ Len(cut) <= QueueLimit /\ AllPast(cut, history', outbox')
    <2> HIDE DEF queued
    <2>1. Len(queued) \in Nat /\ \A i \in 1..QueueLimit : queued[i] \in Commands
      BY <1>2, <1>4, QueueAssumption, LenProperties, ElementOfSeq
    <2>2. /\ cut \in Seq(Commands)
          /\ Len(cut) = IF 1 <= QueueLimit THEN QueueLimit - 1 + 1 ELSE 0
          /\ \A i \in 1..QueueLimit - 1 + 1 : cut[i] = queued[1 + i - 1]
      BY <2>1, QueueAssumption, SubSeqProperties
    <2>3. Len(cut) = QueueLimit /\ \A i \in 1..QueueLimit : cut[i] = queued[i]
      BY <2>2, QueueAssumption
    <2>4. \A i \in 1..QueueLimit : Past(queued[i], history', outbox')
      BY <1>2, <1>4, <2>1, QueueAssumption DEF AllPast
    <2> QED
      BY <2>2, <2>3, <2>4, QueueAssumption DEF AllPast
  <1>5. /\ waiting' \in Seq(Commands) /\ Len(waiting') <= QueueLimit
        /\ AllPast(waiting', history', outbox')
    <2>1. CASE UNCHANGED waiting
      BY <1>1, <2>1 DEF IInv, RecoveryTypeOK
    <2>2. CASE waiting' = IF Len(queued) > QueueLimit THEN cut ELSE queued
      <3>1. CASE Len(queued) > QueueLimit
        BY <1>4, <2>2, <3>1
      <3>2. CASE ~(Len(queued) > QueueLimit)
        <4>1. Len(queued) \in Nat
          BY <1>2, LenProperties
        <4>2. Len(queued) <= QueueLimit
          BY <3>2, <4>1, QueueAssumption
        <4> QED
          BY <1>2, <2>2, <3>2, <4>2
      <3> QED
        BY <3>1, <3>2
    <2> QED
      BY <2>1, <2>2 DEF Send
  <1>6. pipe' \in Seq(Commands) /\ AllPast(pipe', history', outbox')
    BY <1>1, <1>3 DEF Send
  <1>7. RecoveryTypeOK'
    <2>1. /\ conn' = conn /\ savedHistory' = savedHistory /\ savedOutbox' = savedOutbox
          /\ UNCHANGED <<passedHistory, passedItems, passedOver>>
      BY DEF Send, passed
    <2>2. reconnected' \in BOOLEAN /\ rejected' \in BOOLEAN
      BY DEF Send, IInv, RecoveryTypeOK
    <2> QED
      BY <1>5, <1>6, <2>1, <2>2 DEF IInv, RecoveryTypeOK
  <1>8. SavedIsPast'
    BY DEF Send, passed, IInv, RecoveryTypeOK, SavedIsPast, Grows
  <1>9. ~reconnected' => passedHistory' = NothingPassed /\ passedItems' = {}
    BY DEF Send, passed, IInv
  <1> QED
    BY <1>5, <1>6, <1>7, <1>8, <1>9 DEF IInv, NothingPassed

\* Redis executes a command, and what it then holds is a past.
LEMMA LandPreserves ==
  ASSUME IInv, Land
  PROVE  IInv'
  <1> DEFINE c == Head(pipe)
  <1>1. /\ pipe \in Seq(Commands) /\ pipe # <<>>
        /\ pipe' = Tail(pipe)
        /\ UNCHANGED <<vars, conn, waiting, witnesses>>
    BY DEF Land, IInv, RecoveryTypeOK
  <1>2. /\ Tail(pipe) \in Seq(Commands)
        /\ Len(Tail(pipe)) = Len(pipe) - 1
        /\ \A i \in 1..Len(Tail(pipe)) : Tail(pipe)[i] = pipe[i + 1]
    BY <1>1, HeadTailProperties
  <1>3. Len(pipe) \in Nat \ {0} /\ c = pipe[1]
    BY <1>1, EmptySeq
  <1>4. c \in Commands /\ Past(c, history, outbox)
    BY <1>1, <1>3, ElementOfSeq DEF IInv, AllPast
  <1>5. AllPast(Tail(pipe), history, outbox)
    BY <1>2, <1>3 DEF IInv, AllPast
  <1>6. /\ savedHistory' \in [Meetings -> Seq(Transition)]
        /\ \A m \in Meetings :
              IsPrefix(savedHistory'[m], history[m]) \/ savedHistory'[m] = passedHistory[m]
        /\ savedOutbox' \subseteq StatusEvents \cup PostEvents
        /\ savedOutbox' \subseteq outbox \cup passedItems
    <2>1. CASE IsSetMeeting(c)
      <3>1. c.key \in Meetings /\ c.history \in Seq(Transition)
        BY <1>4, <2>1, CommandKinds
      <3>2. IsPrefix(c.history, history[c.key])
        BY <1>4, <2>1 DEF Past
      <3>3. /\ savedHistory' = [savedHistory EXCEPT ![c.key] = c.history]
            /\ savedOutbox' = savedOutbox
        BY <2>1 DEF Land, Executed
      <3> HIDE DEF c
      <3> QED
        BY <3>1, <3>2, <3>3 DEF IInv, RecoveryTypeOK, SavedIsPast
    <2>2. CASE ~IsSetMeeting(c)
      <3>1. c.event \in StatusEvents \cup PostEvents
        BY <1>4, <2>2, CommandKinds
      <3>2. c.event \in outbox
        BY <1>4, <2>2 DEF Past
      <3>3. savedHistory' = savedHistory /\ savedOutbox' = savedOutbox \cup {c.event}
        BY <2>2 DEF Land, Executed
      <3> HIDE DEF c
      <3> QED
        BY <3>1, <3>2, <3>3 DEF IInv, RecoveryTypeOK, SavedIsPast
    <2> QED
      BY <2>1, <2>2
  <1>7. RecoveryTypeOK'
    BY <1>1, <1>2, <1>6 DEF IInv, RecoveryTypeOK, TypeOK, vars, witnesses, passed
  <1>8. UnopenedHasNoHistory' /\ AllPast(waiting', history', outbox')
    BY <1>1 DEF IInv, UnopenedHasNoHistory, vars
  <1>9. SavedIsPast'
    BY <1>1, <1>6 DEF SavedIsPast, vars, witnesses, passed
  <1>10. AllPast(pipe', history', outbox')
    BY <1>1, <1>5 DEF vars
  <1>11. ~reconnected' => passedHistory' = NothingPassed /\ passedItems' = {}
    BY <1>1 DEF IInv, witnesses, passed
  <1> QED
    BY <1>7, <1>8, <1>9, <1>10, <1>11 DEF IInv, NothingPassed

\* The connection changes nothing of the meetings.
LEMMA ConnectionPreserves ==
  ASSUME IInv, Disconnect \/ Connect \/ Ready
  PROVE  IInv'
  <1>1. UNCHANGED <<vars, savedHistory, savedOutbox, passed>>
    BY DEF Disconnect, Connect, Ready, witnesses
  <1>2. <<>> \in Seq(Commands) /\ Len(<<>>) = 0
    BY EmptySeq
  <1>3. pipe \o waiting \in Seq(Commands) /\ AllPast(pipe \o waiting, history, outbox)
    BY AllPastConcat DEF IInv, RecoveryTypeOK
  <1>4. AllPast(<<>>, history, outbox)
    BY <1>2 DEF AllPast
  <1>5. pipe' \in {pipe, <<>>, pipe \o waiting} /\ waiting' \in {waiting, <<>>}
    BY DEF Disconnect, Connect, Ready, witnesses
  <1>6. /\ pipe' \in Seq(Commands) /\ AllPast(pipe', history', outbox')
        /\ waiting' \in Seq(Commands) /\ AllPast(waiting', history', outbox')
        /\ Len(waiting') <= QueueLimit
    <2>1. history' = history /\ outbox' = outbox
      BY <1>1 DEF vars
    <2>2. pipe' \in Seq(Commands) /\ AllPast(pipe', history, outbox)
      BY <1>2, <1>3, <1>4, <1>5 DEF IInv, RecoveryTypeOK
    <2>3. waiting' \in Seq(Commands) /\ AllPast(waiting', history, outbox)
      BY <1>2, <1>4, <1>5 DEF IInv, RecoveryTypeOK
    <2>4. Len(waiting') <= QueueLimit
      <3>1. CASE waiting' = waiting
        BY <3>1 DEF IInv, RecoveryTypeOK
      <3>2. CASE waiting' = <<>>
        BY <1>2, <3>2, QueueAssumption
      <3> QED
        BY <1>5, <3>1, <3>2
    <2> QED
      BY <2>1, <2>2, <2>3, <2>4
  <1>7. conn' \in {"up", "down", "handshake"} /\ reconnected' \in BOOLEAN /\ rejected' \in BOOLEAN
    BY DEF Disconnect, Connect, Ready, witnesses, IInv, RecoveryTypeOK
  <1>8. TypeOK' /\ UnopenedHasNoHistory' /\ SavedIsPast'
    BY <1>1 DEF IInv, RecoveryTypeOK, TypeOK, UnopenedHasNoHistory, SavedIsPast, vars, passed
  <1>9. /\ savedHistory' \in [Meetings -> Seq(Transition)]
        /\ savedOutbox' \subseteq StatusEvents \cup PostEvents
        /\ passedHistory' \in [Meetings -> Seq(Transition)]
        /\ passedItems' \subseteq StatusEvents \cup PostEvents /\ passedOver' \in 0..MaxPassed
    BY <1>1 DEF IInv, RecoveryTypeOK, passed
  <1>10. ~reconnected' => passedHistory' = NothingPassed /\ passedItems' = {}
    BY <1>1 DEF IInv, Disconnect, Connect, Ready, witnesses, passed
  <1> QED
    BY <1>6, <1>7, <1>8, <1>9, <1>10 DEF IInv, RecoveryTypeOK, NothingPassed

\* The new process knows what Redis holds, and nothing is on its way.
LEMMA RestartPreserves ==
  ASSUME IInv, Restart
  PROVE  IInv'
  <1> PICK skipped \in SUBSET {m \in Meetings : savedHistory[m] # Nothing},
           skippedItems \in SUBSET savedOutbox :
              Hydrate(skipped, skippedItems) /\ passedOver' <= MaxPassed
    BY DEF Restart
  <1>1. /\ history' = [m \in Meetings |-> IF m \in skipped THEN <<>> ELSE savedHistory[m]]
        /\ passedHistory' = [m \in Meetings |-> IF m \in skipped THEN savedHistory[m] ELSE <<>>]
        /\ outbox' = savedOutbox \ skippedItems /\ passedItems' = skippedItems
        /\ queuedMeetings' = {}
        /\ conn' = "up" /\ pipe' = <<>> /\ waiting' = <<>>
        /\ UNCHANGED <<now, savedHistory, savedOutbox, rejected>>
        /\ reconnected' = (reconnected \/ skipped # {} \/ skippedItems # {})
    BY DEF Hydrate, Nothing
  <1>2. /\ savedHistory \in [Meetings -> Seq(Transition)] /\ <<>> \in Seq(Transition)
        /\ history' \in [Meetings -> Seq(Transition)]
        /\ passedHistory' \in [Meetings -> Seq(Transition)]
    <2>1. savedHistory \in [Meetings -> Seq(Transition)] /\ <<>> \in Seq(Transition)
      BY EmptySeq DEF IInv, RecoveryTypeOK
    <2> QED
      BY <1>1, <2>1
  <1>3. ASSUME NEW m \in Meetings
        PROVE  /\ history'[m] = <<>> => status'[m] = Absent
               /\ history'[m] # <<>> => status'[m] \in MeetingStatus
    <2>1. status'[m] = IF history'[m] = <<>> THEN Absent ELSE Last(history'[m]).toStatus
      BY DEF Hydrate, Nothing
    <2>2. ASSUME history'[m] # <<>>
          PROVE  Last(history'[m]) \in Transition
      <3>1. Len(history'[m]) \in Nat \ {0}
        BY <1>2, <2>2, EmptySeq
      <3> QED
        BY <1>2, <3>1, ElementOfSeq DEF Last
    <2> QED
      BY <2>1, <2>2 DEF Transition
  <1>4. Absent \notin MeetingStatus
    BY DEF Absent, MeetingStatus, Open, Terminal, Finished, FailStatus
  <1>5. TypeOK'
    <2>1. status' \in [Meetings -> MeetingStatus \cup {Absent}]
      <3>1. status' = [m \in Meetings |-> status'[m]]
        BY DEF Hydrate
      <3> QED
        BY <1>3, <3>1
    <2>2. outbox' \subseteq StatusEvents \cup PostEvents
      BY <1>1 DEF IInv, RecoveryTypeOK
    <2> QED
      BY <1>1, <1>2, <2>1, <2>2 DEF IInv, RecoveryTypeOK, TypeOK
  <1>6. UnopenedHasNoHistory'
    BY <1>3, <1>4 DEF UnopenedHasNoHistory
  <1>7. <<>> \in Seq(Commands) /\ Len(<<>>) = 0
    BY EmptySeq
  <1>8. RecoveryTypeOK'
    <2>1. passedOver' \in 0..MaxPassed
      BY QueueAssumption DEF Hydrate, IInv, RecoveryTypeOK
    <2>2. /\ passedItems' \subseteq StatusEvents \cup PostEvents
          /\ reconnected' \in BOOLEAN /\ rejected' \in BOOLEAN
          /\ savedOutbox' \subseteq StatusEvents \cup PostEvents
      BY <1>1 DEF IInv, RecoveryTypeOK
    <2> QED
      BY <1>1, <1>2, <1>5, <1>7, <2>1, <2>2, QueueAssumption DEF RecoveryTypeOK
  <1>9. AllPast(pipe', history', outbox') /\ AllPast(waiting', history', outbox')
    BY <1>1, <1>7 DEF AllPast
  <1>10. SavedIsPast'
    <2>1. ASSUME NEW m \in Meetings
          PROVE  IsPrefix(savedHistory'[m], history'[m]) \/ savedHistory'[m] = passedHistory'[m]
      <3>1. savedHistory[m] \in Seq(Transition) /\ savedHistory'[m] = savedHistory[m]
        BY <1>1, <1>2
      <3>2. CASE m \in skipped
        BY <1>1, <3>1, <3>2
      <3>3. CASE m \notin skipped
        <4>1. history'[m] = savedHistory[m]
          BY <1>1, <3>3
        <4> QED
          BY <3>1, <4>1, PrefixRefl
      <3> QED
        BY <3>2, <3>3
    <2> QED
      BY <1>1, <2>1 DEF SavedIsPast
  <1>11. ~reconnected' => passedHistory' = NothingPassed /\ passedItems' = {}
    BY <1>1 DEF NothingPassed, Nothing
  <1> QED
    BY <1>6, <1>8, <1>9, <1>10, <1>11 DEF IInv, NothingPassed

\* A hydration on a connection that is not lost reads every key.
LEMMA RestartReadsAll ==
  ASSUME Restart, ~reconnected', savedHistory \in [Meetings -> Seq(Transition)]
  PROVE  history' = savedHistory /\ outbox' = savedOutbox /\ ~reconnected
  <1> PICK skipped \in SUBSET {m \in Meetings : savedHistory[m] # Nothing},
           skippedItems \in SUBSET savedOutbox : Hydrate(skipped, skippedItems)
    BY DEF Restart
  <1>1. skipped = {} /\ skippedItems = {} /\ ~reconnected
    BY DEF Hydrate
  <1> QED
    BY <1>1 DEF Hydrate

\* Every step preserves the inductive invariant.
LEMMA RecoveryStepPreserves == IInv /\ [RecoveryNext]_recoveryVars => IInv'
  <1> SUFFICES ASSUME IInv, [RecoveryNext]_recoveryVars
               PROVE  IInv'
    OBVIOUS
  <1>1. ASSUME NEW m \in Meetings, PersistedStart(m)
        PROVE  IInv'
    <2>1. StartMeeting(m)
      BY <1>1 DEF PersistedStart
    <2>2. TypeOK' /\ Grows /\ UnopenedHasNoHistory'
      BY <2>1, StartGrows
    <2> DEFINE h    == history'[m]
               cmds == <<SetMeeting(m, SubSeq(h, 1, 1)),
                         SetMeeting(m, SubSeq(h, 1, 2)), SetItem(StatusEvent(m, h[2])),
                         SetMeeting(m, h),               SetItem(StatusEvent(m, h[3]))>>
    <2>3. cmds \in Seq(Commands) /\ AllPast(cmds, history', outbox')
      BY <2>1, <2>2, StartWritesPast
    <2>4. Send(cmds)
      BY <1>1 DEF PersistedStart
    <2> QED
      BY <2>2, <2>3, <2>4, SendPreserves
  <1>2. ASSUME NEW m \in Meetings, NEW s \in Finished \cup {Absent}, NEW why \in Reasons,
               PersistedStop(m, s, why)
        PROVE  IInv'
    <2>1. StopMeeting(m, s, why) /\ Send(Writes(m))
      BY <1>2 DEF PersistedStop
    <2>2. TypeOK' /\ Grows /\ UnopenedHasNoHistory'
      BY <2>1, EndGrows
    <2>3. outbox' \ outbox \subseteq
             {StatusEvent(m, Move(status[m], FinalStatus(s), why)), PostEvent(m)}
      BY <2>1 DEF StopMeeting, StatusWebhooks, PostProcessing
    <2>4. Writes(m) \in Seq(Commands) /\ AllPast(Writes(m), history', outbox')
      BY <2>2, <2>3, WritesPast
    <2> QED
      BY <2>1, <2>2, <2>4, SendPreserves
  <1>3. ASSUME NEW m \in Meetings, NEW s \in FailStatus, NEW why \in Reasons,
               PersistedFail(m, s, why)
        PROVE  IInv'
    <2>1. FailMeeting(m, s, why) /\ Send(Writes(m))
      BY <1>3 DEF PersistedFail
    <2>2. TypeOK' /\ Grows /\ UnopenedHasNoHistory'
      BY <2>1, EndGrows
    <2>3. outbox' \ outbox \subseteq
             {StatusEvent(m, Move(status[m], s, why)), PostEvent(m)}
      BY <2>1 DEF FailMeeting, StatusWebhooks
    <2>4. Writes(m) \in Seq(Commands) /\ AllPast(Writes(m), history', outbox')
      BY <2>2, <2>3, WritesPast
    <2> QED
      BY <2>1, <2>2, <2>4, SendPreserves
  <1>4. CASE (ClearQueued \/ Tick) /\ UNCHANGED redisVars
    <2>1. TypeOK'
      BY <1>4, TypeNext DEF IInv, RecoveryTypeOK, Next
    <2>2. UNCHANGED <<status, history, outbox, redisVars>>
      BY <1>4 DEF ClearQueued, Tick
    <2> QED
      BY <2>1, <2>2 DEF redisVars, witnesses, passed, IInv, RecoveryTypeOK, UnopenedHasNoHistory,
         SavedIsPast, NothingPassed
  <1>5. CASE UNCHANGED recoveryVars
    BY <1>5 DEF recoveryVars, redisVars, witnesses, passed, vars, IInv, RecoveryTypeOK, TypeOK,
       UnopenedHasNoHistory, SavedIsPast, NothingPassed
  <1> QED
    BY <1>1, <1>2, <1>3, <1>4, <1>5, LandPreserves, ConnectionPreserves, RestartPreserves
       DEF RecoveryNext

-----------------------------------------------------------------------------
\* The types of the recovery layer (PersistedMeetingStore, WebhookOutbox and the client).
THEOREM RecoveryTypeCorrect == RecoverySpec => []RecoveryTypeOK
  <1>1. IInv => RecoveryTypeOK
    BY DEF IInv
  <1> QED
    BY <1>1, RecoveryInitHolds, RecoveryStepPreserves, PTL DEF RecoverySpec

\* Whatever becomes of connections, writes, reads and processes, what Redis holds under a
\* meeting's key is a past of what the running process holds of it, or the record that its
\* hydration passed over as it was, and a webhook's item was enqueued or passed over
\* (persist and loadAll of PersistedMeetingStore and WebhookOutbox).
THEOREM SavedIsPastCorrect == RecoverySpec => []SavedIsPast
  <1>1. IInv => SavedIsPast
    BY DEF IInv
  <1> QED
    BY <1>1, RecoveryInitHolds, RecoveryStepPreserves, PTL DEF RecoverySpec

-----------------------------------------------------------------------------
(* Connections that were never lost                                        *)

\* Commands in order after commands in order are in order, if no later one writes an older history.
LEMMA OrderConcat ==
  ASSUME NEW s \in Seq(Commands), NEW t \in Seq(Commands), NEW held,
         Ordered(s, held), Backed(s, held), Ordered(t, held), Backed(t, held),
         \A j \in 1..Len(s), k \in 1..Len(t) :
             IsSetMeeting(s[j]) /\ IsSetMeeting(t[k]) /\ s[j].key = t[k].key
                 => IsPrefix(s[j].history, t[k].history)
  PROVE  Ordered(s \o t, held) /\ Backed(s \o t, held)
  <1> DEFINE st == s \o t
  <1>1. Len(s) \in Nat /\ Len(t) \in Nat /\ Len(st) = Len(s) + Len(t)
    BY LenProperties, ConcatProperties
  <1>2. /\ \A i \in 1..Len(s) : st[i] = s[i]
        /\ \A i \in 1..Len(t) : st[i + Len(s)] = t[i]
    BY <1>1, ConcatProperties
  <1>3. \A i \in 1..Len(st) : i \in 1..Len(s) \/ \E k \in 1..Len(t) : i = k + Len(s)
    <2> SUFFICES ASSUME NEW i \in 1..Len(st), i \notin 1..Len(s)
                 PROVE  \E k \in 1..Len(t) : i = k + Len(s)
      OBVIOUS
    <2>1. i - Len(s) \in 1..Len(t) /\ i = (i - Len(s)) + Len(s)
      BY <1>1
    <2> QED
      BY <2>1
  <1> HIDE DEF st
  <1>4. ASSUME NEW k \in 1..Len(st), IsSetMeeting(st[k])
        PROVE  IsPrefix(held[st[k].key], st[k].history)
    BY <1>2, <1>3, <1>4 DEF Ordered
  <1>5. ASSUME NEW j \in 1..Len(st), NEW k \in 1..Len(st), j < k,
               IsSetMeeting(st[j]), IsSetMeeting(st[k]), st[j].key = st[k].key
        PROVE  IsPrefix(st[j].history, st[k].history)
    <2>1. CASE k \in 1..Len(s)
      <3>1. j \in 1..Len(s)
        BY <1>1, <1>5, <2>1
      <3> QED
        BY <1>2, <1>5, <2>1, <3>1 DEF Ordered
    <2>2. CASE j \in 1..Len(s) /\ k \notin 1..Len(s)
      BY <1>2, <1>3, <1>5, <2>2
    <2>3. CASE j \notin 1..Len(s)
      <3>1. PICK i \in 1..Len(t) : j = i + Len(s)
        BY <1>3, <2>3
      <3>2. k \notin 1..Len(s)
        BY <1>1, <1>5, <3>1
      <3>3. PICK l \in 1..Len(t) : k = l + Len(s)
        BY <1>3, <3>2
      <3>4. i < l
        BY <1>1, <1>5, <3>1, <3>3
      <3> QED
        BY <1>2, <1>5, <3>1, <3>3, <3>4 DEF Ordered
    <2> QED
      BY <2>1, <2>2, <2>3
  <1>6. ASSUME NEW k \in 1..Len(st), IsStatusItem(st[k]),
               st[k].event.transition \notin Range(held[st[k].event.meeting])
        PROVE  \E j \in 1..(k - 1) : Carries(st[j], st[k].event)
    <2>1. CASE k \in 1..Len(s)
      <3>1. PICK j \in 1..(k - 1) : Carries(s[j], s[k].event)
        BY <1>2, <1>6, <2>1 DEF Backed
      <3>2. j \in 1..Len(s)
        BY <1>1, <2>1
      <3> QED
        BY <1>2, <2>1, <3>1, <3>2
    <2>2. CASE k \notin 1..Len(s)
      <3>1. PICK l \in 1..Len(t) : k = l + Len(s)
        BY <1>3, <2>2
      <3>2. st[k] = t[l]
        BY <1>2, <3>1
      <3>3. PICK j \in 1..(l - 1) : Carries(t[j], t[l].event)
        BY <1>6, <3>2 DEF Backed
      <3>4. j \in 1..Len(t) /\ j + Len(s) \in 1..(k - 1)
        BY <1>1, <3>1
      <3>5. st[j + Len(s)] = t[j]
        BY <1>2, <3>4
      <3> QED
        BY <3>2, <3>3, <3>4, <3>5
    <2> QED
      BY <2>1, <2>2
  <1> QED
    BY <1>4, <1>5, <1>6 DEF st, Ordered, Backed

\* A step of the lifecycle that sends writes of one meeting, in order, none of them
\* older than what the meeting has been through.
LEMMA SendOrdered ==
  ASSUME OrderInv, IInv', NEW m \in Meetings, NEW cmds \in Seq(Commands), Send(cmds),
         \A k \in 1..Len(cmds) :
             IsSetMeeting(cmds[k]) =>
                 cmds[k].key = m /\ IsPrefix(history[m], cmds[k].history),
         \A j, k \in 1..Len(cmds) :
             j < k /\ IsSetMeeting(cmds[j]) /\ IsSetMeeting(cmds[k])
                 => IsPrefix(cmds[j].history, cmds[k].history),
         Backed(cmds, savedHistory)
  PROVE  OrderInv'
  <1>1. CASE reconnected
    BY <1>1 DEF Send, OrderInv, WebhookNeverAheadOfRecord
  <1>2. CASE ~reconnected
    <2>1. /\ conn = "up" /\ waiting = <<>>
          /\ Ordered(pipe, savedHistory) /\ Backed(pipe, savedHistory)
          /\ pipe \in Seq(Commands) /\ AllPast(pipe, history, outbox)
          /\ history[m] \in Seq(Transition)
          /\ savedHistory[m] \in Seq(Transition) /\ IsPrefix(savedHistory[m], history[m])
      BY <1>2, UnlostIsPast DEF OrderInv, IInv, RecoveryTypeOK, TypeOK
    <2>2. /\ pipe' = pipe \o cmds
          /\ UNCHANGED <<conn, savedHistory, savedOutbox, reconnected, waiting>>
      BY <2>1 DEF Send
    <2>3. \A k \in 1..Len(cmds) : cmds[k] \in Commands
      BY ElementOfSeq
    <2>4. \A k \in 1..Len(pipe) : pipe[k] \in Commands
      BY <2>1, ElementOfSeq
    <2>5. ASSUME NEW k \in 1..Len(cmds), IsSetMeeting(cmds[k])
          PROVE  IsPrefix(savedHistory[cmds[k].key], cmds[k].history)
      <3>1. cmds[k].key = m /\ IsPrefix(history[m], cmds[k].history)
        BY <2>5
      <3>2. cmds[k].history \in Seq(Transition)
        BY <2>3, <2>5, CommandKinds
      <3> QED
        BY <2>1, <3>1, <3>2, PrefixTransitive
    <2>6. Ordered(cmds, savedHistory)
      BY <2>5 DEF Ordered
    <2>7. ASSUME NEW j \in 1..Len(pipe), NEW k \in 1..Len(cmds), IsSetMeeting(pipe[j]),
                 IsSetMeeting(cmds[k]), pipe[j].key = cmds[k].key
          PROVE  IsPrefix(pipe[j].history, cmds[k].history)
      <3>1. cmds[k].key = m /\ IsPrefix(history[m], cmds[k].history)
        BY <2>7
      <3>2. cmds[k].history \in Seq(Transition) /\ pipe[j].history \in Seq(Transition)
        BY <2>3, <2>4, <2>7, CommandKinds
      <3>3. IsPrefix(pipe[j].history, history[m])
        BY <2>1, <2>7, <3>1 DEF AllPast, Past
      <3> QED
        BY <2>1, <3>1, <3>2, <3>3, PrefixTransitive
    <2>8. Ordered(pipe \o cmds, savedHistory) /\ Backed(pipe \o cmds, savedHistory)
      BY <2>1, <2>6, <2>7, OrderConcat
    <2>9. WebhookNeverAheadOfRecord'
      BY <2>2 DEF OrderInv, WebhookNeverAheadOfRecord
    <2> QED
      BY <2>1, <2>2, <2>8, <2>9 DEF OrderInv
  <1> QED
    BY <1>1, <1>2

\* A start, and the writes it queues, preserve the order.
LEMMA StartOrdered ==
  ASSUME OrderInv, IInv', NEW m \in Meetings, PersistedStart(m)
  PROVE  OrderInv'
  <1>1. StartMeeting(m) /\ TypeOK' /\ history[m] = <<>>
    BY DEF PersistedStart, OrderInv, IInv, RecoveryTypeOK, UnopenedHasNoHistory, StartMeeting
  <1>2. PICK h \in Seq(Transition) : h = history'[m] /\ Len(h) = 3
    <2>1. history'[m] \in Seq(Transition)
      BY <1>1 DEF TypeOK
    <2>2. history'[m] = <<Move(Absent, "pending", "meeting_created"),
                          Move("pending", "starting", "meeting_start_requested"),
                          Move("starting", "in_meeting", "meeting_started")>>
      BY <1>1 DEF OrderInv, IInv, RecoveryTypeOK, TypeOK, StartMeeting
    <2> QED
      BY <2>1, <2>2
  <1> DEFINE h1 == SubSeq(h, 1, 1)
             h2 == SubSeq(h, 1, 2)
             c1 == SetMeeting(m, h1)
             c2 == SetMeeting(m, h2)
             c3 == SetItem(StatusEvent(m, h[2]))
             c4 == SetMeeting(m, h)
             c5 == SetItem(StatusEvent(m, h[3]))
             cmds == <<c1, c2, c3, c4, c5>>
  <1>3. cmds \in Seq(Commands) /\ Send(cmds)
    BY <1>1, <1>2, StartWritesPast DEF PersistedStart
  <1>4. /\ h1 \in Seq(Transition) /\ Len(h1) = 1 /\ h1[1] = h[1]
        /\ h2 \in Seq(Transition) /\ Len(h2) = 2 /\ h2[1] = h[1] /\ h2[2] = h[2]
    <2>1. \A i \in 1..3 : h[i] \in Transition
      BY <1>2, ElementOfSeq
    <2>2. /\ h1 \in Seq(Transition) /\ Len(h1) = 1
          /\ \A i \in 1..1 : h1[i] = h[i]
      BY <2>1, SubSeqProperties
    <2>3. /\ h2 \in Seq(Transition) /\ Len(h2) = 2
          /\ \A i \in 1..2 : h2[i] = h[i]
      BY <2>1, SubSeqProperties
    <2> QED
      BY <2>2, <2>3
  <1> HIDE DEF h1, h2
  <1>5. IsPrefix(h1, h2) /\ IsPrefix(h1, h) /\ IsPrefix(h2, h)
    <2>1. \A i \in 1..1 : h1[i] = h2[i] /\ h1[i] = h[i]
      BY <1>4
    <2>2. \A i \in 1..2 : h2[i] = h[i]
      BY <1>4
    <2>3. IsPrefix(h1, h2)
      BY <1>4, <2>1, PrefixPointwise
    <2>4. IsPrefix(h1, h)
      BY <1>2, <1>4, <2>1, PrefixPointwise
    <2>5. IsPrefix(h2, h)
      BY <1>2, <1>4, <2>2, PrefixPointwise
    <2> QED
      BY <2>3, <2>4, <2>5
  <1>6. \A k \in {h1, h2, h} : IsPrefix(history[m], k)
    <2>1. history[m] \in Seq(Transition)
      BY DEF OrderInv, IInv, RecoveryTypeOK, TypeOK
    <2> QED
      BY <1>1, <1>2, <1>4, <2>1, EmptyIsPrefix
  <1>7. h[2] \in Range(h2) /\ h[3] \in Range(h)
    <2>1. DOMAIN h2 = 1..2 /\ DOMAIN h = 1..3
      BY <1>2, <1>4, LenProperties
    <2> QED
      BY <1>4, <2>1 DEF Range
  <1>8. /\ IsSetMeeting(c1) /\ c1.key = m /\ c1.history = h1
        /\ IsSetMeeting(c2) /\ c2.key = m /\ c2.history = h2
        /\ IsSetMeeting(c4) /\ c4.key = m /\ c4.history = h
    BY <1>2, <1>4, CommandTypes
  <1>9. /\ ~IsSetMeeting(c3) /\ c3.event.meeting = m /\ c3.event.transition = h[2]
        /\ ~IsSetMeeting(c5) /\ c5.event.meeting = m /\ c5.event.transition = h[3]
    <2>1. h[2] \in Transition /\ h[3] \in Transition
      BY <1>2, ElementOfSeq
    <2>2. /\ StatusEvent(m, h[2]) \in StatusEvents /\ StatusEvent(m, h[3]) \in StatusEvents
          /\ StatusEvent(m, h[2]).meeting = m /\ StatusEvent(m, h[2]).transition = h[2]
          /\ StatusEvent(m, h[3]).meeting = m /\ StatusEvent(m, h[3]).transition = h[3]
      BY <2>1 DEF StatusEvent, StatusEvents
    <2> QED
      BY <2>2, CommandTypes
  <1>10. Carries(c2, c3.event) /\ Carries(c4, c5.event)
    BY <1>7, <1>8, <1>9 DEF Carries
  <1> HIDE DEF c1, c2, c3, c4, c5
  <1>11. /\ Len(cmds) = 5
         /\ cmds[1] = c1 /\ cmds[2] = c2 /\ cmds[3] = c3 /\ cmds[4] = c4 /\ cmds[5] = c5
    OBVIOUS
  <1>12. \A k \in 1..5 : k \in {1, 2, 3, 4, 5}
    OBVIOUS
  <1> HIDE DEF cmds
  <1>13. \A k \in 1..Len(cmds) :
            IsSetMeeting(cmds[k]) => cmds[k].key = m /\ IsPrefix(history[m], cmds[k].history)
    BY <1>6, <1>8, <1>9, <1>11, <1>12
  <1>14. \A j, k \in 1..Len(cmds) :
            j < k /\ IsSetMeeting(cmds[j]) /\ IsSetMeeting(cmds[k])
                => IsPrefix(cmds[j].history, cmds[k].history)
    BY <1>5, <1>8, <1>9, <1>11, <1>12
  <1>15. Backed(cmds, savedHistory)
    <2>1. \A k \in 1..5 : IsStatusItem(cmds[k]) => k = 3 \/ k = 5
      BY <1>8, <1>11, <1>12 DEF IsStatusItem
    <2>2. 2 \in 1..(3 - 1) /\ 4 \in 1..(5 - 1)
      OBVIOUS
    <2> QED
      BY <1>10, <1>11, <2>1, <2>2 DEF Backed
  <1> QED
    BY <1>3, <1>13, <1>14, <1>15, SendOrdered

\* The record of an end is the first of its writes, and has the transition that the
\* webhook reports.
LEMMA EndOrdered ==
  ASSUME OrderInv, IInv', NEW m \in Meetings, NEW to \in Finished \cup FailStatus,
         NEW why \in Reasons, RecordTransition(m, to, why), Send(Writes(m)),
         outbox' \ outbox \subseteq {StatusEvent(m, Move(status[m], to, why)), PostEvent(m)}
  PROVE  OrderInv'
  <1> DEFINE written == {SetItem(e) : e \in outbox' \ outbox}
             record  == SetMeeting(m, history'[m])
             t       == Move(status[m], to, why)
  <1>1. /\ history[m] \in Seq(Transition) /\ history'[m] \in Seq(Transition)
        /\ t \in Transition
        /\ history'[m] = Append(history[m], t)
    <2>1. status[m] \in MeetingStatus /\ to \in MeetingStatus
      BY DEF OrderInv, IInv, RecoveryTypeOK, TypeOK, RecordTransition, MeetingStatus, Terminal,
         Finished, FailStatus
    <2>2. t \in Transition
      BY <2>1, MoveType DEF OrderInv, IInv, RecoveryTypeOK
    <2> QED
      BY <2>2 DEF OrderInv, IInv, RecoveryTypeOK, TypeOK, RecordTransition
  <1>2. IsPrefix(history[m], history'[m])
    BY <1>1, PrefixRefl, PrefixAppend
  <1>3. t \in Range(history'[m])
    <2>1. /\ DOMAIN history'[m] = 1..Len(history[m]) + 1
          /\ history'[m][Len(history[m]) + 1] = t
          /\ Len(history[m]) \in Nat
      BY <1>1, LenProperties
    <2> QED
      BY <2>1 DEF Range
  <1>4. Writes(m) \in Seq(Commands)
    BY WritesPast DEF IInv, RecoveryTypeOK
  <1>5. SetToSeq(written) \in Seq(written)
    <2>1. IsFiniteSet({SetItem(StatusEvent(m, t)), SetItem(PostEvent(m))})
      <3>1. IsFiniteSet({SetItem(StatusEvent(m, t))})
        BY FS_Singleton
      <3>2. IsFiniteSet({SetItem(StatusEvent(m, t))} \cup {SetItem(PostEvent(m))})
        BY <3>1, FS_AddElement
      <3>3. {SetItem(StatusEvent(m, t))} \cup {SetItem(PostEvent(m))}
               = {SetItem(StatusEvent(m, t)), SetItem(PostEvent(m))}
        OBVIOUS
      <3> QED
        BY <3>2, <3>3
    <2>2. written \in SUBSET {SetItem(StatusEvent(m, t)), SetItem(PostEvent(m))}
      OBVIOUS
    <2> QED
      BY <2>1, <2>2, FS_Subset, SetToSeqType
  <1>6. \A c \in written :
           /\ ~IsSetMeeting(c)
           /\ IsStatusItem(c) => c.event.meeting = m /\ c.event.transition = t
    <2> SUFFICES ASSUME NEW e \in outbox' \ outbox
                 PROVE  /\ ~IsSetMeeting(SetItem(e))
                        /\ IsStatusItem(SetItem(e)) =>
                              SetItem(e).event.meeting = m /\ SetItem(e).event.transition = t
      OBVIOUS
    <2>1. e \in StatusEvents \cup PostEvents
      BY DEF IInv, RecoveryTypeOK, TypeOK
    <2>2. ~IsSetMeeting(SetItem(e)) /\ SetItem(e).event = e
      BY <2>1, CommandTypes
    <2>3. e.eventType = "meeting.status.changed" => e = StatusEvent(m, t)
      BY DEF PostEvent
    <2>4. StatusEvent(m, t).meeting = m /\ StatusEvent(m, t).transition = t
      BY DEF StatusEvent
    <2> QED
      BY <2>2, <2>3, <2>4 DEF IsStatusItem
  <1>7. /\ IsSetMeeting(record) /\ record.key = m /\ record.history = history'[m]
    BY <1>1, CommandTypes
  <1>8. Writes(m) = <<record>> \o SetToSeq(written)
    BY DEF Writes
  <1> HIDE DEF written, record, t
  <1>9. /\ Writes(m)[1] = record /\ 1 \in 1..Len(Writes(m))
        /\ \A k \in 1..Len(Writes(m)) : k # 1 => Writes(m)[k] \in written
    <2>1. SetToSeq(written) \in Seq(written \cup {record}) /\ <<record>> \in Seq(written \cup {record})
      BY <1>5, SeqMonotonic
    <2>2. /\ Len(Writes(m)) = 1 + Len(SetToSeq(written))
          /\ \A k \in 1..1 + Len(SetToSeq(written)) :
                Writes(m)[k] = IF k <= 1 THEN <<record>>[k] ELSE SetToSeq(written)[k - 1]
      BY <1>8, <2>1, ConcatProperties
    <2>3. Len(SetToSeq(written)) \in Nat
      BY <1>5, LenProperties
    <2>4. \A k \in 1..Len(SetToSeq(written)) : SetToSeq(written)[k] \in written
      BY <1>5, ElementOfSeq
    <2>5. ASSUME NEW k \in 1..Len(Writes(m)), k # 1
          PROVE  Writes(m)[k] \in written
      <3>1. k - 1 \in 1..Len(SetToSeq(written)) /\ ~(k <= 1)
        BY <2>2, <2>3, <2>5
      <3> QED
        BY <2>2, <2>4, <3>1
    <2> QED
      BY <2>2, <2>3, <2>5
  <1>10. Backed(Writes(m), savedHistory)
    <2> SUFFICES ASSUME NEW k \in 1..Len(Writes(m)), IsStatusItem(Writes(m)[k])
                 PROVE  \E j \in 1..(k - 1) : Carries(Writes(m)[j], Writes(m)[k].event)
      BY DEF Backed
    <2>1. k # 1
      BY <1>7, <1>9 DEF IsStatusItem
    <2>2. Writes(m)[k].event.meeting = m /\ Writes(m)[k].event.transition = t
      BY <1>6, <1>9, <2>1
    <2>3. Carries(Writes(m)[1], Writes(m)[k].event)
      BY <1>3, <1>7, <1>9, <2>2 DEF Carries
    <2>4. 1 \in 1..(k - 1)
      BY <2>1
    <2> QED
      BY <2>3, <2>4
  <1>11. \A k \in 1..Len(Writes(m)) : IsSetMeeting(Writes(m)[k]) => k = 1
    BY <1>6, <1>9
  <1>12. \A k \in 1..Len(Writes(m)) :
            IsSetMeeting(Writes(m)[k]) =>
                Writes(m)[k].key = m /\ IsPrefix(history[m], Writes(m)[k].history)
    BY <1>2, <1>7, <1>9, <1>11
  <1>13. \A j, k \in 1..Len(Writes(m)) :
            j < k /\ IsSetMeeting(Writes(m)[j]) /\ IsSetMeeting(Writes(m)[k])
                => IsPrefix(Writes(m)[j].history, Writes(m)[k].history)
    BY <1>11
  <1> QED
    BY <1>4, <1>10, <1>12, <1>13, SendOrdered

\* What lands takes its place before what follows.
LEMMA LandOrdered ==
  ASSUME OrderInv, IInv', Land
  PROVE  OrderInv'
  <1> DEFINE c == Head(pipe)
             held == savedHistory'
  <1>1. /\ pipe \in Seq(Commands) /\ pipe # <<>>
        /\ pipe' = Tail(pipe)
        /\ UNCHANGED <<conn, waiting, reconnected>>
    BY DEF Land, witnesses, OrderInv, IInv, RecoveryTypeOK
  <1>2. /\ Len(Tail(pipe)) = Len(pipe) - 1
        /\ \A i \in 1..Len(Tail(pipe)) : Tail(pipe)[i] = pipe[i + 1]
    BY <1>1, HeadTailProperties
  <1>3. Len(pipe) \in Nat \ {0} /\ c = pipe[1] /\ 1 \in 1..Len(pipe)
    BY <1>1, EmptySeq
  <1>4. c \in Commands
    BY <1>1, <1>3, ElementOfSeq
  <1>5. CASE reconnected
    BY <1>1, <1>5 DEF OrderInv, WebhookNeverAheadOfRecord
  <1>6. CASE ~reconnected
    <2>1. /\ conn = "up" /\ waiting = <<>>
          /\ Ordered(pipe, savedHistory) /\ Backed(pipe, savedHistory)
      BY <1>6 DEF OrderInv
    <2>2. \A m \in Meetings : savedHistory[m] \in Seq(Transition) /\ held[m] \in Seq(Transition)
      BY DEF OrderInv, IInv, RecoveryTypeOK
    <2>3. /\ IsSetMeeting(c) => /\ c.key \in Meetings /\ c.history \in Seq(Transition)
                                /\ held[c.key] = c.history
                                /\ IsPrefix(savedHistory[c.key], c.history)
                                /\ savedOutbox' = savedOutbox
          /\ ~IsSetMeeting(c) => held = savedHistory /\ savedOutbox' = savedOutbox \cup {c.event}
          /\ \A m \in Meetings : (IsSetMeeting(c) => m # c.key) => held[m] = savedHistory[m]
      <3>1. CASE IsSetMeeting(c)
        <4>1. c.key \in Meetings /\ c.history \in Seq(Transition)
          BY <1>4, <3>1, CommandKinds
        <4>2. held = [savedHistory EXCEPT ![c.key] = c.history] /\ savedOutbox' = savedOutbox
          BY <3>1 DEF Land, Executed
        <4>3. IsPrefix(savedHistory[c.key], c.history)
          BY <1>3, <2>1, <3>1 DEF Ordered
        <4> HIDE DEF c
        <4> QED
          BY <3>1, <4>1, <4>2, <4>3 DEF OrderInv, IInv, RecoveryTypeOK
      <3>2. CASE ~IsSetMeeting(c)
        BY <3>2 DEF Land, Executed
      <3> QED
        BY <3>1, <3>2
    <2> HIDE DEF c
    <2>4. \A m \in Meetings : Range(savedHistory[m]) \subseteq Range(held[m])
      <3> SUFFICES ASSUME NEW m \in Meetings
                   PROVE  Range(savedHistory[m]) \subseteq Range(held[m])
        OBVIOUS
      <3>1. CASE IsSetMeeting(c) /\ m = c.key
        <4>1. IsPrefix(savedHistory[m], held[m])
          BY <2>3, <3>1
        <4> QED
          BY <2>2, <4>1, PrefixRange
      <3>2. CASE ~(IsSetMeeting(c) /\ m = c.key)
        BY <2>3, <3>2
      <3> QED
        BY <3>1, <3>2
    <2>5. \A i \in 1..Len(Tail(pipe)) :
             i + 1 \in 1..Len(pipe) /\ 1 < i + 1 /\ Tail(pipe)[i] \in Commands
      <3>1. \A i \in 1..Len(pipe) : pipe[i] \in Commands
        BY <1>1, ElementOfSeq
      <3> QED
        BY <1>2, <1>3, <3>1
    <2>6. Ordered(Tail(pipe), held)
      <3>1. ASSUME NEW k \in 1..Len(Tail(pipe)), IsSetMeeting(Tail(pipe)[k])
            PROVE  IsPrefix(held[Tail(pipe)[k].key], Tail(pipe)[k].history)
        <4>1. Tail(pipe)[k] = pipe[k + 1] /\ pipe[k + 1].key \in Meetings
          BY <1>2, <2>5, <3>1, CommandKinds
        <4>2. CASE IsSetMeeting(c) /\ pipe[k + 1].key = c.key
          BY <1>3, <2>1, <2>3, <2>5, <3>1, <4>1, <4>2 DEF Ordered
        <4>3. CASE ~(IsSetMeeting(c) /\ pipe[k + 1].key = c.key)
          BY <2>1, <2>3, <2>5, <3>1, <4>1, <4>3 DEF Ordered
        <4> QED
          BY <4>2, <4>3
      <3>2. ASSUME NEW j \in 1..Len(Tail(pipe)), NEW k \in 1..Len(Tail(pipe)), j < k,
                   IsSetMeeting(Tail(pipe)[j]), IsSetMeeting(Tail(pipe)[k]),
                   Tail(pipe)[j].key = Tail(pipe)[k].key
            PROVE  IsPrefix(Tail(pipe)[j].history, Tail(pipe)[k].history)
        <4>1. Tail(pipe)[j] = pipe[j + 1] /\ Tail(pipe)[k] = pipe[k + 1] /\ j + 1 < k + 1
          BY <1>2, <3>2
        <4> QED
          BY <2>1, <2>5, <3>2, <4>1 DEF Ordered
      <3> QED
        BY <3>1, <3>2 DEF Ordered
    <2>7. Backed(Tail(pipe), held)
      <3> SUFFICES ASSUME NEW k \in 1..Len(Tail(pipe)), IsStatusItem(Tail(pipe)[k]),
                          Tail(pipe)[k].event.transition
                              \notin Range(held[Tail(pipe)[k].event.meeting])
                   PROVE  \E j \in 1..(k - 1) : Carries(Tail(pipe)[j], Tail(pipe)[k].event)
        BY DEF Backed
      <3>1. Tail(pipe)[k] = pipe[k + 1] /\ k + 1 \in 1..Len(pipe)
        BY <1>2, <2>5
      <3>2. Tail(pipe)[k].event.meeting \in Meetings
        BY <2>5, CommandKinds DEF IsStatusItem, StatusEvents, PostEvents
      <3>3. PICK j \in 1..((k + 1) - 1) : Carries(pipe[j], Tail(pipe)[k].event)
        BY <2>1, <2>4, <3>1, <3>2 DEF Backed
      <3>4. j # 1
        BY <1>3, <2>3, <3>3 DEF Carries
      <3>5. j - 1 \in 1..(k - 1) /\ j - 1 \in 1..Len(Tail(pipe)) /\ (j - 1) + 1 = j
        BY <1>2, <1>3, <3>4
      <3>6. Tail(pipe)[j - 1] = pipe[j]
        BY <1>2, <3>5
      <3> QED
        BY <3>3, <3>5, <3>6
    <2>8. ASSUME NEW e \in savedOutbox', e.eventType = "meeting.status.changed"
          PROVE  e.transition \in Range(held[e.meeting])
      <3>1. e.meeting \in Meetings
        BY DEF IInv, RecoveryTypeOK, StatusEvents, PostEvents
      <3>2. CASE e \in savedOutbox
        BY <1>6, <2>4, <2>8, <3>1, <3>2 DEF OrderInv, WebhookNeverAheadOfRecord
      <3>3. CASE e \notin savedOutbox
        <4>1. ~IsSetMeeting(c) /\ e = c.event /\ held = savedHistory
          BY <2>3, <3>3
        <4>2. IsStatusItem(pipe[1])
          BY <1>3, <2>8, <4>1 DEF IsStatusItem
        <4>3. 1..(1 - 1) = {}
          OBVIOUS
        <4>4. pipe[1].event.transition \in Range(savedHistory[pipe[1].event.meeting])
          BY <1>3, <2>1, <4>2, <4>3 DEF Backed
        <4> QED
          BY <1>3, <4>1, <4>4
      <3> QED
        BY <3>2, <3>3
    <2> QED
      BY <1>1, <2>1, <2>6, <2>7, <2>8 DEF OrderInv, WebhookNeverAheadOfRecord
  <1> QED
    BY <1>5, <1>6

\* No status is written at first.
LEMMA OrderInit == RecoveryInit => OrderInv
  <1> SUFFICES ASSUME RecoveryInit
               PROVE  OrderInv
    OBVIOUS
  <1>1. IInv
    BY RecoveryInitHolds
  <1>2. conn = "up" /\ waiting = <<>> /\ Len(pipe) = 0
    BY EmptySeq DEF RecoveryInit
  <1>3. Ordered(pipe, savedHistory) /\ Backed(pipe, savedHistory)
    BY <1>2 DEF Ordered, Backed
  <1>4. WebhookNeverAheadOfRecord
    BY DEF RecoveryInit, WebhookNeverAheadOfRecord
  <1> QED
    BY <1>1, <1>2, <1>3, <1>4 DEF OrderInv

\* Every step preserves the order of the statuses.
LEMMA OrderStep == OrderInv /\ [RecoveryNext]_recoveryVars => OrderInv'
  <1> SUFFICES ASSUME OrderInv, [RecoveryNext]_recoveryVars
               PROVE  OrderInv'
    OBVIOUS
  <1>1. IInv'
    BY RecoveryStepPreserves DEF OrderInv
  <1>2. ASSUME NEW m \in Meetings, PersistedStart(m)
        PROVE  OrderInv'
    BY <1>1, <1>2, StartOrdered
  <1>3. ASSUME NEW m \in Meetings, NEW s \in Finished \cup {Absent}, NEW why \in Reasons,
               PersistedStop(m, s, why)
        PROVE  OrderInv'
    <2>1. FinalStatus(s) \in Finished \cup FailStatus
      BY FinalStatusType
    <2>2. RecordTransition(m, FinalStatus(s), why) /\ Send(Writes(m))
      BY <1>3 DEF PersistedStop, StopMeeting
    <2>3. outbox' \ outbox \subseteq
             {StatusEvent(m, Move(status[m], FinalStatus(s), why)), PostEvent(m)}
      BY <1>3 DEF PersistedStop, StopMeeting, StatusWebhooks, PostProcessing
    <2> QED
      BY <1>1, <2>1, <2>2, <2>3, EndOrdered
  <1>4. ASSUME NEW m \in Meetings, NEW s \in FailStatus, NEW why \in Reasons,
               PersistedFail(m, s, why)
        PROVE  OrderInv'
    <2>1. RecordTransition(m, s, why) /\ Send(Writes(m))
      BY <1>4 DEF PersistedFail, FailMeeting
    <2>2. outbox' \ outbox \subseteq {StatusEvent(m, Move(status[m], s, why)), PostEvent(m)}
      BY <1>4 DEF PersistedFail, FailMeeting, StatusWebhooks
    <2> QED
      BY <1>1, <2>1, <2>2, EndOrdered
  <1>5. CASE Land
    BY <1>1, <1>5, LandOrdered
  <1>6. CASE Disconnect \/ Connect \/ Ready
    <2>1. reconnected'
      BY <1>6 DEF Disconnect, Connect, Ready, witnesses, OrderInv
    <2> QED
      BY <1>1, <2>1 DEF OrderInv, WebhookNeverAheadOfRecord
  <1>7. CASE Restart
    <2>1. /\ conn' = "up" /\ waiting' = <<>> /\ Len(pipe') = 0
          /\ UNCHANGED <<savedHistory, savedOutbox>> /\ (~reconnected' => ~reconnected)
      BY <1>7, EmptySeq DEF Restart, Hydrate
    <2>2. Ordered(pipe', savedHistory') /\ Backed(pipe', savedHistory')
      BY <2>1 DEF Ordered, Backed
    <2> QED
      BY <1>1, <2>1, <2>2 DEF OrderInv, WebhookNeverAheadOfRecord
  <1>8. CASE ((ClearQueued \/ Tick) /\ UNCHANGED redisVars) \/ UNCHANGED recoveryVars
    <2>1. UNCHANGED <<conn, pipe, waiting, savedHistory, savedOutbox, reconnected>>
      BY <1>8 DEF recoveryVars, redisVars, witnesses
    <2> QED
      BY <1>1, <2>1 DEF OrderInv, WebhookNeverAheadOfRecord
  <1> QED
    BY <1>2, <1>3, <1>4, <1>5, <1>6, <1>7, <1>8 DEF RecoveryNext

\* While the connection to Redis is not lost, a restart at any instant finds for every
\* webhook it will deliver the record that it reports (updateMeetingStatus persists the
\* record before enqueue persists the item).
THEOREM NeverAheadCorrect == RecoverySpec => []WebhookNeverAheadOfRecord
  <1>1. OrderInv => WebhookNeverAheadOfRecord
    BY DEF OrderInv
  <1> QED
    BY <1>1, OrderInit, OrderStep, PTL DEF RecoverySpec
-----------------------------------------------------------------------------
(* One outcome, across restarts                                            *)

\* What follows a terminal status in a history is that status.
Settled(h) ==
    \A i, j \in 1..Len(h) :
        i <= j /\ h[i].toStatus \in Terminal => h[j].toStatus = h[i].toStatus

\* The status of a meeting is the last of its history.
EndsAt(h, s) == s # Absent => h # <<>> /\ h[Len(h)].toStatus = s

\* The inductive invariant of HealthyOneOutcome.
OutcomeInv ==
    /\ OrderInv
    /\ \A m \in Meetings :
          Settled(history[m]) /\ EndsAt(history[m], status[m]) /\ Settled(passedHistory[m])
    /\ ~reconnected =>
          \A e \in outbox :
              e.eventType = "meeting.status.changed"
                  => e.transition \in Range(history[e.meeting])

\* A restart hydrates a prefix: it is settled as the whole is.
LEMMA SettledPrefix ==
  ASSUME NEW s \in Seq(Transition), NEW t \in Seq(Transition), IsPrefix(s, t), Settled(t)
  PROVE  Settled(s)
  <1>1. Len(s) <= Len(t) /\ \A i \in 1..Len(s) : s[i] = t[i]
    BY PrefixPointwise
  <1>2. Len(s) \in Nat /\ Len(t) \in Nat
    BY LenProperties
  <1>3. \A i \in 1..Len(s) : i \in 1..Len(t)
    BY <1>1, <1>2
  <1> QED
    BY <1>1, <1>3 DEF Settled

\* assertTransition lets nothing but the same status follow a terminal one.
LEMMA SettledAppend ==
  ASSUME NEW h \in Seq(Transition), NEW x \in Transition, Settled(h), h # <<>>,
         h[Len(h)].toStatus \in Terminal => x.toStatus = h[Len(h)].toStatus
  PROVE  Settled(Append(h, x))
  <1>1. /\ Len(Append(h, x)) = Len(h) + 1
        /\ \A i \in 1..Len(h) : Append(h, x)[i] = h[i]
        /\ Append(h, x)[Len(h) + 1] = x
    OBVIOUS
  <1>2. Len(h) \in Nat \ {0} /\ Len(h) \in 1..Len(h)
    BY EmptySeq, LenProperties
  <1> SUFFICES ASSUME NEW i \in 1..Len(h) + 1, NEW j \in 1..Len(h) + 1, i <= j,
                      Append(h, x)[i].toStatus \in Terminal
               PROVE  Append(h, x)[j].toStatus = Append(h, x)[i].toStatus
    BY <1>1 DEF Settled
  <1>3. CASE j \in 1..Len(h)
    <2>1. i \in 1..Len(h)
      BY <1>2, <1>3
    <2>2. Append(h, x)[i] = h[i] /\ Append(h, x)[j] = h[j]
      BY <1>1, <1>3, <2>1
    <2> QED
      BY <1>3, <2>1, <2>2 DEF Settled
  <1>4. CASE j = Len(h) + 1 /\ i \in 1..Len(h)
    <2>1. i <= Len(h) /\ Append(h, x)[i] = h[i] /\ Append(h, x)[j] = x
      BY <1>1, <1>2, <1>4
    <2>2. h[Len(h)].toStatus = h[i].toStatus
      BY <1>2, <1>4, <2>1 DEF Settled
    <2> QED
      BY <2>1, <2>2
  <1>5. CASE j = Len(h) + 1 /\ i = Len(h) + 1
    BY <1>5
  <1> QED
    BY <1>2, <1>3, <1>4, <1>5

\* Transitions that are in the histories stay in them.
LEMMA RangeGrows ==
  ASSUME IInv, TypeOK', Grows, NEW n \in Meetings
  PROVE  Range(history[n]) \subseteq Range(history'[n])
  <1>1. history[n] \in Seq(Transition) /\ history'[n] \in Seq(Transition)
    BY DEF IInv, RecoveryTypeOK, TypeOK
  <1>2. IsPrefix(history[n], history'[n])
    BY <1>1, PrefixRefl DEF Grows
  <1> QED
    BY <1>1, <1>2, PrefixRange

\* A start's history has no terminal status, and both of its webhooks.
LEMMA StartSettled ==
  ASSUME OutcomeInv, OrderInv', NEW m \in Meetings, StartMeeting(m),
         UNCHANGED <<reconnected, passedHistory>>
  PROVE  OutcomeInv'
  <1> DEFINE created  == Move(Absent, "pending", "meeting_created")
             starting == Move("pending", "starting", "meeting_start_requested")
             started  == Move("starting", "in_meeting", "meeting_started")
             h        == history'[m]
  <1>1. TypeOK' /\ Grows
    BY StartGrows DEF OutcomeInv, OrderInv
  <1>2. /\ h = <<created, starting, started>> /\ status'[m] = "in_meeting"
        /\ \A n \in Meetings : n # m => status'[n] = status[n] /\ history'[n] = history[n]
        /\ outbox' = outbox \cup {StatusEvent(m, starting), StatusEvent(m, started)}
    BY DEF StartMeeting, OutcomeInv, OrderInv, IInv, RecoveryTypeOK, TypeOK
  <1>3. /\ created.toStatus = "pending" /\ starting.toStatus = "starting"
        /\ started.toStatus = "in_meeting"
    BY DEF Move
  <1>4. /\ StatusEvent(m, starting).meeting = m /\ StatusEvent(m, starting).transition = starting
        /\ StatusEvent(m, started).meeting = m /\ StatusEvent(m, started).transition = started
    BY DEF StatusEvent
  <1> HIDE DEF created, starting, started
  <1>5. Len(h) = 3 /\ h[1] = created /\ h[2] = starting /\ h[3] = started /\ h # <<>>
    BY <1>2
  <1>6. Settled(h) /\ EndsAt(h, status'[m])
    <2>1. \A i \in 1..Len(h) : h[i].toStatus \notin Terminal
      BY <1>3, <1>5 DEF Terminal, Finished, FailStatus
    <2> QED
      BY <1>2, <1>3, <1>5, <2>1 DEF Settled, EndsAt
  <1>7. \A n \in Meetings : Settled(history'[n]) /\ EndsAt(history'[n], status'[n])
    BY <1>2, <1>6 DEF OutcomeInv
  <1>8. starting \in Range(h) /\ started \in Range(h)
    <2>1. DOMAIN h = 1..3
      BY <1>2
    <2> QED
      BY <1>5, <2>1 DEF Range
  <1>9. ASSUME ~reconnected', NEW e \in outbox', e.eventType = "meeting.status.changed"
        PROVE  e.transition \in Range(history'[e.meeting])
    <2>1. CASE e \in outbox
      <3>1. e.meeting \in Meetings
        BY <1>1 DEF TypeOK, StatusEvents, PostEvents
      <3>2. e.transition \in Range(history[e.meeting])
        BY <1>9, <2>1 DEF OutcomeInv
      <3> QED
        BY <1>1, <3>1, <3>2, RangeGrows DEF OutcomeInv, OrderInv
    <2>2. CASE e \in {StatusEvent(m, starting), StatusEvent(m, started)}
      BY <1>4, <1>8, <2>2
    <2> QED
      BY <1>2, <2>1, <2>2
  <1> QED
    BY <1>7, <1>9 DEF OutcomeInv

\* An end appends the only status that may follow, and reports what it appends.
LEMMA EndSettled ==
  ASSUME OutcomeInv, OrderInv', NEW m \in Meetings, NEW to \in Finished \cup FailStatus,
         NEW why \in Reasons, RecordTransition(m, to, why), Grows,
         outbox' \ outbox \subseteq {StatusEvent(m, Move(status[m], to, why)), PostEvent(m)},
         UNCHANGED <<reconnected, passedHistory>>
  PROVE  OutcomeInv'
  <1> DEFINE t == Move(status[m], to, why)
             h == history[m]
  <1>1. TypeOK /\ TypeOK' /\ IInv
    BY DEF OutcomeInv, OrderInv, IInv, RecoveryTypeOK
  <1>2. /\ status[m] \in MeetingStatus /\ to \in MeetingStatus
        /\ status[m] # Absent /\ assertTransition(status[m], to)
    BY <1>1 DEF TypeOK, RecordTransition, MeetingStatus, Terminal
  <1>3. h \in Seq(Transition) /\ t \in Transition
    BY <1>1, <1>2, MoveType DEF TypeOK
  <1>4. /\ history'[m] = Append(h, t) /\ status'[m] = to
        /\ \A n \in Meetings : n # m => status'[n] = status[n] /\ history'[n] = history[n]
    BY <1>1 DEF TypeOK, RecordTransition
  <1>5. t.toStatus = to
    BY DEF Move
  <1>6. Settled(h) /\ h # <<>> /\ h[Len(h)].toStatus = status[m]
    BY <1>2 DEF OutcomeInv, EndsAt
  <1>7. status[m] \in Terminal => to = status[m]
    BY <1>2, TerminalHasNoExit
  <1>8. PostEvent(m).eventType # "meeting.status.changed"
        /\ StatusEvent(m, t).meeting = m /\ StatusEvent(m, t).transition = t
    BY DEF PostEvent, StatusEvent
  <1> HIDE DEF t
  <1>9. Settled(Append(h, t))
    BY <1>3, <1>5, <1>6, <1>7, SettledAppend
  <1>10. Append(h, t) # <<>> /\ Append(h, t)[Len(Append(h, t))] = t
    BY <1>3
  <1>11. t \in Range(history'[m])
    <2>1. DOMAIN Append(h, t) = 1..Len(h) + 1 /\ Append(h, t)[Len(h) + 1] = t
      BY <1>3
    <2>2. Len(h) + 1 \in 1..Len(h) + 1
      BY <1>3, LenProperties
    <2> QED
      BY <1>4, <2>1, <2>2 DEF Range
  <1>12. \A n \in Meetings : Settled(history'[n]) /\ EndsAt(history'[n], status'[n])
    BY <1>4, <1>5, <1>9, <1>10 DEF OutcomeInv, EndsAt
  <1>13. ASSUME ~reconnected', NEW e \in outbox', e.eventType = "meeting.status.changed"
         PROVE  e.transition \in Range(history'[e.meeting])
    <2>1. CASE e \in outbox
      <3>1. e.meeting \in Meetings
        BY <1>1 DEF TypeOK, StatusEvents, PostEvents
      <3>2. e.transition \in Range(history[e.meeting])
        BY <1>13, <2>1 DEF OutcomeInv
      <3> QED
        BY <1>1, <3>1, <3>2, RangeGrows
    <2>2. CASE e \notin outbox
      <3>1. e = StatusEvent(m, t)
        BY <1>8, <1>13, <2>2 DEF t
      <3> QED
        BY <1>8, <1>11, <3>1
    <2> QED
      BY <2>1, <2>2
  <1> QED
    BY <1>12, <1>13 DEF OutcomeInv

\* A restart takes its histories and its outbox from the same Redis.
LEMMA RestartSettled ==
  ASSUME OutcomeInv, OrderInv', Restart
  PROVE  OutcomeInv'
  <1> PICK skipped \in SUBSET {m \in Meetings : savedHistory[m] # Nothing},
           skippedItems \in SUBSET savedOutbox : Hydrate(skipped, skippedItems)
    BY DEF Restart
  <1>1. /\ history' = [m \in Meetings |-> IF m \in skipped THEN <<>> ELSE savedHistory[m]]
        /\ passedHistory' = [m \in Meetings |-> IF m \in skipped THEN savedHistory[m] ELSE <<>>]
    BY DEF Hydrate, Nothing
  <1>2. ASSUME NEW m \in Meetings
        PROVE  /\ Settled(history'[m]) /\ EndsAt(history'[m], status'[m])
               /\ Settled(passedHistory'[m])
    <2>1. /\ savedHistory[m] \in Seq(Transition) /\ history[m] \in Seq(Transition)
          /\ IsPrefix(savedHistory[m], history[m]) \/ savedHistory[m] = passedHistory[m]
          /\ Settled(history[m]) /\ Settled(passedHistory[m])
      BY DEF OutcomeInv, OrderInv, IInv, RecoveryTypeOK, TypeOK, SavedIsPast
    <2>2. Settled(savedHistory[m])
      BY <2>1, SettledPrefix
    <2>3. Settled(<<>>)
      BY DEF Settled
    <2>4. status'[m] = IF history'[m] = <<>> THEN Absent ELSE Last(history'[m]).toStatus
      BY DEF Hydrate, Nothing
    <2>5. EndsAt(history'[m], status'[m])
      BY <2>4 DEF EndsAt, Last
    <2> QED
      BY <1>1, <2>2, <2>3, <2>5
  <1>3. ~reconnected' =>
           \A e \in outbox' :
               e.eventType = "meeting.status.changed"
                   => e.transition \in Range(history'[e.meeting])
    <2>1. savedHistory \in [Meetings -> Seq(Transition)]
      BY DEF OutcomeInv, OrderInv, IInv, RecoveryTypeOK
    <2> QED
      BY <2>1, RestartReadsAll DEF OutcomeInv, OrderInv, WebhookNeverAheadOfRecord
  <1> QED
    BY <1>2, <1>3 DEF OutcomeInv

\* Every step preserves what is known of the outcomes.
LEMMA OutcomeInvStep == OutcomeInv /\ [RecoveryNext]_recoveryVars => OutcomeInv'
  <1> SUFFICES ASSUME OutcomeInv, [RecoveryNext]_recoveryVars
               PROVE  OutcomeInv'
    OBVIOUS
  <1>1. OrderInv' /\ IInv
    BY OrderStep DEF OutcomeInv, OrderInv
  <1>2. ASSUME NEW m \in Meetings, PersistedStart(m)
        PROVE  OutcomeInv'
    <2>1. StartMeeting(m) /\ UNCHANGED <<reconnected, passedHistory>>
      BY <1>2 DEF PersistedStart, Send, passed
    <2> QED
      BY <1>1, <2>1, StartSettled
  <1>3. ASSUME NEW m \in Meetings, NEW s \in Finished \cup {Absent}, NEW why \in Reasons,
               PersistedStop(m, s, why)
        PROVE  OutcomeInv'
    <2>1. FinalStatus(s) \in Finished \cup FailStatus
      BY FinalStatusType
    <2>2. StopMeeting(m, s, why) /\ UNCHANGED <<reconnected, passedHistory>>
      BY <1>3 DEF PersistedStop, Send, passed
    <2>3. Grows
      BY <1>1, <2>2, EndGrows
    <2>4. /\ RecordTransition(m, FinalStatus(s), why)
          /\ outbox' \ outbox \subseteq
                {StatusEvent(m, Move(status[m], FinalStatus(s), why)), PostEvent(m)}
      BY <2>2 DEF StopMeeting, StatusWebhooks, PostProcessing
    <2> QED
      BY <1>1, <2>1, <2>2, <2>3, <2>4, EndSettled
  <1>4. ASSUME NEW m \in Meetings, NEW s \in FailStatus, NEW why \in Reasons,
               PersistedFail(m, s, why)
        PROVE  OutcomeInv'
    <2>1. FailMeeting(m, s, why) /\ UNCHANGED <<reconnected, passedHistory>>
      BY <1>4 DEF PersistedFail, Send, passed
    <2>2. Grows
      BY <1>1, <2>1, EndGrows
    <2>3. /\ RecordTransition(m, s, why)
          /\ outbox' \ outbox \subseteq {StatusEvent(m, Move(status[m], s, why)), PostEvent(m)}
      BY <2>1 DEF FailMeeting, StatusWebhooks
    <2> QED
      BY <1>1, <2>1, <2>2, <2>3, EndSettled
  <1>5. CASE Restart
    BY <1>1, <1>5, RestartSettled
  <1>6. CASE \/ Land \/ Disconnect \/ Connect \/ Ready
             \/ (ClearQueued \/ Tick) /\ UNCHANGED redisVars
             \/ UNCHANGED recoveryVars
    <2>1. UNCHANGED <<status, history, outbox, passedHistory>> /\ (~reconnected' => ~reconnected)
      BY <1>6 DEF Land, Disconnect, Connect, Ready, ClearQueued, Tick, recoveryVars, redisVars,
         vars, witnesses, passed
    <2> QED
      BY <1>1, <2>1 DEF OutcomeInv
  <1> QED
    BY <1>2, <1>3, <1>4, <1>5, <1>6 DEF RecoveryNext

\* On a connection that was never lost, through any restarts, JobAI is told one outcome
\* of a meeting, and the one the gateway holds (transition and loadAll).
THEOREM HealthyOneOutcomeCorrect == RecoverySpec => []HealthyOneOutcome
  <1>1. RecoveryInit => OutcomeInv
    <2> SUFFICES ASSUME RecoveryInit
                 PROVE  OutcomeInv
      OBVIOUS
    <2>1. OrderInv
      BY OrderInit
    <2>2. \A m \in Meetings :
             Len(history[m]) = 0 /\ status[m] = Absent /\ Len(passedHistory[m]) = 0
      BY EmptySeq DEF RecoveryInit, Init, NothingPassed, Nothing
    <2>3. outbox = {}
      BY DEF RecoveryInit, Init
    <2> QED
      BY <2>1, <2>2, <2>3 DEF OutcomeInv, Settled, EndsAt
  <1>2. OutcomeInv => HealthyOneOutcome
    <2> SUFFICES ASSUME OutcomeInv, ~reconnected, NEW e \in outbox,
                        e.eventType = "meeting.status.changed",
                        e.transition.toStatus \in Terminal
                 PROVE  e.transition.toStatus = status[e.meeting]
      BY DEF HealthyOneOutcome, OneOutcome
    <2>1. e.meeting \in Meetings
      BY DEF OutcomeInv, OrderInv, IInv, RecoveryTypeOK, TypeOK, StatusEvents, PostEvents
    <2> DEFINE h == history[e.meeting]
    <2>2. h \in Seq(Transition) /\ Settled(h) /\ EndsAt(h, status[e.meeting])
      BY <2>1 DEF OutcomeInv, OrderInv, IInv, RecoveryTypeOK, TypeOK
    <2>3. PICK i \in 1..Len(h) : e.transition = h[i]
      <3>1. DOMAIN h = 1..Len(h)
        BY <2>2, LenProperties
      <3> QED
        BY <3>1 DEF OutcomeInv, Range
    <2>4. h # <<>> /\ Len(h) \in 1..Len(h) /\ i <= Len(h)
      BY <2>2, <2>3, EmptySeq, LenProperties
    <2>5. status[e.meeting] # Absent
      BY <2>1, <2>4 DEF OutcomeInv, OrderInv, IInv, UnopenedHasNoHistory
    <2> QED
      BY <2>2, <2>3, <2>4, <2>5 DEF Settled, EndsAt
  <1> QED
    BY <1>1, <1>2, OutcomeInvStep, PTL DEF RecoverySpec
-----------------------------------------------------------------------------
(* Nothing is forgotten                                                    *)

OnItsWay(c, cmds) == \E k \in 1..Len(cmds) : cmds[k] = c

\* What the process holds is in Redis, or on its way there.
MeetingKept(m) ==
    savedHistory[m] = history[m] \/ OnItsWay(SetMeeting(m, history[m]), pipe)
ItemKept(e) == e \in savedOutbox \/ OnItsWay(SetItem(e), pipe)

\* The inductive invariant of CaughtUp.
KeptInv ==
    /\ OrderInv
    /\ ~reconnected => (\A m \in Meetings : MeetingKept(m)) /\ (\A e \in outbox : ItemKept(e))

\* Every element of a finite set is in the sequence made of it.
LEMMA SetToSeqCovers ==
  ASSUME NEW S, IsFiniteSet(S), NEW x \in S
  PROVE  OnItsWay(x, SetToSeq(S))
  <1> DEFINE n == Cardinality(S)
  <1>1. n \in Nat /\ \E f \in [1..n -> S] : IsInjective(f)
    BY FS_CardinalityType DEF ExistsBijection, Bijection, Injection
  <1>2. SetToSeq(S) \in Injection(1..n, S)
    BY <1>1 DEF SetToSeq, Injection
  <1>3. Cardinality(1..n) = n
    BY <1>1, FS_Interval
  <1> HIDE DEF n
  <1>4. SetToSeq(S) \in Surjection(1..n, S)
    BY <1>2, <1>3, FS_Injection DEF n
  <1>5. SetToSeq(S) \in [1..n -> S] /\ \E k \in 1..n : SetToSeq(S)[k] = x
    BY <1>4 DEF Surjection
  <1>6. Len(SetToSeq(S)) = n
    BY <1>1, <1>5
  <1> QED
    BY <1>5, <1>6 DEF OnItsWay

\* What is on its way stays so when more is written.
LEMMA WayConcat ==
  ASSUME NEW s \in Seq(Commands), NEW t \in Seq(Commands), NEW c,
         OnItsWay(c, s) \/ OnItsWay(c, t)
  PROVE  OnItsWay(c, s \o t)
  <1>1. /\ Len(s) \in Nat /\ Len(t) \in Nat /\ Len(s \o t) = Len(s) + Len(t)
        /\ \A k \in 1..Len(s) + Len(t) : (s \o t)[k] = IF k <= Len(s) THEN s[k] ELSE t[k - Len(s)]
    BY ConcatProperties, LenProperties
  <1>2. ASSUME NEW k \in 1..Len(s), s[k] = c
        PROVE  OnItsWay(c, s \o t)
    BY <1>1, <1>2 DEF OnItsWay
  <1>3. ASSUME NEW k \in 1..Len(t), t[k] = c
        PROVE  OnItsWay(c, s \o t)
    <2>1. k + Len(s) \in 1..Len(s) + Len(t) /\ ~(k + Len(s) <= Len(s))
          /\ k + Len(s) - Len(s) = k
      BY <1>1
    <2> QED
      BY <1>1, <1>3, <2>1 DEF OnItsWay
  <1> QED
    BY <1>2, <1>3 DEF OnItsWay

\* A step that writes what it changes keeps everything.
LEMMA SendKept ==
  ASSUME KeptInv, OrderInv', NEW cmds \in Seq(Commands), Send(cmds), NEW m \in Meetings,
         \A n \in Meetings : n # m => history'[n] = history[n],
         OnItsWay(SetMeeting(m, history'[m]), cmds),
         \A e \in outbox' \ outbox : OnItsWay(SetItem(e), cmds)
  PROVE  KeptInv'
  <1> SUFFICES ASSUME ~reconnected'
               PROVE  /\ \A n \in Meetings : MeetingKept(n)'
                      /\ \A e \in outbox' : ItemKept(e)'
    BY DEF KeptInv
  <1>1. ~reconnected /\ conn # "down" /\ pipe \in Seq(Commands)
    BY DEF Send, KeptInv, OrderInv, IInv, RecoveryTypeOK
  <1>2. pipe' = pipe \o cmds /\ UNCHANGED <<savedHistory, savedOutbox>>
    BY <1>1 DEF Send
  <1>3. \A c : OnItsWay(c, pipe) \/ OnItsWay(c, cmds) => OnItsWay(c, pipe')
    BY <1>1, <1>2, WayConcat
  <1>4. ASSUME NEW n \in Meetings
        PROVE  MeetingKept(n)'
    BY <1>1, <1>2, <1>3 DEF KeptInv, MeetingKept
  <1>5. ASSUME NEW e \in outbox'
        PROVE  ItemKept(e)'
    BY <1>1, <1>2, <1>3 DEF KeptInv, ItemKept
  <1> QED
    BY <1>4, <1>5

\* The five writes of a start hold the history and the two webhooks.
LEMMA StartKept ==
  ASSUME KeptInv, OrderInv', NEW m \in Meetings, PersistedStart(m)
  PROVE  KeptInv'
  <1>1. StartMeeting(m) /\ TypeOK' /\ history \in [Meetings -> Seq(Transition)]
    BY DEF PersistedStart, KeptInv, OrderInv, IInv, RecoveryTypeOK, TypeOK
  <1> DEFINE h == history'[m]
             c1 == SetMeeting(m, SubSeq(h, 1, 1))
             c2 == SetMeeting(m, SubSeq(h, 1, 2))
             c3 == SetItem(StatusEvent(m, h[2]))
             c4 == SetMeeting(m, h)
             c5 == SetItem(StatusEvent(m, h[3]))
  <1>2. /\ outbox' \ outbox \subseteq {StatusEvent(m, h[2]), StatusEvent(m, h[3])}
        /\ \A n \in Meetings : n # m => history'[n] = history[n]
    BY <1>1 DEF StartMeeting
  <1>3. <<c1, c2, c3, c4, c5>> \in Seq(Commands)
    BY <1>1, StartWritesPast
  <1>4. Send(<<c1, c2, c3, c4, c5>>)
    BY DEF PersistedStart
  <1>5. /\ OnItsWay(SetMeeting(m, history'[m]), <<c1, c2, c3, c4, c5>>)
        /\ OnItsWay(SetItem(StatusEvent(m, h[2])), <<c1, c2, c3, c4, c5>>)
        /\ OnItsWay(SetItem(StatusEvent(m, h[3])), <<c1, c2, c3, c4, c5>>)
    <2>1. SetMeeting(m, history'[m]) = c4
      OBVIOUS
    <2> HIDE DEF c1, c2, c4
    <2>2. /\ Len(<<c1, c2, c3, c4, c5>>) = 5 /\ <<c1, c2, c3, c4, c5>>[4] = c4
          /\ <<c1, c2, c3, c4, c5>>[3] = c3 /\ <<c1, c2, c3, c4, c5>>[5] = c5
      OBVIOUS
    <2>3. 3 \in 1..5 /\ 4 \in 1..5 /\ 5 \in 1..5
      OBVIOUS
    <2> QED
      BY <2>1, <2>2, <2>3 DEF OnItsWay
  <1>6. \A e \in outbox' \ outbox : OnItsWay(SetItem(e), <<c1, c2, c3, c4, c5>>)
    BY <1>2, <1>5
  <1> HIDE DEF c1, c2, c3, c4, c5
  <1> QED
    BY <1>2, <1>3, <1>4, <1>5, <1>6, SendKept

\* The writes of an end hold the history and every new item.
LEMMA EndKept ==
  ASSUME KeptInv, OrderInv', NEW m \in Meetings, NEW to, NEW why,
         RecordTransition(m, to, why), Send(Writes(m)),
         NEW a, NEW b, outbox' \ outbox \subseteq {a, b}
  PROVE  KeptInv'
  <1> DEFINE written == {SetItem(e) : e \in outbox' \ outbox}
             record  == <<SetMeeting(m, history'[m])>>
  <1>1. TypeOK' /\ history \in [Meetings -> Seq(Transition)]
    BY DEF KeptInv, OrderInv, IInv, RecoveryTypeOK, TypeOK
  <1>2. Writes(m) \in Seq(Commands)
    BY <1>1, WritesPast
  <1>3. IsFiniteSet(written)
    <2>1. IsFiniteSet({SetItem(a)})
      BY FS_Singleton
    <2>2. IsFiniteSet({SetItem(a)} \cup {SetItem(b)})
      BY <2>1, FS_AddElement
    <2>3. written \in SUBSET ({SetItem(a)} \cup {SetItem(b)})
      OBVIOUS
    <2> QED
      BY <2>2, <2>3, FS_Subset
  <1>4. written \subseteq Commands
    <2> SUFFICES ASSUME NEW e \in outbox' \ outbox
                 PROVE  SetItem(e) \in Commands
      OBVIOUS
    <2>1. e \in StatusEvents \cup PostEvents
      BY <1>1 DEF TypeOK
    <2> QED
      BY <2>1, CommandTypes
  <1>5. SetToSeq(written) \in Seq(Commands)
    BY <1>3, <1>4, SetToSeqType, SeqMonotonic
  <1>6. SetMeeting(m, history'[m]) \in Commands
    BY <1>1, CommandTypes DEF TypeOK
  <1>7. record \in Seq(Commands) /\ OnItsWay(SetMeeting(m, history'[m]), record)
    <2> DEFINE c == SetMeeting(m, history'[m])
    <2> HIDE DEF c
    <2>1. c \in Commands => <<c>> \in Seq(Commands) /\ OnItsWay(c, <<c>>)
      BY DEF OnItsWay
    <2> QED
      BY <1>6, <2>1 DEF c
  <1>8. \A x \in written : OnItsWay(x, SetToSeq(written))
    BY <1>3, SetToSeqCovers
  <1>9. \A e \in outbox' \ outbox : SetItem(e) \in written
    OBVIOUS
  <1>10. Writes(m) = record \o SetToSeq(written)
    BY DEF Writes
  <1> HIDE DEF written, record
  <1>11. \A c : OnItsWay(c, record) \/ OnItsWay(c, SetToSeq(written)) => OnItsWay(c, Writes(m))
    BY <1>5, <1>7, <1>10, WayConcat
  <1>12. \A n \in Meetings : n # m => history'[n] = history[n]
    BY <1>1 DEF RecordTransition
  <1> QED
    BY <1>2, <1>7, <1>8, <1>9, <1>11, <1>12, SendKept

\* What lands is in Redis; an older record never replaces the last one.
LEMMA LandKept ==
  ASSUME KeptInv, OrderInv', Land
  PROVE  KeptInv'
  <1> SUFFICES ASSUME ~reconnected'
               PROVE  /\ \A m \in Meetings : MeetingKept(m)'
                      /\ \A e \in outbox' : ItemKept(e)'
    BY DEF KeptInv
  <1> DEFINE c == Head(pipe)
  <1>1. /\ ~reconnected /\ UNCHANGED <<history, outbox>>
        /\ pipe \in Seq(Commands) /\ pipe # <<>> /\ pipe' = Tail(pipe) /\ Executed(c)
        /\ Ordered(pipe, savedHistory) /\ AllPast(pipe, history, outbox)
        /\ history \in [Meetings -> Seq(Transition)]
        /\ savedHistory \in [Meetings -> Seq(Transition)]
    BY DEF Land, vars, witnesses, KeptInv, OrderInv, IInv, RecoveryTypeOK, TypeOK
  <1>2. /\ Len(pipe) \in Nat \ {0} /\ c = pipe[1] /\ c \in Commands
        /\ Len(Tail(pipe)) = Len(pipe) - 1
        /\ \A i \in 1..Len(Tail(pipe)) : Tail(pipe)[i] = pipe[i + 1]
    BY <1>1, HeadTailProperties, EmptySeq, ElementOfSeq
  <1>3. ASSUME NEW d, OnItsWay(d, pipe), d # c
        PROVE  OnItsWay(d, pipe')
    <2>1. PICK k \in 1..Len(pipe) : pipe[k] = d
      BY <1>3 DEF OnItsWay
    <2>2. k # 1
      BY <1>2, <1>3, <2>1
    <2>3. k - 1 \in 1..Len(Tail(pipe)) /\ (k - 1) + 1 = k
      BY <1>2, <2>1, <2>2
    <2> QED
      BY <1>1, <1>2, <2>1, <2>3 DEF OnItsWay
  <1> HIDE DEF c
  <1>4. ASSUME NEW m \in Meetings
        PROVE  MeetingKept(m)'
    <2>1. CASE IsSetMeeting(c) /\ c.key = m
      <3>1. /\ savedHistory'[m] = c.history /\ c.history \in Seq(Transition)
            /\ IsPrefix(savedHistory[m], c.history) /\ IsPrefix(c.history, history[m])
        BY <1>1, <1>2, <2>1, CommandKinds DEF Executed, Ordered, AllPast, Past
      <3>2. CASE savedHistory[m] = history[m]
        <4>1. savedHistory[m] = c.history
          BY <1>1, <3>1, <3>2, PrefixAntisymmetric
        <4> QED
          BY <1>1, <3>1, <3>2, <4>1 DEF MeetingKept
      <3>3. CASE OnItsWay(SetMeeting(m, history[m]), pipe) /\ SetMeeting(m, history[m]) # c
        BY <1>1, <1>3, <3>3 DEF MeetingKept
      <3>4. CASE SetMeeting(m, history[m]) = c
        <4>1. history[m] \in Seq(Transition)
          BY <1>1
        <4>2. c.history = history[m]
          BY <3>4, <4>1, CommandTypes
        <4> QED
          BY <1>1, <3>1, <4>2 DEF MeetingKept
      <3> QED
        BY <1>1, <3>2, <3>3, <3>4 DEF KeptInv, MeetingKept
    <2>2. CASE ~(IsSetMeeting(c) /\ c.key = m)
      <3>1. savedHistory'[m] = savedHistory[m]
        BY <1>1, <2>2 DEF Executed
      <3>2. SetMeeting(m, history[m]) # c
        <4>1. history[m] \in Seq(Transition)
          BY <1>1
        <4> QED
          BY <2>2, <4>1, CommandTypes
      <3> QED
        BY <1>1, <1>3, <3>1, <3>2 DEF KeptInv, MeetingKept
    <2> QED
      BY <2>1, <2>2
  <1>5. ASSUME NEW e \in outbox'
        PROVE  ItemKept(e)'
    <2>1. e \in outbox /\ e \in StatusEvents \cup PostEvents
      BY <1>1 DEF KeptInv, OrderInv, IInv, RecoveryTypeOK, TypeOK
    <2>2. CASE SetItem(e) = c
      <3>1. ~IsSetMeeting(c) /\ c.event = e
        BY <2>1, <2>2, CommandTypes
      <3> QED
        BY <1>1, <3>1 DEF Executed, ItemKept
    <2>3. CASE SetItem(e) # c
      <3>1. savedOutbox \subseteq savedOutbox'
        BY <1>1 DEF Executed
      <3> QED
        BY <1>1, <1>3, <2>1, <2>3, <3>1 DEF KeptInv, ItemKept
    <2> QED
      BY <2>2, <2>3
  <1> QED
    BY <1>4, <1>5

\* Every step keeps everything, as long as the connection lasts.
LEMMA KeptStep == KeptInv /\ [RecoveryNext]_recoveryVars => KeptInv'
  <1> SUFFICES ASSUME KeptInv, [RecoveryNext]_recoveryVars
               PROVE  KeptInv'
    OBVIOUS
  <1>1. OrderInv'
    BY OrderStep DEF KeptInv
  <1>2. ASSUME NEW m \in Meetings, PersistedStart(m)
        PROVE  KeptInv'
    BY <1>1, <1>2, StartKept
  <1>3. ASSUME NEW m \in Meetings, NEW s \in Finished \cup {Absent}, NEW why \in Reasons,
               PersistedStop(m, s, why)
        PROVE  KeptInv'
    <2>1. /\ RecordTransition(m, FinalStatus(s), why) /\ Send(Writes(m))
          /\ outbox' \ outbox \subseteq
                {StatusEvent(m, Move(status[m], FinalStatus(s), why)), PostEvent(m)}
      BY <1>3 DEF PersistedStop, StopMeeting, StatusWebhooks, PostProcessing
    <2> QED
      BY <1>1, <2>1, EndKept
  <1>4. ASSUME NEW m \in Meetings, NEW s \in FailStatus, NEW why \in Reasons,
               PersistedFail(m, s, why)
        PROVE  KeptInv'
    <2>1. /\ RecordTransition(m, s, why) /\ Send(Writes(m))
          /\ outbox' \ outbox \subseteq {StatusEvent(m, Move(status[m], s, why)), PostEvent(m)}
      BY <1>4 DEF PersistedFail, FailMeeting, StatusWebhooks
    <2> QED
      BY <1>1, <2>1, EndKept
  <1>5. CASE Land
    BY <1>1, <1>5, LandKept
  <1>6. CASE Disconnect \/ Connect \/ Ready
    <2>1. reconnected'
      BY <1>6 DEF Disconnect, Connect, Ready, witnesses, KeptInv, OrderInv
    <2> QED
      BY <1>1, <2>1 DEF KeptInv
  <1>7. CASE Restart
    <2>1. savedHistory \in [Meetings -> Seq(Transition)]
      BY DEF KeptInv, OrderInv, IInv, RecoveryTypeOK
    <2>2. UNCHANGED <<savedHistory, savedOutbox>>
      BY <1>7 DEF Restart, Hydrate
    <2>3. ~reconnected' => history' = savedHistory' /\ outbox' = savedOutbox'
      BY <1>7, <2>1, <2>2, RestartReadsAll
    <2> QED
      BY <1>1, <2>3 DEF KeptInv, MeetingKept, ItemKept
  <1>8. CASE ((ClearQueued \/ Tick) /\ UNCHANGED redisVars) \/ UNCHANGED recoveryVars
    <2>1. UNCHANGED <<history, outbox, pipe, savedHistory, savedOutbox, reconnected>>
      BY <1>8 DEF ClearQueued, Tick, vars, recoveryVars, redisVars, witnesses
    <2> QED
      BY <1>1, <2>1 DEF KeptInv, MeetingKept, ItemKept
  <1> QED
    BY <1>2, <1>3, <1>4, <1>5, <1>6, <1>7, <1>8 DEF RecoveryNext

\* On a connection that was never lost, once the writes have landed Redis holds the history
\* of every meeting and every webhook: nothing that changes is left unwritten.
THEOREM CaughtUpCorrect == RecoverySpec => []CaughtUp
  <1>1. RecoveryInit => KeptInv
    BY OrderInit DEF RecoveryInit, Init, Nothing, KeptInv, MeetingKept, ItemKept
  <1>2. KeptInv => CaughtUp
    <2> SUFFICES ASSUME KeptInv, ~reconnected, pipe = <<>>
                 PROVE  savedHistory = history /\ savedOutbox = outbox
      BY DEF CaughtUp
    <2>1. \A c : ~OnItsWay(c, pipe)
      BY DEF OnItsWay
    <2>2. /\ history \in [Meetings -> Seq(Transition)]
          /\ savedHistory \in [Meetings -> Seq(Transition)] /\ savedOutbox \subseteq outbox
      BY UnlostIsPast DEF KeptInv, OrderInv, IInv, RecoveryTypeOK, TypeOK
    <2>3. \A m \in Meetings : savedHistory[m] = history[m]
      BY <2>1 DEF KeptInv, MeetingKept
    <2>4. outbox \subseteq savedOutbox
      BY <2>1 DEF KeptInv, ItemKept
    <2> QED
      BY <2>2, <2>3, <2>4
  <1> QED
    BY <1>1, <1>2, KeptStep, PTL DEF RecoverySpec

-----------------------------------------------------------------------------
(* Deliveries                                                              *)

Item == [status: {"absent", "pending", "delivered", "terminal_failed"}, attemptCount: Nat,
         due: BOOLEAN, responseStatusCode: 0..599]

DeliveryTypes ==
    /\ items \in [Events -> Item] /\ saved \in [Events -> Item]
    /\ order \in Seq(Events) /\ todo \in [Passes -> Seq(Events)]
    /\ enabled \in BOOLEAN
    /\ accepted \subseteq Events /\ deliveryExcused \subseteq Events
    /\ sent \in [Events -> Nat]

\* An item that waits for another attempt has one left.
HasAttemptLeft(item) == item.status = "pending" => item.attemptCount < MaxAttempts

AttemptsLeft == \A e \in Events : HasAttemptLeft(items[e]) /\ HasAttemptLeft(saved[e])

\* What the process or Redis has as delivered was accepted.
AcceptedFirst ==
    enabled => \A e \in Events :
                  items[e].status = "delivered" \/ saved[e].status = "delivered" => e \in accepted

PostedBy(e) == {i \in Passes : todo[i] # <<>> /\ Head(todo[i]) = e}

\* The requests for an event were answered and counted by its item, but for the one that
\* the passes in S are posting: there is one of them at most, and the item is still ready.
CountedUpTo(S, item, requests) ==
    \/ S = {} /\ requests = item.attemptCount
    \/ (\E i \in Passes : S = {i}) /\ W!IsReady(item) /\ requests = item.attemptCount + 1

Counted(e) ==
    /\ CountedUpTo(PostedBy(e), items[e], sent[e])
    /\ items[e].attemptCount <= MaxAttempts
    /\ items[e].status = "absent" => items[e].attemptCount = 0

RequestsCounted ==
    /\ enabled => \A e \in Events \ deliveryExcused : Counted(e)
    /\ ~enabled => /\ \A i \in Passes : todo[i] = <<>>
                   /\ \A e \in Events : sent[e] = 0

\* The items there are, in Redis too, are the finitely many that were enqueued.
Known == {e \in Events : items[e] # W!NoItem \/ saved[e] # W!NoItem}
FinitelyMany == IsFiniteSet(Known)

\* The inductive invariant of the deliveries.
DeliveryInv == DeliveryTypes /\ AttemptsLeft /\ AcceptedFirst /\ RequestsCounted /\ FinitelyMany

\* The module that MCRecovery instantiates counts as this one does.
LEMMA SameCardinality == ASSUME NEW S PROVE W!Cardinality(S) = Cardinality(S)
  BY DEF W!Cardinality, Cardinality

\* A set of positions that is not empty has a first one.
LEMMA FirstOf ==
    ASSUME NEW S, S # {}, S \subseteq Nat
    PROVE  W!Min(S) \in S
  <1> DEFINE R == OpToRel(<, Nat)
  <1>1. \A x, y \in Nat : y < x => <<y, x>> \in R
    BY DEF OpToRel
  <1>2. \E x \in S : \A y \in S : ~(<<y, x>> \in R)
    BY NatLessThanWellFounded, WFMin
  <1> HIDE DEF R
  <1>3. PICK x \in S : \A y \in S : ~(<<y, x>> \in R)
    BY <1>2
  <1>4. \A y \in S : ~(y < x)
    BY <1>1, <1>3
  <1>5. \A y \in S : x <= y
    <2> SUFFICES ASSUME NEW y \in S
                 PROVE  x <= y
      OBVIOUS
    <2>1. x \in Nat /\ y \in Nat /\ ~(y < x)
      BY <1>4
    <2> QED
      BY <2>1
  <1> QED
    BY <1>5 DEF W!Min

\* dispatch goes on with an item that is ready.
LEMMA NextIsReady ==
    ASSUME NEW list \in Seq(Events), NEW its
    PROVE  /\ W!FromNextReady(list, its) \in Seq(Events)
           /\ W!FromNextReady(list, its) # <<>>
                 => /\ Head(W!FromNextReady(list, its)) \in Events
                    /\ W!IsReady(its[Head(W!FromNextReady(list, its))])
  <1> DEFINE ready == {k \in 1..Len(list) : W!IsReady(its[list[k]])}
             k == W!Min(ready)
  <1>1. W!FromNextReady(list, its) = IF ready = {} THEN <<>> ELSE SubSeq(list, k, Len(list))
    BY DEF W!FromNextReady
  <1>2. CASE ready = {}
    BY <1>1, <1>2
  <1>3. CASE ready # {}
    <2>1. ready \subseteq Nat
      OBVIOUS
    <2>2. k \in ready
      <3> HIDE DEF ready
      <3> QED
        BY <1>3, <2>1, FirstOf
    <2>3. k \in 1..Len(list) /\ W!IsReady(its[list[k]])
      BY <2>2
    <2> HIDE DEF k, ready
    <2>4. /\ SubSeq(list, k, Len(list)) \in Seq(Events)
          /\ Len(SubSeq(list, k, Len(list))) = Len(list) - k + 1
          /\ SubSeq(list, k, Len(list))[1] = list[k]
      BY <2>3, SubSeqProperties
    <2>5. Head(SubSeq(list, k, Len(list))) = list[k] /\ list[k] \in Events
      BY <2>3, <2>4
    <2> QED
      BY <1>1, <1>3, <2>3, <2>4, <2>5
  <1> QED
    BY <1>2, <1>3

\* What a pass does when it goes on: of an event that no two passes post, the requests
\* stay counted, if they were but for the pass itself.
LEMMA GoOnCounts ==
    ASSUME DeliveryTypes, NEW i \in Passes, NEW list \in Seq(Events), NEW its,
           W!GoOn(i, list, its)
    PROVE  /\ todo' \in [Passes -> Seq(Events)] /\ sent' \in [Events -> Nat]
           /\ deliveryExcused \subseteq deliveryExcused' /\ deliveryExcused' \subseteq Events
           /\ \A e \in Events \ deliveryExcused' :
                 CountedUpTo(PostedBy(e) \ {i}, its[e], sent[e])
                     => CountedUpTo(PostedBy(e)', its[e], sent'[e])
  <1> DEFINE rest  == W!FromNextReady(list, its)
             next  == IF rest = <<>> THEN {} ELSE {Head(rest)}
             other == {Head(todo[j]) : j \in {k \in Passes \ {i} : todo[k] # <<>>}}
  <1>1. /\ todo' = [todo EXCEPT ![i] = rest]
        /\ sent' = [e \in Events |-> sent[e] + (IF e \in next THEN 1 ELSE 0)]
        /\ deliveryExcused' = deliveryExcused \cup (next \cap other)
    BY DEF W!GoOn
  <1>2. /\ rest \in Seq(Events)
        /\ rest # <<>> => Head(rest) \in Events /\ W!IsReady(its[Head(rest)])
    BY NextIsReady
  <1> HIDE DEF rest
  <1>3. todo' \in [Passes -> Seq(Events)]
    BY <1>1, <1>2 DEF DeliveryTypes
  <1>4. sent' \in [Events -> Nat]
    <2>1. \A e \in Events : sent[e] + (IF e \in next THEN 1 ELSE 0) \in Nat
      BY DEF DeliveryTypes
    <2> QED
      BY <1>1, <2>1
  <1>5. deliveryExcused \subseteq deliveryExcused' /\ deliveryExcused' \subseteq Events
    BY <1>1, <1>2 DEF DeliveryTypes
  <1>6. ASSUME NEW e \in Events \ deliveryExcused',
               CountedUpTo(PostedBy(e) \ {i}, its[e], sent[e])
        PROVE  CountedUpTo(PostedBy(e)', its[e], sent'[e])
    <2>1. CASE e \in next
      <3>1. rest # <<>> /\ e = Head(rest) /\ W!IsReady(its[e]) /\ sent'[e] = sent[e] + 1
        BY <1>1, <1>2, <2>1
      <3>2. e \notin other
        BY <1>1, <1>6, <2>1
      <3>3. PostedBy(e) \ {i} = {}
        BY <3>2 DEF PostedBy
      <3>4. PostedBy(e)' = {i}
        BY <1>1, <3>1, <3>3 DEF PostedBy, DeliveryTypes
      <3>5. sent[e] = its[e].attemptCount
        BY <1>6, <3>3 DEF CountedUpTo
      <3> QED
        BY <3>1, <3>4, <3>5 DEF CountedUpTo
    <2>2. CASE e \notin next
      <3>1. sent'[e] = sent[e]
        BY <1>1, <2>2 DEF DeliveryTypes
      <3>2. PostedBy(e)' = PostedBy(e) \ {i}
        BY <1>1, <2>2 DEF PostedBy, DeliveryTypes
      <3> QED
        BY <1>6, <3>1, <3>2
    <2> QED
      BY <2>1, <2>2
  <1> QED
    BY <1>3, <1>4, <1>5, <1>6

\* A sequence of items that there are is one of events.
LEMMA SequencesOfKnown ==
    ASSUME DeliveryTypes, FinitelyMany, NEW S \in SUBSET Events,
           \A e \in S : items[e] # W!NoItem \/ saved[e] # W!NoItem,
           NEW s \in W!SetToSeqs(S)
    PROVE  s \in Seq(Events)
  <1>1. S \subseteq Known
    BY DEF Known
  <1>2. Cardinality(S) \in Nat
    BY <1>1, FS_Subset, FS_CardinalityType DEF FinitelyMany
  <1>3. s \in [1..Cardinality(S) -> S]
    BY SameCardinality DEF W!SetToSeqs
  <1> QED
    BY <1>2, <1>3

\* No item vanishes, and at most one comes.
LEMMA StaysFinite ==
    ASSUME FinitelyMany, NEW e \in Events, saved' = saved,
           \A x \in Events \ {e} : items'[x] = items[x],
           items'[e] # W!NoItem
    PROVE  FinitelyMany'
  <1>1. Known' \subseteq Known \cup {e}
    BY DEF Known
  <1>2. IsFiniteSet(Known \cup {e})
    BY FS_AddElement DEF FinitelyMany
  <1>3. IsFiniteSet(Known')
    BY <1>1, <1>2, FS_Subset
  <1> QED
    BY <1>3 DEF FinitelyMany

\* What the answer makes of an item.
LEMMA AnsweredFact ==
    ASSUME NEW item \in Item, NEW answer \in W!Answers
    PROVE  /\ W!Answered(item, answer) \in Item
           /\ W!Answered(item, answer) # W!NoItem
           /\ W!Answered(item, answer).attemptCount = item.attemptCount + 1
           /\ HasAttemptLeft(item) => HasAttemptLeft(W!Answered(item, answer))
           /\ W!Answered(item, answer).status = "delivered"
                 => item.status = "delivered" \/ answer \in 200..299
           /\ W!IsReady(item) => W!Answered(item, answer).status # "absent"
  <1>1. answer \in 0..599 /\ MaxAttempts \in Nat
    BY RestartsAssumption DEF W!Answers, W!NetworkError
  <1> DEFINE outcome == IF answer = W!NetworkError THEN "retry" ELSE W!classifyForRetry(answer)
  <1>2. outcome = "delivered" <=> answer \in 200..299
    BY <1>1 DEF W!classifyForRetry, W!NetworkError
  <1>3. W!Answered(item, answer) =
          IF outcome = "delivered" THEN W!markDelivered(item, answer)
          ELSE IF outcome = "terminal" \/ W!Exhausted(item) THEN W!markTerminalFailure(item, answer)
          ELSE W!markPendingRetry(item, answer)
    BY DEF W!Answered
  <1> HIDE DEF outcome
  <1>4. PICK n \in Nat : n = item.attemptCount + 1
    BY DEF Item
  <1>5. n # 0 /\ W!NoItem.attemptCount = 0
    BY <1>4 DEF Item, W!NoItem
  <1>6. CASE outcome = "delivered"
    <2> DEFINE changed == [item EXCEPT !.status = "delivered",
                                       !.responseStatusCode = answer, !.attemptCount = n]
    <2>1. W!Answered(item, answer) = changed
      BY <1>3, <1>4, <1>6 DEF W!markDelivered
    <2>2. changed \in Item /\ changed.status = "delivered" /\ changed.attemptCount = n
      BY <1>1 DEF Item
    <2> HIDE DEF changed
    <2> QED
      BY <1>2, <1>4, <1>5, <1>6, <2>1, <2>2 DEF HasAttemptLeft, W!IsReady
  <1>7. CASE outcome # "delivered" /\ (outcome = "terminal" \/ W!Exhausted(item))
    <2> DEFINE changed == [item EXCEPT !.status = "terminal_failed",
                                       !.responseStatusCode = answer, !.attemptCount = n]
    <2>1. W!Answered(item, answer) = changed
      BY <1>3, <1>4, <1>7 DEF W!markTerminalFailure
    <2>2. changed \in Item /\ changed.status = "terminal_failed" /\ changed.attemptCount = n
      BY <1>1 DEF Item
    <2> HIDE DEF changed
    <2> QED
      BY <1>4, <1>5, <2>1, <2>2 DEF HasAttemptLeft, W!IsReady
  <1>8. CASE outcome # "delivered" /\ outcome # "terminal" /\ ~W!Exhausted(item)
    <2> DEFINE changed == [item EXCEPT !.due = FALSE, !.responseStatusCode = answer,
                                       !.attemptCount = n]
    <2>1. W!Answered(item, answer) = changed
      BY <1>3, <1>4, <1>8 DEF W!markPendingRetry
    <2>2. changed \in Item /\ changed.status = item.status /\ changed.attemptCount = n
      BY <1>1 DEF Item
    <2>3. n < MaxAttempts
      BY <1>1, <1>4, <1>8 DEF W!Exhausted
    <2> HIDE DEF changed
    <2> QED
      BY <1>4, <1>5, <2>1, <2>2, <2>3 DEF HasAttemptLeft, W!IsReady
  <1> QED
    BY <1>6, <1>7, <1>8

-----------------------------------------------------------------------------
\* The outbox is empty.
LEMMA DeliveryInvInit == W!DeliveryInit => DeliveryInv
  <1> SUFFICES ASSUME W!DeliveryInit
               PROVE  DeliveryInv
    OBVIOUS
  <1>1. /\ W!NoItem \in Item /\ W!NoItem.status = "absent" /\ W!NoItem.attemptCount = 0
        /\ MaxAttempts \in Nat
    BY RestartsAssumption DEF W!NoItem, Item, W!NetworkError
  <1>2. /\ items = [e \in Events |-> W!NoItem] /\ saved = items /\ sent = [e \in Events |-> 0]
        /\ order = <<>> /\ todo = [i \in Passes |-> <<>>]
        /\ accepted = {} /\ deliveryExcused = {} /\ enabled \in BOOLEAN
    BY DEF W!DeliveryInit
  <1>3. DeliveryTypes
    BY <1>1, <1>2 DEF DeliveryTypes
  <1>4. AttemptsLeft /\ AcceptedFirst
    BY <1>1, <1>2 DEF AttemptsLeft, HasAttemptLeft, AcceptedFirst
  <1>5. RequestsCounted
    BY <1>1, <1>2 DEF RequestsCounted, Counted, CountedUpTo, PostedBy
  <1>6. FinitelyMany
    <2>1. Known = {}
      BY <1>2 DEF Known
    <2> QED
      BY <1>2, <2>1, FS_EmptySet DEF FinitelyMany
  <1> QED
    BY <1>3, <1>4, <1>5, <1>6 DEF DeliveryInv

\* A new event has an item that was not posted.
LEMMA EnqueueKeeps ==
    ASSUME DeliveryInv, NEW e \in Events, W!Enqueue(e)
    PROVE  DeliveryInv'
  <1>1. /\ W!NewItem \in Item /\ W!NewItem.status = "pending" /\ W!NewItem.attemptCount = 0
        /\ W!NewItem # W!NoItem /\ W!IsReady(W!NewItem)
    BY DEF W!NewItem, W!NoItem, Item, W!NetworkError, W!IsReady
  <1>2. DeliveryTypes /\ AttemptsLeft /\ AcceptedFirst /\ RequestsCounted /\ FinitelyMany
    BY DEF DeliveryInv
  <1>3. /\ items[e].status = "absent"
        /\ items' = [items EXCEPT ![e] = W!NewItem] /\ order' = Append(order, e)
        /\ UNCHANGED <<todo, saved, enabled, accepted, sent, deliveryExcused>>
    BY DEF W!Enqueue
  <1>4. DeliveryTypes'
    BY <1>1, <1>2, <1>3 DEF DeliveryTypes
  <1>5. AttemptsLeft'
    BY <1>1, <1>2, <1>3, RestartsAssumption DEF DeliveryTypes, AttemptsLeft, HasAttemptLeft
  <1>6. AcceptedFirst'
    BY <1>1, <1>2, <1>3 DEF DeliveryTypes, AcceptedFirst
  <1>7. RequestsCounted'
    <2>1. ASSUME enabled, NEW x \in Events \ deliveryExcused
          PROVE  Counted(x)'
      <3>1. Counted(x) /\ PostedBy(x)' = PostedBy(x)
        BY <1>2, <1>3, <2>1 DEF RequestsCounted, PostedBy
      <3>2. CASE x = e
        <4>1. PostedBy(e) = {} /\ sent[e] = 0
          BY <1>3, <3>1, <3>2 DEF Counted, CountedUpTo, W!IsReady
        <4> QED
          BY <1>1, <1>2, <1>3, <3>1, <3>2, <4>1, RestartsAssumption
             DEF DeliveryTypes, Counted, CountedUpTo
      <3>3. CASE x # e
        BY <1>2, <1>3, <3>1, <3>3 DEF DeliveryTypes, Counted
      <3> QED
        BY <3>2, <3>3
    <2> QED
      BY <1>2, <1>3, <2>1 DEF RequestsCounted
  <1>8. FinitelyMany'
    BY <1>1, <1>2, <1>3, StaysFinite DEF DeliveryTypes
  <1> QED
    BY <1>4, <1>5, <1>6, <1>7, <1>8 DEF DeliveryInv

\* An item is due again.
LEMMA DueKeeps ==
    ASSUME DeliveryInv, NEW e \in Events, W!Due(e)
    PROVE  DeliveryInv'
  <1>1. DeliveryTypes /\ AttemptsLeft /\ AcceptedFirst /\ RequestsCounted /\ FinitelyMany
    BY DEF DeliveryInv
  <1> DEFINE new == [items[e] EXCEPT !.due = TRUE]
  <1>a. items[e] \in Item
    BY <1>1 DEF DeliveryTypes
  <1>2. /\ new \in Item /\ new.status = items[e].status /\ new.due = TRUE
        /\ new.attemptCount = items[e].attemptCount
    BY <1>a DEF Item
  <1>3. /\ items' = [items EXCEPT ![e] = new]
        /\ items[e].status = "pending" /\ ~items[e].due
        /\ UNCHANGED <<order, todo, saved, enabled, accepted, sent, deliveryExcused>>
    BY <1>1 DEF W!Due, DeliveryTypes
  <1> HIDE DEF new
  <1>4. DeliveryTypes'
    BY <1>1, <1>2, <1>3 DEF DeliveryTypes
  <1>5. AttemptsLeft'
    BY <1>1, <1>2, <1>3 DEF DeliveryTypes, AttemptsLeft, HasAttemptLeft
  <1>6. AcceptedFirst'
    BY <1>1, <1>2, <1>3 DEF DeliveryTypes, AcceptedFirst
  <1>7. RequestsCounted'
    <2>1. ASSUME enabled, NEW x \in Events \ deliveryExcused
          PROVE  Counted(x)'
      <3>1. Counted(x) /\ PostedBy(x)' = PostedBy(x)
        BY <1>1, <1>3, <2>1 DEF RequestsCounted, PostedBy
      <3> QED
        BY <1>1, <1>2, <1>3, <3>1 DEF DeliveryTypes, Counted, CountedUpTo, W!IsReady
    <2> QED
      BY <1>1, <1>3, <2>1 DEF RequestsCounted
  <1>8. FinitelyMany'
    <2>1. new # W!NoItem
      BY <1>2, <1>3 DEF W!NoItem
    <2> QED
      BY <1>1, <1>3, <2>1, StaysFinite DEF DeliveryTypes
  <1> QED
    BY <1>4, <1>5, <1>6, <1>7, <1>8 DEF DeliveryInv

\* A pass begins.
LEMMA StartPassKeeps ==
    ASSUME DeliveryInv, NEW i \in Passes, W!StartPass(i)
    PROVE  DeliveryInv'
  <1>1. DeliveryTypes /\ AttemptsLeft /\ AcceptedFirst /\ RequestsCounted /\ FinitelyMany
    BY DEF DeliveryInv
  <1> DEFINE S == {e \in Events : W!IsReady(items[e])}
  <1>2. PICK ready \in W!SetToSeqs(S) : W!GoOn(i, ready, items)
    BY DEF W!StartPass
  <1>3. /\ enabled /\ todo[i] = <<>>
        /\ UNCHANGED <<items, order, saved, enabled, accepted>>
    BY DEF W!StartPass
  <1>4. S \in SUBSET Events /\ \A e \in S : items[e] # W!NoItem
    BY DEF W!IsReady, W!NoItem
  <1> HIDE DEF S
  <1>5. ready \in Seq(Events)
    BY <1>1, <1>2, <1>4, SequencesOfKnown
  <1>6. /\ todo' \in [Passes -> Seq(Events)] /\ sent' \in [Events -> Nat]
        /\ deliveryExcused \subseteq deliveryExcused' /\ deliveryExcused' \subseteq Events
        /\ \A e \in Events \ deliveryExcused' :
              CountedUpTo(PostedBy(e) \ {i}, items[e], sent[e])
                  => CountedUpTo(PostedBy(e)', items[e], sent'[e])
    BY <1>1, <1>2, <1>5, GoOnCounts
  <1>7. ASSUME NEW e \in Events \ deliveryExcused'
        PROVE  Counted(e)'
    <2>1. Counted(e) /\ PostedBy(e) \ {i} = PostedBy(e)
      BY <1>1, <1>3, <1>6 DEF RequestsCounted, PostedBy
    <2> QED
      BY <1>3, <1>6, <2>1 DEF Counted
  <1>8. DeliveryTypes'
    BY <1>1, <1>3, <1>6 DEF DeliveryTypes
  <1>9. AttemptsLeft' /\ AcceptedFirst'
    BY <1>1, <1>3 DEF AttemptsLeft, AcceptedFirst
  <1>10. RequestsCounted'
    BY <1>3, <1>7 DEF RequestsCounted
  <1>11. FinitelyMany'
    BY <1>1, <1>3 DEF FinitelyMany, Known
  <1> QED
    BY <1>8, <1>9, <1>10, <1>11 DEF DeliveryInv

\* A request is answered, and the pass goes on with the next item.
LEMMA AnswerKeeps ==
    ASSUME DeliveryInv, NEW i \in Passes, NEW answer \in W!Answers, W!Answer(i, answer)
    PROVE  DeliveryInv'
  <1>1. DeliveryTypes /\ AttemptsLeft /\ AcceptedFirst /\ RequestsCounted /\ FinitelyMany
    BY DEF DeliveryInv
  <1>a. todo[i] # <<>> /\ todo[i] \in Seq(Events)
    BY <1>1 DEF W!Answer, DeliveryTypes
  <1>b. PICK e \in Events : e = Head(todo[i])
    BY <1>a
  <1>2. todo[i] # <<>> /\ e \in Events /\ Tail(todo[i]) \in Seq(Events)
    BY <1>a
  <1> DEFINE new == W!Answered(items[e], answer)
  <1>3. /\ items' = [items EXCEPT ![e] = new] /\ W!GoOn(i, Tail(todo[i]), items')
        /\ W!Accepts(e, answer)
        /\ UNCHANGED <<order, saved, enabled>>
    BY <1>b DEF W!Answer
  <1>4. enabled /\ i \in PostedBy(e)
    BY <1>1, <1>2, <1>b DEF RequestsCounted, PostedBy, DeliveryTypes
  <1>5. /\ new \in Item /\ new # W!NoItem /\ new.attemptCount = items[e].attemptCount + 1
        /\ HasAttemptLeft(items[e]) => HasAttemptLeft(new)
        /\ new.status = "delivered" => items[e].status = "delivered" \/ answer \in 200..299
        /\ W!IsReady(items[e]) => new.status # "absent"
    BY <1>1, <1>2, AnsweredFact DEF DeliveryTypes
  <1>6. /\ accepted' \subseteq Events /\ accepted \subseteq accepted'
        /\ answer \in 200..299 => e \in accepted'
    BY <1>1, <1>2, <1>3 DEF W!Accepts, DeliveryTypes
  <1> HIDE DEF new
  <1>7. /\ todo' \in [Passes -> Seq(Events)] /\ sent' \in [Events -> Nat]
        /\ deliveryExcused \subseteq deliveryExcused' /\ deliveryExcused' \subseteq Events
        /\ \A x \in Events \ deliveryExcused' :
              CountedUpTo(PostedBy(x) \ {i}, items'[x], sent[x])
                  => CountedUpTo(PostedBy(x)', items'[x], sent'[x])
    BY <1>1, <1>2, <1>3, GoOnCounts
  <1>8. ASSUME NEW x \in Events \ deliveryExcused'
        PROVE  Counted(x)'
    <2>1. Counted(x)
      BY <1>1, <1>4, <1>7 DEF RequestsCounted
    <2>2. CASE x = e
      <3>1. PostedBy(e) \ {i} = {} /\ W!IsReady(items[e]) /\ sent[e] = items[e].attemptCount + 1
        BY <1>4, <2>1, <2>2 DEF Counted, CountedUpTo
      <3>2. items'[e] = new
        BY <1>1, <1>2, <1>3 DEF DeliveryTypes
      <3>3. CountedUpTo(PostedBy(e) \ {i}, items'[e], sent[e])
        BY <1>5, <3>1, <3>2 DEF CountedUpTo
      <3>4. CountedUpTo(PostedBy(e)', items'[e], sent'[e])
        BY <1>7, <2>2, <3>3
      <3>5. new.attemptCount <= MaxAttempts
        <4>1. items[e].attemptCount < MaxAttempts /\ items[e].attemptCount \in Nat
          BY <1>1, <1>2, <3>1 DEF AttemptsLeft, HasAttemptLeft, W!IsReady, DeliveryTypes, Item
        <4> QED
          BY <1>5, <4>1, RestartsAssumption
      <3> QED
        BY <1>5, <2>2, <3>1, <3>2, <3>4, <3>5 DEF Counted
    <2>3. CASE x # e
      <3>1. PostedBy(x) \ {i} = PostedBy(x) /\ items'[x] = items[x]
        BY <1>1, <1>2, <1>3, <1>b, <2>3 DEF PostedBy, DeliveryTypes
      <3> QED
        BY <1>7, <2>1, <3>1 DEF Counted
    <2> QED
      BY <2>2, <2>3
  <1>9. DeliveryTypes'
    BY <1>1, <1>2, <1>3, <1>5, <1>6, <1>7 DEF DeliveryTypes
  <1>10. AttemptsLeft'
    BY <1>1, <1>2, <1>3, <1>5 DEF AttemptsLeft, DeliveryTypes
  <1>11. AcceptedFirst'
    BY <1>1, <1>2, <1>3, <1>4, <1>5, <1>6 DEF AcceptedFirst, DeliveryTypes
  <1>12. RequestsCounted'
    BY <1>3, <1>4, <1>8 DEF RequestsCounted
  <1>13. FinitelyMany'
    BY <1>1, <1>2, <1>3, <1>5, StaysFinite DEF DeliveryTypes
  <1> QED
    BY <1>9, <1>10, <1>11, <1>12, <1>13 DEF DeliveryInv

\* With webhooks disabled nothing is posted.
LEMMA DisabledKeeps ==
    ASSUME DeliveryInv, W!PassWhileDisabled
    PROVE  DeliveryInv'
  <1>1. DeliveryTypes /\ AttemptsLeft /\ AcceptedFirst /\ RequestsCounted /\ FinitelyMany
    BY DEF DeliveryInv
  <1>2. /\ ~enabled
        /\ UNCHANGED <<order, todo, saved, enabled, accepted, sent, deliveryExcused>>
        /\ items' = [e \in Events |-> IF W!IsReady(items[e]) THEN W!markDelivered(items[e], 204)
                                      ELSE items[e]]
    BY DEF W!PassWhileDisabled
  <1>3. ASSUME NEW e \in Events
        PROVE  /\ items'[e] \in Item
               /\ HasAttemptLeft(items[e]) => HasAttemptLeft(items'[e])
               /\ items'[e] # W!NoItem <=> items[e] # W!NoItem
    <2>1. PICK item \in Item : item = items[e]
      BY <1>1 DEF DeliveryTypes
    <2>2. CASE W!IsReady(item)
      <3>1. PICK n \in Nat : n = item.attemptCount + 1
        BY DEF Item
      <3> DEFINE changed == [item EXCEPT !.status = "delivered",
                                         !.responseStatusCode = 204, !.attemptCount = n]
      <3>2. items'[e] = changed
        BY <1>2, <2>1, <2>2, <3>1 DEF W!markDelivered
      <3>3. changed \in Item /\ changed.status = "delivered"
        <4>1. \A code \in 0..599 :
                 LET c == [item EXCEPT !.status = "delivered",
                                       !.responseStatusCode = code, !.attemptCount = n]
                 IN  c \in Item /\ c.status = "delivered"
          BY DEF Item
        <4> QED
          BY <4>1
      <3> HIDE DEF changed
      <3> QED
        BY <2>1, <2>2, <3>2, <3>3 DEF HasAttemptLeft, W!NoItem, W!IsReady
    <2>3. CASE ~W!IsReady(item)
      BY <1>2, <2>1, <2>3
    <2> QED
      BY <2>2, <2>3
  <1>4. DeliveryTypes'
    BY <1>1, <1>2, <1>3 DEF DeliveryTypes
  <1>5. AttemptsLeft'
    BY <1>1, <1>2, <1>3 DEF AttemptsLeft
  <1>6. AcceptedFirst' /\ RequestsCounted'
    BY <1>1, <1>2 DEF AcceptedFirst, RequestsCounted
  <1>7. FinitelyMany'
    <2>1. Known' = Known
      BY <1>2, <1>3 DEF Known
    <2> QED
      BY <1>1, <2>1 DEF FinitelyMany
  <1> QED
    BY <1>4, <1>5, <1>6, <1>7 DEF DeliveryInv

\* Redis has the item.
LEMMA PersistKeeps ==
    ASSUME DeliveryInv, NEW e \in Events, W!Persist(e)
    PROVE  DeliveryInv'
  <1>1. DeliveryTypes /\ AttemptsLeft /\ AcceptedFirst /\ RequestsCounted /\ FinitelyMany
    BY DEF DeliveryInv
  <1>2. /\ saved' = [saved EXCEPT ![e] = items[e]] /\ saved[e] # items[e]
        /\ UNCHANGED <<items, order, todo, enabled, accepted, sent, deliveryExcused>>
    BY DEF W!Persist, W!gateway
  <1>3. DeliveryTypes'
    BY <1>1, <1>2 DEF DeliveryTypes
  <1>4. AttemptsLeft' /\ AcceptedFirst'
    BY <1>1, <1>2 DEF DeliveryTypes, AttemptsLeft, AcceptedFirst
  <1>5. RequestsCounted'
    BY <1>1, <1>2 DEF RequestsCounted, Counted, PostedBy
  <1>6. FinitelyMany'
    <2>1. Known' \subseteq Known
      BY <1>1, <1>2 DEF DeliveryTypes, Known
    <2> QED
      BY <1>1, <2>1, FS_Subset DEF FinitelyMany
  <1> QED
    BY <1>3, <1>4, <1>5, <1>6 DEF DeliveryInv

\* What was on its way, and what Redis does not have, is excused.
LEMMA RestartKeeps ==
    ASSUME DeliveryInv, W!Restart
    PROVE  DeliveryInv'
  <1>1. DeliveryTypes /\ AttemptsLeft /\ AcceptedFirst /\ RequestsCounted /\ FinitelyMany
    BY DEF DeliveryInv
  <1> DEFINE S == {e \in Events : items'[e] # W!NoItem}
  <1>0. PICK unread \in SUBSET {e \in Events : saved[e] # W!NoItem} :
            items' = [e \in Events |-> IF e \in unread THEN W!NoItem ELSE saved[e]]
    BY DEF W!Restart
  <1>2. /\ UNCHANGED <<saved, enabled, sent>>
        /\ order' \in W!SetToSeqs(S)
        /\ todo' = [i \in Passes |-> <<>>]
        /\ \E reached \in SUBSET W!InFlight : accepted' = accepted \cup reached
        /\ deliveryExcused' = deliveryExcused \cup W!InFlight
                                 \cup {e \in Events : items'[e] # items[e]}
    BY DEF W!Restart
  <1>b. /\ W!NoItem \in Item /\ W!NoItem.status = "absent"
        /\ \A e \in Events : items'[e] = saved[e] \/ items'[e] = W!NoItem
    BY <1>0 DEF W!NoItem, Item, W!NetworkError
  <1>3. W!InFlight \subseteq Events
    BY <1>1 DEF W!InFlight, DeliveryTypes
  <1>4. order' \in Seq(Events)
    <2>1. S \in SUBSET Events /\ \A e \in S : items[e] # W!NoItem \/ saved[e] # W!NoItem
      BY <1>b
    <2> HIDE DEF S
    <2> QED
      BY <1>1, <1>2, <2>1, SequencesOfKnown
  <1>5. DeliveryTypes'
    <2>1. items' \in [Events -> Item]
      BY <1>0, <1>1, <1>b DEF DeliveryTypes
    <2> QED
      BY <1>1, <1>2, <1>3, <1>4, <2>1 DEF DeliveryTypes
  <1>6. AttemptsLeft'
    BY <1>1, <1>2, <1>b DEF AttemptsLeft, HasAttemptLeft
  <1>7. AcceptedFirst'
    BY <1>1, <1>2, <1>b DEF AcceptedFirst
  <1>8. ASSUME enabled, NEW e \in Events \ deliveryExcused'
        PROVE  Counted(e)'
    <2>1. Counted(e) /\ items'[e] = items[e] /\ e \notin W!InFlight
      BY <1>1, <1>2, <1>8 DEF RequestsCounted
    <2>2. PostedBy(e) = {} /\ PostedBy(e)' = {}
      BY <1>2, <2>1 DEF PostedBy, W!InFlight
    <2> QED
      BY <1>2, <2>1, <2>2 DEF Counted, CountedUpTo
  <1>9. RequestsCounted'
    BY <1>1, <1>2, <1>8 DEF RequestsCounted
  <1>10. FinitelyMany'
    <2>1. Known' \subseteq Known
      BY <1>2, <1>b DEF Known
    <2> QED
      BY <1>1, <2>1, FS_Subset DEF FinitelyMany
  <1> QED
    BY <1>5, <1>6, <1>7, <1>9, <1>10 DEF DeliveryInv

\* Every step of the two keeps the invariant of the deliveries.
LEMMA DeliveryInvNext == DeliveryInv /\ [RestartsNext]_allParts => DeliveryInv'
  <1> SUFFICES ASSUME DeliveryInv, [RestartsNext]_allParts
               PROVE  DeliveryInv'
    OBVIOUS
  <1>1. CASE UNCHANGED deliveryVars
    BY <1>1 DEF deliveryVars, DeliveryInv, DeliveryTypes, AttemptsLeft, AcceptedFirst,
                RequestsCounted, Counted, PostedBy, FinitelyMany, Known
  <1>2. CASE UNCHANGED allParts \/ MeetingsStep
    BY <1>1, <1>2 DEF allParts, MeetingsStep, InMeetings
  <1>3. CASE DeliveryStep
    BY <1>3, EnqueueKeeps, DueKeeps, PersistKeeps, StartPassKeeps, AnswerKeeps, DisabledKeeps,
       RestartKeeps DEF DeliveryStep
  <1> QED
    BY <1>2, <1>3 DEF RestartsNext

\* What the invariant says: a webhook that is marked delivered was accepted, and no item is
\* posted more often than the policy allows or than it counts.
LEMMA DeliveryInvMeans == DeliveryInv => DeliveredMeansAccepted
  <1> SUFFICES ASSUME DeliveryInv
               PROVE  DeliveredMeansAccepted
    OBVIOUS
  <1>1. W!DeliveredMeansAccepted
    BY DEF DeliveryInv, AcceptedFirst, W!DeliveredMeansAccepted
  <1>2. ASSUME NEW e \in Events \ deliveryExcused
        PROVE  /\ sent[e] <= MaxAttempts
               /\ enabled => sent[e] = items[e].attemptCount + W!Cardinality(PostedBy(e))
    <2>1. CASE ~enabled
      BY <2>1, RestartsAssumption DEF DeliveryInv, RequestsCounted
    <2>2. CASE enabled
      <3>1. items[e].attemptCount \in Nat
        BY DEF DeliveryInv, DeliveryTypes, Item
      <3>2. CountedUpTo(PostedBy(e), items[e], sent[e]) /\ items[e].attemptCount <= MaxAttempts
        BY <2>2 DEF DeliveryInv, RequestsCounted, Counted
      <3>3. CASE PostedBy(e) = {} /\ sent[e] = items[e].attemptCount
        BY <3>1, <3>2, <3>3, SameCardinality, FS_EmptySet
      <3>4. CASE /\ \E i \in Passes : PostedBy(e) = {i}
                 /\ W!IsReady(items[e]) /\ sent[e] = items[e].attemptCount + 1
        <4>1. items[e].attemptCount < MaxAttempts
          BY <3>4 DEF DeliveryInv, AttemptsLeft, HasAttemptLeft, W!IsReady
        <4>2. W!Cardinality(PostedBy(e)) = 1
          BY <3>4, SameCardinality, FS_Singleton
        <4> QED
          BY <3>1, <3>4, <4>1, <4>2, RestartsAssumption
      <3> QED
        BY <3>2, <3>3, <3>4 DEF CountedUpTo
    <2> QED
      BY <2>1, <2>2
  <1>3. W!RequestsBounded
    BY <1>2 DEF W!RequestsBounded, PostedBy
  <1> QED
    BY <1>1, <1>3 DEF DeliveredMeansAccepted

\* Through overlapping passes, lost answers and restarts, a webhook that is marked delivered
\* was accepted by JobAI, and an item that no two passes posted and no restart set back is
\* posted as often as it counts and never more than JOBAI_WEBHOOK_MAX_ATTEMPTS times.
THEOREM DeliveredMeansAcceptedCorrect == RestartsSpec => []DeliveredMeansAccepted
  <1>1. RestartsInit => DeliveryInv
    BY DeliveryInvInit DEF RestartsInit
  <1> QED
    BY <1>1, DeliveryInvNext, DeliveryInvMeans, PTL DEF RestartsSpec

\* What a restart finds is a behaviour of each part: the records that are written behind
\* their changes, and the outbox whose items are delivered, step by step.
THEOREM RestartsImplementParts == RestartsSpec => RecoverySpec /\ W!DeliverySpec
  <1>1. RestartsInit => RecoveryInit /\ W!DeliveryInit
    BY DEF RestartsInit
  <1>2. [RestartsNext]_allParts => [RecoveryNext]_recoveryVars
    <2> SUFFICES ASSUME RestartsNext \/ UNCHANGED allParts
                 PROVE  [RecoveryNext]_recoveryVars
      OBVIOUS
    <2>1. CASE UNCHANGED allParts \/ DeliveryStep
      BY <2>1 DEF allParts, DeliveryStep, InDelivery
    <2>2. CASE MeetingsStep
      BY <2>2 DEF MeetingsStep, RecoveryNext
    <2> QED
      BY <2>1, <2>2 DEF RestartsNext
  <1>3. [RestartsNext]_allParts => [W!DeliveryNext]_W!deliveryVars
    <2> SUFFICES ASSUME RestartsNext \/ UNCHANGED allParts
                 PROVE  [W!DeliveryNext]_W!deliveryVars
      OBVIOUS
    <2>1. CASE UNCHANGED allParts \/ MeetingsStep
      BY <2>1 DEF allParts, MeetingsStep, InMeetings, deliveryVars, W!deliveryVars, W!gateway
    <2>2. CASE DeliveryStep
      BY <2>2 DEF DeliveryStep, W!DeliveryNext
    <2> QED
      BY <2>1, <2>2 DEF RestartsNext
  <1> QED
    BY <1>1, <1>2, <1>3, PTL DEF RestartsSpec, RecoverySpec, W!DeliverySpec

=============================================================================
