-------------------------- MODULE InterviewSyncProofs --------------------------
(***************************************************************************)
(* What the gateway holds of JobAI's interviews, for any interviews,       *)
(* requests, targets and restarts: every status it holds was JobAI's once, *)
(* a finished interview stays finished, only an answer opens the terminal  *)
(* lock, the invites that work go on working, and the outcome of a linked  *)
(* interview names the call.                                               *)
(*                                                                         *)
(* Requests, webhooks and answers come in any order, so that the invariant *)
(* says of everything that may be written some day, in memory, in Redis or *)
(* on its way in a request, what has to be true of it when it is written.  *)
(***************************************************************************)
EXTENDS MCInterviewSync, TLAPS

FinalNullxes == {"completed", "stopped_during_meeting"}

RequestRecords == [call: {"get", "update"}, interview: Interviews,
                   target: JobAiStatus \cup {None}, answer: JobAiStatus \cup {None}]

\* What is true of a record of i that was ever stored.
Good(i, rec) ==
    /\ rec \in Records
    /\ rec.status \in past[i]
    /\ rec.invites <= draws[i]
    /\ i \notin relinked /\ rec.status \in FINISHED_JOBAI_STATUSES
          => rec.nullxesStatus \in FinalNullxes

\* JobAI's side: the status it holds is one it has held, as is the first.
RemoteInv ==
    /\ remote \in [Interviews -> JobAiStatus]
    /\ past \in [Interviews -> SUBSET JobAiStatus]
    /\ \A i \in Interviews : remote[i] \in past[i] /\ "pending" \in past[i]

\* Memory: the index leads to the invites of the record, which have been drawn.
MemoryInv ==
    /\ byJobAiId \in [Interviews -> Records \cup {None}]
    /\ byInviteToken \in [Interviews -> SUBSET Nat]
    /\ draws \in [Interviews -> Nat]
    /\ \A i \in Interviews : ~Known(i) => byInviteToken[i] = {}
    /\ \A i \in Interviews : Known(i) => /\ Good(i, byJobAiId[i])
                                         /\ byJobAiId[i].invites >= 1
                                         /\ byInviteToken[i] = {byJobAiId[i].invites}

\* Redis: a record may be old, but it was good.
SavedInv ==
    /\ saved \in [Interviews -> Records \cup {None}]
    /\ \A i \in Interviews : saved[i] # None => Good(i, saved[i])

\* The old key is what the earlier version left.
StartInv ==
    /\ legacy \in [Interviews -> {None, Legacy}]
    /\ unread \subseteq Interviews
    /\ restarts \in 0..MaxRestarts

\* An answer that waits to be stored is a status JobAI has held.
RequestInv ==
    /\ request \in [Requests -> RequestRecords \cup {None}]
    /\ \A r \in Requests :
          request[r] # None /\ request[r].answer # None
             => request[r].answer \in past[request[r].interview]

\* A linked interview has a record with the link.
LinkInv ==
    /\ canceledSeen \cup linked \cup relinked \subseteq Interviews
    /\ \A i \in linked : Known(i) /\ byJobAiId[i].meeting

SentInv == sent # None /\ sent.linked => sent.named

IInv ==
    /\ RemoteInv /\ MemoryInv /\ SavedInv /\ StartInv /\ RequestInv /\ LinkInv /\ SentInv

-----------------------------------------------------------------------------
(* Operators                                                               *)

\* A status leads to statuses of JobAI.
LEMMA TransitionType ==
  ASSUME NEW s \in JobAiStatus
  PROVE  allowedJobAiTransitions[s] \subseteq JobAiStatus
  BY DEF allowedJobAiTransitions, JobAiStatus

\* JobAI's statuses lead to one of the gateway's, and a finished one to a final one.
LEMMA ResolveType ==
  ASSUME NEW s \in JobAiStatus, NEW current \in NullxesStatus
  PROVE  /\ resolveNullxesStatus(s, current) \in NullxesStatus
         /\ s \in FINISHED_JOBAI_STATUSES \/ current \in FinalNullxes
               => resolveNullxesStatus(s, current) \in FinalNullxes
  BY DEF resolveNullxesStatus, JobAiStatus, NullxesStatus, FINISHED_JOBAI_STATUSES, FinalNullxes

\* What upsert makes of the record it replaces.
LEMMA ProjectionFact ==
  ASSUME MemoryInv, NEW i \in Interviews, NEW status \in JobAiStatus
  PROVE  /\ projection(i, status) \in Records
         /\ projection(i, status).status = status
         /\ projection(i, status).meeting <=> Known(i) /\ byJobAiId[i].meeting
         /\ projection(i, status).invites
               = IF Known(i) THEN byJobAiId[i].invites ELSE draws[i] + 1
         /\ projection(i, status).invites >= 1
         /\ status \in FINISHED_JOBAI_STATUSES
               => projection(i, status).nullxesStatus \in FinalNullxes
         /\ Known(i) /\ byJobAiId[i].nullxesStatus \in FinalNullxes
               => projection(i, status).nullxesStatus \in FinalNullxes
  <1> DEFINE current == IF Known(i) THEN byJobAiId[i].nullxesStatus ELSE "idle"
  <1>1. draws[i] \in Nat
    BY DEF MemoryInv
  <1>2. Known(i) => byJobAiId[i] \in Records /\ byJobAiId[i].invites >= 1
    BY DEF MemoryInv, Good
  <1>3. current \in NullxesStatus
    BY <1>2 DEF Records, NullxesStatus
  <1>4. inviteProjection(i) = IF Known(i) THEN byJobAiId[i].invites ELSE draws[i] + 1
    BY <1>2 DEF inviteProjection, ensureInviteProjection, Drawn, Records
  <1>5. inviteProjection(i) \in Nat /\ inviteProjection(i) >= 1
    BY <1>1, <1>2, <1>4 DEF Records
  <1>6. projection(i, status) =
          [status |-> status, nullxesStatus |-> resolveNullxesStatus(status, current),
           meeting |-> Known(i) /\ byJobAiId[i].meeting, recording |-> FALSE,
           invites |-> inviteProjection(i)]
    BY DEF projection
  <1>7. (Known(i) /\ byJobAiId[i].meeting) \in BOOLEAN
    OBVIOUS
  <1>8. Known(i) /\ byJobAiId[i].nullxesStatus \in FinalNullxes => current \in FinalNullxes
    OBVIOUS
  <1> HIDE DEF current
  <1>9. /\ resolveNullxesStatus(status, current) \in NullxesStatus
        /\ status \in FINISHED_JOBAI_STATUSES \/ current \in FinalNullxes
              => resolveNullxesStatus(status, current) \in FinalNullxes
    BY <1>3, ResolveType
  <1>10. projection(i, status) \in Records
    BY <1>5, <1>6, <1>7, <1>9 DEF Records
  <1>11. /\ projection(i, status).status = status
         /\ projection(i, status).nullxesStatus = resolveNullxesStatus(status, current)
         /\ projection(i, status).meeting = (Known(i) /\ byJobAiId[i].meeting)
         /\ projection(i, status).invites = inviteProjection(i)
    BY <1>6
  <1> QED
    BY <1>4, <1>5, <1>8, <1>9, <1>10, <1>11

-----------------------------------------------------------------------------
(* Writing a record                                                        *)

\* A write of one good record, to memory and perhaps to Redis.
LEMMA WriteOne ==
  ASSUME MemoryInv, SavedInv, RemoteInv,
         NEW i \in Interviews, NEW rec \in Records,
         byJobAiId' = [byJobAiId EXCEPT ![i] = rec],
         saved' \in {saved, [saved EXCEPT ![i] = rec]},
         draws' \in [Interviews -> Nat],
         \A j \in Interviews : draws[j] <= draws'[j],
         byInviteToken' \in [Interviews -> SUBSET Nat],
         byInviteToken'[i] = {rec.invites},
         \A j \in Interviews : j # i => byInviteToken'[j] = byInviteToken[j],
         past' = past, relinked \subseteq relinked',
         rec.status \in past[i], rec.invites >= 1, rec.invites <= draws'[i],
         i \notin relinked' /\ rec.status \in FINISHED_JOBAI_STATUSES
            => rec.nullxesStatus \in FinalNullxes
  PROVE  MemoryInv' /\ SavedInv'
  <1>1. None \notin Records
    BY SyncAssumption
  <1>2. Good(i, rec)'
    BY DEF Good
  <1>3. ASSUME NEW j \in Interviews, NEW old \in Records, Good(j, old)
        PROVE  Good(j, old)'
    <2>1. draws[j] \in Nat /\ draws'[j] \in Nat /\ old.invites \in Nat
      BY DEF MemoryInv, Records
    <2> QED
      BY <1>3, <2>1 DEF Good
  <1>4. ASSUME NEW j \in Interviews, Known(j)'
        PROVE  /\ Good(j, byJobAiId[j])'
               /\ byJobAiId'[j].invites >= 1
               /\ byInviteToken'[j] = {byJobAiId'[j].invites}
    <2>1. CASE j = i
      <3>1. byJobAiId'[j] = rec
        BY <2>1 DEF MemoryInv
      <3> QED
        BY <1>2, <2>1, <3>1 DEF Good
    <2>2. CASE j # i
      <3>1. byJobAiId'[j] = byJobAiId[j] /\ Known(j)
        BY <1>4, <2>2 DEF MemoryInv, Known
      <3>2. /\ Good(j, byJobAiId[j]) /\ byJobAiId[j].invites >= 1
            /\ byInviteToken[j] = {byJobAiId[j].invites} /\ byJobAiId[j] \in Records
        BY <3>1 DEF MemoryInv, Good
      <3>3. Good(j, byJobAiId[j])'
        BY <1>3, <3>1, <3>2 DEF Good
      <3> QED
        BY <2>2, <3>1, <3>2, <3>3
    <2> QED
      BY <2>1, <2>2
  <1>5. ASSUME NEW j \in Interviews, ~Known(j)'
        PROVE  byInviteToken'[j] = {}
    <2>1. j # i
      BY <1>1, <1>5 DEF MemoryInv, Known
    <2> QED
      BY <1>5, <2>1 DEF MemoryInv, Known
  <1>6. byJobAiId' \in [Interviews -> Records \cup {None}]
    BY DEF MemoryInv
  <1>7. MemoryInv'
    BY <1>4, <1>5, <1>6 DEF MemoryInv
  <1>8. saved' \in [Interviews -> Records \cup {None}]
    BY DEF SavedInv
  <1>9. ASSUME NEW j \in Interviews, saved'[j] # None
        PROVE  Good(j, saved[j])'
    <2>1. CASE saved'[j] = saved[j]
      <3>1. saved[j] \in Records /\ Good(j, saved[j])
        BY <1>9, <2>1 DEF SavedInv
      <3> QED
        BY <1>3, <2>1, <3>1 DEF Good
    <2>2. CASE j = i /\ saved'[j] = rec
      BY <1>2, <2>2 DEF Good
    <2> QED
      BY <2>1, <2>2 DEF SavedInv
  <1> QED
    BY <1>7, <1>8, <1>9 DEF SavedInv

\* upsert of a status that JobAI has held.
LEMMA UpsertPreserves ==
  ASSUME MemoryInv, SavedInv, RemoteInv, NEW i \in Interviews,
         NEW status \in past[i], upsert(i, status),
         UNCHANGED <<past, relinked>>
  PROVE  /\ MemoryInv' /\ SavedInv'
         /\ byJobAiId' = [byJobAiId EXCEPT ![i] = projection(i, status)]
         /\ \A j \in Interviews : byInviteToken[j] # {} => byInviteToken'[j] = byInviteToken[j]
  <1> DEFINE rec == projection(i, status)
  <1>1. status \in JobAiStatus
    BY DEF RemoteInv
  <1>2. /\ rec \in Records /\ rec.status = status /\ rec.invites >= 1
        /\ rec.invites = IF Known(i) THEN byJobAiId[i].invites ELSE draws[i] + 1
        /\ status \in FINISHED_JOBAI_STATUSES => rec.nullxesStatus \in FinalNullxes
    BY <1>1, ProjectionFact
  <1>3. /\ byJobAiId' = [byJobAiId EXCEPT ![i] = rec]
        /\ byInviteToken' = [byInviteToken EXCEPT ![i] = {rec.invites}]
        /\ draws' = [draws EXCEPT ![i] = IF rec.invites > @ THEN rec.invites ELSE @]
        /\ saved' \in {saved, [saved EXCEPT ![i] = rec]}
    BY DEF upsert, Index, persistInterview
  <1> HIDE DEF rec
  <1>4. rec.invites \in Nat
    BY <1>2 DEF Records
  <1>5. /\ draws' \in [Interviews -> Nat]
        /\ \A j \in Interviews : draws[j] <= draws'[j]
        /\ rec.invites <= draws'[i]
    BY <1>3, <1>4 DEF MemoryInv
  <1>6. /\ byInviteToken' \in [Interviews -> SUBSET Nat]
        /\ byInviteToken'[i] = {rec.invites}
        /\ \A j \in Interviews : j # i => byInviteToken'[j] = byInviteToken[j]
    BY <1>3, <1>4 DEF MemoryInv
  <1>7. MemoryInv' /\ SavedInv'
    BY <1>2, <1>3, <1>5, <1>6, WriteOne
  <1>8. byInviteToken[i] # {} => byInviteToken'[i] = byInviteToken[i]
    BY <1>2, <1>6 DEF MemoryInv
  <1> QED
    BY <1>3, <1>6, <1>7, <1>8 DEF rec

\* A write that leaves the invites as they are: attachSession and attachRecording.
LEMMA WritePreserves ==
  ASSUME MemoryInv, SavedInv, RemoteInv, NEW i \in Interviews, Known(i),
         NEW rec \in Records, Write(i, rec),
         saved' \in {saved, [saved EXCEPT ![i] = rec]},
         past' = past, relinked \subseteq relinked',
         rec.status = byJobAiId[i].status, rec.invites = byJobAiId[i].invites,
         i \notin relinked' /\ rec.status \in FINISHED_JOBAI_STATUSES
            => rec.nullxesStatus \in FinalNullxes
  PROVE  /\ MemoryInv' /\ SavedInv'
         /\ byInviteToken' = byInviteToken
  <1>1. /\ byJobAiId' = [byJobAiId EXCEPT ![i] = rec]
        /\ byInviteToken' = byInviteToken /\ draws' = draws
    BY DEF Write
  <1>2. /\ byJobAiId[i] \in Records /\ byJobAiId[i].status \in past[i]
        /\ byJobAiId[i].invites <= draws[i] /\ byJobAiId[i].invites >= 1
        /\ byInviteToken[i] = {byJobAiId[i].invites}
    BY DEF MemoryInv, Good
  <1>3. /\ draws' \in [Interviews -> Nat]
        /\ \A j \in Interviews : draws[j] <= draws'[j]
    BY <1>1 DEF MemoryInv
  <1>4. byInviteToken' \in [Interviews -> SUBSET Nat]
    BY <1>1 DEF MemoryInv
  <1>5. MemoryInv' /\ SavedInv'
    BY <1>1, <1>2, <1>3, <1>4, WriteOne
  <1> QED
    BY <1>1, <1>5

\* Nothing is written, and JobAI's history of an interview may have grown.
LEMMA NoWritePreserves ==
  ASSUME MemoryInv, SavedInv, RemoteInv, UNCHANGED recordVars, relinked' = relinked,
         \A i \in Interviews : past[i] \subseteq past'[i]
  PROVE  MemoryInv' /\ SavedInv'
  <1>1. \A i \in Interviews : \A rec \in Records : Good(i, rec) => Good(i, rec)'
    BY DEF Good, recordVars
  <1>2. /\ byJobAiId' = byJobAiId /\ byInviteToken' = byInviteToken /\ draws' = draws
        /\ saved' = saved
    BY DEF recordVars
  <1>3. ASSUME NEW i \in Interviews, Known(i)'
        PROVE  /\ Good(i, byJobAiId[i])'
               /\ byJobAiId'[i].invites >= 1
               /\ byInviteToken'[i] = {byJobAiId'[i].invites}
    <2>1. /\ Good(i, byJobAiId[i]) /\ byJobAiId[i] \in Records
          /\ byJobAiId[i].invites >= 1 /\ byInviteToken[i] = {byJobAiId[i].invites}
      BY <1>2, <1>3 DEF MemoryInv, Known, Good
    <2>2. Good(i, byJobAiId[i])'
      BY <1>1, <1>2, <2>1 DEF Good
    <2> QED
      BY <1>2, <2>1, <2>2
  <1>4. MemoryInv'
    BY <1>2, <1>3 DEF MemoryInv, Known
  <1>5. ASSUME NEW i \in Interviews, saved'[i] # None
        PROVE  Good(i, saved[i])'
    <2>1. Good(i, saved[i]) /\ saved[i] \in Records
      BY <1>2, <1>5 DEF SavedInv, Good
    <2> QED
      BY <1>1, <1>2, <2>1 DEF Good
  <1> QED
    BY <1>2, <1>4, <1>5 DEF SavedInv

\* The record that an earlier version saved, with the invites that hydrate draws for it.
LEMMA LegacyFact ==
  ASSUME NEW n \in Nat
  PROVE  /\ Legacy \in Records /\ Legacy.status = "pending" /\ Legacy.invites = 0
         /\ Hydrated(Legacy, n) \in Records /\ Hydrated(Legacy, n).status = "pending"
         /\ Hydrated(Legacy, n).invites = n
         /\ "pending" \notin FINISHED_JOBAI_STATUSES
  BY DEF Legacy, Hydrated, Records, JobAiStatus, NullxesStatus, FINISHED_JOBAI_STATUSES

\* hydrate gives a record invites if it has none, and changes nothing else.
LEMMA HydratedFact ==
  ASSUME NEW rec \in Records, NEW n \in Nat, n >= 1
  PROVE  /\ Hydrated(rec, n) \in Records
         /\ Hydrated(rec, n).status = rec.status
         /\ Hydrated(rec, n).nullxesStatus = rec.nullxesStatus
         /\ Hydrated(rec, n).invites = IF rec.invites = 0 THEN n ELSE rec.invites
         /\ Hydrated(rec, n).invites \in Nat /\ Hydrated(rec, n).invites >= 1
         /\ rec.invites >= 1 => Hydrated(rec, n) = rec
  <1>1. rec.invites \in Nat
    BY DEF Records
  <1>2. Hydrated(rec, n) = [rec EXCEPT !.invites = IF rec.invites = 0 THEN n ELSE rec.invites]
    BY DEF Hydrated
  <1>3. rec.invites >= 1 => Hydrated(rec, n) = rec
    BY <1>1, <1>2 DEF Records
  <1>4. (IF rec.invites = 0 THEN n ELSE rec.invites) \in Nat
    BY <1>1
  <1> QED
    BY <1>1, <1>2, <1>3, <1>4 DEF Records

\* What a restart loads is as good as what Redis had: invites that a record has stay, and
\* a record that is read from its own key, with nothing over it, is as it was saved.
LEMMA LoadPreserves ==
  ASSUME MemoryInv, SavedInv, RemoteInv, StartInv, loadAll, UNCHANGED <<past, relinked>>
  PROVE  /\ MemoryInv' /\ SavedInv'
         /\ legacy' \in [Interviews -> {None, Legacy}] /\ unread' \subseteq Interviews
         /\ \A i \in Interviews :
               saved[i] # None /\ saved[i].invites >= 1 /\ FoundAgain(i)
                  => byJobAiId'[i] = saved[i]
  <1>1. None \notin Records
    BY SyncAssumption
  <1>2. PICK blob \in {legacy, NoBlob}, skipped \in SUBSET Interviews,
             first \in SUBSET Interviews, second \in SUBSET Interviews :
          /\ byJobAiId' = [i \in Interviews |-> hydrate(i, blob, skipped)]
          /\ byInviteToken' = [i \in Interviews |->
                                  IF byJobAiId'[i] = None THEN {} ELSE {byJobAiId'[i].invites}]
          /\ draws' = [i \in Interviews |->
                          IF byJobAiId'[i] # None /\ byJobAiId'[i].invites > draws[i]
                          THEN byJobAiId'[i].invites ELSE draws[i]]
          /\ saved' = [i \in Interviews |->
                          IF blob[i] # None /\ i \in second THEN byJobAiId'[i]
                          ELSE IF own(i, skipped) # None /\ i \in first THEN own(i, skipped)
                          ELSE saved[i]]
          /\ unread' = {i \in skipped : blob[i] = None}
          /\ legacy' \in {legacy, NoBlob}
    BY DEF loadAll, Index
  <1>3. blob \in [Interviews -> {None, Legacy}] /\ NoBlob \in [Interviews -> {None, Legacy}]
    BY DEF NoBlob, StartInv
  <1>4. ASSUME NEW i \in Interviews, NEW rec \in Records,
               rec.status \in past[i],
               i \notin relinked /\ rec.status \in FINISHED_JOBAI_STATUSES
                  => rec.nullxesStatus \in FinalNullxes,
               rec.invites <= draws'[i]
        PROVE  Good(i, rec)'
    BY <1>4 DEF Good
  <1>5. ASSUME NEW i \in Interviews, own(i, skipped) # None
        PROVE  /\ saved[i] # None /\ saved[i] \in Records /\ i \notin skipped
               /\ own(i, skipped) = Hydrated(saved[i], draws[i] + 1)
               /\ Good(i, saved[i])
               /\ draws[i] \in Nat /\ draws[i] + 1 \in Nat /\ draws[i] + 1 >= 1
    BY <1>5 DEF own, Drawn, SavedInv, Good, MemoryInv
  <1>6. ASSUME NEW i \in Interviews, own(i, skipped) # None
        PROVE  /\ own(i, skipped) \in Records
               /\ own(i, skipped).status \in past[i]
               /\ i \notin relinked /\ own(i, skipped).status \in FINISHED_JOBAI_STATUSES
                     => own(i, skipped).nullxesStatus \in FinalNullxes
               /\ own(i, skipped).invites >= 1 /\ own(i, skipped).invites <= draws[i] + 1
    <2>1. saved[i].invites <= draws[i] /\ saved[i].invites \in Nat
      BY <1>5, <1>6 DEF Good, Records
    <2>2. own(i, skipped).invites = IF saved[i].invites = 0 THEN draws[i] + 1
                                    ELSE saved[i].invites
      BY <1>5, <1>6, HydratedFact
    <2>3. own(i, skipped).invites >= 1 /\ own(i, skipped).invites <= draws[i] + 1
      <3>1. draws[i] \in Nat
        BY <1>5, <1>6
      <3> QED
        BY <2>1, <2>2, <3>1
    <2>4. /\ own(i, skipped) \in Records
          /\ own(i, skipped).status = saved[i].status
          /\ own(i, skipped).nullxesStatus = saved[i].nullxesStatus
      BY <1>5, <1>6, HydratedFact
    <2>5. Good(i, saved[i])
      BY <1>5, <1>6
    <2> QED
      BY <2>3, <2>4, <2>5 DEF Good
  <1>7. ASSUME NEW i \in Interviews, blob[i] # None
        PROVE  /\ byJobAiId'[i] \in Records
               /\ byJobAiId'[i].status \in past[i]
               /\ byJobAiId'[i].status \notin FINISHED_JOBAI_STATUSES
               /\ byJobAiId'[i].invites = draws[i] + 2
    <2>1. draws[i] \in Nat /\ draws[i] + 1 + 1 = draws[i] + 2 /\ draws[i] + 2 \in Nat
      BY DEF MemoryInv
    <2>2. byJobAiId'[i] = Hydrated(Legacy, draws[i] + 2)
      BY <1>2, <1>3, <1>7, <2>1 DEF hydrate, Drawn
    <2>3. "pending" \in past[i]
      BY DEF RemoteInv
    <2> QED
      BY <2>1, <2>2, <2>3, LegacyFact
  <1>8. ASSUME NEW i \in Interviews, blob[i] = None
        PROVE  byJobAiId'[i] = own(i, skipped)
    BY <1>2, <1>8 DEF hydrate
  <1>9. /\ draws' \in [Interviews -> Nat]
        /\ \A i \in Interviews : draws[i] <= draws'[i]
        /\ \A i \in Interviews : byJobAiId'[i] # None => byJobAiId'[i].invites <= draws'[i]
    <2>1. ASSUME NEW i \in Interviews, byJobAiId'[i] # None
          PROVE  byJobAiId'[i].invites \in Nat
      <3>1. byJobAiId'[i] \in Records
        BY <1>6, <1>7, <1>8, <2>1
      <3> QED
        BY <3>1 DEF Records
    <2>2. \A i \in Interviews : draws[i] \in Nat
      BY DEF MemoryInv
    <2> QED
      BY <1>2, <2>1, <2>2
  <1>10. ASSUME NEW i \in Interviews, byJobAiId'[i] # None
         PROVE  /\ Good(i, byJobAiId[i])'
                /\ byJobAiId'[i] \in Records
                /\ byJobAiId'[i].invites >= 1
                /\ byInviteToken'[i] = {byJobAiId'[i].invites}
    <2>1. /\ byJobAiId'[i] \in Records /\ byJobAiId'[i].status \in past[i]
          /\ i \notin relinked /\ byJobAiId'[i].status \in FINISHED_JOBAI_STATUSES
                => byJobAiId'[i].nullxesStatus \in FinalNullxes
      BY <1>6, <1>7, <1>8, <1>10
    <2>2. byJobAiId'[i].invites >= 1
      <3>1. CASE blob[i] = None
        BY <1>6, <1>8, <1>10, <3>1
      <3>2. CASE blob[i] # None
        <4>1. draws[i] \in Nat
          BY DEF MemoryInv
        <4> QED
          BY <1>7, <3>2, <4>1
      <3> QED
        BY <3>1, <3>2
    <2>3. byJobAiId'[i].invites <= draws'[i]
      BY <1>9, <1>10
    <2>4. Good(i, byJobAiId[i])'
      BY <2>1, <2>3 DEF Good
    <2>5. byInviteToken'[i] = {byJobAiId'[i].invites}
      BY <1>2, <1>10
    <2> QED
      BY <2>1, <2>2, <2>4, <2>5
  <1>11. byJobAiId' \in [Interviews -> Records \cup {None}]
    BY <1>2, <1>10
  <1>12. byInviteToken' \in [Interviews -> SUBSET Nat]
    <2>1. ASSUME NEW i \in Interviews, byJobAiId'[i] # None
          PROVE  byJobAiId'[i].invites \in Nat
      BY <1>10, <2>1 DEF Records
    <2> QED
      BY <1>2, <2>1
  <1>13. \A i \in Interviews : byJobAiId'[i] = None => byInviteToken'[i] = {}
    BY <1>2
  <1>14. MemoryInv'
    BY <1>9, <1>10, <1>11, <1>12, <1>13 DEF MemoryInv, Known
  <1>15. ASSUME NEW i \in Interviews, saved'[i] # None
         PROVE  saved'[i] \in Records /\ Good(i, saved[i])'
    <2>1. CASE blob[i] # None /\ i \in second
      <3>1. saved'[i] = byJobAiId'[i] /\ byJobAiId'[i] # None
        BY <1>2, <1>15, <2>1
      <3> QED
        BY <1>10, <3>1 DEF Good
    <2>2. CASE ~(blob[i] # None /\ i \in second) /\ own(i, skipped) # None /\ i \in first
      <3>1. saved'[i] = own(i, skipped)
        BY <1>2, <2>2
      <3>2. own(i, skipped).invites <= draws'[i]
        <4>1. CASE blob[i] = None
          BY <1>8, <1>9, <2>2, <4>1
        <4>2. CASE blob[i] # None
          <5>1. byJobAiId'[i] # None /\ byJobAiId'[i].invites = draws[i] + 2
            BY <1>1, <1>7, <4>2
          <5>2. draws[i] + 2 <= draws'[i] /\ draws[i] \in Nat /\ draws'[i] \in Nat
            BY <1>9, <5>1 DEF MemoryInv
          <5>3. own(i, skipped).invites <= draws[i] + 1 /\ own(i, skipped).invites \in Nat
            BY <1>6, <2>2 DEF Records
          <5> QED
            BY <5>2, <5>3
        <4> QED
          BY <4>1, <4>2
      <3> QED
        BY <1>4, <1>6, <2>2, <3>1, <3>2 DEF Good
    <2>3. CASE ~(blob[i] # None /\ i \in second) /\ ~(own(i, skipped) # None /\ i \in first)
      <3>1. saved'[i] = saved[i]
        BY <1>2, <2>3
      <3>2. saved[i] \in Records /\ Good(i, saved[i])
        BY <1>15, <3>1 DEF SavedInv, Good
      <3>3. saved[i].invites <= draws'[i]
        <4>1. saved[i].invites \in Nat /\ draws[i] \in Nat /\ draws'[i] \in Nat
          BY <1>9, <3>2 DEF Records, MemoryInv
        <4> QED
          BY <1>9, <3>2, <4>1 DEF Good
      <3> QED
        BY <3>1, <3>2, <3>3 DEF Good
    <2> QED
      BY <2>1, <2>2, <2>3
  <1>16. SavedInv'
    <2>1. saved' \in [Interviews -> Records \cup {None}]
      BY <1>2, <1>15
    <2> QED
      BY <1>15, <2>1 DEF SavedInv
  <1>17. ASSUME NEW i \in Interviews, saved[i] # None, saved[i].invites >= 1, FoundAgain(i)
         PROVE  byJobAiId'[i] = saved[i]
    <2>1. blob[i] = None /\ i \notin skipped
      BY <1>2, <1>17 DEF FoundAgain, NoBlob
    <2>2. byJobAiId'[i] = Hydrated(saved[i], draws[i] + 1)
      BY <1>8, <1>17, <2>1 DEF own, Drawn
    <2>3. saved[i] \in Records /\ draws[i] + 1 \in Nat /\ draws[i] + 1 >= 1
      BY <1>17 DEF SavedInv, MemoryInv
    <2> QED
      BY <1>17, <2>2, <2>3, HydratedFact
  <1>18. legacy' \in [Interviews -> {None, Legacy}] /\ unread' \subseteq Interviews
    BY <1>2, <1>3 DEF StartInv
  <1> QED
    BY <1>14, <1>16, <1>17, <1>18

-----------------------------------------------------------------------------
(* Requests and links                                                      *)

\* One request moves on.
LEMMA RequestPreserves ==
  ASSUME RequestInv, NEW r \in Requests, NEW q \in RequestRecords \cup {None},
         request' = [request EXCEPT ![r] = q],
         q # None /\ q.answer # None => q.answer \in past'[q.interview],
         \A i \in Interviews : past[i] \subseteq past'[i]
  PROVE  RequestInv'
  <1>1. request' \in [Requests -> RequestRecords \cup {None}]
    BY DEF RequestInv
  <1>2. ASSUME NEW x \in Requests, request'[x] # None, request'[x].answer # None
        PROVE  request'[x].answer \in past'[request'[x].interview]
    <2>1. CASE x = r
      BY <1>2, <2>1 DEF RequestInv
    <2>2. CASE x # r
      <3>1. request'[x] = request[x] /\ request[x] \in RequestRecords
        BY <1>2, <2>2 DEF RequestInv
      <3>2. request[x].interview \in Interviews
        BY <3>1 DEF RequestRecords
      <3> QED
        BY <1>2, <3>1, <3>2 DEF RequestInv
    <2> QED
      BY <2>1, <2>2
  <1> QED
    BY <1>1, <1>2 DEF RequestInv

\* A request that ends without an answer leaves the other requests as they are.
LEMMA ForgottenPreserves ==
  ASSUME RequestInv, NEW r \in Requests, Forgotten(r),
         \A i \in Interviews : past[i] \subseteq past'[i]
  PROVE  RequestInv'
  BY RequestPreserves DEF Forgotten

\* A step that touches no request keeps what is known of the requests.
LEMMA NoRequestPreserves ==
  ASSUME RequestInv, request' = request, \A i \in Interviews : past[i] \subseteq past'[i]
  PROVE  RequestInv'
  <1>1. ASSUME NEW r \in Requests, request[r] # None, request[r].answer # None
        PROVE  request[r].answer \in past'[request[r].interview]
    <2>1. request[r].interview \in Interviews
      BY <1>1 DEF RequestInv, RequestRecords
    <2> QED
      BY <1>1, <2>1 DEF RequestInv
  <1> QED
    BY <1>1 DEF RequestInv

\* A mutation is sent for an interview whose record, if it is linked, has the link.
LEMMA SendPreserves ==
  ASSUME RequestInv, NEW r \in Requests, NEW i \in Interviews, NEW target \in JobAiStatus,
         NEW rec, updateInterviewStatus(r, i, target, rec),
         i \in linked => rec.meeting,
         \A j \in Interviews : past[j] \subseteq past'[j]
  PROVE  RequestInv' /\ SentInv'
  <1>1. request' = [request EXCEPT ![r] = Update(i, target)]
    BY DEF updateInterviewStatus
  <1>2. Update(i, target) \in RequestRecords /\ Update(i, target).answer = None
    BY DEF Update, RequestRecords
  <1>3. RequestInv'
    BY <1>1, <1>2, RequestPreserves
  <1>4. sent'.linked = (i \in linked) /\ sent'.named = (rec.recording \/ rec.meeting)
    BY DEF updateInterviewStatus
  <1>5. SentInv'
    BY <1>4 DEF SentInv
  <1> QED
    BY <1>3, <1>5

\* A record that has a link keeps it, whatever is written over it.
LEMMA LinkPreserves ==
  ASSUME LinkInv, linked' = linked, canceledSeen' \subseteq Interviews, relinked' \subseteq Interviews,
         \A i \in Interviews : Known(i) /\ byJobAiId[i].meeting
                                  => byJobAiId'[i] # None /\ byJobAiId'[i].meeting
  PROVE  LinkInv'
  BY DEF LinkInv, Known

\* An upsert of a linked interview keeps the link to its meeting.
LEMMA UpsertLink ==
  ASSUME MemoryInv, LinkInv, linked' = linked, canceledSeen' \subseteq Interviews,
         relinked' = relinked, NEW i \in Interviews, NEW status \in JobAiStatus,
         byJobAiId' = [byJobAiId EXCEPT ![i] = projection(i, status)]
  PROVE  /\ LinkInv'
         /\ i \in linked => projection(i, status).meeting
  <1>1. /\ projection(i, status) \in Records
        /\ projection(i, status).meeting <=> Known(i) /\ byJobAiId[i].meeting
    BY ProjectionFact
  <1>2. ASSUME NEW j \in Interviews, Known(j), byJobAiId[j].meeting
        PROVE  byJobAiId'[j] # None /\ byJobAiId'[j].meeting
    <2>1. CASE j = i
      <3>1. byJobAiId'[j] = projection(i, status)
        BY <2>1 DEF MemoryInv
      <3> QED
        BY <1>1, <1>2, <2>1, <3>1, SyncAssumption
    <2>2. CASE j # i
      <3>1. byJobAiId'[j] = byJobAiId[j]
        BY <2>2 DEF MemoryInv
      <3> QED
        BY <1>2, <3>1 DEF Known
    <2> QED
      BY <2>1, <2>2
  <1>3. relinked' \subseteq Interviews
    BY DEF LinkInv
  <1>4. LinkInv'
    BY <1>2, <1>3, LinkPreserves
  <1> QED
    BY <1>1, <1>4 DEF LinkInv

-----------------------------------------------------------------------------
(* The steps                                                               *)

\* At first there is nothing to disagree about.
LEMMA InitHolds ==
  ASSUME SyncInit
  PROVE  IInv
  <1>1. None \notin Records /\ MaxRestarts \in Nat
    BY SyncAssumption
  <1> DEFINE first == Hydrated(Legacy, 1)
             old == Legacy
  <1>2. /\ old \in Records /\ old.status = "pending" /\ old.invites = 0
        /\ first \in Records /\ first.status = "pending" /\ first.invites = 1
    BY LegacyFact
  <1>3. "pending" \in JobAiStatus /\ "pending" \notin FINISHED_JOBAI_STATUSES
    BY DEF JobAiStatus, FINISHED_JOBAI_STATUSES
  <1>4. RemoteInv
    BY <1>3 DEF SyncInit, RemoteInv
  <1>5. /\ saved \in [Interviews -> {None, old, first}]
        /\ legacy \in [Interviews -> {None, Legacy}]
        /\ byJobAiId = [i \in Interviews |-> IF saved[i] = None /\ legacy[i] = None THEN None
                                             ELSE first]
        /\ byInviteToken = [i \in Interviews |-> IF byJobAiId[i] # None THEN {1} ELSE {}]
        /\ draws = [i \in Interviews |-> IF byJobAiId[i] # None THEN 1 ELSE 0]
        /\ past = [i \in Interviews |-> {"pending"}]
    BY DEF SyncInit, Known
  <1> HIDE DEF first, old
  <1>6. ASSUME NEW i \in Interviews, byJobAiId[i] # None
        PROVE  /\ Good(i, first) /\ Good(i, old)
               /\ byJobAiId[i] = first /\ draws[i] = 1 /\ byInviteToken[i] = {1}
    <2>1. draws[i] = 1 /\ past[i] = {"pending"}
      BY <1>5, <1>6
    <2>2. byJobAiId[i] = first /\ byInviteToken[i] = {1}
      BY <1>5, <1>6
    <2> QED
      BY <1>2, <1>3, <2>1, <2>2 DEF Good
  <1>7. first # None
    BY <1>1, <1>2
  <1>8. ASSUME NEW i \in Interviews, saved[i] # None
        PROVE  Good(i, saved[i])
    <2>1. byJobAiId[i] # None /\ saved[i] \in {old, first}
      BY <1>5, <1>7, <1>8
    <2> QED
      BY <1>6, <2>1
  <1>9. SavedInv
    BY <1>2, <1>5, <1>8 DEF SavedInv
  <1>10. /\ byJobAiId \in [Interviews -> Records \cup {None}]
         /\ byInviteToken \in [Interviews -> SUBSET Nat]
         /\ draws \in [Interviews -> Nat]
    BY <1>2, <1>5
  <1>11. ASSUME NEW i \in Interviews
         PROVE  /\ ~Known(i) => byInviteToken[i] = {}
                /\ Known(i) => /\ Good(i, byJobAiId[i])
                               /\ byJobAiId[i].invites >= 1
                               /\ byInviteToken[i] = {byJobAiId[i].invites}
    BY <1>2, <1>5, <1>6 DEF Known
  <1>12. MemoryInv
    BY <1>10, <1>11 DEF MemoryInv
  <1>13. RequestInv
    BY DEF SyncInit, RequestInv
  <1>14. LinkInv /\ SentInv /\ StartInv
    BY <1>1 DEF SyncInit, LinkInv, SentInv, StartInv
  <1> QED
    BY <1>4, <1>9, <1>12, <1>13, <1>14 DEF IInv

\* A step that sends nothing has sent nothing wrong.
LEMMA SilentSent ==
  ASSUME sent' = None
  PROVE  SentInv'
  BY DEF SentInv

\* JobAI moves, by itself or because a mutation asks it to.
LEMMA RemotePreserves ==
  ASSUME RemoteInv, NEW i \in Interviews, NEW s \in JobAiStatus,
         remote' = [remote EXCEPT ![i] = s], past' = [past EXCEPT ![i] = @ \cup {s}]
  PROVE  /\ RemoteInv' /\ s \in past'[i]
         /\ \A j \in Interviews : past[j] \subseteq past'[j]
  BY DEF RemoteInv

\* Every step preserves the inductive invariant.
LEMMA StepPreserves ==
  ASSUME IInv, [SyncNext]_syncVars
  PROVE  IInv'
  <1>i. RemoteInv /\ MemoryInv /\ SavedInv /\ StartInv /\ RequestInv /\ LinkInv /\ SentInv
    BY DEF IInv
  <1>s. UNCHANGED startVars => StartInv'
    BY <1>i DEF StartInv, startVars
  <1>u. past' = past => \A j \in Interviews : past[j] \subseteq past'[j]
    OBVIOUS
  <1>r. UNCHANGED <<remote, past>> => RemoteInv'
    BY <1>i DEF RemoteInv
  <1>l. UNCHANGED <<byJobAiId, linked, relinked, canceledSeen>> => LinkInv'
    BY <1>i DEF LinkInv, Known
  <1>1. ASSUME NEW i \in Interviews, JobAiMoves(i)
        PROVE  IInv'
    <2>1. PICK s \in allowedJobAiTransitions[remote[i]] :
             /\ remote' = [remote EXCEPT ![i] = s]
             /\ past' = [past EXCEPT ![i] = @ \cup {s}]
      BY <1>1 DEF JobAiMoves
    <2>2. s \in JobAiStatus
      BY <1>i, TransitionType DEF RemoteInv
    <2>3. RemoteInv' /\ \A j \in Interviews : past[j] \subseteq past'[j]
      BY <1>i, <2>1, <2>2, RemotePreserves
    <2>4. /\ UNCHANGED recordVars /\ sent' = None
          /\ UNCHANGED <<request, canceledSeen, linked, relinked, startVars, byJobAiId>>
      BY <1>1 DEF JobAiMoves, recordVars
    <2>5. MemoryInv' /\ SavedInv'
      BY <1>i, <2>3, <2>4, NoWritePreserves
    <2>6. RequestInv' /\ LinkInv' /\ SentInv'
      BY <1>i, <1>l, <2>3, <2>4, NoRequestPreserves, SilentSent
    <2> QED
      BY <1>s, <1>i, <2>3, <2>4, <2>5, <2>6 DEF IInv
  <1>2. ASSUME NEW r \in Requests, AnswerGet(r) \/ AnswerUpdate(r)
        PROVE  IInv'
    <2> DEFINE i == request[r].interview
               q(a) == [request[r] EXCEPT !.answer = a]
    <2>1. /\ request[r] \in RequestRecords /\ i \in Interviews
          /\ UNCHANGED recordVars /\ sent' = None
          /\ UNCHANGED <<canceledSeen, linked, relinked, startVars, byJobAiId>>
      BY <1>i, <1>2 DEF AnswerGet, AnswerUpdate, Awaits, RequestInv, RequestRecords, recordVars
    <2>2. ASSUME NEW a \in JobAiStatus
          PROVE  q(a) \in RequestRecords /\ q(a).answer = a /\ q(a).interview = i
      BY <2>1 DEF RequestRecords
    <2>3. /\ RemoteInv' /\ RequestInv'
          /\ \A j \in Interviews : past[j] \subseteq past'[j]
      <3>1. CASE AnswerGet(r)
        <4>1. /\ UNCHANGED <<remote, past>>
              /\ request' = [request EXCEPT ![r] = q(remote[i])]
          BY <3>1 DEF AnswerGet, Answered
        <4>2. remote[i] \in JobAiStatus /\ remote[i] \in past'[i]
          BY <1>i, <2>1, <4>1 DEF RemoteInv
        <4>3. RequestInv'
          <5> HIDE DEF q, i
          <5> QED
            BY <1>i, <1>u, <2>2, <4>1, <4>2, RequestPreserves
        <4> QED
          BY <1>r, <1>u, <4>1, <4>3
      <3>2. CASE AnswerUpdate(r)
        <4> DEFINE target == request[r].target
        <4>1. /\ target \in allowedJobAiTransitions[remote[i]]
              /\ remote' = [remote EXCEPT ![i] = target]
              /\ past' = [past EXCEPT ![i] = @ \cup {target}]
              /\ request' = [request EXCEPT ![r] = q(target)] \/ Forgotten(r)
          BY <3>2 DEF AnswerUpdate, Answered
        <4>2. target \in JobAiStatus
          BY <1>i, <2>1, <4>1, TransitionType DEF RemoteInv
        <4>3. /\ RemoteInv' /\ target \in past'[i]
              /\ \A j \in Interviews : past[j] \subseteq past'[j]
          BY <1>i, <2>1, <4>1, <4>2, RemotePreserves
        <4>4. RequestInv'
          <5> HIDE DEF q, i, target
          <5>1. CASE Forgotten(r)
            BY <1>i, <4>3, <5>1, ForgottenPreserves
          <5>2. CASE request' = [request EXCEPT ![r] = q(target)]
            BY <1>i, <2>2, <4>2, <4>3, <5>2, RequestPreserves
          <5> QED
            BY <4>1, <5>1, <5>2
        <4> QED
          BY <4>3, <4>4
      <3> QED
        BY <1>2, <3>1, <3>2
    <2>4. MemoryInv' /\ SavedInv' /\ LinkInv' /\ SentInv'
      BY <1>i, <1>l, <2>1, <2>3, NoWritePreserves, SilentSent
    <2> QED
      BY <1>s, <1>i, <2>1, <2>3, <2>4 DEF IInv
  <1>3. ASSUME NEW r \in Requests, Fails(r)
        PROVE  IInv'
    <2>1. /\ UNCHANGED recordVars /\ sent' = None /\ Forgotten(r)
          /\ UNCHANGED <<remote, past, canceledSeen, linked, relinked, startVars, byJobAiId>>
      BY <1>3 DEF Fails, recordVars
    <2>2. MemoryInv' /\ SavedInv' /\ RequestInv' /\ LinkInv' /\ SentInv' /\ RemoteInv'
      BY <1>i, <1>l, <1>r, <1>u, <2>1, NoWritePreserves, ForgottenPreserves, SilentSent
    <2> QED
      BY <1>s, <1>i, <2>1, <2>2 DEF IInv
  <1>4. ASSUME NEW i \in Interviews, ingestWebhook(i)
        PROVE  IInv'
    <2>1. PICK status \in past[i] :
             /\ upsert(i, status)
             /\ canceledSeen' = canceledSeen \cup IF status = "canceled" THEN {i} ELSE {}
             /\ IF status = "pending"
                THEN \E r \in Requests :
                        updateInterviewStatus(r, i, "received", projection(i, status))
                ELSE UNCHANGED request /\ sent' = None
      BY <1>4 DEF ingestWebhook
    <2>2. UNCHANGED <<remote, past, linked, relinked, startVars>>
      BY <1>4 DEF ingestWebhook
    <2>3. status \in JobAiStatus /\ "received" \in JobAiStatus
      BY <1>i DEF RemoteInv, JobAiStatus
    <2>4. /\ MemoryInv' /\ SavedInv'
          /\ byJobAiId' = [byJobAiId EXCEPT ![i] = projection(i, status)]
      BY <1>i, <2>1, <2>2, UpsertPreserves
    <2>5. canceledSeen' \subseteq Interviews
      BY <1>i, <2>1 DEF LinkInv
    <2>6. LinkInv' /\ (i \in linked => projection(i, status).meeting)
      BY <1>i, <2>2, <2>3, <2>4, <2>5, UpsertLink
    <2>7. RequestInv' /\ SentInv'
      <3>1. CASE status = "pending"
        BY <1>i, <1>u, <2>1, <2>2, <2>3, <2>6, <3>1, SendPreserves
      <3>2. CASE status # "pending"
        BY <1>i, <1>u, <2>1, <2>2, <3>2, NoRequestPreserves, SilentSent
      <3> QED
        BY <3>1, <3>2
    <2> QED
      BY <1>s, <1>i, <1>r, <2>2, <2>4, <2>6, <2>7 DEF IInv
  <1>5. ASSUME NEW r \in Requests, NEW i \in Interviews,
               transitionStatus(r, i) \/ synchronize(r, i)
        PROVE  IInv'
    <2>1. /\ UNCHANGED recordVars
          /\ UNCHANGED <<remote, past, canceledSeen, linked, relinked, startVars, byJobAiId>>
      BY <1>5 DEF transitionStatus, synchronize, recordVars
    <2>2. MemoryInv' /\ SavedInv' /\ LinkInv' /\ RemoteInv'
      BY <1>i, <1>l, <1>r, <1>u, <2>1, NoWritePreserves
    <2>3. ASSUME NEW target \in JobAiStatus \cup {None},
                 request' = [request EXCEPT ![r] = Get(i, target)], sent' = None
          PROVE  RequestInv' /\ SentInv'
      <3>1. Get(i, target) \in RequestRecords /\ Get(i, target).answer = None
        BY DEF Get, RequestRecords
      <3> QED
        BY <1>i, <1>u, <2>1, <2>3, <3>1, RequestPreserves, SilentSent
    <2>4. RequestInv' /\ SentInv'
      <3>1. CASE synchronize(r, i)
        BY <2>3, <3>1 DEF synchronize
      <3>2. CASE transitionStatus(r, i)
        <4>1. PICK target \in Targets :
                 IF Known(i) THEN updateInterviewStatus(r, i, target, byJobAiId[i])
                 ELSE request' = [request EXCEPT ![r] = Get(i, target)] /\ sent' = None
          BY <3>2 DEF transitionStatus
        <4>2. target \in JobAiStatus
          BY SyncAssumption
        <4>3. i \in linked => byJobAiId[i].meeting
          BY <1>i DEF LinkInv
        <4>4. CASE Known(i)
          BY <1>i, <1>u, <2>1, <4>1, <4>2, <4>3, <4>4, SendPreserves
        <4>5. CASE ~Known(i)
          BY <2>3, <4>1, <4>2, <4>5
        <4> QED
          BY <4>4, <4>5
      <3> QED
        BY <1>5, <3>1, <3>2
    <2> QED
      BY <1>s, <1>i, <2>1, <2>2, <2>4 DEF IInv
  <1>6. ASSUME NEW r \in Requests, Store(r)
        PROVE  IInv'
    <2> DEFINE i == request[r].interview
               status == request[r].answer
               rec == projection(i, status)
    <2>1. /\ request[r] # None /\ status # None
          /\ upsert(i, status)
          /\ IF request[r].call = "get" /\ request[r].target # None
             THEN Transition(r, i, request[r].target, rec) ELSE End(r)
          /\ UNCHANGED <<remote, past, canceledSeen, linked, relinked, startVars>>
      BY <1>6 DEF Store
    <2>2. /\ i \in Interviews /\ status \in past[i]
          /\ request[r].target # None => request[r].target \in JobAiStatus
      BY <1>i, <2>1 DEF RequestInv, RequestRecords
    <2>3. status \in JobAiStatus
      BY <1>i, <2>2 DEF RemoteInv
    <2> HIDE DEF i, status
    <2>4. /\ MemoryInv' /\ SavedInv'
          /\ byJobAiId' = [byJobAiId EXCEPT ![i] = rec]
      BY <1>i, <2>1, <2>2, UpsertPreserves
    <2>5. LinkInv' /\ (i \in linked => rec.meeting)
      BY <1>i, <2>1, <2>2, <2>3, <2>4, UpsertLink DEF LinkInv
    <2> HIDE DEF rec
    <2>6. RequestInv' /\ SentInv'
      <3>1. CASE End(r)
        BY <1>i, <1>u, <2>1, <3>1, ForgottenPreserves, SilentSent DEF End
      <3>2. CASE request[r].target # None /\ updateInterviewStatus(r, i, request[r].target, rec)
        BY <1>i, <1>u, <2>1, <2>2, <2>5, <3>2, SendPreserves
      <3> QED
        BY <2>1, <3>1, <3>2 DEF Transition
    <2> QED
      BY <1>s, <1>i, <1>r, <2>1, <2>4, <2>5, <2>6 DEF IInv
  <1>7. ASSUME NEW i \in Interviews, attachSession(i) \/ attachRecording(i)
        PROVE  IInv'
    <2>1. /\ Known(i) /\ sent' = None
          /\ UNCHANGED <<remote, past, request, canceledSeen, startVars>>
          /\ linked \subseteq linked' /\ linked' \subseteq linked \cup {i}
          /\ relinked \subseteq relinked' /\ relinked' \subseteq relinked \cup {i}
      BY <1>7 DEF attachSession, attachRecording
    <2>2. byJobAiId[i] \in Records /\ Good(i, byJobAiId[i])
      BY <1>i, <2>1 DEF MemoryInv, Good
    <2>3. PICK rec \in Records :
             /\ Write(i, rec)
             /\ saved' \in {saved, [saved EXCEPT ![i] = rec]}
             /\ rec.status = byJobAiId[i].status /\ rec.invites = byJobAiId[i].invites
             /\ i \in linked' => rec.meeting
             /\ i \notin relinked' /\ rec.status \in FINISHED_JOBAI_STATUSES
                   => rec.nullxesStatus \in FinalNullxes
      <3>1. CASE attachSession(i)
        <4>1. PICK status \in LinkStatus \cup {byJobAiId[i].nullxesStatus} :
                 LET rec == [byJobAiId[i] EXCEPT !.meeting = TRUE, !.nullxesStatus = status]
                 IN  Write(i, rec) /\ persistInterview(i, rec)
          BY <3>1 DEF attachSession
        <4> DEFINE rec == [byJobAiId[i] EXCEPT !.meeting = TRUE, !.nullxesStatus = status]
        <4>2. status \in NullxesStatus
          BY <2>2 DEF LinkStatus, NullxesStatus, Records
        <4>3. /\ rec \in Records /\ rec.status = byJobAiId[i].status
              /\ rec.invites = byJobAiId[i].invites /\ rec.meeting
          BY <2>2, <4>2 DEF Records
        <4>4. Write(i, rec) /\ saved' \in {saved, [saved EXCEPT ![i] = rec]}
          BY <4>1 DEF persistInterview
        <4>5. i \notin relinked' => byJobAiId[i].status \notin FINISHED_JOBAI_STATUSES
          BY <3>1 DEF attachSession, Finished
        <4> QED
          BY <4>3, <4>4, <4>5
      <3>2. CASE attachRecording(i)
        <4> DEFINE rec == [byJobAiId[i] EXCEPT !.recording = TRUE]
        <4>1. Write(i, rec) /\ saved' = saved /\ UNCHANGED <<linked, relinked>>
          BY <3>2 DEF attachRecording
        <4>2. /\ rec \in Records /\ rec.status = byJobAiId[i].status
              /\ rec.invites = byJobAiId[i].invites /\ rec.meeting = byJobAiId[i].meeting
              /\ rec.nullxesStatus = byJobAiId[i].nullxesStatus
          BY <2>2 DEF Records
        <4>3. i \in linked' => rec.meeting
          BY <1>i, <4>1, <4>2 DEF LinkInv
        <4>4. i \notin relinked' /\ rec.status \in FINISHED_JOBAI_STATUSES
                 => rec.nullxesStatus \in FinalNullxes
          BY <2>2, <4>1, <4>2 DEF Good
        <4> QED
          BY <4>1, <4>2, <4>3, <4>4
      <3> QED
        BY <1>7, <3>1, <3>2
    <2>4. MemoryInv' /\ SavedInv'
      BY <1>i, <2>1, <2>3, WritePreserves
    <2>5. LinkInv'
      <3>1. byJobAiId' = [byJobAiId EXCEPT ![i] = rec]
        BY <2>3 DEF Write
      <3>2. ASSUME NEW j \in linked'
            PROVE  Known(j)' /\ byJobAiId'[j].meeting
        <4>1. CASE j = i
          <5>1. byJobAiId'[j] = rec
            BY <1>i, <3>1, <4>1 DEF MemoryInv
          <5> QED
            BY <2>3, <4>1, <5>1, SyncAssumption DEF Known
        <4>2. CASE j # i
          <5>1. j \in linked /\ byJobAiId'[j] = byJobAiId[j]
            BY <1>i, <2>1, <3>1, <4>2 DEF MemoryInv, LinkInv
          <5> QED
            BY <1>i, <5>1 DEF LinkInv, Known
        <4> QED
          BY <4>1, <4>2
      <3> QED
        BY <1>i, <2>1, <3>2 DEF LinkInv
    <2>6. RequestInv' /\ SentInv'
      BY <1>i, <1>u, <2>1, NoRequestPreserves, SilentSent
    <2> QED
      BY <1>s, <1>i, <1>r, <2>1, <2>4, <2>5, <2>6 DEF IInv
  <1>8. CASE Restart
    <2>1. /\ loadAll /\ restarts < MaxRestarts /\ restarts' = restarts + 1
          /\ request' = [r \in Requests |-> None]
          /\ linked' = {i \in linked : byJobAiId'[i] # None /\ byJobAiId'[i].meeting}
          /\ sent' = None /\ UNCHANGED <<remote, past, canceledSeen, relinked>>
      BY <1>8 DEF Restart
    <2>2. /\ MemoryInv' /\ SavedInv'
          /\ legacy' \in [Interviews -> {None, Legacy}] /\ unread' \subseteq Interviews
      BY <1>i, <2>1, LoadPreserves
    <2>3. LinkInv'
      BY <1>i, <2>1, <2>2 DEF LinkInv, Known
    <2>4. RequestInv' /\ SentInv'
      BY <2>1 DEF RequestInv, SentInv
    <2>5. restarts' \in 0..MaxRestarts
      BY <1>i, <2>1, SyncAssumption DEF StartInv
    <2>6. StartInv'
      BY <2>2, <2>5 DEF StartInv
    <2> QED
      BY <1>r, <2>1, <2>2, <2>3, <2>4, <2>6 DEF IInv
  <1>9. CASE UNCHANGED syncVars
    <2>1. /\ UNCHANGED recordVars
          /\ UNCHANGED <<remote, past, request, sent, canceledSeen, linked, relinked, startVars,
                         byJobAiId>>
      BY <1>9 DEF syncVars, recordVars
    <2>2. SentInv'
      BY <1>i, <2>1 DEF SentInv
    <2> QED
      BY <1>s, <1>i, <1>l, <1>r, <1>u, <2>1, <2>2, NoWritePreserves, NoRequestPreserves DEF IInv
  <1> QED
    BY <1>1, <1>2, <1>3, <1>4, <1>5, <1>6, <1>7, <1>8, <1>9 DEF SyncNext

-----------------------------------------------------------------------------
(* What a step may do                                                      *)

StaysFinished(i) ==
    Known(i) /\ Finished(byJobAiId[i]) /\ i \notin relinked'
        /\ (restarts' # restarts => saved[i] = byJobAiId[i] /\ FoundAgain(i))
        => Known(i)' /\ Finished(byJobAiId'[i])

OpenedByAnswer(i) ==
    Known(i) /\ byJobAiId[i].status \in TERMINAL_LOCK_STATUSES
        /\ restarts' = restarts /\ byJobAiId'[i].status # byJobAiId[i].status
        => \E r \in Requests :
              /\ request[r] # None /\ request[r].interview = i
              /\ request[r].answer = byJobAiId'[i].status
              /\ request'[r] # request[r]

LinksStay(i) ==
    byInviteToken[i] # {}
       /\ (restarts' # restarts => /\ saved[i] # None
                                   /\ saved[i].invites \in byInviteToken[i]
                                   /\ FoundAgain(i))
        => byInviteToken'[i] = byInviteToken[i]

\* What upsert does to any interview, and that its own is finished already if it was:
\* resolveNullxesStatus never takes a final status back.
LEMMA UpsertSteps ==
  ASSUME IInv, NEW i \in Interviews, NEW status \in past[i], upsert(i, status),
         UNCHANGED <<past, relinked>>, NEW j \in Interviews
  PROVE  /\ StaysFinished(j) /\ LinksStay(j)
         /\ byJobAiId'[j] # byJobAiId[j] => j = i /\ byJobAiId'[i].status = status
  <1>1. MemoryInv /\ SavedInv /\ RemoteInv
    BY DEF IInv
  <1>2. /\ byJobAiId' = [byJobAiId EXCEPT ![i] = projection(i, status)]
        /\ LinksStay(j)
    BY <1>1, UpsertPreserves DEF LinksStay
  <1>3. status \in JobAiStatus
    BY <1>1 DEF RemoteInv
  <1>4. /\ projection(i, status).status = status /\ projection(i, status) \in Records
        /\ Known(i) /\ byJobAiId[i].nullxesStatus \in FinalNullxes
              => projection(i, status).nullxesStatus \in FinalNullxes
    BY <1>1, <1>3, ProjectionFact
  <1>5. StaysFinished(j)
    <2> SUFFICES ASSUME Known(j), Finished(byJobAiId[j]), j \notin relinked'
                 PROVE  Known(j)' /\ Finished(byJobAiId'[j])
      BY DEF StaysFinished
    <2>1. byJobAiId[j].nullxesStatus \in FinalNullxes
      BY <1>1 DEF MemoryInv, Good, Finished, FinalNullxes
    <2>2. CASE j = i
      <3>1. byJobAiId'[j] = projection(i, status)
        BY <1>1, <1>2, <2>2 DEF MemoryInv
      <3> QED
        BY <1>4, <2>1, <2>2, <3>1, SyncAssumption DEF Finished, FinalNullxes, Known
    <2>3. CASE j # i
      BY <1>1, <1>2, <2>3 DEF MemoryInv, Known
    <2> QED
      BY <2>2, <2>3
  <1>6. byJobAiId'[j] # byJobAiId[j] => j = i /\ byJobAiId'[i].status = status
    BY <1>1, <1>2, <1>4 DEF MemoryInv
  <1> QED
    BY <1>2, <1>5, <1>6

\* A step that writes no record takes nothing back.
LEMMA NoWriteSteps ==
  ASSUME UNCHANGED <<byJobAiId, byInviteToken>>, NEW j \in Interviews
  PROVE  StaysFinished(j) /\ OpenedByAnswer(j) /\ LinksStay(j)
  BY DEF StaysFinished, OpenedByAnswer, LinksStay, Known

\* What a step may do to a status, a lock and what was sent.
LEMMA Steps ==
  ASSUME IInv, [SyncNext]_syncVars, NEW j \in Interviews
  PROVE  StaysFinished(j) /\ OpenedByAnswer(j) /\ LinksStay(j)
  <1>i. /\ RemoteInv /\ MemoryInv /\ SavedInv /\ StartInv /\ RequestInv
        /\ restarts \in 0..MaxRestarts
    BY DEF IInv, StartInv
  <1>1. ASSUME NEW i \in Interviews, ingestWebhook(i)
        PROVE  StaysFinished(j) /\ OpenedByAnswer(j) /\ LinksStay(j)
    <2>1. PICK status \in past[i] : ~Locked(i, status) /\ upsert(i, status)
      BY <1>1 DEF ingestWebhook
    <2>2. UNCHANGED <<past, relinked, restarts>>
      BY <1>1 DEF ingestWebhook, startVars
    <2>3. /\ StaysFinished(j) /\ LinksStay(j)
          /\ byJobAiId'[j] # byJobAiId[j] => j = i /\ byJobAiId'[i].status = status
      BY <2>1, <2>2, UpsertSteps
    <2>4. OpenedByAnswer(j)
      BY <2>1, <2>3 DEF OpenedByAnswer, Locked
    <2> QED
      BY <2>3, <2>4
  <1>2. ASSUME NEW r \in Requests, Store(r)
        PROVE  StaysFinished(j) /\ OpenedByAnswer(j) /\ LinksStay(j)
    <2> DEFINE i == request[r].interview
               status == request[r].answer
    <2>1. /\ request[r] # None /\ status # None
          /\ upsert(i, status) /\ UNCHANGED <<past, relinked, restarts>>
          /\ i \in Interviews /\ status \in past[i] /\ request[r] \in RequestRecords
      BY <1>i, <1>2 DEF Store, RequestInv, RequestRecords, startVars
    <2>2. \/ request' = [request EXCEPT ![r] = None]
          \/ \E target : request' = [request EXCEPT ![r] = Update(i, target)]
      BY <1>2 DEF Store, Transition, End, Forgotten, updateInterviewStatus
    <2>3. request'[r] # request[r]
      <3>1. CASE request' = [request EXCEPT ![r] = None]
        BY <1>i, <2>1, <3>1 DEF RequestInv
      <3>2. ASSUME NEW target, request' = [request EXCEPT ![r] = Update(i, target)]
            PROVE  request'[r].answer # request[r].answer
        BY <1>i, <2>1, <3>2 DEF RequestInv, Update
      <3> QED
        BY <2>2, <3>1, <3>2
    <2> HIDE DEF i, status
    <2>4. /\ StaysFinished(j) /\ LinksStay(j)
          /\ byJobAiId'[j] # byJobAiId[j] => j = i /\ byJobAiId'[i].status = status
      BY <2>1, UpsertSteps
    <2>5. OpenedByAnswer(j)
      BY <2>1, <2>3, <2>4 DEF OpenedByAnswer, i, status
    <2> QED
      BY <2>4, <2>5
  <1>3. ASSUME NEW i \in Interviews, attachSession(i)
        PROVE  StaysFinished(j) /\ OpenedByAnswer(j) /\ LinksStay(j)
    <2>1. PICK status \in LinkStatus \cup {byJobAiId[i].nullxesStatus} :
             byJobAiId' = [byJobAiId EXCEPT ![i] =
                             [byJobAiId[i] EXCEPT !.meeting = TRUE, !.nullxesStatus = status]]
      BY <1>3 DEF attachSession, Write
    <2>2. /\ Known(i) /\ byInviteToken' = byInviteToken
          /\ Finished(byJobAiId[i]) => i \in relinked'
      BY <1>3 DEF attachSession, Write
    <2>3. byJobAiId[i] \in Records
      BY <1>i, <2>2 DEF MemoryInv, Good
    <2>4. /\ j # i => byJobAiId'[j] = byJobAiId[j]
          /\ j = i => byJobAiId'[j].status = byJobAiId[j].status
      BY <1>i, <2>1, <2>3 DEF MemoryInv, Records
    <2>5. StaysFinished(j)
      BY <2>2, <2>4 DEF StaysFinished, Known
    <2> QED
      BY <2>2, <2>4, <2>5 DEF OpenedByAnswer, LinksStay
  <1>4. ASSUME NEW i \in Interviews, attachRecording(i)
        PROVE  StaysFinished(j) /\ OpenedByAnswer(j) /\ LinksStay(j)
    <2>1. /\ Known(i) /\ byInviteToken' = byInviteToken
          /\ byJobAiId' = [byJobAiId EXCEPT ![i] = [byJobAiId[i] EXCEPT !.recording = TRUE]]
      BY <1>4 DEF attachRecording, Write
    <2>2. byJobAiId[i] \in Records /\ [byJobAiId[i] EXCEPT !.recording = TRUE] \in Records
      <3>1. byJobAiId[i] \in Records
        BY <1>i, <2>1 DEF MemoryInv, Good
      <3> QED
        BY <3>1 DEF Records
    <2>3. /\ j # i => byJobAiId'[j] = byJobAiId[j]
          /\ j = i => /\ byJobAiId'[j].status = byJobAiId[j].status
                      /\ byJobAiId'[j].nullxesStatus = byJobAiId[j].nullxesStatus
      BY <1>i, <2>1, <2>2 DEF MemoryInv, Records
    <2>4. Known(j) => Known(j)'
      BY <1>i, <2>1, <2>2, SyncAssumption DEF Known, MemoryInv
    <2> QED
      BY <2>1, <2>3, <2>4 DEF StaysFinished, Finished, OpenedByAnswer, LinksStay
  <1>5. CASE Restart
    <2>1. loadAll /\ restarts' = restarts + 1 /\ UNCHANGED <<past, relinked>>
      BY <1>5 DEF Restart
    <2>2. restarts' # restarts
      BY <1>i, <2>1
    <2>3. saved[j] # None /\ saved[j].invites >= 1 /\ FoundAgain(j) => byJobAiId'[j] = saved[j]
      BY <1>i, <2>1, LoadPreserves
    <2>4. MemoryInv'
      BY <1>i, <2>1, LoadPreserves
    <2>5. StaysFinished(j)
      BY <1>i, <2>2, <2>3 DEF StaysFinished, MemoryInv, Known
    <2>6. LinksStay(j)
      <3> SUFFICES ASSUME byInviteToken[j] # {}, saved[j] # None,
                          saved[j].invites \in byInviteToken[j], FoundAgain(j)
                   PROVE  byInviteToken'[j] = byInviteToken[j]
        BY <2>2 DEF LinksStay
      <3>1. /\ Known(j) /\ byJobAiId[j].invites >= 1
            /\ byInviteToken[j] = {byJobAiId[j].invites}
        BY <1>i DEF MemoryInv
      <3>2. saved[j].invites = byJobAiId[j].invites
        BY <3>1
      <3>3. byJobAiId'[j] = saved[j]
        BY <2>3, <3>1, <3>2
      <3> QED
        BY <2>4, <3>1, <3>2, <3>3 DEF MemoryInv, Known
    <2> QED
      BY <2>2, <2>5, <2>6 DEF OpenedByAnswer
  <1>6. CASE UNCHANGED recordVars
    BY <1>6, NoWriteSteps DEF recordVars
  <1> QED
    <2>1. ASSUME NEW i \in Interviews, NEW r \in Requests,
                 \/ JobAiMoves(i) \/ transitionStatus(r, i) \/ synchronize(r, i)
                 \/ AnswerGet(r) \/ AnswerUpdate(r) \/ Fails(r)
          PROVE  UNCHANGED recordVars
      BY <2>1 DEF JobAiMoves, transitionStatus, synchronize, AnswerGet, AnswerUpdate, Fails
    <2>2. UNCHANGED syncVars => UNCHANGED recordVars
      BY DEF syncVars
    <2>3. ASSUME NEW i \in Interviews, JobAiMoves(i)
          PROVE  UNCHANGED recordVars
      BY <2>3 DEF JobAiMoves
    <2>4. ASSUME NEW r \in Requests, AnswerGet(r) \/ AnswerUpdate(r) \/ Fails(r)
          PROVE  UNCHANGED recordVars
      BY <2>4 DEF AnswerGet, AnswerUpdate, Fails
    <2> QED
      BY <1>1, <1>2, <1>3, <1>4, <1>5, <1>6, <2>1, <2>2, <2>3, <2>4 DEF SyncNext

-----------------------------------------------------------------------------
(* The theorems                                                            *)

\* The inductive invariant holds for ever.
LEMMA Invariance == SyncSpec => []IInv
  <1>1. SyncInit => IInv
    BY InitHolds
  <1>2. IInv /\ [SyncNext]_syncVars => IInv'
    BY StepPreserves
  <1> QED
    BY <1>1, <1>2, PTL DEF SyncSpec

\* However requests, webhooks, answers and restarts overtake each other, every status the
\* gateway holds is one that JobAI has held, and the mutation that tells JobAI the outcome
\* of a linked interview names the call (interviewSyncService.ts, interviewStore.ts).
THEOREM OnlyWhatHappenedCorrect == SyncSpec => []OnlyWhatHappened
  <1>1. IInv => OnlyWhatHappened
    <2> SUFFICES ASSUME IInv PROVE OnlyWhatHappened
      OBVIOUS
    <2>1. /\ RemoteInv /\ MemoryInv /\ LinkInv /\ SentInv
          /\ restarts \in 0..MaxRestarts /\ unread \subseteq Interviews
      BY DEF IInv, StartInv
    <2>2. ASSUME NEW i \in Interviews
          PROVE  /\ byInviteToken[i] \subseteq 1..draws[i]
                 /\ Known(i) => byJobAiId[i] \in Records /\ byJobAiId[i].status \in past[i]
      <3>1. CASE Known(i)
        <4>1. /\ byJobAiId[i] \in Records /\ byJobAiId[i].status \in past[i]
              /\ byJobAiId[i].invites >= 1 /\ byJobAiId[i].invites <= draws[i]
              /\ byInviteToken[i] = {byJobAiId[i].invites} /\ draws[i] \in Nat
          BY <2>1, <3>1 DEF MemoryInv, Good
        <4>2. byJobAiId[i].invites \in Nat
          BY <4>1 DEF Records
        <4> QED
          BY <4>1, <4>2
      <3>2. CASE ~Known(i)
        BY <2>1, <3>2 DEF MemoryInv
      <3> QED
        BY <3>1, <3>2
    <2>3. SyncTypeOK
      BY <2>1, <2>2 DEF SyncTypeOK, RemoteInv, LinkInv
    <2>4. HeldStatusWasReported
      BY <2>2 DEF HeldStatusWasReported
    <2>5. OutcomeNamesCall
      BY <2>1 DEF OutcomeNamesCall, SentInv
    <2> QED
      BY <2>3, <2>4, <2>5 DEF OnlyWhatHappened
  <1> QED
    BY <1>1, Invariance, PTL

\* An interview that get-by-token refuses as finished stays refused, and a webhook never
\* opens the terminal lock: only an answer that waited in a handler does.
THEOREM TerminalLockCorrect == SyncSpec => TerminalLock
  <1>1. IInv /\ [SyncNext]_syncVars
           => [\A i \in Interviews :
                  Known(i) /\ Finished(byJobAiId[i]) /\ i \notin relinked'
                     /\ (restarts' # restarts => saved[i] = byJobAiId[i] /\ FoundAgain(i))
                     => Known(i)' /\ Finished(byJobAiId'[i])]_syncVars
    BY Steps DEF StaysFinished
  <1>2. IInv /\ [SyncNext]_syncVars
           => [\A i \in Interviews :
                  Known(i) /\ byJobAiId[i].status \in TERMINAL_LOCK_STATUSES
                     /\ restarts' = restarts /\ byJobAiId'[i].status # byJobAiId[i].status
                     => \E r \in Requests :
                           /\ request[r] # None /\ request[r].interview = i
                           /\ request[r].answer = byJobAiId'[i].status
                           /\ request'[r] # request[r]]_syncVars
    BY Steps DEF OpenedByAnswer
  <1> QED
    BY <1>1, <1>2, Invariance, PTL
    DEF SyncSpec, TerminalLock, FinishedStaysFinished, UnlockedOnlyByAnswer

\* The invites of an interview go on resolving over every write, and over a restart if
\* Redis had them.
THEOREM InviteLinksCorrect == SyncSpec => InviteLinksLive
  <1>1. IInv /\ [SyncNext]_syncVars
           => [\A i \in Interviews :
                  byInviteToken[i] # {}
                     /\ (restarts' # restarts => /\ saved[i] # None
                                                 /\ saved[i].invites \in byInviteToken[i]
                                                 /\ FoundAgain(i))
                     => byInviteToken'[i] = byInviteToken[i]]_syncVars
    BY Steps DEF LinksStay
  <1> QED
    BY <1>1, Invariance, PTL DEF SyncSpec, InviteLinksLive
=============================================================================
