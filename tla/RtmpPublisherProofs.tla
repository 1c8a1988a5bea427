-------------------------- MODULE RtmpPublisherProofs --------------------------
(***************************************************************************)
(* Proofs about RtmpPublisher for any number of starts: the types, who     *)
(* owns the processes, what the snapshot says, who hears of exits.         *)
(*                                                                         *)
(* RunningIsOwned is not inductive.  That a start which takes the session  *)
(* from another leaves an overlapped process behind follows from two       *)
(* facts: starts in progress together are all overlapped, and a session    *)
(* that is there while a start awaits was made during that await.          *)
(***************************************************************************)
EXTENDS RtmpPublisher, TLAPS

\* How the process of a start follows the start.
ProcessFollowsStart ==
    \A p \in Starts :
        /\ call[p] \in {"new", "stopping"} => proc[p] = "none"
        /\ call[p] = "startup" => proc[p] = "running"
        /\ call[p] = "done" => proc[p] # "none"
        /\ proc[p] \in {"terminating", "killed"} => p \in asked
        /\ p \in asked \cup notified => call[p] = "done"

\* Starts in progress at the same time know of each other.
PendingOverlap ==
    \A p, q \in Pending : p # q => p \in overlapped

\* The session that a start will replace without stopping it was made meanwhile.
SessionOverlap ==
    \A p \in Starts :
        call[p] \in {"stopping", "startup"} /\ session # NoSession => session \in overlapped

\* "starting" is not left behind by a start.
SnapshotAtRest ==
    session = NoSession /\ (\A p \in Starts : call[p] # "startup")
        => snapshot.status \notin {"starting", "spawned"}

\* Without a session nothing is active.
ActiveIsSession == snapshot.active => session # NoSession

\* The inductive invariant.
PublisherInv ==
    /\ PublisherTypeOK
    /\ ProcessFollowsStart
    /\ PendingOverlap
    /\ SessionOverlap
    /\ RunningIsOwned
    /\ SnapshotAtRest
    /\ ActiveIsSession
    /\ ExitsNotified

-----------------------------------------------------------------------------
\* No publisher has started at first.
LEMMA PublisherInitHolds == PublisherInit => PublisherInv
  BY StartsAssumption DEF PublisherInit, PublisherInv, Inactive, Pending, PublisherTypeOK,
     ProcessFollowsStart, PendingOverlap, SessionOverlap,
     RunningIsOwned, SnapshotAtRest, ActiveIsSession, ExitsNotified

\* stop, called from outside.
LEMMA StopPreserves ==
  ASSUME PublisherInv, Stop
  PROVE  PublisherInv'
  <1>1. PublisherTypeOK'
    <2>1. CASE session = NoSession
      BY <2>1 DEF PublisherInv, PublisherTypeOK, Stop, stop
    <2>2. CASE session # NoSession
      <3>1. session' = NoSession /\ snapshot' = [status |-> "stopped", active |-> FALSE]
        BY <2>2 DEF Stop, stop, Inactive
      <3>2. proc' \in [Starts -> {"none", "running", "terminating", "killed", "exited"}]
        BY <2>2 DEF PublisherInv, PublisherTypeOK, Stop, stop
      <3>3. asked' \subseteq Starts /\ UNCHANGED <<call, awaits, notified, overlapped>>
        BY <2>2 DEF PublisherInv, PublisherTypeOK, Stop, stop
      <3> QED
        BY <3>1, <3>2, <3>3 DEF PublisherInv, PublisherTypeOK
    <2> QED
      BY <2>1, <2>2
  <1>2. ProcessFollowsStart'
    BY DEF PublisherInv, PublisherTypeOK, ProcessFollowsStart, Stop, stop
  <1>3. PendingOverlap'
    BY DEF PublisherInv, PublisherTypeOK, PendingOverlap, Pending, Stop, stop
  <1>4. SessionOverlap'
    BY DEF PublisherInv, PublisherTypeOK, SessionOverlap, Stop, stop
  <1>5. RunningIsOwned'
    BY DEF PublisherInv, PublisherTypeOK, RunningIsOwned, Stop, stop
  <1>6. SnapshotAtRest'
    BY DEF PublisherInv, PublisherTypeOK, SnapshotAtRest, Stop, stop, Inactive
  <1>7. ActiveIsSession'
    BY DEF PublisherInv, PublisherTypeOK, ActiveIsSession, Stop, stop, Inactive
  <1>8. ExitsNotified'
    BY DEF PublisherInv, PublisherTypeOK, ExitsNotified, Stop, stop
  <1> QED
    BY <1>1, <1>2, <1>3, <1>4, <1>5, <1>6, <1>7, <1>8 DEF PublisherInv

\* A start goes on at once, or stops the session before it.
LEMMA StartPreserves ==
  ASSUME PublisherInv, NEW p \in Starts, Start(p)
  PROVE  PublisherInv'
  <1>1. PublisherTypeOK'
    <2>1. CASE session = NoSession
      <3>1. session' = NoSession /\ snapshot' = [status |-> "starting", active |-> FALSE]
        BY <2>1 DEF Start, SpawnNow, Inactive
      <3>2. /\ call' \in [Starts -> {"new", "stopping", "startup", "failing", "done", "failed"}]
            /\ proc' \in [Starts -> {"none", "running", "terminating", "killed", "exited"}]
            /\ awaits' \in [Starts -> Starts \cup {NoSession}]
        BY <2>1 DEF PublisherInv, PublisherTypeOK, Start, SpawnNow
      <3>3. overlapped' \subseteq Starts /\ UNCHANGED <<asked, notified>>
        BY <2>1 DEF PublisherInv, PublisherTypeOK, Start, SpawnNow, Overlap, Pending
      <3> QED
        BY <3>1, <3>2, <3>3 DEF PublisherInv, PublisherTypeOK
    <2>2. CASE session # NoSession
      <3>1. session' = NoSession /\ snapshot' = [status |-> "stopped", active |-> FALSE]
        BY <2>2 DEF Start, stop, Inactive
      <3>2. /\ call' \in [Starts -> {"new", "stopping", "startup", "failing", "done", "failed"}]
            /\ proc' \in [Starts -> {"none", "running", "terminating", "killed", "exited"}]
            /\ awaits' \in [Starts -> Starts \cup {NoSession}]
        BY <2>2 DEF PublisherInv, PublisherTypeOK, Start, stop
      <3>3. overlapped' \subseteq Starts /\ asked' \subseteq Starts /\ UNCHANGED notified
        BY <2>2 DEF PublisherInv, PublisherTypeOK, Start, stop, Overlap, Pending
      <3> QED
        BY <3>1, <3>2, <3>3 DEF PublisherInv, PublisherTypeOK
    <2> QED
      BY <2>1, <2>2
  <1>2. ProcessFollowsStart'
    BY DEF PublisherInv, PublisherTypeOK, ProcessFollowsStart, Start, SpawnNow, stop
  <1>3. PendingOverlap'
    BY DEF PublisherInv, PublisherTypeOK, PendingOverlap, Pending, Start, SpawnNow, stop, Overlap
  <1>4. SessionOverlap'
    BY DEF PublisherInv, PublisherTypeOK, SessionOverlap, Pending, Start, SpawnNow,
       stop, Overlap
  <1>5. RunningIsOwned'
    BY DEF PublisherInv, PublisherTypeOK, RunningIsOwned, Pending, Start, SpawnNow,
       stop, Overlap
  <1>6. SnapshotAtRest'
    BY DEF PublisherInv, PublisherTypeOK, SnapshotAtRest, Start, SpawnNow, stop, Inactive
  <1>7. ActiveIsSession'
    BY DEF PublisherInv, PublisherTypeOK, ActiveIsSession, Start, SpawnNow, stop, Inactive
  <1>8. ExitsNotified'
    BY DEF PublisherInv, PublisherTypeOK, ExitsNotified, Pending, Start, SpawnNow,
       stop, Overlap
  <1> QED
    BY <1>1, <1>2, <1>3, <1>4, <1>5, <1>6, <1>7, <1>8 DEF PublisherInv

\* The start goes on once the process before it is gone.
LEMMA SpawnPreserves ==
  ASSUME PublisherInv, NEW p \in Starts, Spawn(p)
  PROVE  PublisherInv'
  <1>1. PublisherTypeOK'
    BY DEF PublisherInv, PublisherTypeOK, Spawn, SpawnNow, Inactive
  <1>2. ProcessFollowsStart'
    BY DEF PublisherInv, PublisherTypeOK, ProcessFollowsStart, Spawn, SpawnNow
  <1>3. PendingOverlap'
    BY DEF PublisherInv, PublisherTypeOK, PendingOverlap, Pending, Spawn, SpawnNow
  <1>4. SessionOverlap'
    BY DEF PublisherInv, PublisherTypeOK, SessionOverlap, Spawn, SpawnNow
  <1>5. RunningIsOwned'
    BY DEF PublisherInv, PublisherTypeOK, RunningIsOwned, Spawn, SpawnNow
  <1>6. SnapshotAtRest'
    BY DEF PublisherInv, PublisherTypeOK, SnapshotAtRest, Spawn, SpawnNow, Inactive
  <1>7. ActiveIsSession'
    BY DEF PublisherInv, PublisherTypeOK, ActiveIsSession, Spawn, SpawnNow, Inactive
  <1>8. ExitsNotified'
    BY DEF PublisherInv, PublisherTypeOK, ExitsNotified, Spawn, SpawnNow
  <1> QED
    BY <1>1, <1>2, <1>3, <1>4, <1>5, <1>6, <1>7, <1>8 DEF PublisherInv

\* The start takes the session, whatever it is: it knows that session.
LEMMA StartedPreserves ==
  ASSUME PublisherInv, NEW p \in Starts, Started(p)
  PROVE  PublisherInv'
  <1>1. PublisherTypeOK'
    BY DEF PublisherInv, PublisherTypeOK, ProcessFollowsStart, Started
  <1>2. ProcessFollowsStart'
    BY DEF PublisherInv, PublisherTypeOK, ProcessFollowsStart, Started
  <1>3. PendingOverlap'
    BY DEF PublisherInv, PublisherTypeOK, PendingOverlap, Pending, Started
  <1>4. SessionOverlap'
    BY DEF PublisherInv, PublisherTypeOK, SessionOverlap, PendingOverlap, Pending, Started
  <1>5. RunningIsOwned'
    BY StartsAssumption DEF PublisherInv, PublisherTypeOK, RunningIsOwned, SessionOverlap, Started
  <1>6. SnapshotAtRest'
    BY StartsAssumption DEF PublisherInv, PublisherTypeOK, SnapshotAtRest, Started
  <1>7. ActiveIsSession'
    BY StartsAssumption DEF PublisherInv, PublisherTypeOK, ActiveIsSession, Started
  <1>8. ExitsNotified'
    BY DEF PublisherInv, PublisherTypeOK, ExitsNotified, ProcessFollowsStart, Started
  <1> QED
    BY <1>1, <1>2, <1>3, <1>4, <1>5, <1>6, <1>7, <1>8 DEF PublisherInv

\* A process that fails in its first 300 ms takes the session down.
LEMMA StartupExitPreserves ==
  ASSUME PublisherInv, NEW p \in Starts, StartupExit(p)
  PROVE  PublisherInv'
  <1>1. PublisherTypeOK'
    <2>1. call' \in [Starts -> {"new", "stopping", "startup", "failing", "done", "failed"}]
          /\ awaits' \in [Starts -> Starts \cup {NoSession}]
      BY DEF PublisherInv, PublisherTypeOK, StartupExit
    <2>2. CASE session = NoSession
      <3>1. session' = NoSession /\ snapshot' = [status |-> "failed", active |-> FALSE]
        BY <2>2 DEF StartupExit, Inactive
      <3>2. proc' \in [Starts -> {"none", "running", "terminating", "killed", "exited"}]
        BY <2>2 DEF PublisherInv, PublisherTypeOK, StartupExit, Exited
      <3>3. UNCHANGED <<asked, notified, overlapped>>
        BY <2>2 DEF StartupExit
      <3> QED
        BY <2>1, <3>1, <3>2, <3>3 DEF PublisherInv, PublisherTypeOK
    <2>3. CASE session # NoSession
      <3>1. session' = NoSession /\ snapshot' = [status |-> "stopped", active |-> FALSE]
        BY <2>3 DEF StartupExit, stop, Inactive
      <3>2. proc' \in [Starts -> {"none", "running", "terminating", "killed", "exited"}]
        BY <2>3 DEF PublisherInv, PublisherTypeOK, StartupExit, stop, Exited
      <3>3. asked' \subseteq Starts /\ UNCHANGED <<notified, overlapped>>
        BY <2>3 DEF PublisherInv, PublisherTypeOK, StartupExit, stop
      <3> QED
        BY <2>1, <3>1, <3>2, <3>3 DEF PublisherInv, PublisherTypeOK
    <2> QED
      BY <2>2, <2>3
  <1>2. ProcessFollowsStart'
    BY DEF PublisherInv, PublisherTypeOK, ProcessFollowsStart, StartupExit, stop, Exited
  <1>3. PendingOverlap'
    BY DEF PublisherInv, PublisherTypeOK, PendingOverlap, Pending, StartupExit, stop, Exited
  <1>4. SessionOverlap'
    BY DEF PublisherInv, PublisherTypeOK, SessionOverlap, StartupExit, stop, Exited
  <1>5. RunningIsOwned'
    BY DEF PublisherInv, PublisherTypeOK, RunningIsOwned, StartupExit, stop, Exited
  <1>6. SnapshotAtRest'
    BY DEF PublisherInv, PublisherTypeOK, SnapshotAtRest, StartupExit, stop,
       Exited, Inactive
  <1>7. ActiveIsSession'
    BY DEF PublisherInv, PublisherTypeOK, ActiveIsSession, StartupExit, stop,
       Exited, Inactive
  <1>8. ExitsNotified'
    BY DEF PublisherInv, PublisherTypeOK, ExitsNotified, StartupExit, stop, Exited
  <1> QED
    BY <1>1, <1>2, <1>3, <1>4, <1>5, <1>6, <1>7, <1>8 DEF PublisherInv

\* The start fails once the session it stopped is gone.
LEMMA RejectedPreserves ==
  ASSUME PublisherInv, NEW p \in Starts, Rejected(p)
  PROVE  PublisherInv'
  <1>1. PublisherTypeOK'
    BY DEF PublisherInv, PublisherTypeOK, Rejected
  <1>2. ProcessFollowsStart'
    BY DEF PublisherInv, PublisherTypeOK, ProcessFollowsStart, Rejected
  <1>3. PendingOverlap'
    BY DEF PublisherInv, PublisherTypeOK, PendingOverlap, Pending, Rejected
  <1>4. SessionOverlap'
    BY DEF PublisherInv, PublisherTypeOK, SessionOverlap, Rejected
  <1>5. RunningIsOwned'
    BY DEF PublisherInv, PublisherTypeOK, RunningIsOwned, Rejected
  <1>6. SnapshotAtRest'
    BY DEF PublisherInv, PublisherTypeOK, SnapshotAtRest, Rejected
  <1>7. ActiveIsSession'
    BY DEF PublisherInv, PublisherTypeOK, ActiveIsSession, Rejected
  <1>8. ExitsNotified'
    BY DEF PublisherInv, PublisherTypeOK, ExitsNotified, Rejected
  <1> QED
    BY <1>1, <1>2, <1>3, <1>4, <1>5, <1>6, <1>7, <1>8 DEF PublisherInv

\* A process exits: the listeners hear of the session's.
LEMMA RuntimeExitPreserves ==
  ASSUME PublisherInv, NEW p \in Starts, RuntimeExit(p)
  PROVE  PublisherInv'
  <1>1. PublisherTypeOK'
    <2>1. proc' \in [Starts -> {"none", "running", "terminating", "killed", "exited"}]
      BY DEF PublisherInv, PublisherTypeOK, RuntimeExit, Exited
    <2>2. CASE session = p
      <3>1. session' = NoSession /\ snapshot' = [status |-> "exited", active |-> FALSE]
        BY <2>2 DEF RuntimeExit, Inactive
      <3>2. notified' \subseteq Starts /\ UNCHANGED <<call, awaits, asked, overlapped>>
        BY <2>2 DEF PublisherInv, PublisherTypeOK, RuntimeExit
      <3> QED
        BY <2>1, <3>1, <3>2 DEF PublisherInv, PublisherTypeOK
    <2>3. CASE session # p
      BY <2>3, StartsAssumption DEF PublisherInv, PublisherTypeOK, RuntimeExit, Exited
    <2> QED
      BY <2>2, <2>3
  <1>2. ProcessFollowsStart'
    BY DEF PublisherInv, PublisherTypeOK, ProcessFollowsStart, RuntimeExit, Exited
  <1>3. PendingOverlap'
    BY DEF PublisherInv, PublisherTypeOK, PendingOverlap, Pending, RuntimeExit, Exited
  <1>4. SessionOverlap'
    BY DEF PublisherInv, PublisherTypeOK, SessionOverlap, RuntimeExit, Exited
  <1>5. RunningIsOwned'
    BY DEF PublisherInv, PublisherTypeOK, RunningIsOwned, RuntimeExit, Exited
  <1>6. SnapshotAtRest'
    BY DEF PublisherInv, PublisherTypeOK, SnapshotAtRest, RuntimeExit, Exited, Inactive
  <1>7. ActiveIsSession'
    BY DEF PublisherInv, PublisherTypeOK, ActiveIsSession, RuntimeExit, Exited, Inactive
  <1>8. ExitsNotified'
    BY StartsAssumption DEF PublisherInv, PublisherTypeOK, ExitsNotified, ProcessFollowsStart,
       RunningIsOwned, RuntimeExit, Exited
  <1> QED
    BY <1>1, <1>2, <1>3, <1>4, <1>5, <1>6, <1>7, <1>8 DEF PublisherInv

\* The timer of stop changes nobody's owner.
LEMMA ForceKillPreserves ==
  ASSUME PublisherInv, NEW p \in Starts, ForceKill(p)
  PROVE  PublisherInv'
  <1>1. PublisherTypeOK'
    BY DEF PublisherInv, PublisherTypeOK, ForceKill
  <1>2. ProcessFollowsStart'
    BY DEF PublisherInv, PublisherTypeOK, ProcessFollowsStart, ForceKill
  <1>3. PendingOverlap'
    BY DEF PublisherInv, PublisherTypeOK, PendingOverlap, Pending, ForceKill
  <1>4. SessionOverlap'
    BY DEF PublisherInv, PublisherTypeOK, SessionOverlap, ForceKill
  <1>5. RunningIsOwned'
    BY DEF PublisherInv, PublisherTypeOK, RunningIsOwned, ForceKill
  <1>6. SnapshotAtRest'
    BY DEF PublisherInv, PublisherTypeOK, SnapshotAtRest, ForceKill
  <1>7. ActiveIsSession'
    BY DEF PublisherInv, PublisherTypeOK, ActiveIsSession, ForceKill
  <1>8. ExitsNotified'
    BY DEF PublisherInv, PublisherTypeOK, ExitsNotified, ForceKill
  <1> QED
    BY <1>1, <1>2, <1>3, <1>4, <1>5, <1>6, <1>7, <1>8 DEF PublisherInv

\* stderr changes no more than what the snapshot says already.
LEMMA StderrPreserves ==
  ASSUME PublisherInv, NEW p \in Starts, Stderr(p)
  PROVE  PublisherInv'
  <1>1. PublisherTypeOK'
    BY DEF PublisherInv, PublisherTypeOK, Stderr, getSnapshot
  <1>2. ProcessFollowsStart'
    BY DEF PublisherInv, PublisherTypeOK, ProcessFollowsStart, Stderr
  <1>3. PendingOverlap'
    BY DEF PublisherInv, PublisherTypeOK, PendingOverlap, Pending, Stderr
  <1>4. SessionOverlap'
    BY DEF PublisherInv, PublisherTypeOK, SessionOverlap, Stderr
  <1>5. RunningIsOwned'
    BY DEF PublisherInv, PublisherTypeOK, RunningIsOwned, Stderr
  <1>6. SnapshotAtRest'
    BY DEF PublisherInv, PublisherTypeOK, SnapshotAtRest, ActiveIsSession, Stderr,
       getSnapshot
  <1>7. ActiveIsSession'
    BY DEF PublisherInv, PublisherTypeOK, ActiveIsSession, Stderr, getSnapshot
  <1>8. ExitsNotified'
    BY DEF PublisherInv, PublisherTypeOK, ExitsNotified, Stderr
  <1> QED
    BY <1>1, <1>2, <1>3, <1>4, <1>5, <1>6, <1>7, <1>8 DEF PublisherInv

-----------------------------------------------------------------------------
\* Every step preserves the inductive invariant.
LEMMA PublisherStepPreserves == PublisherInv /\ [PublisherNext]_publisherVars => PublisherInv'
  <1> SUFFICES ASSUME PublisherInv, [PublisherNext]_publisherVars
               PROVE  PublisherInv'
    OBVIOUS
  <1>1. CASE Stop
    BY <1>1, StopPreserves
  <1>2. CASE \E p \in Starts : Start(p)
    BY <1>2, StartPreserves
  <1>3. CASE \E p \in Starts : StartStep(p)
    BY <1>3, SpawnPreserves, StartedPreserves, StartupExitPreserves, RejectedPreserves DEF
       StartStep
  <1>4. CASE \E p \in Starts : RuntimeExit(p)
    BY <1>4, RuntimeExitPreserves
  <1>5. CASE \E p \in Starts : ForceKill(p)
    BY <1>5, ForceKillPreserves
  <1>6. CASE \E p \in Starts : Stderr(p)
    BY <1>6, StderrPreserves
  <1>7. CASE UNCHANGED publisherVars
    BY <1>7 DEF publisherVars, PublisherInv, PublisherTypeOK, ProcessFollowsStart,
                PendingOverlap, Pending, SessionOverlap, RunningIsOwned, SnapshotAtRest,
                ActiveIsSession, ExitsNotified
  <1> QED
    BY <1>1, <1>2, <1>3, <1>4, <1>5, <1>6, <1>7 DEF PublisherNext

\* The inductive invariant holds for ever.
THEOREM PublisherInvariance == PublisherSpec => []PublisherInv
  BY PublisherInitHolds, PublisherStepPreserves, PTL DEF PublisherSpec

\* Every variable has its type; the session is a running process that nobody has
\* asked to stop.
THEOREM PublisherTypeCorrect == PublisherSpec => []PublisherTypeOK
  <1>1. PublisherInv => PublisherTypeOK
    BY DEF PublisherInv
  <1> QED
    BY <1>1, PublisherInvariance, PTL

\* However many starts and stops there are, a started process runs on without
\* being the session only if its start overlapped another.
THEOREM OwnerCorrect == PublisherSpec => []RunningIsOwned
  <1>1. PublisherInv => RunningIsOwned
    BY DEF PublisherInv
  <1> QED
    BY <1>1, PublisherInvariance, PTL

\* What the handlers decide by is true: active means that there is a session, and
\* nothing says "starting" or "spawned" once no start runs and none is there.
THEOREM SnapshotCorrect == PublisherSpec => []SnapshotTellsTheSession
  <1>1. PublisherInv => SnapshotTellsTheSession
    <2> SUFFICES ASSUME PublisherInv
                 PROVE  SnapshotTellsTheSession
      OBVIOUS
    <2>1. getSnapshot.active <=> session # NoSession
      BY DEF PublisherInv, ActiveIsSession, PublisherTypeOK, getSnapshot
    <2>2. session = NoSession /\ Pending = {} => snapshot.status \notin {"starting", "spawned"}
      BY DEF PublisherInv, SnapshotAtRest, Pending
    <2> QED
      BY <2>1, <2>2 DEF PublisherInv, ActiveIsSession, SnapshotTellsTheSession
  <1> QED
    BY <1>1, PublisherInvariance, PTL

\* The listeners hear of every exit nobody asked for, and of no other.
THEOREM NotificationCorrect == PublisherSpec => []ExitsNotified
  <1>1. PublisherInv => ExitsNotified
    BY DEF PublisherInv
  <1> QED
    BY <1>1, PublisherInvariance, PTL
================================================================================
